--------------------------- MODULE OsalHeap_proofs ---------------------------
(***************************************************************************)
(* The heap is safe for every size of heap, header and bucket and for any  *)
(* sizes that are asked for: its blocks always tile it, nothing free lies  *)
(* below ff1, a refused request could not have been granted, and what the  *)
(* callers hold is what HeapService promises.                              *)
(***************************************************************************)
EXTENDS OsalHeap, WellFoundedInduction, TLAPS

\* A nonempty set of natural numbers has a least element.
LEMMA LeastElement ==
  ASSUME NEW S \in SUBSET Nat, S # {}
  PROVE  \E i \in S : \A j \in S : i <= j
<1>1. PICK i \in S : \A j \in S : ~ (<<j, i>> \in OpToRel(<, Nat))
  BY NatLessThanWellFounded, WFMin
<1>2. \A j \in S : ~ (j < i)
  BY <1>1, Zenon DEF OpToRel
<1>. QED
  BY <1>2

LEMMA MinOfNat ==
  ASSUME NEW S \in SUBSET Nat, S # {}
  PROVE  Min(S) \in S /\ \A x \in S : Min(S) <= x
BY LeastElement DEF Min

\* The blocks l tile the heap, and only the header of the bucket's end is a
\* block of nothing.
Tiling(l) ==
  /\ DOMAIN l \subseteq Nat
  /\ {0, OSALMEM_SMALLBLK_BUCKET, OSALMEM_BIGBLK_IDX} \subseteq DOMAIN l
  /\ \A h \in DOMAIN l :
       /\ h < OSALMEM_LASTBLK_IDX /\ l[h] \in Nat
       /\ h # OSALMEM_SMALLBLK_BUCKET => l[h] > OSALMEM_HDRSZ
       /\ h + l[h] \in DOMAIN l \cup {OSALMEM_LASTBLK_IDX}
       /\ \A b \in DOMAIN l : ~ (h < b /\ b < h + l[h])
  /\ l[OSALMEM_SMALLBLK_BUCKET] = OSALMEM_HDRSZ

HeapInv ==
  /\ Tiling(len)
  /\ inUse \subseteq Headers /\ OSALMEM_SMALLBLK_BUCKET \in inUse
  /\ ff1 \in Ends
  /\ osalMemStat \in {0, 1}
  /\ answer \in [asked : Nat, got : Nat \cup {NULL}]
  /\ FirstFree

\* The constants, with the definitions of the places expanded once.
LEMMA Places ==
  /\ OSALMEM_HDRSZ \in Nat \ {0}
  /\ OSALMEM_MIN_BLKSZ \in Nat /\ OSALMEM_MIN_BLKSZ > OSALMEM_HDRSZ
  /\ OSALMEM_SMALLBLK_BUCKET \in Nat /\ OSALMEM_SMALLBLK_BUCKET > OSALMEM_HDRSZ
  /\ OSALMEM_BIGBLK_IDX \in Nat /\ OSALMEM_LASTBLK_IDX \in Nat
  /\ OSALMEM_BIGBLK_IDX = OSALMEM_SMALLBLK_BUCKET + OSALMEM_HDRSZ
  /\ OSALMEM_LASTBLK_IDX > OSALMEM_BIGBLK_IDX + OSALMEM_HDRSZ
  /\ OSALMEM_LASTBLK_IDX <= MAXMEMHEAP
BY HeapAssumption DEF OSALMEM_BIGBLK_IDX, OSALMEM_LASTBLK_IDX

LEMMA HeapInvInit == osal_mem_init => HeapInv
<1> SUFFICES ASSUME osal_mem_init PROVE HeapInv
  OBVIOUS
<1> USE Places
<1>1. /\ DOMAIN len = {0, OSALMEM_SMALLBLK_BUCKET, OSALMEM_BIGBLK_IDX}
      /\ len[0] = OSALMEM_SMALLBLK_BUCKET
      /\ len[OSALMEM_SMALLBLK_BUCKET] = OSALMEM_HDRSZ
      /\ len[OSALMEM_BIGBLK_IDX] = OSALMEM_LASTBLK_IDX - OSALMEM_BIGBLK_IDX
  BY DEF osal_mem_init
<1>2. Tiling(len)
  BY <1>1 DEF Tiling
<1>3. /\ inUse = {OSALMEM_SMALLBLK_BUCKET} /\ ff1 = 0 /\ osalMemStat = 0
      /\ answer = [asked |-> 0, got |-> NULL]
  BY DEF osal_mem_init
<1> QED
  BY <1>1, <1>2, <1>3 DEF HeapInv, FirstFree, Ends, Headers

-----------------------------------------------------------------------------
(* The search.                                                             *)

\* Two blocks of a tiling do not overlap.
LEMMA BlocksApart ==
  ASSUME NEW l, Tiling(l), NEW h \in DOMAIN l, NEW b \in DOMAIN l \cup {OSALMEM_LASTBLK_IDX},
         h < b
  PROVE  h + l[h] <= b
BY Places DEF Tiling

\* A block that is not the first follows another.
LEMMA Predecessor ==
  ASSUME HeapInv, NEW h \in Headers, h # 0
  PROVE  \E b \in Headers : b < h /\ b + len[b] = h
<1> USE Places
<1>1. Tiling(len) /\ Headers = DOMAIN len /\ Headers \subseteq Nat /\ 0 \in Headers
  BY DEF HeapInv, Headers, Tiling
<1> DEFINE Below == {h - x : x \in {y \in Headers : y < h}}
<1>2. Below \in SUBSET Nat /\ h - 0 \in Below
  BY <1>1
<1>3. PICK d \in Below : \A j \in Below : d <= j
  BY <1>2, LeastElement
<1>4. PICK b \in Headers : b < h /\ d = h - b
  BY <1>3
<1>5. \A c \in Headers : c < h => c <= b
  <2> SUFFICES ASSUME NEW c \in Headers, c < h PROVE c <= b
    OBVIOUS
  <2>1. d <= h - c
    BY <1>3
  <2> QED
    BY <1>1, <1>4, <2>1
<1>6. /\ b + len[b] <= h /\ len[b] \in Nat /\ len[b] > 0 /\ h < OSALMEM_LASTBLK_IDX
      /\ b + len[b] \in Headers \cup {OSALMEM_LASTBLK_IDX}
  <2>1. len[b] > 0
    BY <1>1 DEF Tiling
  <2> QED
    BY <1>1, <1>4, <2>1, BlocksApart DEF Tiling
<1> QED
  BY <1>1, <1>4, <1>5, <1>6

\* A search that starts at or before ff1 does not merge the block there with one
\* before it.
LEMMA FirstStarts ==
  ASSUME HeapInv, ff1 \in Headers \ inUse, NEW start \in Nat, start <= ff1
  PROVE  RunStart(ff1, start)
<1>1. CASE ff1 = 0
  BY <1>1 DEF RunStart, FreeAt
<1>2. CASE ff1 # 0
  <2>1. PICK b \in Headers : b < ff1 /\ b + len[b] = ff1
    BY <1>2, Predecessor
  <2>2. b \in inUse
    BY <2>1 DEF HeapInv, FirstFree
  <2> QED
    BY <2>1, <2>2 DEF RunStart, FreeAt
<1> QED
  BY <1>1, <1>2

\* A search that merges free blocks leaves a tiling and every block in use.
LEMMA MergedTiles ==
  ASSUME HeapInv, NEW start \in Ends, NEW limit \in Nat
  PROVE  /\ Tiling(Merged(start, limit))
         /\ DOMAIN Merged(start, limit) = Survivors(start, limit)
         /\ Survivors(start, limit) \subseteq Headers
         /\ inUse \subseteq Survivors(start, limit)
         /\ \A h \in inUse : Merged(start, limit)[h] = len[h]
<1> DEFINE S == Survivors(start, limit)
           m == Merged(start, limit)
           E == S \cup {OSALMEM_LASTBLK_IDX}
<1> USE Places
<1>1. /\ Tiling(len) /\ inUse \subseteq Headers /\ Headers = DOMAIN len
      /\ OSALMEM_SMALLBLK_BUCKET \in inUse
  BY DEF HeapInv, Headers
<1>2. S \subseteq Headers /\ inUse \subseteq S /\ E \subseteq Nat
  BY <1>1 DEF Survivors, Tiling
<1>3. ASSUME NEW h \in S
      PROVE  /\ NextOf(S, h) \in E /\ h < NextOf(S, h)
             /\ \A e \in E : h < e => NextOf(S, h) <= e
  <2>1. {e \in E : e > h} \in SUBSET Nat /\ OSALMEM_LASTBLK_IDX \in {e \in E : e > h}
    BY <1>1, <1>2 DEF Tiling
  <2>2. NextOf(S, h) = Min({e \in E : e > h})
    BY DEF NextOf
  <2>3. NextOf(S, h) \in {e \in E : e > h} /\ \A e \in {x \in E : x > h} : NextOf(S, h) <= e
    BY <2>1, <2>2, MinOfNat
  <2> QED
    BY <2>3, <1>2
<1>4. DOMAIN m = S /\ \A h \in S : m[h] = IF h \in inUse THEN len[h] ELSE NextOf(S, h) - h
  BY DEF Merged
<1>5. start \in Nat
  BY <1>1 DEF Ends, Tiling
<1>6. {0, OSALMEM_SMALLBLK_BUCKET, OSALMEM_BIGBLK_IDX} \subseteq S
  <2>1. {0, OSALMEM_BIGBLK_IDX} \subseteq Headers
    BY <1>1 DEF Tiling
  <2>2. 0 \in S
    BY <1>5, <2>1 DEF Survivors, RunStart, FreeAt
  <2>3. OSALMEM_SMALLBLK_BUCKET + len[OSALMEM_SMALLBLK_BUCKET] = OSALMEM_BIGBLK_IDX
    BY <1>1 DEF Tiling
  <2>4. OSALMEM_BIGBLK_IDX \in S
    BY <1>1, <1>5, <2>1, <2>3 DEF Survivors, RunStart, FreeAt
  <2> QED
    BY <1>1, <1>2, <2>2, <2>4
<1>7. ASSUME NEW h \in S, h \in inUse
      PROVE  /\ m[h] = len[h]
             /\ h + m[h] \in E
             /\ \A b \in S : ~ (h < b /\ b < h + m[h])
  <2>1. m[h] = len[h]
    BY <1>4, <1>7
  <2>2. h + len[h] \in Headers \cup {OSALMEM_LASTBLK_IDX} /\ len[h] \in Nat /\ h \in Nat
    BY <1>1, <1>7 DEF Tiling
  <2>3. h + len[h] \in E
    <3>1. SUFFICES ASSUME h + len[h] \in Headers, h + len[h] \notin inUse, start <= h + len[h]
                   PROVE  h + len[h] \in S
      BY <1>2, <1>5, <2>2 DEF Survivors
    <3>2. RunStart(h + len[h], start)
      BY <1>7, <3>1 DEF RunStart, FreeAt
    <3> QED
      BY <3>1, <3>2 DEF Survivors
  <2>4. \A b \in S : ~ (h < b /\ b < h + len[h])
    BY <1>1, <1>2 DEF Tiling
  <2> QED
    BY <2>1, <2>3, <2>4
<1>8. ASSUME NEW h \in S, h \notin inUse
      PROVE  /\ h + m[h] = NextOf(S, h)
             /\ m[h] \in Nat /\ m[h] > OSALMEM_HDRSZ
             /\ h + m[h] \in E
             /\ \A b \in S : ~ (h < b /\ b < h + m[h])
  <2>1. m[h] = NextOf(S, h) - h /\ NextOf(S, h) \in Nat /\ h \in Nat
    BY <1>2, <1>3, <1>4, <1>8
  <2>2. len[h] > OSALMEM_HDRSZ /\ len[h] \in Nat
    BY <1>1, <1>2, <1>8 DEF Tiling
  <2>3. h + len[h] <= NextOf(S, h)
    BY <1>1, <1>2, <1>3, BlocksApart
  <2>4. \A b \in S : ~ (h < b /\ b < NextOf(S, h))
    BY <1>2, <1>3, <2>1
  <2> QED
    BY <1>3, <2>1, <2>2, <2>3, <2>4
<1>9. Tiling(m)
  <2>1. \A h \in S : h < OSALMEM_LASTBLK_IDX /\ (h \in inUse => len[h] \in Nat)
    BY <1>1, <1>2 DEF Tiling
  <2>2. \A h \in inUse : h # OSALMEM_SMALLBLK_BUCKET => len[h] > OSALMEM_HDRSZ
    BY <1>1 DEF Tiling
  <2>3. len[OSALMEM_SMALLBLK_BUCKET] = OSALMEM_HDRSZ
    BY <1>1 DEF Tiling
  <2> HIDE DEF S, m
  <2> QED
    BY <1>1, <1>2, <1>4, <1>6, <1>7, <1>8, <2>1, <2>2, <2>3 DEF Tiling
<1> QED
  BY <1>2, <1>4, <1>7, <1>9

\* What may be taken fits: the block at hdr has grown to size bytes when the
\* search takes it.
LEMMA FittingGrows ==
  ASSUME HeapInv, NEW start \in Ends, NEW size \in Nat, size > OSALMEM_HDRSZ,
         Fitting(start, size) # {}
  PROVE  LET hdr == Min(Fitting(start, size))
             m == Merged(start, Reach(hdr, size))
         IN  /\ hdr \in Headers \ inUse /\ start <= hdr
             /\ \A h \in Fitting(start, size) : hdr <= h
             /\ Reach(hdr, size) \in Nat /\ hdr < Reach(hdr, size)
             /\ hdr \in DOMAIN m /\ m[hdr] \in Nat /\ m[hdr] >= size
<1> DEFINE hdr == Min(Fitting(start, size))
           limit == Reach(hdr, size)
           S == Survivors(start, limit)
           m == Merged(start, limit)
<1> USE Places
<1>1. /\ Tiling(len) /\ inUse \subseteq Headers /\ Headers = DOMAIN len
      /\ Headers \subseteq Nat /\ Ends \subseteq Nat /\ start \in Nat
  BY DEF HeapInv, Headers, Ends, Tiling
<1>2. hdr \in Fitting(start, size) /\ \A h \in Fitting(start, size) : hdr <= h
  <2>1. Fitting(start, size) \in SUBSET Nat
    BY <1>1 DEF Fitting
  <2> QED
    BY <2>1, MinOfNat
<1> HIDE DEF hdr
<1>3. hdr \in Headers \ inUse /\ start <= hdr /\ RunStart(hdr, start)
  BY <1>2 DEF Fitting, RunStart, FreeAt
<1>4. PICK e \in Ends : Run(hdr, e) /\ e - hdr >= size
  BY <1>2 DEF Fitting, Fits
<1>5. /\ limit \in Ends /\ limit - hdr >= size
      /\ \A x \in Ends : x - hdr >= size => limit <= x
  <2>1. {x \in Ends : x - hdr >= size} \in SUBSET Nat /\ e \in {x \in Ends : x - hdr >= size}
    BY <1>1, <1>4
  <2>2. limit = Min({x \in Ends : x - hdr >= size})
    BY DEF Reach
  <2>3. limit \in {x \in Ends : x - hdr >= size}
        /\ \A y \in {x \in Ends : x - hdr >= size} : limit <= y
    BY <2>1, <2>2, MinOfNat
  <2> QED
    BY <2>3
<1> HIDE DEF limit
<1>6. limit \in Nat /\ limit <= e /\ hdr < limit
  BY <1>1, <1>3, <1>4, <1>5
<1>7. hdr \in S /\ DOMAIN m = S /\ Tiling(m) /\ S \subseteq Headers
  BY <1>3, <1>6, MergedTiles DEF Survivors
<1>8. m[hdr] = NextOf(S, hdr) - hdr
  BY <1>3, <1>7 DEF Merged
<1>9. hdr + m[hdr] \in S \cup {OSALMEM_LASTBLK_IDX} /\ m[hdr] > 0 /\ m[hdr] \in Nat
  <2>1. hdr # OSALMEM_SMALLBLK_BUCKET
    BY <1>3 DEF HeapInv
  <2> QED
    BY <1>7, <2>1 DEF Tiling
\* No header between hdr and the limit has survived.
<1>10. ASSUME NEW x \in S, hdr < x, x < limit PROVE FALSE
  <2>1. x \in Headers /\ x < e /\ x \notin inUse /\ start <= x /\ start # x
    BY <1>1, <1>3, <1>4, <1>6, <1>7, <1>10 DEF Run
  <2>2. RunStart(x, start)
    BY <1>1, <1>6, <1>10, <2>1 DEF Survivors
  <2>3. PICK b \in inUse : b + len[b] = x
    BY <2>1, <2>2 DEF RunStart
  <2>4. len[b] \in Nat /\ b \in Nat /\ b < x
    <3>1. len[b] \in Nat /\ b \in Nat /\ (b = OSALMEM_SMALLBLK_BUCKET => len[b] = OSALMEM_HDRSZ)
          /\ (b # OSALMEM_SMALLBLK_BUCKET => len[b] > OSALMEM_HDRSZ)
      BY <1>1 DEF Tiling
    <3> QED
      BY <2>3, <3>1
  <2>5. ~ (hdr <= b /\ b < e)
    BY <1>4 DEF Run
  <2>6. b < hdr
    BY <1>1, <1>3, <1>4, <2>1, <2>4, <2>5
  <2>7. b + len[b] <= hdr
    BY <1>1, <1>3, <2>6, BlocksApart
  <2> QED
    BY <1>1, <1>3, <1>10, <2>1, <2>3, <2>7
<1>11. limit <= OSALMEM_LASTBLK_IDX
  BY <1>1, <1>5 DEF Ends, Tiling
<1>12. hdr + m[hdr] >= limit
  BY <1>1, <1>3, <1>6, <1>7, <1>9, <1>10, <1>11
<1>13. m[hdr] >= size
  BY <1>1, <1>3, <1>5, <1>6, <1>9, <1>12
<1> QED
  BY <1>2, <1>3, <1>6, <1>7, <1>9, <1>13 DEF limit, hdr

\* A split leaves a tiling.
LEMMA SplitTiles ==
  ASSUME NEW l, Tiling(l), NEW h \in DOMAIN l, h # OSALMEM_SMALLBLK_BUCKET,
         NEW size \in Nat, size > OSALMEM_HDRSZ, l[h] >= size
  PROVE  LET s == Split(l, h, size)
         IN  /\ Tiling(s)
             /\ DOMAIN l \subseteq DOMAIN s
             /\ \A b \in DOMAIN s : b \in DOMAIN l \/ b > h
             /\ \A b \in DOMAIN l : b # h => s[b] = l[b]
             /\ s[h] \in Nat /\ s[h] >= size
<1> USE Places
<1> DEFINE s == Split(l, h, size)
           rest == l[h] - size
           new == h + size
<1>1. l[h] \in Nat /\ h \in Nat /\ rest \in Nat /\ rest = l[h] - size
  BY DEF Tiling
<1>2. CASE rest >= OSALMEM_MIN_BLKSZ
  <2>1. s = [b \in DOMAIN l \cup {new} |-> CASE b = h -> size
                                            [] b = new -> rest
                                            [] OTHER -> l[b]]
    BY <1>2 DEF Split
  <2>2. new \in Nat /\ h < new /\ new < h + l[h] /\ new # h
    BY <1>1, <1>2
  <2>3. new \notin DOMAIN l
    BY <1>1, <2>2 DEF Tiling
  <2>4. /\ DOMAIN s = DOMAIN l \cup {new} /\ s[h] = size /\ s[new] = rest
        /\ \A b \in DOMAIN l : b # h => s[b] = l[b]
    BY <2>1, <2>2, <2>3
  <2> HIDE DEF s
  <2>5. DOMAIN l \subseteq Nat
    BY DEF Tiling
  <2>6. ASSUME NEW b \in DOMAIN s
        PROVE  /\ b < OSALMEM_LASTBLK_IDX /\ s[b] \in Nat
               /\ b # OSALMEM_SMALLBLK_BUCKET => s[b] > OSALMEM_HDRSZ
               /\ b + s[b] \in DOMAIN s \cup {OSALMEM_LASTBLK_IDX}
               /\ \A c \in DOMAIN s : ~ (b < c /\ c < b + s[b])
    <3>1. h + l[h] \in DOMAIN l \cup {OSALMEM_LASTBLK_IDX}
          /\ \A c \in DOMAIN l : ~ (h < c /\ c < h + l[h])
      BY DEF Tiling
    <3>2. CASE b = h
      BY <1>1, <2>2, <2>4, <2>5, <3>1, <3>2 DEF Tiling
    <3>3. CASE b = new
      <4>1. b + s[b] = h + l[h] /\ s[b] = rest
        BY <1>1, <2>2, <2>4, <3>3
      <4>2. new < OSALMEM_LASTBLK_IDX
        <5>1. h + l[h] <= OSALMEM_LASTBLK_IDX
          BY <2>5, <3>1 DEF Tiling
        <5> QED
          BY <1>1, <2>2, <5>1
      <4>3. \A c \in DOMAIN s : ~ (b < c /\ c < b + s[b])
        BY <1>1, <2>2, <2>4, <2>5, <3>1, <3>3, <4>1
      <4> QED
        BY <1>1, <1>2, <2>4, <3>1, <3>3, <4>1, <4>2, <4>3
    <3>4. CASE b \in DOMAIN l /\ b # h
      <4>1. s[b] = l[b]
        BY <2>4, <3>4
      <4>2. ~ (b < new /\ new < b + l[b])
        <5>1. b + l[b] <= h \/ h < b
          BY <2>5, <3>4, BlocksApart
        <5>2. b < h \/ h + l[h] <= b
          BY <1>1, <2>5, <3>1, <3>4
        <5>3. b \in Nat /\ l[b] \in Nat
          BY <3>4 DEF Tiling
        <5> QED
          BY <1>1, <2>2, <5>1, <5>2, <5>3
      <4> QED
        BY <2>4, <3>4, <4>1, <4>2 DEF Tiling
    <3> QED
      BY <2>4, <3>2, <3>3, <3>4
  <2>7. s[OSALMEM_SMALLBLK_BUCKET] = OSALMEM_HDRSZ
    BY <2>4 DEF Tiling
  <2>8. Tiling(s)
    BY <2>2, <2>4, <2>5, <2>6, <2>7 DEF Tiling
  <2> QED
    BY <2>2, <2>4, <2>8 DEF s
<1>3. CASE ~ (rest >= OSALMEM_MIN_BLKSZ)
  <2>1. s = l
    BY <1>3 DEF Split
  <2> QED
    BY <1>1, <2>1
<1> QED
  BY <1>2, <1>3

-----------------------------------------------------------------------------
(* The invariant is kept.                                                  *)

\* What osal_mem_alloc and osal_mem_kick do to the blocks when there is room.
LEMMA BlockTaken ==
  ASSUME HeapInv, NEW start \in Ends, NEW size \in Nat, size > OSALMEM_HDRSZ,
         Fitting(start, size) # {}
  PROVE  LET hdr == Min(Fitting(start, size))
             new == Split(Merged(start, Reach(hdr, size)), hdr, size)
         IN  /\ Tiling(new)
             /\ hdr \in Headers \ inUse /\ start <= hdr /\ hdr \in DOMAIN new
             /\ inUse \subseteq DOMAIN new
             /\ \A h \in inUse : new[h] = len[h]
             /\ new[hdr] \in Nat /\ new[hdr] >= size
             /\ \A h \in DOMAIN new :
                  \/ h > hdr
                  \/ h \in Headers /\ (h < start \/ h \in inUse \/ RunStart(h, start))
             /\ \A h \in Headers : h < start \/ RunStart(h, start) => h \in DOMAIN new
<1> DEFINE hdr == Min(Fitting(start, size))
           limit == Reach(hdr, size)
           S == Survivors(start, limit)
           m == Merged(start, limit)
           new == Split(m, hdr, size)
<1> USE Places
<1>1. /\ hdr \in Headers \ inUse /\ start <= hdr
      /\ limit \in Nat /\ hdr < limit
      /\ hdr \in DOMAIN m /\ m[hdr] \in Nat /\ m[hdr] >= size
  BY FittingGrows
<1> HIDE DEF hdr, limit
<1>2. /\ Tiling(m) /\ DOMAIN m = S /\ S \subseteq Headers /\ inUse \subseteq S
      /\ \A h \in inUse : m[h] = len[h]
  BY <1>1, MergedTiles
<1>3. hdr # OSALMEM_SMALLBLK_BUCKET
  BY <1>1 DEF HeapInv
<1> HIDE DEF m, S
<1>4. /\ Tiling(new) /\ DOMAIN m \subseteq DOMAIN new
      /\ \A b \in DOMAIN new : b \in DOMAIN m \/ b > hdr
      /\ \A b \in DOMAIN m : b # hdr => new[b] = m[b]
      /\ new[hdr] \in Nat /\ new[hdr] >= size
  BY <1>1, <1>2, <1>3, SplitTiles
<1> HIDE DEF new
<1>5. /\ Tiling(len) /\ Headers = DOMAIN len /\ Headers \subseteq Nat /\ start \in Nat
      /\ inUse \subseteq Headers /\ OSALMEM_SMALLBLK_BUCKET \in inUse
  BY DEF HeapInv, Headers, Ends, Tiling
<1>6. ASSUME NEW h \in S, ~ (h > hdr)
      PROVE  h \in Headers /\ (h < start \/ h \in inUse \/ RunStart(h, start))
  BY <1>1, <1>2, <1>5, <1>6 DEF S, Survivors
<1>7. \A h \in Headers : h < start \/ RunStart(h, start) => h \in S
  BY DEF S, Survivors
<1> QED
  BY <1>1, <1>2, <1>4, <1>5, <1>6, <1>7 DEF hdr, limit, m, new

LEMMA HeapInvAlloc ==
  ASSUME HeapInv, NEW n \in Sizes, osal_mem_alloc(n)
  PROVE  HeapInv'
<1> DEFINE size == n + OSALMEM_HDRSZ
           start == SearchFrom(size)
<1> USE Places
<1>1. /\ Tiling(len) /\ Headers = DOMAIN len /\ Headers \subseteq Nat /\ ff1 \in Ends
      /\ inUse \subseteq Headers /\ OSALMEM_SMALLBLK_BUCKET \in inUse /\ ff1 \in Nat
      /\ FirstFree
  BY DEF HeapInv, Headers, Ends, Tiling
<1>2. start \in Ends
  BY <1>1 DEF SearchFrom, Ends, Tiling
<1>3. n \in Nat \ {0} /\ size \in Nat /\ size > OSALMEM_HDRSZ /\ size - OSALMEM_HDRSZ = n
  BY HeapAssumption
<1> HIDE DEF size, start
<1>4. CASE AllocGranted(size)
  <2> DEFINE hdr == Min(Fitting(start, size))
             new == Split(Merged(start, Reach(hdr, size)), hdr, size)
  <2>1. /\ Fitting(start, size) # {} /\ len' = new /\ inUse' = inUse \cup {hdr}
        /\ ff1' = IF osalMemStat # 0 /\ ff1 = hdr THEN hdr + len'[hdr] ELSE ff1
        /\ answer' = [asked |-> size - OSALMEM_HDRSZ, got |-> hdr + OSALMEM_HDRSZ]
        /\ osalMemStat' = osalMemStat
    BY <1>4 DEF AllocGranted, start
  <2> HIDE DEF hdr, new
  <2>2. /\ Tiling(new) /\ hdr \in Headers \ inUse /\ hdr \in DOMAIN new
        /\ inUse \subseteq DOMAIN new
        /\ new[hdr] \in Nat /\ new[hdr] >= size
        /\ \A h \in DOMAIN new : h > hdr \/ h \in Headers
        /\ \A h \in Headers : h < start \/ RunStart(h, start) => h \in DOMAIN new
    BY <1>2, <1>3, <2>1, BlockTaken DEF hdr, new
  <2>3. ff1 <= hdr
    BY <1>1, <2>2 DEF FirstFree
  <2>4. DOMAIN new \subseteq Nat
    BY <2>2 DEF Tiling
  <2>5. FirstFree'
    <3>1. SUFFICES ASSUME NEW h \in DOMAIN new, h < ff1' PROVE h \in inUse \cup {hdr}
      BY <2>1 DEF FirstFree, Headers
    <3>2. CASE h <= hdr /\ h # hdr
      <4>1. h < ff1
        BY <1>1, <2>1, <2>2, <2>4, <3>1, <3>2
      <4> QED
        BY <1>1, <2>2, <2>4, <3>2, <4>1 DEF FirstFree
    <3>3. CASE hdr < h
      <4>1. ff1' = hdr + new[hdr]
        BY <1>1, <2>1, <2>2, <2>3, <2>4, <3>1, <3>3
      <4> QED
        BY <2>2, <3>1, <3>3, <4>1 DEF Tiling
    <3> QED
      BY <1>1, <2>2, <2>4, <3>2, <3>3
  <2>6. ff1' \in Ends'
    <3>1. hdr + new[hdr] \in DOMAIN new \cup {OSALMEM_LASTBLK_IDX}
      BY <2>2 DEF Tiling
    <3>2. ff1 \in DOMAIN new \cup {OSALMEM_LASTBLK_IDX}
      <4>1. SUFFICES ASSUME ff1 \in Headers, ff1 \notin inUse, ~ (ff1 < start)
                     PROVE  ff1 \in DOMAIN new
        BY <1>1, <2>2 DEF Ends
      <4>2. start \in Nat
        BY <1>1, <1>2 DEF Ends, Tiling
      <4>3. RunStart(ff1, start)
        BY <1>1, <4>1, <4>2, FirstStarts
      <4> QED
        BY <2>2, <4>1, <4>3
    <3> QED
      BY <2>1, <2>2, <3>1, <3>2 DEF Ends, Headers
  <2>7. answer' \in [asked : Nat, got : Nat \cup {NULL}]
    BY <1>1, <1>3, <2>1, <2>2
  <2> QED
    BY <1>1, <2>1, <2>2, <2>5, <2>6, <2>7 DEF HeapInv, Headers
<1>5. CASE AllocRefused(size)
  <2>1. /\ len' = Merged(start, OSALMEM_LASTBLK_IDX)
        /\ inUse' = inUse /\ ff1' = ff1 /\ osalMemStat' = osalMemStat
        /\ answer' = [asked |-> size - OSALMEM_HDRSZ, got |-> NULL]
    BY <1>5 DEF AllocRefused, start
  <2> DEFINE S == Survivors(start, OSALMEM_LASTBLK_IDX)
  <2>2. /\ Tiling(len') /\ DOMAIN len' = S /\ S \subseteq Headers /\ inUse \subseteq S
    BY <1>2, <2>1, MergedTiles
  <2>3. ff1 \in S \cup {OSALMEM_LASTBLK_IDX}
    <3>1. SUFFICES ASSUME ff1 \in Headers, ff1 \notin inUse, ~ (ff1 < start) PROVE ff1 \in S
      BY <1>1, <2>2 DEF Ends, Survivors
    <3>2. start \in Nat
      BY <1>1, <1>2 DEF Ends, Tiling
    <3>3. RunStart(ff1, start)
      BY <1>1, <3>1, <3>2, FirstStarts
    <3> QED
      BY <3>1, <3>3 DEF Survivors
  <2>4. FirstFree' /\ ff1' \in Ends'
    BY <1>1, <2>1, <2>2, <2>3 DEF FirstFree, Headers, Ends
  <2>5. answer' \in [asked : Nat, got : Nat \cup {NULL}]
    BY <1>3, <2>1
  <2> HIDE DEF S
  <2> QED
    BY <1>1, <2>1, <2>2, <2>4, <2>5 DEF HeapInv, Headers
<1> QED
  BY <1>4, <1>5 DEF osal_mem_alloc, size

LEMMA HeapInvFree ==
  ASSUME HeapInv, NEW h \in Held, osal_mem_free(h)
  PROVE  HeapInv'
<1>1. /\ inUse' = inUse \ {h} /\ len' = len /\ osalMemStat' = osalMemStat
      /\ answer' = answer /\ ff1' = Min({ff1, h})
  BY DEF osal_mem_free
<1>2. /\ h \in inUse /\ h # OSALMEM_SMALLBLK_BUCKET /\ h \in Headers /\ h \in Nat
      /\ ff1 \in Ends /\ ff1 \in Nat /\ Headers \subseteq Nat
  BY Places DEF Held, HeapInv, Headers, Ends, Tiling
<1>3. ff1' \in {ff1, h} /\ ff1' <= ff1 /\ ff1' <= h
  <2>1. {ff1, h} \in SUBSET Nat
    BY <1>2
  <2> QED
    BY <1>1, <2>1, MinOfNat
<1>4. ff1' \in Ends' /\ Headers' = Headers
  BY <1>1, <1>2, <1>3 DEF Ends, Headers
<1>5. FirstFree'
  BY <1>1, <1>2, <1>3, <1>4 DEF FirstFree, HeapInv
<1> QED
  BY <1>1, <1>2, <1>4, <1>5 DEF HeapInv

LEMMA HeapInvKick == ASSUME HeapInv, osal_mem_kick PROVE HeapInv'
<1> DEFINE size == 1 + OSALMEM_HDRSZ
           hdr == Min(Fitting(ff1, size))
           new == Split(Merged(ff1, Reach(hdr, size)), hdr, size)
<1> USE Places
<1>1. /\ Fitting(ff1, size) # {} /\ len' = new /\ ff1' = hdr /\ osalMemStat' = 1
      /\ inUse' = inUse /\ answer' = answer
  BY DEF osal_mem_kick
<1>2. /\ Tiling(len) /\ Headers = DOMAIN len /\ Headers \subseteq Nat /\ ff1 \in Ends
      /\ inUse \subseteq Headers /\ OSALMEM_SMALLBLK_BUCKET \in inUse /\ ff1 \in Nat
      /\ FirstFree
  BY DEF HeapInv, Headers, Ends, Tiling
<1>3. size \in Nat /\ size > OSALMEM_HDRSZ /\ size = 1 + OSALMEM_HDRSZ
  OBVIOUS
<1> HIDE DEF size
<1>4. \A h \in Fitting(ff1, size) : hdr <= h
  BY <1>1, <1>2, <1>3, FittingGrows
<1> HIDE DEF hdr, new
<1>5. /\ Tiling(new) /\ hdr \in Headers \ inUse /\ hdr \in DOMAIN new
      /\ inUse \subseteq DOMAIN new
      /\ \A h \in DOMAIN new :
           \/ h > hdr
           \/ h \in Headers /\ (h < ff1 \/ h \in inUse \/ RunStart(h, ff1))
  BY <1>1, <1>2, <1>3, BlockTaken DEF hdr, new
\* The block that is taken is the first that is free: no block is too short.
<1>6. FirstFree'
  <2>1. SUFFICES ASSUME NEW h \in DOMAIN new, h < hdr, h \notin inUse PROVE FALSE
    BY <1>1 DEF FirstFree, Headers
  <2>2. h \in Nat
    BY <1>5 DEF Tiling
  <2>3. h \in Headers /\ (h < ff1 \/ RunStart(h, ff1))
    BY <1>2, <1>5, <2>1, <2>2
  <2>4. RunStart(h, ff1)
    BY <1>2, <2>1, <2>3 DEF FirstFree
  <2>5. /\ len[h] \in Nat /\ len[h] > OSALMEM_HDRSZ /\ h + len[h] \in Ends
        /\ \A b \in inUse : ~ (h < b /\ b < h + len[h])
    BY <1>2, <2>1, <2>3 DEF Tiling, Ends
  <2>6. Run(h, h + len[h])
    BY <1>2, <2>1, <2>2, <2>3, <2>5 DEF Run, FreeAt
  <2>7. Fits(h, size)
    BY <1>3, <2>2, <2>5, <2>6 DEF Fits
  <2>8. hdr <= h
    BY <1>4, <2>3, <2>4, <2>7 DEF Fitting
  <2> QED
    BY <1>2, <1>5, <2>1, <2>2, <2>8
<1> QED
  BY <1>1, <1>2, <1>5, <1>6 DEF HeapInv, Headers, Ends

LEMMA HeapInvNext == HeapInv /\ [Next]_vars => HeapInv'
<1> SUFFICES ASSUME HeapInv, [Next]_vars PROVE HeapInv'
  OBVIOUS
<1>1. CASE Alloc
  BY <1>1, HeapInvAlloc DEF Alloc
<1>2. CASE Free
  BY <1>2, HeapInvFree DEF Free
<1>3. CASE osal_mem_kick
  BY <1>3, HeapInvKick
<1>4. CASE UNCHANGED vars
  BY <1>4 DEF vars, HeapInv, Tiling, Headers, Ends, FirstFree
<1> QED
  BY <1>1, <1>2, <1>3, <1>4 DEF Next

-----------------------------------------------------------------------------
(* What follows from it.                                                   *)

\* The blocks always tile the heap, and ff1 is a header or the end.
THEOREM TypeCorrect == Spec => []TypeOK
<1>1. HeapInv => TypeOK
  <2> SUFFICES ASSUME HeapInv PROVE TypeOK
    OBVIOUS
  <2> USE Places
  <2>1. /\ Tiling(len) /\ inUse \subseteq Headers /\ OSALMEM_SMALLBLK_BUCKET \in inUse
        /\ ff1 \in Ends /\ osalMemStat \in {0, 1}
        /\ answer \in [asked : Nat, got : Nat \cup {NULL}] /\ Headers = DOMAIN len
    BY DEF HeapInv, Headers
  <2>2. Headers \subseteq 0 .. OSALMEM_LASTBLK_IDX - 1
    BY <2>1 DEF Tiling
  <2>3. ASSUME NEW h \in Headers PROVE len[h] \in 1 .. MAXMEMHEAP
    <3>1. len[h] \in Nat /\ len[h] > 0 /\ h \in Nat
      BY <2>1 DEF Tiling
    <3>2. h + len[h] <= OSALMEM_LASTBLK_IDX
      BY <2>1 DEF Tiling
    <3>3. MAXMEMHEAP \in Nat
      BY HeapAssumption
    <3> QED
      BY <3>1, <3>2, <3>3
  <2>4. Tiled
    BY <2>1, <2>3 DEF Tiled, Tiling, Ends
  <2> QED
    BY <2>1, <2>2, <2>3, <2>4 DEF TypeOK
<1>2. QED
  BY <1>1, HeapInvInit, HeapInvNext, PTL DEF Spec

\* Nothing free is ever below ff1, which alloc, free and kick each move.
THEOREM NothingFreeBelow == Spec => []FirstFree
<1>1. HeapInv => FirstFree
  BY DEF HeapInv
<1>2. QED
  BY <1>1, HeapInvInit, HeapInvNext, PTL DEF Spec

\* A run of free blocks begins where a search finds it.
LEMMA RunFound ==
  ASSUME HeapInv, NEW start \in Ends, NEW size \in Nat,
         NEW h \in Headers, start <= h, Fits(h, size)
  PROVE  Fitting(start, size) # {}
<1> USE Places
<1>1. /\ Tiling(len) /\ Headers = DOMAIN len /\ Headers \subseteq Nat
      /\ start \in Nat /\ Ends \subseteq Nat
  BY DEF HeapInv, Headers, Ends, Tiling
<1>2. PICK e \in Ends : Run(h, e) /\ e - h >= size
  BY DEF Fits
<1> DEFINE Starts == {x \in Headers : start <= x /\ x <= h /\ Run(x, e)}
<1>3. Starts \in SUBSET Nat /\ h \in Starts
  BY <1>1, <1>2
<1>4. PICK x \in Starts : \A y \in Starts : x <= y
  BY <1>3, LeastElement
<1>5. x \in Headers /\ start <= x /\ x <= h /\ FreeAt(x) /\ Run(x, e)
  BY <1>4 DEF Run
<1>6. RunStart(x, start)
  <2>1. SUFFICES ASSUME start # x PROVE \E b \in inUse : b + len[b] = x
    BY <1>5 DEF RunStart
  <2>2. PICK b \in Headers : b < x /\ b + len[b] = x
    BY <1>1, <1>5, <2>1, Predecessor
  <2>3. SUFFICES ASSUME b \notin inUse PROVE FALSE
    BY <2>2
  <2>4. start <= b
    BY <1>1, <1>5, <2>1, <2>2 DEF Ends, Tiling
  <2>5. Run(b, e)
    <3>1. b < e /\ FreeAt(b)
      BY <1>1, <1>2, <1>5, <2>2, <2>3 DEF Run, FreeAt
    <3>2. ASSUME NEW c \in inUse PROVE ~ (b <= c /\ c < e)
      <4>1. c \in Headers /\ c # b
        BY <2>3 DEF HeapInv
      <4>2. ~ (x <= c /\ c < e)
        BY <1>5 DEF Run
      <4>3. ~ (b < c /\ c < x)
        BY <1>1, <2>2, <4>1 DEF Tiling
      <4> QED
        BY <1>1, <1>5, <2>2, <4>1, <4>2, <4>3
    <3> QED
      BY <3>1, <3>2 DEF Run
  <2>6. b \in Starts
    BY <1>1, <1>5, <2>2, <2>4, <2>5
  <2> QED
    BY <1>1, <1>4, <1>5, <2>2, <2>6
<1>7. Fits(x, size)
  BY <1>1, <1>2, <1>5 DEF Fits
<1> QED
  BY <1>5, <1>6, <1>7 DEF Fitting

\* A request that is refused could not have been met by any run of free blocks it may
\* use, however the heap has been fragmented.
THEOREM RefusalsTrue == Spec => RefusedOnlyFull
<1>1. HeapInv /\ [Next]_vars =>
        [\A n \in Sizes :
           AllocRefused(n + OSALMEM_HDRSZ) =>
             ~ \E h \in Headers :
                 /\ Fits(h, n + OSALMEM_HDRSZ)
                 /\ \/ osalMemStat = 0
                    \/ n + OSALMEM_HDRSZ <= OSALMEM_SMALL_BLKSZ
                    \/ h >= OSALMEM_BIGBLK_IDX]_vars
  <2> SUFFICES ASSUME HeapInv, NEW n \in Sizes, AllocRefused(n + OSALMEM_HDRSZ),
                      NEW h \in Headers, Fits(h, n + OSALMEM_HDRSZ),
                      \/ osalMemStat = 0
                      \/ n + OSALMEM_HDRSZ <= OSALMEM_SMALL_BLKSZ
                      \/ h >= OSALMEM_BIGBLK_IDX
               PROVE  FALSE
    OBVIOUS
  <2> DEFINE size == n + OSALMEM_HDRSZ
             start == SearchFrom(size)
  <2>1. Fitting(start, size) = {}
    BY DEF AllocRefused
  <2>2. /\ Headers \subseteq Nat /\ Ends \subseteq Nat /\ ff1 \in Ends /\ FirstFree
        /\ OSALMEM_BIGBLK_IDX \in Ends /\ h \notin inUse
    BY Places DEF HeapInv, Headers, Ends, Tiling, Fits, Run, FreeAt
  <2>3. ff1 <= h
    BY <2>2 DEF FirstFree
  <2>4. start \in Ends /\ start <= h
    BY <2>2, <2>3 DEF SearchFrom
  <2>5. size \in Nat
    BY HeapAssumption
  <2> HIDE DEF start, size
  <2>6. Fits(h, size)
    BY DEF size
  <2> QED
    BY <2>1, <2>4, <2>5, <2>6, RunFound
<1>2. QED
  BY <1>1, HeapInvInit, HeapInvNext, PTL DEF Spec, RefusedOnlyFull

-----------------------------------------------------------------------------
(* The refinement.                                                         *)

Piece(l, h) == [at |-> h + OSALMEM_HDRSZ, len |-> l[h] - OSALMEM_HDRSZ]

LEMMA GrantRefines ==
  ASSUME HeapInv, NEW n \in Sizes, AllocGranted(n + OSALMEM_HDRSZ)
  PROVE  Service!Grant(n)
<1> USE Places
<1> DEFINE size == n + OSALMEM_HDRSZ
           start == SearchFrom(size)
           hdr == Min(Fitting(start, size))
           new == Split(Merged(start, Reach(hdr, size)), hdr, size)
<1>1. /\ Fitting(start, size) # {} /\ len' = new /\ inUse' = inUse \cup {hdr}
      /\ answer' = [asked |-> size - OSALMEM_HDRSZ, got |-> hdr + OSALMEM_HDRSZ]
  BY DEF AllocGranted
<1>2. /\ inUse \subseteq Headers /\ OSALMEM_SMALLBLK_BUCKET \in inUse /\ ff1 \in Ends
      /\ OSALMEM_BIGBLK_IDX \in Ends
  BY DEF HeapInv, Ends, Headers, Tiling
<1>3. n \in Nat \ {0} /\ size \in Nat /\ size > OSALMEM_HDRSZ /\ size = n + OSALMEM_HDRSZ
  BY HeapAssumption
<1>4. start \in Ends
  BY <1>2 DEF SearchFrom
<1> HIDE DEF size, start, hdr, new
<1>5. /\ Tiling(new) /\ hdr \in Headers \ inUse /\ hdr \in DOMAIN new
      /\ inUse \subseteq DOMAIN new /\ \A h \in inUse : new[h] = len[h]
      /\ new[hdr] \in Nat /\ new[hdr] >= size
  BY <1>1, <1>3, <1>4, BlockTaken DEF hdr, new
<1>6. DOMAIN new \subseteq Nat /\ hdr + new[hdr] <= OSALMEM_LASTBLK_IDX
  BY <1>5 DEF Tiling
<1> DEFINE p == Piece(new, hdr)
<1>7. /\ p.at = hdr + OSALMEM_HDRSZ /\ p.len = new[hdr] - OSALMEM_HDRSZ
      /\ p \in Service!Pieces /\ p.len >= n /\ p.at + p.len <= OSALMEM_LASTBLK_IDX
  BY <1>3, <1>5, <1>6 DEF Piece, Service!Pieces
<1>8. \A q \in HeldPieces : Service!Apart(p, q)
  <2> SUFFICES ASSUME NEW h \in Held
               PROVE  Service!Apart(p, Piece(len, h))
    BY DEF HeldPieces, Piece
  <2>1. /\ h \in DOMAIN new /\ h # hdr /\ h \in Nat /\ new[h] = len[h] /\ new[h] \in Nat
    BY <1>5, <1>6 DEF Held, Tiling
  <2>2. h + new[h] <= hdr \/ hdr + new[hdr] <= h
    <3>1. h < hdr \/ hdr < h
      BY <1>5, <1>6, <2>1
    <3> QED
      BY <1>5, <2>1, <3>1, BlocksApart
  <2> QED
    BY <1>5, <1>6, <1>7, <2>1, <2>2 DEF Service!Apart, Piece
<1>9. HeldPieces' = HeldPieces \cup {p}
  <2>1. Held' = Held \cup {hdr}
    BY <1>1, <1>2, <1>5 DEF Held
  <2>2. \A h \in Held : len'[h] = len[h]
    BY <1>1, <1>5 DEF Held
  <2> QED
    BY <1>1, <2>1, <2>2 DEF HeldPieces, Piece
<1>10. answer' = [asked |-> n, got |-> p.at]
  BY <1>1, <1>3, <1>7
<1> HIDE DEF p
<1> QED
  BY <1>7, <1>8, <1>9, <1>10 DEF Service!Grant

\* What the callers hold does not change with the free blocks.
LEMMA SameHeld ==
  ASSUME inUse' = inUse, \A h \in inUse : len'[h] = len[h]
  PROVE  HeldPieces' = HeldPieces
BY DEF HeldPieces, Held

LEMMA StepRefines == HeapInv /\ [Next]_vars => [Service!Next]_(Service!vars)
<1> SUFFICES ASSUME HeapInv, [Next]_vars PROVE [Service!Next]_(Service!vars)
  OBVIOUS
<1> USE Places
<1>1. ASSUME NEW n \in Sizes, osal_mem_alloc(n) PROVE Service!Next
  <2>1. CASE AllocGranted(n + OSALMEM_HDRSZ)
    BY <2>1, GrantRefines DEF Service!Next
  <2>2. CASE AllocRefused(n + OSALMEM_HDRSZ)
    <3> DEFINE start == SearchFrom(n + OSALMEM_HDRSZ)
    <3>1. /\ len' = Merged(start, OSALMEM_LASTBLK_IDX) /\ inUse' = inUse
          /\ answer' = [asked |-> (n + OSALMEM_HDRSZ) - OSALMEM_HDRSZ, got |-> NULL]
      BY <2>2 DEF AllocRefused
    <3>2. start \in Ends
      BY DEF SearchFrom, HeapInv, Ends, Headers, Tiling
    <3>3. \A h \in inUse : len'[h] = len[h]
      BY <3>1, <3>2, MergedTiles
    <3>4. HeldPieces' = HeldPieces
      BY <3>1, <3>3, SameHeld
    <3>5. answer' = [asked |-> n, got |-> NULL]
      BY <3>1, HeapAssumption
    <3> QED
      BY <3>4, <3>5 DEF Service!Next, Service!Refuse
  <2> QED
    BY <1>1, <2>1, <2>2 DEF osal_mem_alloc
<1>2. ASSUME NEW h \in Held, osal_mem_free(h) PROVE Service!Next
  <2>1. inUse' = inUse \ {h} /\ len' = len /\ answer' = answer
    BY <1>2 DEF osal_mem_free
  <2>2. Held \subseteq Nat /\ Held' = Held \ {h}
    BY <2>1 DEF HeapInv, Held, Headers, Tiling
  <2>3. HeldPieces = {Piece(len, x) : x \in Held} /\ HeldPieces' = {Piece(len, x) : x \in Held \ {h}}
    BY <2>1, <2>2 DEF HeldPieces, Piece
  <2>4. \A x \in Held : Piece(len, x) = Piece(len, h) => x = h
    <3> SUFFICES ASSUME NEW x \in Held, Piece(len, x) = Piece(len, h) PROVE x = h
      OBVIOUS
    <3>1. x + OSALMEM_HDRSZ = h + OSALMEM_HDRSZ
      BY DEF Piece
    <3> QED
      BY <2>2, <3>1
  <2>5. HeldPieces' = HeldPieces \ {Piece(len, h)} /\ Piece(len, h) \in HeldPieces
    BY <2>3, <2>4
  <2> QED
    BY <2>1, <2>5 DEF Service!Next, Service!Free
<1>3. CASE osal_mem_kick
  <2> DEFINE size == 1 + OSALMEM_HDRSZ
             hdr == Min(Fitting(ff1, size))
             new == Split(Merged(ff1, Reach(hdr, size)), hdr, size)
  <2>1. Fitting(ff1, size) # {} /\ len' = new /\ inUse' = inUse /\ answer' = answer
    BY <1>3 DEF osal_mem_kick
  <2>2. size \in Nat /\ size > OSALMEM_HDRSZ /\ ff1 \in Ends
    BY DEF HeapInv
  <2> HIDE DEF size, hdr, new
  <2>3. \A h \in inUse : new[h] = len[h]
    BY <2>1, <2>2, BlockTaken DEF hdr, new
  <2>4. HeldPieces' = HeldPieces
    BY <2>1, <2>3, SameHeld
  <2> QED
    BY <2>1, <2>4 DEF Service!vars
<1>4. CASE UNCHANGED vars
  BY <1>4 DEF vars, HeldPieces, Held, Service!vars
<1> QED
  BY <1>1, <1>2, <1>3, <1>4 DEF Next, Alloc, Free

\* No two callers share a byte, nobody gets less than asked for, and only the holder
\* of a block gives it back.
THEOREM Implements == Spec => ImplementsHeap
<1>1. osal_mem_init => Service!Init
  BY DEF osal_mem_init, Service!Init, HeldPieces, Held
<1>2. QED
  BY <1>1, StepRefines, HeapInvInit, HeapInvNext, PTL
     DEF Spec, ImplementsHeap, Service!Spec
=============================================================================
