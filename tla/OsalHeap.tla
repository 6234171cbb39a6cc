------------------------------ MODULE OsalHeap ------------------------------
(***************************************************************************)
(* The OSAL heap: blocks with a header, first fit, coalescing of free      *)
(* neighbours only while a search walks over them, a bucket at the front   *)
(* for small blocks, and ff1, the place the search of that bucket starts.  *)
(*                                                                         *)
(* Addresses and lengths are bytes.  Each function runs in one critical    *)
(* section, so each is one action.  The loop of osal_mem_alloc is given by *)
(* what it leaves: the free runs it walked over are one block each, up to  *)
(* the first that is long enough.                                          *)
(***************************************************************************)
EXTENDS Integers, FiniteSets, FiniteSetsExt

CONSTANTS MAXMEMHEAP,
          OSALMEM_HDRSZ,
          OSALMEM_MIN_BLKSZ,       \* least remainder worth a block
          OSALMEM_SMALL_BLKSZ,     \* longest block (with header) of the bucket
          OSALMEM_SMALLBLK_BUCKET, \* length of the bucket
          Sizes,                   \* sizes that are asked for
          NULL

\* Where the wilderness begins, after the header that closes the bucket, and
\* the header (val = 0) that ends the heap.
OSALMEM_BIGBLK_IDX == OSALMEM_SMALLBLK_BUCKET + OSALMEM_HDRSZ

OSALMEM_LASTBLK_IDX == MAXMEMHEAP - OSALMEM_HDRSZ

\* The sizes are ordered as the header file orders them (in multiples of the
\* header, which nothing below depends on), and a block is left after the
\* bucket.
ASSUME HeapAssumption ==
  /\ OSALMEM_HDRSZ \in Nat \ {0}
  /\ OSALMEM_MIN_BLKSZ \in Nat /\ OSALMEM_MIN_BLKSZ > OSALMEM_HDRSZ
  /\ OSALMEM_SMALL_BLKSZ \in Nat
  /\ OSALMEM_SMALLBLK_BUCKET \in Nat /\ OSALMEM_SMALLBLK_BUCKET > OSALMEM_HDRSZ
  /\ MAXMEMHEAP \in Nat
  /\ OSALMEM_LASTBLK_IDX > OSALMEM_BIGBLK_IDX + OSALMEM_HDRSZ
  /\ Sizes \subseteq Nat \ {0}
  /\ NULL \notin Nat

VARIABLES len,          \* len field of the header at each address that has one
          inUse,        \* addresses of the headers whose inUse bit is set
          ff1,          \* where the search of the bucket starts
          osalMemStat,  \* 1 once the long-lived blocks are allocated
          answer        \* the last osal_mem_alloc: what it asked for and got

vars == <<len, inUse, ff1, osalMemStat, answer>>

Headers == DOMAIN len

FreeAt(h) == h \in Headers \ inUse

Held == inUse \ {OSALMEM_SMALLBLK_BUCKET}

osal_mem_init ==
  /\ len = [h \in {0, OSALMEM_SMALLBLK_BUCKET, OSALMEM_BIGBLK_IDX} |->
              CASE h = 0 -> OSALMEM_SMALLBLK_BUCKET
                [] h = OSALMEM_SMALLBLK_BUCKET -> OSALMEM_HDRSZ
                [] OTHER -> OSALMEM_LASTBLK_IDX - OSALMEM_BIGBLK_IDX]
  /\ inUse = {OSALMEM_SMALLBLK_BUCKET}
  /\ ff1 = 0
  /\ osalMemStat = 0
  /\ answer = [asked |-> 0, got |-> NULL]

-----------------------------------------------------------------------------
(* The search.                                                             *)

\* Where the search for a block of size bytes (header included) starts.
SearchFrom(size) ==
  IF osalMemStat = 0 \/ size <= OSALMEM_SMALL_BLKSZ
  THEN ff1 ELSE OSALMEM_BIGBLK_IDX

\* mutant: coal is not reset at a block in use
RunOverUsed(from, to) == FreeAt(from) /\ from < to

\* mutant: free neighbours are not coalesced
OneBlock(from, to) == FreeAt(from) /\ to = from + len[from]

\* All that lies in from .. to - 1 is free blocks.
Run(from, to) ==
  /\ FreeAt(from) /\ from < to
  /\ \A h \in inUse : ~ (from <= h /\ h < to)

Ends == Headers \cup {OSALMEM_LASTBLK_IDX}

\* A search from start begins to coalesce (coal = 0) at h.
RunStart(h, start) ==
  /\ FreeAt(h) /\ start <= h
  /\ h = start \/ \E b \in inUse : b + len[b] = h

Fits(h, size) == \E e \in Ends : Run(h, e) /\ e - h >= size

\* The runs a search from start walks over and could take.
Fitting(start, size) ==
  {h \in Headers : RunStart(h, start) /\ Fits(h, size)}

\* The block at h when it has grown enough, as far as the search merges it.
Reach(h, size) == Min({e \in Ends : e - h >= size})

\* The headers left by a search that merged the runs between start and limit.
Survivors(start, limit) ==
  {h \in Headers : h < start \/ limit <= h \/ h \in inUse \/ RunStart(h, start)}

NextOf(S, h) == Min({e \in S \cup {OSALMEM_LASTBLK_IDX} : e > h})

Merged(start, limit) ==
  LET S == Survivors(start, limit)
  IN  [h \in S |-> IF h \in inUse THEN len[h] ELSE NextOf(S, h) - h]

-----------------------------------------------------------------------------
(* osal_mem_alloc, for size bytes with the header.                         *)

\* mutant: the remainder of a split gets no header
SplitLosesRest(blocks, h, size) ==
  IF blocks[h] - size >= OSALMEM_MIN_BLKSZ
  THEN [blocks EXCEPT ![h] = size] ELSE blocks

\* Split the block at h if the rest is worth a block of its own.
Split(blocks, h, size) ==
  LET rest == blocks[h] - size
  IN  IF rest >= OSALMEM_MIN_BLKSZ
      THEN [b \in DOMAIN blocks \cup {h + size} |->
              CASE b = h -> size
                [] b = h + size -> rest
                [] OTHER -> blocks[b]]
      ELSE blocks

AllocGranted(size) ==
  LET start == SearchFrom(size)
      hdr == Min(Fitting(start, size))
      merged == Merged(start, Reach(hdr, size))
  IN  /\ Fitting(start, size) # {}
      /\ len' = Split(merged, hdr, size)
      /\ inUse' = inUse \cup {hdr}
      /\ ff1' = IF osalMemStat # 0 /\ ff1 = hdr THEN hdr + len'[hdr] ELSE ff1
      /\ answer' = [asked |-> size - OSALMEM_HDRSZ, got |-> hdr + OSALMEM_HDRSZ]
      /\ UNCHANGED osalMemStat

AllocRefused(size) ==
  LET start == SearchFrom(size)
  IN  /\ Fitting(start, size) = {}
      /\ len' = Merged(start, OSALMEM_LASTBLK_IDX)
      /\ answer' = [asked |-> size - OSALMEM_HDRSZ, got |-> NULL]
      /\ UNCHANGED <<inUse, ff1, osalMemStat>>

osal_mem_alloc(n) ==
  \/ AllocGranted(n + OSALMEM_HDRSZ)
  \/ AllocRefused(n + OSALMEM_HDRSZ)

\* mutant: ff1 stays where it is
FreeKeepsFf1(h) ==
  /\ inUse' = inUse \ {h}
  /\ UNCHANGED <<ff1, len, osalMemStat, answer>>

\* A free block is merged with its neighbours by the next search, not here.
osal_mem_free(h) ==
  /\ inUse' = inUse \ {h}
  /\ ff1' = Min({ff1, h})
  /\ UNCHANGED <<len, osalMemStat, answer>>

\* At the end of osal_init_system, before interrupts are enabled: allocate a
\* byte, note where, free it.  The code asserts that there is room.
osal_mem_kick ==
  LET size == 1 + OSALMEM_HDRSZ
      hdr == Min(Fitting(ff1, size))
  IN  /\ osalMemStat = 0
      /\ Fitting(ff1, size) # {}
      /\ len' = Split(Merged(ff1, Reach(hdr, size)), hdr, size)
      /\ ff1' = hdr
      /\ osalMemStat' = 1
      /\ UNCHANGED <<inUse, answer>>

Alloc == \E n \in Sizes : osal_mem_alloc(n)
Free == \E h \in Held : osal_mem_free(h)

Next == Alloc \/ Free \/ osal_mem_kick

Spec == osal_mem_init /\ [][Next]_vars

-----------------------------------------------------------------------------
(* Properties.                                                             *)

\* The blocks tile the heap: each ends where the next begins, and the header
\* that keeps the bucket from merging with the wilderness stays.
Tiled ==
  /\ 0 \in Headers /\ OSALMEM_BIGBLK_IDX \in Headers
  /\ OSALMEM_SMALLBLK_BUCKET \in inUse
  /\ \A h \in Headers :
       /\ len[h] > 0
       /\ h + len[h] \in Ends
       /\ \A b \in Headers : ~ (h < b /\ b < h + len[h])

\* The headers are where headers can be, and ff1 (on which free compares and
\* alloc starts to read) is one of them, or the end.
TypeOK ==
  /\ Headers \subseteq 0 .. OSALMEM_LASTBLK_IDX - 1
  /\ \A h \in Headers : len[h] \in 1 .. MAXMEMHEAP
  /\ inUse \subseteq Headers
  /\ ff1 \in Ends
  /\ osalMemStat \in {0, 1}
  /\ answer \in [asked : Nat, got : Nat \cup {NULL}]
  /\ Tiled

\* Nothing below ff1 is free: a free block there would never be found again
\* by the searches of the bucket.
FirstFree ==
  \A h \in Headers : h < ff1 => h \in inUse

\* A request is refused only when no run of free blocks that it may use is long
\* enough: neither fragmentation that a coalescing would cure nor a stale ff1
\* makes one fail.  A large request may not use the bucket.
RefusedOnlyFull ==
  [][\A n \in Sizes :
       AllocRefused(n + OSALMEM_HDRSZ) =>
         ~ \E h \in Headers :
             /\ Fits(h, n + OSALMEM_HDRSZ)
             /\ \/ osalMemStat = 0
                \/ n + OSALMEM_HDRSZ <= OSALMEM_SMALL_BLKSZ
                \/ h >= OSALMEM_BIGBLK_IDX]_vars

\* What the callers hold: of every block in use, all but its header.
HeldPieces ==
  {[at |-> h + OSALMEM_HDRSZ, len |-> len[h] - OSALMEM_HDRSZ] : h \in Held}

Service == INSTANCE HeapService
             WITH HeapLen <- OSALMEM_LASTBLK_IDX, held <- HeldPieces

\* No two callers ever share a byte and nobody gets less than asked for.
ImplementsHeap == Service!Spec
=============================================================================
