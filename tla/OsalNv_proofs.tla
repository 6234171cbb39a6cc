---------------------------- MODULE OsalNv_proofs ----------------------------
(***************************************************************************)
(* Proofs about OsalNv, for any number and size of pages and any items.    *)
(* First the room on the pages, with every torn erase and with writes that *)
(* read back wrong; then the values of the items, that the flash           *)
(* implements NvStore when writes do not read back wrong and a torn erase  *)
(* takes the inUse word of the page header first; and, under the same two  *)
(* conditions, the places kept of hot items, so that reads are right.      *)
(***************************************************************************)
EXTENDS OsalNvInv, SequenceTheorems, WellFoundedInduction, TLAPS

-----------------------------------------------------------------------------
(* Sums.                                                                   *)

\* A nonempty set of natural numbers has a least element; induction below is by
\* the least number for which a fact would fail.
LEMMA LeastElement ==
  ASSUME NEW S \in SUBSET Nat, S # {}
  PROVE  \E i \in S : \A j \in S : i <= j
<1>1. PICK i \in S : \A j \in S : ~ (<<j, i>> \in OpToRel(<, Nat))
  BY NatLessThanWellFounded, WFMin
<1>2. \A j \in S : ~ (j < i)
  BY <1>1, Zenon DEF OpToRel
<1>. QED
  BY <1>2

\* s[k] is the sum of the first k of the n numbers f.
Sums(s, f, n) == s = [k \in 0 .. n |-> IF k = 0 THEN 0 ELSE s[k - 1] + f[k]]

LEMMA SumsAt ==
  ASSUME NEW f, NEW n, NEW s, Sums(s, f, n), NEW k \in 0 .. n
  PROVE  s[k] = IF k = 0 THEN 0 ELSE s[k - 1] + f[k]
BY Zenon DEF Sums

LEMMA SumsExist ==
  ASSUME NEW f, NEW n \in Nat, \A i \in 1 .. n : f[i] \in Nat
  PROVE  \E s \in [0 .. n -> Nat] : Sums(s, f, n)
<1> DEFINE Has(m) == \E s \in [0 .. m -> Nat] : Sums(s, f, m)
           Bad == {m \in 0 .. n : ~ Has(m)}
<1> HIDE DEF Has
<1>1. SUFFICES ASSUME Bad # {} PROVE FALSE
  BY DEF Has
<1>2. PICK m \in Bad : \A j \in Bad : m <= j
  <2>1. Bad \in SUBSET Nat
    OBVIOUS
  <2> QED
    BY <1>1, <2>1, LeastElement
<1>3. CASE m = 0
  <2>1. [k \in 0 .. 0 |-> 0] \in [0 .. m -> Nat] /\ Sums([k \in 0 .. 0 |-> 0], f, m)
    BY <1>3 DEF Sums
  <2> QED
    BY <1>2, <2>1 DEF Has
<1>4. CASE m > 0
  <2>1. m - 1 \in 0 .. n /\ m - 1 \notin Bad
    BY <1>2, <1>4
  <2>2. PICK s \in [0 .. m - 1 -> Nat] : Sums(s, f, m - 1)
    BY <2>1 DEF Has
  <2> DEFINE t == [k \in 0 .. m |-> IF k = m THEN s[m - 1] + f[m] ELSE s[k]]
  <2>3. t \in [0 .. m -> Nat]
    BY <1>2, <1>4
  <2>4. \A k \in 0 .. m - 1 : s[k] = IF k = 0 THEN 0 ELSE s[k - 1] + f[k]
    BY <2>2 DEF Sums
  <2>5. \A k \in 0 .. m : t[k] = IF k = 0 THEN 0 ELSE t[k - 1] + f[k]
    BY <2>4, <1>4
  <2>6. Sums(t, f, m)
    BY <2>3, <2>5, Zenon DEF Sums
  <2> QED
    BY <1>2, <2>3, <2>6 DEF Has
<1> QED
  BY <1>2, <1>3, <1>4

LEMMA SumsUnique ==
  ASSUME NEW f, NEW m \in Nat, NEW n \in Nat, m <= n, NEW s, Sums(s, f, m), NEW t, Sums(t, f, n)
  PROVE  \A k \in 0 .. m : s[k] = t[k]
<1> DEFINE Bad == {k \in 0 .. m : s[k] # t[k]}
<1>1. SUFFICES ASSUME Bad # {} PROVE FALSE
  OBVIOUS
<1>2. PICK k \in Bad : \A j \in Bad : k <= j
  <2>1. Bad \in SUBSET Nat
    OBVIOUS
  <2> QED
    BY <1>1, <2>1, LeastElement
<1>3. /\ s[k] = IF k = 0 THEN 0 ELSE s[k - 1] + f[k]
      /\ t[k] = IF k = 0 THEN 0 ELSE t[k - 1] + f[k]
  BY SumsAt
<1>4. CASE k = 0
  BY <1>2, <1>3, <1>4
<1>5. CASE k > 0
  BY <1>2, <1>5, <1>3
<1> QED
  BY <1>2, <1>4, <1>5

LEMMA SumIs ==
  ASSUME NEW f, NEW n \in Nat, \A i \in 1 .. n : f[i] \in Nat
  PROVE  \A m \in Nat : \A s : m >= n /\ Sums(s, f, m) => SumTo(f, n) = s[n]
<1>1. SUFFICES ASSUME NEW m \in Nat, NEW s, m >= n, Sums(s, f, m) PROVE SumTo(f, n) = s[n]
  OBVIOUS
<1> DEFINE t == CHOOSE t : Sums(t, f, n)
<1>2. Sums(t, f, n)
  BY SumsExist
<1>3. SumTo(f, n) = t[n]
  BY DEF SumTo, Sums
<1> HIDE DEF t
<1>4. t[n] = s[n]
  BY <1>1, <1>2, SumsUnique
<1> QED
  BY <1>3, <1>4

LEMMA SumStep ==
  ASSUME NEW f, NEW n \in Nat, \A i \in 1 .. n : f[i] \in Nat
  PROVE  /\ SumTo(f, n) \in Nat
         /\ SumTo(f, n) = IF n = 0 THEN 0 ELSE SumTo(f, n - 1) + f[n]
<1>1. PICK s \in [0 .. n -> Nat] : Sums(s, f, n)
  BY SumsExist
<1>2. SumTo(f, n) = s[n]
  BY <1>1, SumIs
<1>3. n > 0 => SumTo(f, n - 1) = s[n - 1]
  BY <1>1, SumIs
<1>4. s[n] = IF n = 0 THEN 0 ELSE s[n - 1] + f[n]
  BY <1>1, SumsAt
<1> QED
  BY <1>1, <1>2, <1>3, <1>4

\* A sum is that of the first numbers and that of the rest.
LEMMA SumRest ==
  ASSUME NEW g, NEW h, NEW m \in Nat, NEW n \in Nat,
         NEW all \in Nat, m + n <= all, all <= m + n,
         \A i \in 1 .. all : h[i] \in Nat,
         \A i \in 1 .. n : h[m + i] = g[i]
  PROVE  SumTo(h, all) = SumTo(h, m) + SumTo(g, n)
<1> DEFINE Bad == {j \in 0 .. n : SumTo(h, m + j) # SumTo(h, m) + SumTo(g, j)}
<1>1. /\ all = m + n
      /\ \A i \in 1 .. m : h[i] \in Nat
      /\ \A i \in 1 .. n : g[i] \in Nat
  OBVIOUS
<1>2. ASSUME Bad # {} PROVE FALSE
  <2>1. PICK j \in Bad : \A k \in Bad : j <= k
    <3>1. Bad \in SUBSET Nat
      OBVIOUS
    <3> QED
      BY <1>2, <3>1, LeastElement
  <2>2. CASE j = 0
    BY <1>1, <2>2, SumStep
  <2>3. CASE j > 0
    BY <1>1, <2>1, <2>3, SumStep
  <2> QED
    BY <2>2, <2>3
<1> QED
  BY <1>1, <1>2

\* Sums compare as their terms do.
LEMMA SumCombine ==
  ASSUME NEW f, NEW g, NEW h, NEW n \in Nat,
         \A i \in 1 .. n : f[i] \in Nat /\ g[i] \in Nat /\ h[i] \in Nat /\ f[i] + g[i] <= h[i]
  PROVE  SumTo(f, n) + SumTo(g, n) <= SumTo(h, n)
<1> DEFINE Bad == {j \in 0 .. n : ~ (SumTo(f, j) + SumTo(g, j) <= SumTo(h, j))}
<1>1. SUFFICES ASSUME Bad # {} PROVE FALSE
  OBVIOUS
<1>2. PICK j \in Bad : \A k \in Bad : j <= k
  <2>1. Bad \in SUBSET Nat
    OBVIOUS
  <2> QED
    BY <1>1, <2>1, LeastElement
<1>3. /\ SumTo(f, j) = IF j = 0 THEN 0 ELSE SumTo(f, j - 1) + f[j]
      /\ SumTo(g, j) = IF j = 0 THEN 0 ELSE SumTo(g, j - 1) + g[j]
      /\ SumTo(h, j) = IF j = 0 THEN 0 ELSE SumTo(h, j - 1) + h[j]
  BY SumStep
<1>4. CASE j = 0
  BY <1>3, <1>4
<1>5. CASE j > 0
  BY <1>2, <1>5, SumStep, <1>3
<1> QED
  BY <1>4, <1>5

LEMMA SumLeq ==
  ASSUME NEW f, NEW h, NEW n \in Nat,
         \A i \in 1 .. n : f[i] \in Nat /\ h[i] \in Nat /\ f[i] <= h[i]
  PROVE  SumTo(f, n) <= SumTo(h, n)
<1> DEFINE z == [i \in 1 .. n |-> 0]
<1>0. \A i \in 1 .. n : z[i] = 0
  OBVIOUS
<1> HIDE DEF z
<1>1. SumTo(f, n) + SumTo(z, n) <= SumTo(h, n)
  BY <1>0, SumCombine
<1>2. SumTo(f, n) \in Nat /\ SumTo(h, n) \in Nat /\ SumTo(z, n) \in Nat
  BY <1>0, SumStep
<1> QED
  BY <1>1, <1>2

LEMMA SumSame ==
  ASSUME NEW f, NEW h, NEW n \in Nat, \A i \in 1 .. n : f[i] \in Nat /\ f[i] = h[i]
  PROVE  SumTo(f, n) = SumTo(h, n)
BY SumLeq, SumStep

LEMMA SumZero ==
  ASSUME NEW f, NEW n \in Nat, \A i \in 1 .. n : f[i] = 0
  PROVE  SumTo(f, n) = 0
BY SumCombine, SumStep

LEMMA SumOne ==
  ASSUME NEW f, NEW n \in Nat, NEW k \in Nat \ {0}, k <= n => f[k] \in Nat,
         \A i \in 1 .. n : i # k => f[i] = 0
  PROVE  SumTo(f, n) = IF k <= n THEN f[k] ELSE 0
<1>1. CASE ~ (k <= n)
  BY <1>1, SumZero
<1>2. CASE k <= n
  <2> DEFINE z == [j \in 1 .. n - k |-> 0]
  <2>1. \A i \in 1 .. n - k : z[i] = 0
    OBVIOUS
  <2>2. \A i \in 1 .. n : f[i] \in Nat
    BY <1>2
  <2>3. n - k \in Nat /\ \A i \in 1 .. n - k : f[k + i] = z[i]
    BY <1>2, <2>1
  <2> HIDE DEF z
  <2>4. SumTo(f, k) = SumTo(f, k - 1) + f[k] /\ SumTo(f, k - 1) = 0
    BY <1>2, <2>2, SumStep, SumZero
  <2>5. SumTo(f, n) = SumTo(f, k) + SumTo(z, n - k)
    BY <1>2, <2>2, <2>3, SumRest, Z3
  <2>6. SumTo(z, n - k) = 0
    BY <2>1, <2>3, SumZero
  <2> QED
    BY <1>2, <2>4, <2>5, <2>6
<1> QED
  BY <1>1, <1>2

-----------------------------------------------------------------------------
(* The items of a page.                                                    *)

LEMMA ItemLens ==
  ASSUME NEW items \in Seq(Item)
  PROVE  \A k \in 1 .. Len(items) : items[k].len \in Nat /\ items[k].len <= PageSize
<1>1. SUFFICES ASSUME NEW k \in 1 .. Len(items)
               PROVE  items[k].len \in Nat /\ items[k].len <= PageSize
  OBVIOUS
<1>2. items[k] \in Item
  OBVIOUS
<1>3. items[k].len \in 1 .. PageSize
  BY <1>2 DEF Item
<1>. QED
  BY <1>3, ItemsAssumption

LEMMA TotalNat ==
  ASSUME NEW items \in Seq(Item)
  PROVE  Total(items) \in Nat
<1> DEFINE f == [k \in DOMAIN items |-> items[k].len]
<1>1. \A i \in 1 .. Len(items) : f[i] \in Nat
  BY ItemLens
<1> HIDE DEF f
<1>2. SumTo(f, Len(items)) \in Nat
  BY <1>1, SumStep
<1> QED
  BY <1>2 DEF f, Total

LEMMA LostNat ==
  ASSUME NEW items \in Seq(Item), NEW a, NEW n \in 0 .. Len(items)
  PROVE  LostIn(items, a, n) \in Nat
<1> DEFINE f == [k \in DOMAIN items |->
                   IF a <= k /\ items[k].id = Nothing THEN items[k].len ELSE 0]
<1>1. \A i \in 1 .. n : f[i] \in Nat
  BY ItemLens
<1> HIDE DEF f
<1>2. SumTo(f, n) \in Nat
  BY <1>1, SumStep
<1> QED
  BY <1>2 DEF f, LostIn

\* writeItem adds the length of the item.
LEMMA TotalAppend ==
  ASSUME NEW items \in Seq(Item), NEW item \in Item
  PROVE  Total(Append(items, item)) = Total(items) + item.len
<1> DEFINE f == [k \in DOMAIN items |-> items[k].len]
           new == Append(items, item)
           h == [k \in DOMAIN new |-> new[k].len]
<1>1. /\ \A i \in 1 .. Len(items) + 1 : h[i] \in Nat
      /\ \A i \in 1 .. Len(items) : f[i] \in Nat /\ f[i] = h[i]
      /\ h[Len(items) + 1] = item.len
  <2>1. /\ new \in Seq(Item) /\ Len(new) = Len(items) + 1
        /\ \A i \in 1 .. Len(items) : new[i] = items[i]
        /\ new[Len(items) + 1] = item
    OBVIOUS
  <2> HIDE DEF new
  <2> QED
    BY <2>1, ItemLens
<1>2. Len(new) = Len(items) + 1
  OBVIOUS
<1> HIDE DEF f, h
<1>3. SumTo(h, Len(items) + 1) = SumTo(h, (Len(items) + 1) - 1) + h[Len(items) + 1]
  BY <1>1, SumStep
<1>4. SumTo(h, Len(items)) = SumTo(f, Len(items))
  BY <1>1, SumSame
<1>5. SumTo(h, Len(new)) = SumTo(f, Len(items)) + item.len
  BY <1>1, <1>2, <1>3, <1>4
<1> QED
  BY <1>5 DEF f, h, Total

LEMMA LostAppend ==
  ASSUME NEW items \in Seq(Item), NEW item \in Item, item.id # Nothing
  PROVE  Lost(Append(items, item)) = Lost(items)
<1> DEFINE f == [k \in DOMAIN items |->
                   IF 1 <= k /\ items[k].id = Nothing THEN items[k].len ELSE 0]
           new == Append(items, item)
           h == [k \in DOMAIN new |->
                   IF 1 <= k /\ new[k].id = Nothing THEN new[k].len ELSE 0]
<1>1. /\ \A i \in 1 .. Len(items) + 1 : h[i] \in Nat
      /\ \A i \in 1 .. Len(items) : f[i] \in Nat /\ f[i] = h[i]
      /\ h[Len(items) + 1] = 0
  BY ItemLens
<1>2. Len(new) = Len(items) + 1
  OBVIOUS
<1> HIDE DEF f, h
<1>3. SumTo(h, Len(items) + 1) = SumTo(h, (Len(items) + 1) - 1) + h[Len(items) + 1]
  BY <1>1, SumStep
<1>4. SumTo(h, Len(items)) = SumTo(f, Len(items)) /\ SumTo(h, Len(items)) \in Nat
  BY <1>1, SumSame, SumStep
<1>5. SumTo(h, Len(new)) = SumTo(f, Len(items))
  BY <1>1, <1>2, <1>3, <1>4
<1> QED
  BY <1>5 DEF f, h, Lost, LostIn

\* Items of the same lengths take the same room.
LEMMA TotalSame ==
  ASSUME NEW items \in Seq(Item), NEW new \in Seq(Item), Len(new) = Len(items),
         \A k \in 1 .. Len(items) : new[k].len = items[k].len
  PROVE  Total(new) = Total(items)
<1> DEFINE f == [k \in DOMAIN items |-> items[k].len]
           h == [k \in DOMAIN new |-> new[k].len]
<1>1. \A i \in 1 .. Len(items) : f[i] \in Nat /\ f[i] = h[i]
  BY ItemLens
<1> HIDE DEF f, h
<1>2. SumTo(f, Len(items)) = SumTo(h, Len(items))
  BY <1>1, SumSame
<1> QED
  BY <1>2 DEF f, h, Total

LEMMA LostSame ==
  ASSUME NEW items \in Seq(Item), NEW new \in Seq(Item), Len(new) = Len(items),
         \A k \in 1 .. Len(items) :
           /\ new[k].len = items[k].len
           /\ new[k].id = Nothing <=> items[k].id = Nothing,
         NEW a, NEW n \in 0 .. Len(items)
  PROVE  LostIn(new, a, n) = LostIn(items, a, n)
<1> DEFINE f == [k \in DOMAIN items |->
                   IF a <= k /\ items[k].id = Nothing THEN items[k].len ELSE 0]
           h == [k \in DOMAIN new |->
                   IF a <= k /\ new[k].id = Nothing THEN new[k].len ELSE 0]
<1>1. \A i \in 1 .. n : f[i] \in Nat /\ f[i] = h[i]
  BY ItemLens
<1> HIDE DEF f, h
<1>2. SumTo(f, n) = SumTo(h, n)
  BY <1>1, SumSame
<1> QED
  BY <1>2 DEF f, h, LostIn

\* Zeroing an item loses its room.
LEMMA LostZeroed ==
  ASSUME NEW items \in Seq(Item), NEW k \in 1 .. Len(items), items[k].id # Nothing,
         NEW new \in Seq(Item), Len(new) = Len(items),
         \A j \in 1 .. Len(items) : j # k => new[j] = items[j],
         new[k] = Zeroed(items[k]),
         NEW n \in 0 .. Len(items)
  PROVE  LostIn(new, 1, n) = LostIn(items, 1, n) + IF k <= n THEN items[k].len ELSE 0
<1> DEFINE F(l) == [j \in DOMAIN l |->
                      IF 1 <= j /\ l[j].id = Nothing THEN l[j].len ELSE 0]
           f == F(items)
           h == F(new)
           z == [j \in 1 .. Len(items) |-> IF j = k THEN items[k].len ELSE 0]
<1>1. \A i \in 1 .. Len(items) : /\ f[i] \in Nat /\ h[i] \in Nat /\ z[i] \in Nat
                                 /\ h[i] = f[i] + z[i]
                                 /\ i # k => z[i] = 0
                                 /\ i = k => z[i] = items[k].len
  BY ItemLens DEF Zeroed
<1> HIDE DEF f, h, z
<1>4. SumTo(z, n) = IF k <= n THEN items[k].len ELSE 0
  <2>1. n \in Nat /\ k \in Nat \ {0} /\ (k <= n => z[k] \in Nat)
    BY <1>1
  <2>2. \A i \in 1 .. n : i # k => z[i] = 0
    BY <1>1
  <2>. QED
    BY <1>1, <2>1, <2>2, SumOne
<1>5. SumTo(f, n) + SumTo(z, n) = SumTo(h, n)
  <2> DEFINE Off == {j \in 0 .. n : SumTo(f, j) + SumTo(z, j) # SumTo(h, j)}
  <2>1. SUFFICES ASSUME Off # {} PROVE FALSE
    OBVIOUS
  <2>2. PICK j \in Off : \A i \in Off : j <= i
    <3>1. Off \in SUBSET Nat
      OBVIOUS
    <3> QED
      BY <2>1, <3>1, LeastElement
  <2>3. /\ SumTo(f, j) = IF j = 0 THEN 0 ELSE SumTo(f, j - 1) + f[j]
        /\ SumTo(z, j) = IF j = 0 THEN 0 ELSE SumTo(z, j - 1) + z[j]
        /\ SumTo(h, j) = IF j = 0 THEN 0 ELSE SumTo(h, j - 1) + h[j]
    BY <1>1, SumStep
  <2>4. CASE j = 0
    BY <2>3, <2>4
  <2>5. CASE j > 0
    <3>1. j - 1 \in 0 .. n /\ j - 1 \notin Off
      BY <2>2, <2>5
    <3>2. SumTo(f, j - 1) \in Nat /\ SumTo(z, j - 1) \in Nat /\ SumTo(h, j - 1) \in Nat
      BY <1>1, <2>5, SumStep
    <3> QED
      BY <1>1, <2>3, <2>5, <3>1, <3>2
  <2> QED
    BY <2>4, <2>5
<1>6. SumTo(f, n) \in Nat
  BY <1>1, SumStep
<1> QED
  BY <1>4, <1>5, <1>6 DEF f, h, LostIn

\* initPage adds up piece by piece.
LEMMA LostPieces ==
  ASSUME NEW items \in Seq(Item), NEW m \in 0 .. Len(items), NEW b \in m .. Len(items)
  PROVE  LostIn(items, 1, m) + LostIn(items, m + 1, b) <= LostIn(items, 1, b)
<1> DEFINE f == [k \in DOMAIN items |->
                   IF 1 <= k /\ items[k].id = Nothing THEN items[k].len ELSE 0]
           g == [k \in DOMAIN items |->
                   IF m + 1 <= k /\ items[k].id = Nothing THEN items[k].len ELSE 0]
           z == [k \in 1 .. b |-> IF k <= m THEN f[k] ELSE 0]
           x == [k \in 1 .. b |-> z[m + k]]
<1>1. \A i \in 1 .. b : /\ f[i] \in Nat /\ g[i] \in Nat /\ z[i] \in Nat
                        /\ z[i] + g[i] <= f[i]
                        /\ i <= m => z[i] = f[i]
  BY ItemLens
<1>2. \A i \in 1 .. b - m : x[i] \in Nat /\ x[i] = z[m + i]
  BY ItemLens
<1> HIDE DEF f, g, z, x
<1>3. SumTo(z, b) + SumTo(g, b) <= SumTo(f, b)
  <2>1. b \in Nat
    OBVIOUS
  <2> QED
    BY <1>1, <2>1, SumCombine, Z3
<1>4. SumTo(z, m) = SumTo(f, m)
  BY <1>1, SumSame
<1>5. SumTo(z, b) = SumTo(z, m) + SumTo(x, b - m)
  <2>1. \A i \in 1 .. b : z[i] \in Nat
    BY <1>1
  <2>2. m \in Nat /\ b - m \in Nat /\ b \in Nat
    OBVIOUS
  <2> QED
    BY <1>2, <2>1, <2>2, SumRest, Z3
<1>6. SumTo(x, b - m) \in Nat /\ SumTo(f, m) \in Nat /\ SumTo(g, b) \in Nat
      /\ SumTo(z, b) \in Nat /\ SumTo(f, b) \in Nat
  BY <1>1, <1>2, SumStep
<1> QED
  BY <1>3, <1>4, <1>5, <1>6 DEF f, g, LostIn

\* The items a compaction copies are not among those that are lost.
LEMMA CopiesFit ==
  ASSUME NEW items \in Seq(Item), NEW skip
  PROVE  /\ CopyRoom(items, 1, skip) \in Nat
         /\ CopyRoom(items, 1, skip) + Lost(items) <= Total(items)
<1> DEFINE f == [j \in DOMAIN items |->
                   IF 1 <= j /\ Goes(items[j], skip) THEN items[j].len ELSE 0]
           g == [k \in DOMAIN items |->
                   IF 1 <= k /\ items[k].id = Nothing THEN items[k].len ELSE 0]
           h == [k \in DOMAIN items |-> items[k].len]
<1>1. \A i \in 1 .. Len(items) : /\ f[i] \in Nat /\ g[i] \in Nat /\ h[i] \in Nat
                                 /\ f[i] + g[i] <= h[i]
  BY ItemLens DEF Goes
<1> HIDE DEF f, g, h
<1>2. SumTo(f, Len(items)) + SumTo(g, Len(items)) <= SumTo(h, Len(items))
  BY <1>1, SumCombine
<1>3. SumTo(f, Len(items)) \in Nat
  BY <1>1, SumStep
<1> QED
  BY <1>2, <1>3 DEF f, g, h, CopyRoom, Lost, LostIn, Total

-----------------------------------------------------------------------------
(* Flash operations and plans.                                             *)

LEMMA OpFields ==
  ASSUME NEW op \in Ops
  PROVE  /\ op.pg \in Pages
         /\ op.op \in {"mark", "zero"} => op.k \in Nat \ {0}
         /\ op.op = "head" => op.id \in Ids /\ op.copy \in BOOLEAN
         /\ op.op = "seal" => op.val \in Values \cup {Blank} /\ op.copy \in BOOLEAN
         /\ op.op = "copy" => /\ op.k \in Nat \ {0} /\ op.to \in Pages
                              /\ op.skip \in Ids \cup {Nothing}
BY DEF Ops

LEMMA OpsTyped ==
  /\ \A p \in Pages : /\ Op("xfer", p) \in Seq(Ops) /\ Op("use", p) \in Seq(Ops)
                      /\ Op("erase", p) \in Seq(Ops)
  /\ \A p \in Pages, k \in Nat \ {0} : /\ ItemOp("mark", <<p, k>>) \in Seq(Ops)
                                       /\ ItemOp("zero", <<p, k>>) \in Seq(Ops)
  /\ \A p \in Pages, id \in Ids, copy \in BOOLEAN : WriteItem(p, id, copy) \in Seq(Ops)
  /\ \A p \in Pages, v \in Values \cup {Blank}, copy \in BOOLEAN :
       Seal(p, v, copy) \in Seq(Ops)
  /\ \A p, to \in Pages, k \in Nat \ {0}, skip \in Ids \cup {Nothing} :
       Copies(p, k, to, skip) \in Seq(Ops)
  /\ <<>> \in Seq(Ops)
BY DEF Ops, Op, ItemOp, WriteItem, Seal, Copies

LEMMA SetOfOne == \A x : ToSet(<<x>>) = {x} /\ ToSet(<<>>) = {}
BY DEF ToSet

LEMMA SetOfConcat ==
  ASSUME NEW S, NEW s \in Seq(S), NEW t \in Seq(S)
  PROVE  ToSet(s \o t) = ToSet(s) \cup ToSet(t)
<1>1. /\ DOMAIN s = 1 .. Len(s) /\ DOMAIN t = 1 .. Len(t) /\ Len(s) \in Nat /\ Len(t) \in Nat
      /\ DOMAIN (s \o t) = 1 .. Len(s) + Len(t)
      /\ \A i \in 1 .. Len(s) + Len(t) :
           (s \o t)[i] = IF i <= Len(s) THEN s[i] ELSE t[i - Len(s)]
  BY ConcatProperties
<1>2. ASSUME NEW x \in ToSet(s \o t) PROVE x \in ToSet(s) \cup ToSet(t)
  <2>1. PICK i \in 1 .. Len(s) + Len(t) : x = (s \o t)[i]
    BY <1>1 DEF ToSet
  <2>2. CASE i <= Len(s)
    BY <1>1, <2>1, <2>2 DEF ToSet
  <2>3. CASE ~ (i <= Len(s))
    BY <1>1, <2>3, <2>1 DEF ToSet
  <2> QED
    BY <2>2, <2>3
<1>3. ASSUME NEW x \in ToSet(s) PROVE x \in ToSet(s \o t)
  <2>1. PICK i \in 1 .. Len(s) : x = s[i]
    BY <1>1 DEF ToSet
  <2>2. i \in 1 .. Len(s) + Len(t) /\ (s \o t)[i] = x
    BY <1>1, <2>1
  <2> QED
    BY <1>1, <2>2 DEF ToSet
<1>4. ASSUME NEW x \in ToSet(t) PROVE x \in ToSet(s \o t)
  <2>1. PICK i \in 1 .. Len(t) : x = t[i]
    BY <1>1 DEF ToSet
  <2>2. Len(s) + i \in 1 .. Len(s) + Len(t) /\ ~ (Len(s) + i <= Len(s))
        /\ (Len(s) + i) - Len(s) = i
    BY <1>1
  <2>3. (s \o t)[Len(s) + i] = x
    BY <1>1, <2>1, <2>2
  <2> QED
    BY <1>1, <2>2, <2>3 DEF ToSet
<1> QED
  BY <1>2, <1>3, <1>4

LEMMA SetOfTail ==
  ASSUME NEW S, NEW s \in Seq(S), s # <<>>
  PROVE  /\ Head(s) \in S /\ Tail(s) \in Seq(S) /\ Len(s) \in Nat \ {0}
         /\ Head(s) = s[1] /\ Len(Tail(s)) = Len(s) - 1
         /\ \A i \in 1 .. Len(s) - 1 : Tail(s)[i] = s[i + 1]
         /\ Head(s) \in ToSet(s) /\ ToSet(Tail(s)) \subseteq ToSet(s)
         /\ ToSet(s) \subseteq S
<1>1. /\ Head(s) \in S /\ Tail(s) \in Seq(S) /\ Len(s) \in Nat \ {0}
      /\ Head(s) = s[1] /\ Len(Tail(s)) = Len(s) - 1
      /\ \A i \in 1 .. Len(s) - 1 : Tail(s)[i] = s[i + 1]
  BY EmptySeq, HeadTailProperties
<1>2. ToSet(Tail(s)) \subseteq ToSet(s)
  BY <1>1 DEF ToSet
<1>3. Head(s) \in ToSet(s) /\ ToSet(s) \subseteq S
  BY <1>1 DEF ToSet
<1> QED
  BY <1>1, <1>2, <1>3

LEMMA CopyRoomNat ==
  ASSUME NEW items \in Seq(Item), NEW k, NEW skip
  PROVE  CopyRoom(items, k, skip) \in Nat
<1> DEFINE f == [j \in DOMAIN items |->
                   IF k <= j /\ Goes(items[j], skip) THEN items[j].len ELSE 0]
<1>1. \A i \in 1 .. Len(items) : f[i] \in Nat
  BY ItemLens
<1> HIDE DEF f
<1>2. SumTo(f, Len(items)) \in Nat
  BY <1>1, SumStep
<1> QED
  BY <1>2 DEF f, CopyRoom

LEMMA RoomNat ==
  ASSUME NEW fl \in Flashes, NEW op \in Ops, NEW p \in Pages
  PROVE  Room(fl, op, p) \in Nat
BY OpFields, ItemsAssumption, CopyRoomNat DEF Flashes, Room

LEMMA PlannedNat ==
  ASSUME NEW fl \in Flashes, NEW ops \in Seq(Ops), NEW p \in Pages
  PROVE  Planned(fl, ops, p) \in Nat
<1> DEFINE f == [i \in DOMAIN ops |-> Room(fl, ops[i], p)]
<1>1. \A i \in 1 .. Len(ops) : f[i] \in Nat
  BY RoomNat
<1> HIDE DEF f
<1>2. SumTo(f, Len(ops)) \in Nat
  BY <1>1, SumStep
<1> QED
  BY <1>2 DEF f, Planned

\* SumRest for all numbers at once.
\* The numbers f, all of them, are the first m and then the n numbers g.
Joins(f, all, m, g, n) ==
  /\ m \in Nat /\ n \in Nat /\ all \in Nat /\ m + n <= all /\ all <= m + n
  /\ \A i \in 1 .. all : f[i] \in Nat
  /\ \A i \in 1 .. n : f[m + i] = g[i]

LEMMA SumsRest ==
  \A f, g, m, n, all :
    Joins(f, all, m, g, n) => SumTo(f, all) = SumTo(f, m) + SumTo(g, n)
BY SumRest DEF Joins

LEMMA PlannedConcat ==
  ASSUME NEW fl \in Flashes, NEW p \in Pages,
         NEW a, NEW b, a \in Seq(Ops), b \in Seq(Ops)
  PROVE  Planned(fl, a \o b, p) = Planned(fl, a, p) + Planned(fl, b, p)
<1> DEFINE left == [i \in DOMAIN a |-> Room(fl, a[i], p)]
           right == [i \in DOMAIN b |-> Room(fl, b[i], p)]
           both == [i \in DOMAIN (a \o b) |-> Room(fl, (a \o b)[i], p)]
<1>1. /\ a \o b \in Seq(Ops) /\ Len(a \o b) = Len(a) + Len(b)
      /\ Len(a) \in Nat /\ Len(b) \in Nat
      /\ \A i \in 1 .. Len(a) + Len(b) :
           (a \o b)[i] = IF i <= Len(a) THEN a[i] ELSE b[i - Len(a)]
  BY ConcatProperties
<1>2. \A i \in 1 .. Len(a \o b) : both[i] \in Nat
  BY <1>1, RoomNat
<1>3. \A i \in 1 .. Len(a) : both[i] = left[i] /\ left[i] \in Nat
  BY <1>1, RoomNat
<1>4. ASSUME NEW i \in 1 .. Len(b) PROVE both[Len(a) + i] = right[i]
  BY <1>1
<1> DEFINE x == Len(a)
           y == Len(b)
           z == Len(a \o b)
<1>5. Joins(both, z, x, right, y)
  BY <1>1, <1>2, <1>4 DEF Joins
<1> HIDE DEF left, right, both, x, y, z
<1>6. SumTo(both, z) = SumTo(both, x) + SumTo(right, y)
  BY ONLY <1>5, SumsRest
<1> USE DEF x, y, z
<1>7. SumTo(both, Len(a)) = SumTo(left, Len(a))
  BY <1>1, <1>3, SumSame
<1> QED
  BY <1>6, <1>7 DEF left, right, both, Planned

LEMMA PlannedOne ==
  ASSUME NEW fl \in Flashes, NEW op \in Ops, NEW p \in Pages
  PROVE  Planned(fl, <<op>>, p) = Room(fl, op, p) /\ Planned(fl, <<>>, p) = 0
<1> DEFINE f == [i \in DOMAIN <<op>> |-> Room(fl, <<op>>[i], p)]
           g == [i \in DOMAIN <<>> |-> Room(fl, <<>>[i], p)]
<1>1. f[1] = Room(fl, op, p) /\ f[1] \in Nat
  BY RoomNat
<1>2. Len(<<op>>) = 1 /\ Len(<<>>) = 0
  OBVIOUS
<1> HIDE DEF f, g
<1>3. SumTo(f, 1) = f[1] /\ SumTo(g, 0) = 0
  BY <1>1, SumStep
<1> QED
  BY <1>1, <1>2, <1>3 DEF f, g, Planned

LEMMA PlannedLeq ==
  ASSUME NEW fl \in Flashes, NEW new \in Flashes, NEW ops \in Seq(Ops), NEW p \in Pages,
         \A op \in ToSet(ops) : Room(new, op, p) <= Room(fl, op, p)
  PROVE  Planned(new, ops, p) <= Planned(fl, ops, p)
<1> DEFINE f == [i \in DOMAIN ops |-> Room(fl, ops[i], p)]
           h == [i \in DOMAIN ops |-> Room(new, ops[i], p)]
<1>1. \A i \in 1 .. Len(ops) : f[i] \in Nat /\ h[i] \in Nat /\ h[i] <= f[i]
  BY RoomNat DEF ToSet
<1> HIDE DEF f, h
<1>2. SumTo(h, Len(ops)) <= SumTo(f, Len(ops))
  BY <1>1, SumLeq
<1> QED
  BY <1>2 DEF f, h, Planned

\* What is left of a plan once its first operation is done.
LEMMA PlannedTail ==
  ASSUME NEW fl \in Flashes, NEW ops \in Seq(Ops), ops # <<>>, NEW p \in Pages
  PROVE  Planned(fl, ops, p) = Room(fl, Head(ops), p) + Planned(fl, Tail(ops), p)
<1>1. Head(ops) \in Ops /\ Tail(ops) \in Seq(Ops) /\ <<Head(ops)>> \in Seq(Ops)
  BY SetOfTail
<1>2. ops = <<Head(ops)>> \o Tail(ops)
  OBVIOUS
<1>3. Planned(fl, <<Head(ops)>> \o Tail(ops), p)
        = Planned(fl, <<Head(ops)>>, p) + Planned(fl, Tail(ops), p)
  BY <1>1, PlannedConcat
<1>4. Planned(fl, <<Head(ops)>>, p) = Room(fl, Head(ops), p)
  BY <1>1, PlannedOne
<1> QED
  BY <1>2, <1>3, <1>4

-----------------------------------------------------------------------------
(* Changes to the items of a page.                                         *)

LEMMA ItemChanged ==
  ASSUME NEW items \in Seq(Item), NEW k, NEW x \in Item
  PROVE  /\ [items EXCEPT ![k] = x] \in Seq(Item)
         /\ Len([items EXCEPT ![k] = x]) = Len(items)
         /\ \A j \in 1 .. Len(items) :
              [items EXCEPT ![k] = x][j] = IF j = k THEN x ELSE items[j]
<1> DEFINE new == [items EXCEPT ![k] = x]
<1>1. Len(items) \in Nat /\ DOMAIN items = 1 .. Len(items) /\ DOMAIN new = 1 .. Len(items)
  OBVIOUS
<1>2. \A j \in 1 .. Len(items) : new[j] = (IF j = k THEN x ELSE items[j]) /\ items[j] \in Item
  OBVIOUS
<1>3. new = [j \in 1 .. Len(items) |-> IF j = k THEN x ELSE items[j]]
  BY <1>1, <1>2
<1>4. \A j \in 1 .. Len(items) : (IF j = k THEN x ELSE items[j]) \in Item
  BY <1>2
<1>5. new \in Seq(Item) /\ Len(new) = Len(items)
  <2>1. new \in [1 .. Len(items) -> Item]
    BY <1>3, <1>4
  <2> QED
    BY <1>1, <2>1
<1> QED
  BY <1>2, <1>5

\* What has become of items: the same with fewer of them to be copied.
Fewer(new, items) ==
  /\ Len(new) = Len(items)
  /\ \A k \in 1 .. Len(items) :
       /\ new[k].len = items[k].len
       /\ \A skip : Goes(new[k], skip) => Goes(items[k], skip)

LEMMA CopyRoomFewer ==
  ASSUME NEW items \in Seq(Item), NEW new \in Seq(Item), Fewer(new, items), NEW k, NEW skip
  PROVE  CopyRoom(new, k, skip) <= CopyRoom(items, k, skip)
<1> DEFINE f == [j \in DOMAIN new |->
                   IF k <= j /\ Goes(new[j], skip) THEN new[j].len ELSE 0]
           h == [j \in DOMAIN items |->
                   IF k <= j /\ Goes(items[j], skip) THEN items[j].len ELSE 0]
<1>1. Len(new) = Len(items) /\ Len(items) \in Nat
  BY DEF Fewer
<1>2. ASSUME NEW i \in 1 .. Len(items)
      PROVE  f[i] \in Nat /\ h[i] \in Nat /\ f[i] <= h[i]
  <2>1. /\ new[i].len = items[i].len /\ items[i].len \in Nat
        /\ Goes(new[i], skip) => Goes(items[i], skip)
    BY ItemLens DEF Fewer
  <2>2. CASE k <= i
    BY <1>1, <2>1, <2>2
  <2>3. CASE ~ (k <= i)
    BY <1>1, <2>1, <2>3
  <2> QED
    BY <2>2, <2>3
<1> HIDE DEF f, h
<1>3. SumTo(f, Len(items)) <= SumTo(h, Len(items))
  BY <1>1, <1>2, SumLeq
<1> QED
  BY <1>1, <1>3 DEF f, h, CopyRoom

LEMMA CopyRoomStep ==
  ASSUME NEW items \in Seq(Item), NEW k \in 1 .. Len(items), NEW skip
  PROVE  /\ CopyRoom(items, k + 1, skip) <= CopyRoom(items, k, skip)
         /\ Goes(items[k], skip) =>
              CopyRoom(items, k + 1, skip) + items[k].len <= CopyRoom(items, k, skip)
<1> DEFINE f == [j \in DOMAIN items |->
                   IF k + 1 <= j /\ Goes(items[j], skip) THEN items[j].len ELSE 0]
           h == [j \in DOMAIN items |->
                   IF k <= j /\ Goes(items[j], skip) THEN items[j].len ELSE 0]
           z == [j \in 1 .. Len(items) |->
                   IF j = k /\ Goes(items[k], skip) THEN items[k].len ELSE 0]
<1>1. \A i \in 1 .. Len(items) :
        /\ f[i] \in Nat /\ h[i] \in Nat /\ z[i] \in Nat /\ f[i] + z[i] <= h[i]
        /\ i # k => z[i] = 0
        /\ i = k => z[i] = IF Goes(items[k], skip) THEN items[k].len ELSE 0
  BY ItemLens
<1>2. Len(items) \in Nat /\ k \in Nat \ {0} /\ k <= Len(items) /\ items[k].len \in Nat
      /\ k \in 1 .. Len(items)
  BY ItemLens
<1> HIDE DEF f, h, z
<1>3. SumTo(f, Len(items)) + SumTo(z, Len(items)) <= SumTo(h, Len(items))
  BY <1>1, <1>2, SumCombine
<1>4. SumTo(z, Len(items)) = z[k]
  BY <1>1, <1>2, SumOne
<1>5. SumTo(f, Len(items)) \in Nat /\ SumTo(h, Len(items)) \in Nat
  BY <1>1, <1>2, SumStep
<1>6. /\ SumTo(f, Len(items)) <= SumTo(h, Len(items))
      /\ Goes(items[k], skip) => SumTo(f, Len(items)) + items[k].len <= SumTo(h, Len(items))
  BY <1>1, <1>2, <1>3, <1>4, <1>5
<1> QED
  BY <1>6 DEF f, h, CopyRoom

LEMMA EmptyPage ==
  /\ Total(<<>>) = 0 /\ Lost(<<>>) = 0
  /\ \A k, skip : CopyRoom(<<>>, k, skip) = 0
BY SumStep DEF Total, Lost, LostIn, CopyRoom

LEMMA LostMore ==
  ASSUME NEW items \in Seq(Item), NEW m \in 0 .. Len(items), NEW n \in m .. Len(items)
  PROVE  LostIn(items, 1, m) <= LostIn(items, 1, n)
BY LostPieces, LostNat

\* Only copies depend on what the flash holds.
LEMMA RoomFrame ==
  ASSUME NEW fl \in Flashes, NEW new \in Flashes, NEW op \in Ops, NEW p \in Pages,
         op.op = "copy" => Fewer(new[op.pg].items, fl[op.pg].items)
  PROVE  Room(new, op, p) <= Room(fl, op, p)
BY OpFields, ItemsAssumption, CopyRoomFewer DEF Flashes, Room

-----------------------------------------------------------------------------
(* Carrying out a plan.                                                    *)

\* What the plan says of the operation that is next.
LEMMA NextOp ==
  ASSUME NvInv, todo # <<>>
  PROVE  /\ Step \in Ops /\ Step \in ToSet(todo) /\ Tail(todo) \in Seq(Ops)
         /\ ToSet(Tail(todo)) \subseteq ToSet(todo) /\ ToSet(todo) \subseteq Ops
         /\ Len(todo) \in Nat \ {0} /\ Len(Tail(todo)) = Len(todo) - 1 /\ Step = todo[1]
         /\ DOMAIN todo = 1 .. Len(todo) /\ DOMAIN Tail(todo) = 1 .. Len(todo) - 1
         /\ \A i \in 1 .. Len(todo) - 1 : Tail(todo)[i] = todo[i + 1]
         /\ pc \in {"recover", "last", "call"}
BY SetOfTail DEF NvInv, Types, TypeOK, PhaseOK, Step

\* Where the flash operations of a call leave what it has planned after them.
LEMMA TailZeroes ==
  ASSUME NvInv, todo # <<>>, NEW i \in 1 .. Len(Tail(todo)), Tail(todo)[i].op = "zero"
  PROVE  /\ Step.op # "zero" /\ i = Len(Tail(todo))
         /\ Tail(todo)[i].pg \in Pages
         /\ Tail(todo)[i].k \in DOMAIN flash[Tail(todo)[i].pg].items
         /\ flash[Tail(todo)[i].pg].items[Tail(todo)[i].k].id # Nothing
         /\ \A op \in ToSet(todo) : op.op = "erase" => op.pg # Tail(todo)[i].pg
<1>1. /\ i + 1 \in DOMAIN todo /\ Tail(todo)[i] = todo[i + 1] /\ 1 \in DOMAIN todo
      /\ Step = todo[1] /\ Len(todo) \in Nat /\ Len(Tail(todo)) = Len(todo) - 1 /\ i \in Nat \ {0}
  BY NextOp
<1>2. todo[i + 1] \in Ops
  BY <1>1 DEF NvInv, Types
<1>3. todo[i + 1].pg \in Pages
  BY <1>2, OpFields
<1>4. /\ i + 1 = Len(todo)
      /\ todo[i + 1].k \in DOMAIN flash[todo[i + 1].pg].items
      /\ flash[todo[i + 1].pg].items[todo[i + 1].k].id # Nothing
      /\ \A op \in ToSet(todo) : op.op = "erase" => op.pg # todo[i + 1].pg
  BY <1>1, Zenon DEF NvInv, ZeroesOK
<1>5. Step.op = "zero" => 1 = Len(todo)
  BY <1>1 DEF NvInv, ZeroesOK
<1>6. Step.op # "zero" /\ i = Len(Tail(todo))
  <2>1. i + 1 = Len(todo) /\ i \in Nat \ {0} /\ Len(Tail(todo)) = Len(todo) - 1
    BY <1>1, <1>4, Zenon
  <2> QED
    BY <1>5, <2>1
<1>7. Tail(todo)[i] = todo[i + 1]
  BY <1>1
<1> QED
  BY ONLY <1>3, <1>4, <1>6, <1>7

\* When the plan is over but for one operation, or one of its tail, a page is to be
\* erased still or is erased.
LEMMA TailToCome ==
  ASSUME NvInv, todo # <<>>, ToCome(todo)
  PROVE  \/ ToCome(Tail(todo))
         \/ Step.op = "erase" /\ \A op \in ToSet(Tail(todo)) : ~ Touches(op, Step.pg)
<1>1. PICK e \in DOMAIN todo : /\ todo[e].op = "erase"
                               /\ \A j \in e + 1 .. Len(todo) : ~ Touches(todo[j], todo[e].pg)
  BY DEF ToCome
<1>2. /\ e \in 1 .. Len(todo) /\ Len(todo) \in Nat /\ Len(Tail(todo)) = Len(todo) - 1
      /\ Step = todo[1]
      /\ DOMAIN Tail(todo) = 1 .. Len(todo) - 1
      /\ \A i \in 1 .. Len(todo) - 1 : Tail(todo)[i] = todo[i + 1]
  BY <1>1, NextOp
<1>3. CASE e = 1
  <2>1. ASSUME NEW op \in ToSet(Tail(todo)) PROVE ~ Touches(op, Step.pg)
    <3>1. PICK i \in 1 .. Len(todo) - 1 : op = Tail(todo)[i]
      BY <1>2, <2>1 DEF ToSet
    <3>2. op = todo[i + 1] /\ i + 1 \in e + 1 .. Len(todo)
      BY <1>2, <1>3, <3>1
    <3> QED
      BY <1>1, <1>2, <1>3, <3>2
  <2> QED
    BY <1>1, <1>2, <1>3, <2>1
<1>4. CASE e > 1
  <2>1. e - 1 \in DOMAIN Tail(todo) /\ Tail(todo)[e - 1] = todo[e]
    BY <1>2, <1>4
  <2>2. ASSUME NEW j \in (e - 1) + 1 .. Len(Tail(todo))
        PROVE  ~ Touches(Tail(todo)[j], todo[e].pg)
    BY <1>2, <1>4, <1>1
  <2> QED
    BY <1>1, <2>1, <2>2 DEF ToCome
<1> QED
  BY <1>2, <1>3, <1>4

\* What is still planned after some operations comes after them.
LEMMA ToComeAfter ==
  ASSUME NEW a \in Seq(Ops), NEW b \in Seq(Ops), ToCome(b)
  PROVE  ToCome(a \o b)
<1>1. PICK e \in DOMAIN b : /\ b[e].op = "erase"
                            /\ \A j \in e + 1 .. Len(b) : ~ Touches(b[j], b[e].pg)
  BY DEF ToCome
<1>2. /\ DOMAIN b = 1 .. Len(b) /\ Len(a) \in Nat /\ Len(b) \in Nat
      /\ DOMAIN (a \o b) = 1 .. Len(a) + Len(b) /\ Len(a \o b) = Len(a) + Len(b)
      /\ \A i \in 1 .. Len(a) + Len(b) :
           (a \o b)[i] = IF i <= Len(a) THEN a[i] ELSE b[i - Len(a)]
  BY ConcatProperties
<1>3. Len(a) + e \in DOMAIN (a \o b) /\ (a \o b)[Len(a) + e] = b[e]
  BY <1>2
<1>4. ASSUME NEW j \in (Len(a) + e) + 1 .. Len(a \o b)
      PROVE  ~ Touches((a \o b)[j], b[e].pg)
  <2>1. /\ j \in 1 .. Len(a) + Len(b) /\ ~ (j <= Len(a)) /\ j - Len(a) \in e + 1 .. Len(b)
    BY <1>2
  <2>2. (a \o b)[j] = b[j - Len(a)]
    BY <1>2, <2>1
  <2> QED
    BY <1>1, <2>1, <2>2
<1> QED
  BY <1>1, <1>3, <1>4 DEF ToCome

LEMMA SetOfPlans == \A a, b \in Seq(Ops) : ToSet(a \o b) = ToSet(a) \cup ToSet(b)
BY SetOfConcat

\* Space found lost and space used are accounted for alike.
LEMMA StillCounted ==
  \A total, off, lost, blown, newTotal, newOff, newLost, newBlown \in Nat :
    /\ blown <= lost + off - total
    /\ newBlown + lost + off + newTotal <= blown + newLost + newOff + total
    => newBlown <= newLost + newOff - newTotal
OBVIOUS

\* An operation that is not an erase is carried out, and replaced by others X if it
\* copies.
LEMMA StepKeeps ==
  ASSUME NvInv, todo # <<>>, Step.op # "erase",
         NEW X \in Seq(Ops), todo' = X \o Tail(todo),
         pgRes' = pgRes, pc' = pc, call' = call, boot' = boot,
         flash' \in Flashes, ItemsSized',
         pgOff' \in [Pages -> Nat], pgLost' \in [Pages -> Nat],
         \A p \in Pages :
           /\ TotalOn(p)' <= PageSize
           /\ TotalOn(p)' + pgOff[p] <= TotalOn(p) + pgOff'[p]
           /\ pgLost'[p] + LostOn(p) + pgOff[p] + TotalOn(p)'
                <= pgLost[p] + LostOn(p)' + pgOff'[p] + TotalOn(p)
           /\ pgOff'[p] + Planned(flash', X, p) <= pgOff[p] + Room(flash, Step, p)
           /\ ~ Touches(Step, p) => flash'[p] = flash[p] /\ pgOff'[p] = pgOff[p],
         \A op \in ToSet(Tail(todo)) :
           op.op = "copy" => Fewer(flash'[op.pg].items, flash[op.pg].items),
         Step.op # "zero" =>
           \A p \in Pages : \A k \in DOMAIN flash[p].items :
             flash[p].items[k].id # Nothing => /\ k \in DOMAIN flash'[p].items
                                               /\ flash'[p].items[k].id # Nothing,
         \A op \in ToSet(X) :
           /\ op.op \notin {"zero", "erase"}
           /\ \A p \in Pages : Touches(op, p) => Touches(Step, p)
           /\ Targets(op) \subseteq Targets(Step)
           /\ op.op = "copy" => Step.op = "copy" /\ op.pg = Step.pg
           /\ Writes(op) => Copying(op) /\ Copying(Step)
  PROVE  NvInv'
<1>0. /\ Step \in Ops /\ Step \in ToSet(todo) /\ Tail(todo) \in Seq(Ops)
      /\ ToSet(Tail(todo)) \subseteq ToSet(todo) /\ ToSet(todo) \subseteq Ops
      /\ pc \in {"recover", "last", "call"}
  BY NextOp
<1>1. /\ flash \in Flashes /\ pgOff \in [Pages -> Nat] /\ pgLost \in [Pages -> Nat]
      /\ todo \in Seq(Ops)
  BY DEF NvInv, Types, TypeOK, Flashes
<1>2. todo' \in Seq(Ops) /\ ToSet(todo') = ToSet(X) \cup ToSet(Tail(todo))
  BY <1>0, ConcatProperties, SetOfPlans
<1>3. \A p \in Pages : TotalOn(p) \in Nat /\ TotalOn(p)' \in Nat
                       /\ LostOn(p) \in Nat /\ LostOn(p)' \in Nat
  <2>1. SUFFICES ASSUME NEW p \in Pages
                 PROVE  TotalOn(p) \in Nat /\ TotalOn(p)' \in Nat
                        /\ LostOn(p) \in Nat /\ LostOn(p)' \in Nat
    OBVIOUS
  <2>2. flash[p].items \in Seq(Item) /\ flash'[p].items \in Seq(Item)
    BY <1>1 DEF Flashes
  <2>3. Len(flash[p].items) \in 0 .. Len(flash[p].items)
        /\ Len(flash'[p].items) \in 0 .. Len(flash'[p].items)
    BY <2>2, LenProperties
  <2> QED
    BY <2>2, <2>3, TotalNat, LostNat DEF TotalOn, LostOn, Lost
<1>4. Types'
  BY <1>2 DEF NvInv, Types, TypeOK, Flashes
<1>5. PagesFit'
  BY DEF PagesFit
<1>6. CountsOK'
  <2>1. ASSUME NEW p \in Pages, Counted(p) PROVE Counted(p)'
    <3>1. /\ TotalOn(p) \in Nat /\ TotalOn(p)' \in Nat /\ LostOn(p) \in Nat /\ LostOn(p)' \in Nat
          /\ pgOff[p] \in Nat /\ pgOff'[p] \in Nat /\ pgLost[p] \in Nat /\ pgLost'[p] \in Nat
      BY <1>1, <1>3
    <3>2. /\ TotalOn(p) <= pgOff[p]
          /\ pgLost[p] <= LostOn(p) + pgOff[p] - TotalOn(p)
      BY <2>1 DEF Counted
    <3>3. /\ TotalOn(p)' + pgOff[p] <= TotalOn(p) + pgOff'[p]
          /\ pgLost'[p] + LostOn(p) + pgOff[p] + TotalOn(p)'
               <= pgLost[p] + LostOn(p)' + pgOff'[p] + TotalOn(p)
      OBVIOUS
    <3>4. TotalOn(p)' <= pgOff'[p]
      BY ONLY <3>1, <3>2, <3>3
    <3>5. pgLost'[p] <= LostOn(p)' + pgOff'[p] - TotalOn(p)'
      BY ONLY <3>1, <3>2, <3>3, StillCounted
    <3> QED
      BY <3>4, <3>5 DEF Counted
  <2> QED
    BY <1>0, <2>1 DEF NvInv, CountsOK
<1>7. WalkOK' /\ HeadersOK'
  BY <1>0 DEF WalkOK, HeadersOK
<1>8. RoomOK'
  <2>1. SUFFICES ASSUME NEW p \in Pages PROVE pgOff'[p] + Planned(flash', todo', p) <= PageSize
    BY DEF RoomOK
  <2>2. Planned(flash', todo', p) = Planned(flash', X, p) + Planned(flash', Tail(todo), p)
    BY <1>0, PlannedConcat
  <2>3. Planned(flash', Tail(todo), p) <= Planned(flash, Tail(todo), p)
    BY <1>0, <1>1, RoomFrame, PlannedLeq
  <2>4. Planned(flash, todo, p) = Room(flash, Step, p) + Planned(flash, Tail(todo), p)
    BY <1>1, PlannedTail DEF Step
  <2>5. pgOff[p] + Planned(flash, todo, p) <= PageSize
    BY DEF NvInv, RoomOK
  <2>6. /\ Planned(flash', X, p) \in Nat /\ Planned(flash', Tail(todo), p) \in Nat
        /\ Planned(flash, Tail(todo), p) \in Nat /\ Room(flash, Step, p) \in Nat
        /\ pgOff[p] \in Nat /\ pgOff'[p] \in Nat /\ PageSize \in Nat
    BY <1>0, <1>1, PlannedNat, RoomNat, ItemsAssumption
  <2>7. pgOff'[p] + Planned(flash', X, p) <= pgOff[p] + Room(flash, Step, p)
    OBVIOUS
  <2> QED
    BY <2>2, <2>3, <2>4, <2>5, <2>6, <2>7
<1>9. TargetsOK'
  <2>1. SUFFICES ASSUME NEW op \in ToSet(todo'), NEW p \in Targets(op)
                 PROVE  TotalOn(p)' <= pgOff'[p]
    BY DEF TargetsOK, Clear
  <2>2. \E old \in ToSet(todo) : p \in Targets(old)
    BY <1>0, <1>2
  <2>3. p \in Pages
    <3>1. PICK old \in Ops : p \in Targets(old)
      BY <1>0, <2>2
    <3> QED
      BY <3>1, OpFields DEF Targets
  <2>4. TotalOn(p) <= pgOff[p]
    BY <2>2 DEF NvInv, TargetsOK, Clear, Step
  <2>5. TotalOn(p)' + pgOff[p] <= TotalOn(p) + pgOff'[p]
    BY <2>3
  <2>6. TotalOn(p) \in Nat /\ TotalOn(p)' \in Nat /\ pgOff[p] \in Nat /\ pgOff'[p] \in Nat
    BY <1>1, <1>3, <2>3
  <2> QED
    BY <2>4, <2>5, <2>6
<1>10. SourcesOK'
  BY <1>0, <1>2 DEF SourcesOK, NvInv
<1>11. ZeroesOK'
  <2>1. SUFFICES ASSUME NEW i \in DOMAIN todo', todo'[i].op = "zero"
                 PROVE  /\ i = Len(todo')
                        /\ todo'[i].k \in DOMAIN flash'[todo'[i].pg].items
                        /\ flash'[todo'[i].pg].items[todo'[i].k].id # Nothing
                        /\ \A op \in ToSet(todo') : op.op = "erase" => op.pg # todo'[i].pg
    BY Zenon DEF ZeroesOK
  <2> DEFINE rest == Tail(todo)
  <2>2. /\ DOMAIN X = 1 .. Len(X) /\ Len(X) \in Nat /\ Len(rest) \in Nat
        /\ DOMAIN todo' = 1 .. Len(X) + Len(rest) /\ Len(todo') = Len(X) + Len(rest)
        /\ \A j \in 1 .. Len(X) + Len(rest) :
             todo'[j] = IF j <= Len(X) THEN X[j] ELSE rest[j - Len(X)]
    BY <1>0, ConcatProperties
  <2>3. ~ (i <= Len(X))
    BY <2>2, <2>1 DEF ToSet
  <2> DEFINE j == i - Len(X)
             z == rest[j]
  <2>4. j \in 1 .. Len(rest) /\ todo'[i] = z /\ (j = Len(rest) => i = Len(todo'))
    BY <2>2, <2>3
  <2>5. /\ Step.op # "zero" /\ j = Len(rest) /\ z.pg \in Pages
        /\ z.k \in DOMAIN flash[z.pg].items
        /\ flash[z.pg].items[z.k].id # Nothing
        /\ \A op \in ToSet(todo) : op.op = "erase" => op.pg # z.pg
    BY <2>1, <2>4, TailZeroes
  <2> HIDE DEF j, z, rest
  <2>6. z.k \in DOMAIN flash'[z.pg].items /\ flash'[z.pg].items[z.k].id # Nothing
    BY <2>5
  <2>7. \A op \in ToSet(todo') : op.op = "erase" => op.pg # z.pg
    BY <1>0, <1>2, <2>5
  <2> QED
    BY <2>4, <2>5, <2>6, <2>7
<1>12. ReserveOK'
  <2>1. Ready => Ready'
    BY <1>0, <1>2 DEF Ready
  <2>2. ToCome(todo) => ToCome(todo')
    BY <1>0, TailToCome, ToComeAfter
  <2> QED
    BY <1>0, <2>1, <2>2 DEF NvInv, ReserveOK
<1>13. PhaseOK'
  BY <1>0, <1>2 DEF PhaseOK, NvInv, Copying, Writes
<1> QED
  BY <1>4, <1>5, <1>6, <1>7, <1>8, <1>9, <1>10, <1>11, <1>12, <1>13 DEF NvInv

\* All but copies and erases change one page.
LEMMA StepDone ==
  ASSUME NvInv, todo # <<>>, Step.op \notin {"erase", "copy"}, todo' = Tail(todo),
         pgRes' = pgRes, pc' = pc, call' = call, boot' = boot,
         NEW page \in PageType, flash' = [flash EXCEPT ![Step.pg] = page],
         NEW off \in Nat, pgOff' = [pgOff EXCEPT ![Step.pg] = off],
         NEW lost \in Nat, pgLost' = [pgLost EXCEPT ![Step.pg] = lost],
         \A k \in 1 .. Len(page.items) : Sized(page.items[k]),
         Total(page.items) <= PageSize,
         Total(page.items) + pgOff[Step.pg] <= TotalOn(Step.pg) + off,
         lost + LostOn(Step.pg) + pgOff[Step.pg] + Total(page.items)
           <= pgLost[Step.pg] + Lost(page.items) + off + TotalOn(Step.pg),
         off <= pgOff[Step.pg] + Room(flash, Step, Step.pg),
         Step.pg \in Targets(Step) \/ Fewer(page.items, flash[Step.pg].items),
         Step.op # "zero" =>
           \A k \in DOMAIN flash[Step.pg].items :
             flash[Step.pg].items[k].id # Nothing => /\ k \in DOMAIN page.items
                                                     /\ page.items[k].id # Nothing
  PROVE  NvInv'
<1>0. /\ Step \in Ops /\ Step \in ToSet(todo) /\ Tail(todo) \in Seq(Ops) /\ Step.pg \in Pages
      /\ ToSet(Tail(todo)) \subseteq ToSet(todo) /\ ToSet(todo) \subseteq Ops
  BY NextOp, OpFields
<1>1. /\ flash \in Flashes /\ pgOff \in [Pages -> Nat] /\ pgLost \in [Pages -> Nat]
      /\ ItemsSized /\ PagesFit
  BY DEF NvInv, Types, TypeOK, Flashes
<1>2. /\ flash' \in Flashes /\ pgOff' \in [Pages -> Nat] /\ pgLost' \in [Pages -> Nat]
      /\ flash'[Step.pg] = page /\ pgOff'[Step.pg] = off /\ pgLost'[Step.pg] = lost
  BY <1>0, <1>1 DEF Flashes, PageType
<1>3. \A p \in Pages : p # Step.pg =>
        flash'[p] = flash[p] /\ pgOff'[p] = pgOff[p] /\ pgLost'[p] = pgLost[p]
  BY <1>0, <1>1 DEF Flashes
<1>4. ItemsSized'
  BY <1>2, <1>1, <1>3 DEF ItemsSized
<1>5. \A p \in Pages : /\ Planned(flash', <<>>, p) = 0 /\ Room(flash, Step, p) \in Nat
                       /\ TotalOn(p) \in Nat /\ LostOn(p) \in Nat
                       /\ pgOff[p] \in Nat /\ pgLost[p] \in Nat
  <2>1. SUFFICES ASSUME NEW p \in Pages
                 PROVE  /\ Planned(flash', <<>>, p) = 0 /\ Room(flash, Step, p) \in Nat
                        /\ TotalOn(p) \in Nat /\ LostOn(p) \in Nat
                        /\ pgOff[p] \in Nat /\ pgLost[p] \in Nat
    OBVIOUS
  <2>2. flash[p].items \in Seq(Item) /\ Len(flash[p].items) \in 0 .. Len(flash[p].items)
    BY <1>1, LenProperties DEF Flashes
  <2>3. TotalOn(p) \in Nat /\ LostOn(p) \in Nat
    BY <2>2, TotalNat, LostNat DEF TotalOn, LostOn, Lost
  <2>4. Planned(flash', <<>>, p) = 0
    BY <1>0, <1>2, PlannedOne
  <2>5. Room(flash, Step, p) \in Nat
    BY <1>0, <1>1, RoomNat
  <2> QED
    BY <1>1, <2>3, <2>4, <2>5
<1>6. ASSUME NEW p \in Pages
      PROVE  /\ TotalOn(p)' <= PageSize
             /\ TotalOn(p)' + pgOff[p] <= TotalOn(p) + pgOff'[p]
             /\ pgLost'[p] + LostOn(p) + pgOff[p] + TotalOn(p)'
                  <= pgLost[p] + LostOn(p)' + pgOff'[p] + TotalOn(p)
             /\ pgOff'[p] + Planned(flash', <<>>, p) <= pgOff[p] + Room(flash, Step, p)
             /\ ~ Touches(Step, p) => flash'[p] = flash[p] /\ pgOff'[p] = pgOff[p]
  <2>1. CASE p = Step.pg
    <3>1. TotalOn(p)' = Total(page.items) /\ LostOn(p)' = Lost(page.items)
      BY <1>2, <2>1 DEF TotalOn, LostOn
    <3>2. Touches(Step, p)
      BY <2>1 DEF Touches
    <3>3. pgOff'[p] = off /\ pgLost'[p] = lost
      BY <1>2, <2>1
    <3>4. /\ Total(page.items) <= PageSize
          /\ Total(page.items) + pgOff[p] <= TotalOn(p) + off
          /\ lost + LostOn(p) + pgOff[p] + Total(page.items)
               <= pgLost[p] + Lost(page.items) + off + TotalOn(p)
          /\ off <= pgOff[p] + Room(flash, Step, p)
      BY <2>1
    <3>5. off + Planned(flash', <<>>, p) = off
      <4>1. Planned(flash', <<>>, p) = 0
        BY <1>5
      <4>2. off + 0 = off
        OBVIOUS
      <4> QED
        BY ONLY <4>1, <4>2
    <3> QED
      BY ONLY <3>1, <3>2, <3>3, <3>4, <3>5, Zenon
  <2>2. CASE p # Step.pg
    <3>1. flash'[p] = flash[p] /\ pgOff'[p] = pgOff[p] /\ pgLost'[p] = pgLost[p]
      BY <1>3, <2>2
    <3>2. TotalOn(p)' = TotalOn(p) /\ LostOn(p)' = LostOn(p)
      BY <3>1 DEF TotalOn, LostOn
    <3>3. TotalOn(p) <= PageSize
      BY <1>1 DEF PagesFit
    <3>4. /\ Planned(flash', <<>>, p) = 0 /\ Room(flash, Step, p) \in Nat
          /\ TotalOn(p) \in Nat /\ LostOn(p) \in Nat
          /\ pgOff[p] \in Nat /\ pgLost[p] \in Nat
      BY <1>5
    <3> QED
      BY ONLY <3>1, <3>2, <3>3, <3>4
  <2> QED
    BY <2>1, <2>2
<1>7. ASSUME NEW op \in ToSet(Tail(todo)), op.op = "copy"
      PROVE  Fewer(flash'[op.pg].items, flash[op.pg].items)
  <2>1. op.pg \in Pages /\ (Step.pg \in Targets(Step) => op.pg # Step.pg)
    BY <1>0, <1>7, OpFields DEF NvInv, SourcesOK
  <2>2. CASE op.pg = Step.pg
    BY <1>2, <2>1, <2>2
  <2>3. CASE op.pg # Step.pg
    BY <1>3, <2>1, <2>3 DEF Fewer
  <2> QED
    BY <2>2, <2>3
<1>8. ASSUME Step.op # "zero", NEW p \in Pages, NEW k \in DOMAIN flash[p].items,
             flash[p].items[k].id # Nothing
      PROVE  k \in DOMAIN flash'[p].items /\ flash'[p].items[k].id # Nothing
  BY <1>2, <1>8, <1>3
<1>9. <<>> \in Seq(Ops) /\ todo' = <<>> \o Tail(todo) /\ ToSet(<<>>) = {}
  BY <1>0, ConcatEmptySeq, EmptySeq, SetOfOne
<1> QED
  BY <1>2, <1>4, <1>6, <1>7, <1>8, <1>9, StepKeeps

LEMMA PageTyped ==
  ASSUME NvInv, NEW p \in Pages
  PROVE  /\ flash[p] \in PageType /\ flash[p].items \in Seq(Item)
         /\ flash[p] = [inUse |-> flash[p].inUse, xfer |-> flash[p].xfer,
                        items |-> flash[p].items]
         /\ DOMAIN flash[p].items = 1 .. Len(flash[p].items) /\ Len(flash[p].items) \in Nat
         /\ pgOff[p] \in Nat /\ pgLost[p] \in Nat
         /\ TotalOn(p) \in Nat /\ LostOn(p) \in Nat
         /\ TotalOn(p) <= PageSize /\ PageSize \in Nat
         /\ \A k \in 1 .. Len(flash[p].items) :
              Sized(flash[p].items[k]) /\ flash[p].items[k] \in Item
<1>1. /\ flash \in Flashes /\ pgOff \in [Pages -> Nat] /\ pgLost \in [Pages -> Nat]
      /\ ItemsSized /\ PagesFit /\ PageSize \in Nat
  BY ItemsAssumption DEF NvInv, Types, TypeOK, Flashes
<1>2. flash[p] \in PageType /\ flash[p].items \in Seq(Item)
      /\ flash[p] = [inUse |-> flash[p].inUse, xfer |-> flash[p].xfer,
                     items |-> flash[p].items]
  BY <1>1 DEF Flashes, PageType
<1>3. DOMAIN flash[p].items = 1 .. Len(flash[p].items) /\ Len(flash[p].items) \in Nat
      /\ \A k \in 1 .. Len(flash[p].items) : flash[p].items[k] \in Item
  BY <1>2
<1>4. Len(flash[p].items) \in 0 .. Len(flash[p].items)
  BY <1>3
<1>5. TotalOn(p) \in Nat /\ LostOn(p) \in Nat
  BY <1>2, <1>4, TotalNat, LostNat DEF TotalOn, LostOn, Lost
<1> QED
  BY <1>1, <1>2, <1>3, <1>5 DEF ItemsSized, PagesFit

LEMMA StepFacts ==
  ASSUME NvInv, todo # <<>>
  PROVE  /\ Step \in Ops /\ Step.pg \in Pages
         /\ flash[Step.pg] \in PageType /\ flash[Step.pg].items \in Seq(Item)
         /\ DOMAIN flash[Step.pg].items = 1 .. Len(flash[Step.pg].items)
         /\ Len(flash[Step.pg].items) \in Nat
         /\ pgOff[Step.pg] \in Nat /\ pgLost[Step.pg] \in Nat
         /\ TotalOn(Step.pg) \in Nat /\ LostOn(Step.pg) \in Nat
         /\ TotalOn(Step.pg) <= PageSize /\ PageSize \in Nat
         /\ \A k \in 1 .. Len(flash[Step.pg].items) :
              Sized(flash[Step.pg].items[k]) /\ flash[Step.pg].items[k] \in Item
         /\ flash \in [Pages -> PageType] /\ pgOff \in [Pages -> Nat]
         /\ pgLost \in [Pages -> Nat]
         /\ Room(flash, Step, Step.pg) \in Nat
BY NextOp, OpFields, RoomNat, PageTyped DEF NvInv, Types, TypeOK, Flashes, PageType

\* setPageUse and the mark of a page change no item.
LEMMA HeaderKeeps ==
  ASSUME NvInv, todo # <<>>, Step.op \in {"xfer", "use"}, todo' = Tail(todo),
         pgRes' = pgRes, pc' = pc, call' = call, boot' = boot,
         pgOff' = pgOff, pgLost' = pgLost,
         NEW page \in PageType, page.items = flash[Step.pg].items,
         flash' = [flash EXCEPT ![Step.pg] = page]
  PROVE  NvInv'
<1> DEFINE p == Step.pg
<1>1. Step.op \notin {"erase", "copy"}
  OBVIOUS
<1>2. /\ p \in Pages /\ pgOff[p] \in Nat /\ pgLost[p] \in Nat
      /\ pgOff' = [pgOff EXCEPT ![p] = pgOff[p]]
      /\ pgLost' = [pgLost EXCEPT ![p] = pgLost[p]]
  BY StepFacts
<1>3. /\ Fewer(page.items, flash[p].items)
      /\ \A k \in 1 .. Len(page.items) : Sized(page.items[k])
      /\ \A k \in DOMAIN flash[p].items :
           flash[p].items[k].id # Nothing => /\ k \in DOMAIN page.items
                                             /\ page.items[k].id # Nothing
  BY StepFacts DEF Fewer
<1>4. /\ Total(page.items) <= PageSize
      /\ Total(page.items) + pgOff[p] <= TotalOn(p) + pgOff[p]
      /\ pgLost[p] + LostOn(p) + pgOff[p] + Total(page.items)
           <= pgLost[p] + Lost(page.items) + pgOff[p] + TotalOn(p)
      /\ pgOff[p] <= pgOff[p] + Room(flash, Step, p)
  <2>1. Total(page.items) = TotalOn(p) /\ Lost(page.items) = LostOn(p)
    BY DEF TotalOn, LostOn
  <2> QED
    BY <2>1, StepFacts
<1> QED
  BY <1>1, <1>2, <1>3, <1>4, StepDone

LEMMA MarkPageKeeps == NvInv /\ MarkPage => NvInv'
<1> SUFFICES ASSUME NvInv, MarkPage PROVE NvInv'
  OBVIOUS
<1> DEFINE page == [flash[Step.pg] EXCEPT !.xfer = TRUE]
<1>1. todo # <<>> /\ Step.op \in {"xfer", "use"} /\ todo' = Tail(todo)
      /\ pgRes' = pgRes /\ pc' = pc /\ call' = call /\ boot' = boot
      /\ pgOff' = pgOff /\ pgLost' = pgLost
  BY DEF MarkPage, Doing, ramVars, codeVars
<1>2. page \in PageType /\ page.items = flash[Step.pg].items
  BY <1>1, StepFacts DEF PageType
<1>3. flash' = [flash EXCEPT ![Step.pg] = page]
  BY <1>1, StepFacts DEF MarkPage
<1> HIDE DEF page
<1> QED
  BY <1>1, <1>2, <1>3, HeaderKeeps

LEMMA UsePageKeeps == NvInv /\ UsePage => NvInv'
<1> SUFFICES ASSUME NvInv, UsePage PROVE NvInv'
  OBVIOUS
<1> DEFINE page == [flash[Step.pg] EXCEPT !.inUse = TRUE]
<1>1. todo # <<>> /\ Step.op \in {"xfer", "use"} /\ todo' = Tail(todo)
      /\ pgRes' = pgRes /\ pc' = pc /\ call' = call /\ boot' = boot
      /\ pgOff' = pgOff /\ pgLost' = pgLost
  BY DEF UsePage, Doing, ramVars, codeVars
<1>2. page \in PageType /\ page.items = flash[Step.pg].items
  BY <1>1, StepFacts DEF PageType
<1>3. flash' = [flash EXCEPT ![Step.pg] = page]
  BY <1>1, StepFacts DEF UsePage
<1> HIDE DEF page
<1> QED
  BY <1>1, <1>2, <1>3, HeaderKeeps

\* A mark and a checksum leave an item its size and its name.
LEMMA Relabelled ==
  ASSUME NEW items \in Seq(Item), NEW k, NEW x,
         k \in 1 .. Len(items) =>
           x \in Item /\ x.id = items[k].id /\ x.len = items[k].len,
         NEW new, new = [items EXCEPT ![k] = x]
  PROVE  /\ new \in Seq(Item) /\ Len(new) = Len(items) /\ Total(new) = Total(items)
         /\ Lost(new) = Lost(items)
         /\ \A j \in 1 .. Len(items) : new[j].id = items[j].id /\ new[j].len = items[j].len
         /\ k \in 1 .. Len(items) => new[k] = x
         /\ \A j \in 1 .. Len(items) : j # k => new[j] = items[j]
<1>1. /\ new \in Seq(Item) /\ Len(new) = Len(items)
      /\ \A j \in 1 .. Len(items) : new[j].id = items[j].id /\ new[j].len = items[j].len
      /\ k \in 1 .. Len(items) => new[k] = x
      /\ \A j \in 1 .. Len(items) : j # k => new[j] = items[j]
  <2>1. CASE k \in 1 .. Len(items)
    BY <2>1, ItemChanged
  <2>2. CASE k \notin 1 .. Len(items)
    <3>1. new = items
      BY <2>2
    <3> QED
      BY <2>2, <3>1
  <2> QED
    BY <2>1, <2>2
<1>2. Total(new) = Total(items)
  BY <1>1, TotalSame
<1>3. Lost(new) = Lost(items)
  <2>1. Len(items) \in 0 .. Len(items)
    BY LenProperties
  <2>2. \A j \in 1 .. Len(items) : /\ new[j].len = items[j].len
                                   /\ new[j].id = Nothing <=> items[j].id = Nothing
    BY <1>1
  <2>3. LostIn(new, 1, Len(items)) = LostIn(items, 1, Len(items))
    BY ONLY <1>1, <2>1, <2>2, items \in Seq(Item), LostSame
  <2> QED
    BY <1>1, <2>3 DEF Lost
<1> QED
  BY <1>1, <1>2, <1>3

LEMMA RelabelKeeps ==
  ASSUME NvInv, todo # <<>>, Step.op \in {"mark", "seal"}, todo' = Tail(todo),
         pgRes' = pgRes, pc' = pc, call' = call, boot' = boot,
         pgOff' = pgOff, pgLost' = pgLost,
         NEW k, NEW x,
         k \in 1 .. Len(flash[Step.pg].items) =>
           /\ x \in Item /\ x.id = flash[Step.pg].items[k].id
           /\ x.len = flash[Step.pg].items[k].len
           /\ Step.op = "mark" => x.val = flash[Step.pg].items[k].val,
         flash' = [flash EXCEPT ![Step.pg].items[k] = x]
  PROVE  NvInv'
<1> DEFINE p == Step.pg
           items == flash[p].items
           new == [items EXCEPT ![k] = x]
           page == [flash[p] EXCEPT !.items = new]
<1>1. Step.op \notin {"erase", "copy"}
  OBVIOUS
<1>2. p \in Pages /\ items \in Seq(Item) /\ Len(items) \in Nat /\ DOMAIN items = 1 .. Len(items)
  BY StepFacts
<1> DEFINE same == k \in 1 .. Len(items) =>
                     x \in Item /\ x.id = items[k].id /\ x.len = items[k].len
<1>3. /\ new \in Seq(Item) /\ Len(new) = Len(items) /\ Total(new) = Total(items)
      /\ Lost(new) = Lost(items)
      /\ \A j \in 1 .. Len(items) : new[j].id = items[j].id /\ new[j].len = items[j].len
      /\ k \in 1 .. Len(items) => new[k] = x
      /\ \A j \in 1 .. Len(items) : j # k => new[j] = items[j]
  <2>1. same
    OBVIOUS
  <2> HIDE DEF items
  <2> QED
    BY <1>2, <2>1, Relabelled
<1>4. page \in PageType /\ page.items = new
  BY <1>3, StepFacts DEF PageType
<1>5. /\ flash' = [flash EXCEPT ![p] = page]
      /\ pgOff[p] \in Nat /\ pgLost[p] \in Nat
      /\ pgOff' = [pgOff EXCEPT ![p] = pgOff[p]]
      /\ pgLost' = [pgLost EXCEPT ![p] = pgLost[p]]
  BY StepFacts
<1> HIDE DEF new, page
<1>6. p \in Targets(Step) \/ Fewer(page.items, flash[p].items)
  <2>1. CASE Step.op = "seal"
    BY <2>1 DEF Targets
  <2>2. CASE Step.op = "mark"
    BY <1>3, <2>2, <1>4 DEF Fewer, Goes
  <2> QED
    BY <2>1, <2>2
<1>7. /\ \A j \in 1 .. Len(page.items) : Sized(page.items[j])
      /\ \A j \in DOMAIN flash[p].items :
           flash[p].items[j].id # Nothing => /\ j \in DOMAIN page.items
                                             /\ page.items[j].id # Nothing
  <2>1. \A j \in 1 .. Len(new) : Sized(new[j])
    BY StepFacts, <1>3 DEF Sized
  <2>2. \A j \in DOMAIN items : items[j].id # Nothing => j \in DOMAIN new /\ new[j].id # Nothing
    BY <1>2, <1>3
  <2> QED
    BY <1>4, <2>1, <2>2
<1>8. /\ Total(page.items) <= PageSize
      /\ Total(page.items) + pgOff[p] <= TotalOn(p) + pgOff[p]
      /\ pgLost[p] + LostOn(p) + pgOff[p] + Total(page.items)
           <= pgLost[p] + Lost(page.items) + pgOff[p] + TotalOn(p)
      /\ pgOff[p] <= pgOff[p] + Room(flash, Step, p)
  <2>1. Total(page.items) = TotalOn(p) /\ Lost(page.items) = LostOn(p)
    BY <1>3, <1>4 DEF TotalOn, LostOn
  <2> QED
    BY <2>1, StepFacts
<1> HIDE DEF items
<1> QED
  BY <1>1, <1>4, <1>5, <1>6, <1>7, <1>8, StepDone

LEMMA MarkItemKeeps == NvInv /\ MarkItem => NvInv'
<1> SUFFICES ASSUME NvInv, MarkItem PROVE NvInv'
  OBVIOUS
<1> DEFINE items == flash[Step.pg].items
           x == [items[Step.k] EXCEPT !.stat = "xfer"]
<1>1. todo # <<>> /\ Step.op = "mark" /\ todo' = Tail(todo)
      /\ pgRes' = pgRes /\ pc' = pc /\ call' = call /\ boot' = boot
      /\ pgOff' = pgOff /\ pgLost' = pgLost
  BY DEF MarkItem, Doing, ramVars, codeVars
<1>2. ASSUME Step.k \in 1 .. Len(items)
      PROVE  /\ x \in Item /\ x.id = items[Step.k].id
             /\ x.len = items[Step.k].len /\ x.val = items[Step.k].val
  <2>1. items[Step.k] \in Item
    BY <1>1, <1>2, StepFacts
  <2> QED
    BY <2>1 DEF Item
<1>3. flash' = [flash EXCEPT ![Step.pg].items[Step.k] = x]
  BY DEF MarkItem
<1> HIDE DEF x
<1> QED
  BY <1>1, <1>2, <1>3, RelabelKeeps

LEMMA SealItemKeeps == NvInv /\ SealItem => NvInv'
<1> SUFFICES ASSUME NvInv, SealItem PROVE NvInv'
  OBVIOUS
<1> DEFINE items == flash[Step.pg].items
           k == Len(items)
           x == [items[k] EXCEPT !.val = Step.val]
<1>1. todo # <<>> /\ Step.op = "seal" /\ todo' = Tail(todo)
      /\ pgRes' = pgRes /\ pc' = pc /\ call' = call /\ boot' = boot
      /\ pgOff' = pgOff /\ pgLost' = pgLost
  BY DEF SealItem, Doing, codeVars
<1>2. ASSUME k \in 1 .. Len(items)
      PROVE  x \in Item /\ x.id = items[k].id /\ x.len = items[k].len
  <2>1. items[k] \in Item
    BY <1>1, <1>2, StepFacts
  <2>2. Step.val \in Values \cup {Blank}
    BY <1>1, NextOp, OpFields
  <2> QED
    BY <2>1, <2>2 DEF Item
<1>3. flash' = [flash EXCEPT ![Step.pg].items[k] = x]
  BY DEF SealItem
<1> HIDE DEF x, k
<1> QED
  BY <1>1, <1>2, <1>3, RelabelKeeps

\* The items with the k-th one zeroed.
WithZeroed(new, items, k) ==
  /\ new \in Seq(Item) /\ Len(new) = Len(items) /\ Total(new) = Total(items)
  /\ \A n \in 0 .. Len(items) :
       LostIn(new, 1, n) = LostIn(items, 1, n) + IF k <= n THEN items[k].len ELSE 0
  /\ Lost(new) = Lost(items) + items[k].len
  /\ Fewer(new, items) /\ items[k].len \in Nat
  /\ \A j \in 1 .. Len(items) : Sized(items[j]) => Sized(new[j])
  /\ \A j \in 1 .. Len(items) : j # k => new[j] = items[j]

LEMMA ZeroedItem ==
  ASSUME NEW items \in Seq(Item), NEW k, k \in 1 .. Len(items), items[k].id # Nothing
  PROVE  WithZeroed([items EXCEPT ![k] = Zeroed(items[k])], items, k)
<1> DEFINE new == [items EXCEPT ![k] = Zeroed(items[k])]
<1>1. items[k] \in Item /\ Zeroed(items[k]) \in Item /\ items[k].len \in Nat
  <2>1. items[k] \in Item
    OBVIOUS
  <2> QED
    BY <2>1, ItemLens DEF Item, Zeroed
<1>2. /\ new \in Seq(Item) /\ Len(new) = Len(items)
      /\ new[k] = Zeroed(items[k])
      /\ \A j \in 1 .. Len(items) : j # k => new[j] = items[j]
  BY <1>1, ItemChanged
<1> HIDE DEF new
<1>3. /\ new[k].id = Nothing /\ new[k].len = items[k].len
  BY <1>2 DEF Zeroed
<1>4. Total(new) = Total(items)
  BY <1>2, <1>3, TotalSame
<1>5. ASSUME NEW n \in 0 .. Len(items)
      PROVE  LostIn(new, 1, n) = LostIn(items, 1, n) + IF k <= n THEN items[k].len ELSE 0
  BY <1>2, LostZeroed
<1>6. Lost(new) = Lost(items) + items[k].len
  BY <1>2, <1>5 DEF Lost
<1>7. Fewer(new, items)
  BY <1>2, <1>3 DEF Fewer, Goes
<1>8. \A j \in 1 .. Len(items) : Sized(items[j]) => Sized(new[j])
  BY <1>2, <1>3 DEF Sized
<1>9. WithZeroed(new, items, k)
  BY <1>1, <1>2, <1>4, <1>5, <1>6, <1>7, <1>8 DEF WithZeroed
<1> QED
  BY <1>9 DEF new

LEMMA ZeroItemKeeps == NvInv /\ ZeroItem => NvInv'
<1> SUFFICES ASSUME NvInv, ZeroItem PROVE NvInv'
  OBVIOUS
<1> DEFINE p == Step.pg
           items == flash[p].items
           k == Step.k
           new == [items EXCEPT ![k] = Zeroed(items[k])]
           page == [flash[p] EXCEPT !.items = new]
           lost == pgLost[p] + items[k].len
<1>1. todo # <<>> /\ Step.op = "zero" /\ Step.op \notin {"erase", "copy"} /\ todo' = Tail(todo)
      /\ pgRes' = pgRes /\ pc' = pc /\ call' = call /\ boot' = boot
      /\ pgOff' = pgOff
  BY DEF ZeroItem, Doing, codeVars
<1>2. p \in Pages /\ items \in Seq(Item) /\ Len(items) \in Nat /\ DOMAIN items = 1 .. Len(items)
      /\ pgOff[p] \in Nat /\ pgLost[p] \in Nat
  BY <1>1, StepFacts
<1>3. k \in 1 .. Len(items) /\ items[k].id # Nothing
  <2>1. 1 \in DOMAIN todo /\ Step = todo[1]
    BY <1>1, NextOp
  <2> QED
    BY <1>1, <1>2, <2>1 DEF NvInv, ZeroesOK
<1>4. /\ new \in Seq(Item) /\ Len(new) = Len(items) /\ Total(new) = Total(items)
      /\ Lost(new) = Lost(items) + items[k].len
      /\ Fewer(new, items) /\ items[k].len \in Nat
      /\ \A j \in 1 .. Len(items) : Sized(items[j]) => Sized(new[j])
  <2>1. WithZeroed(new, items, k)
    BY <1>2, <1>3, ZeroedItem
  <2> HIDE DEF items, k, new
  <2> QED
    BY <2>1 DEF WithZeroed
<1> HIDE DEF new
<1>5. page \in PageType /\ page.items = new /\ lost \in Nat
  <2>1. page \in PageType /\ page.items = new
    BY <1>1, <1>4, StepFacts DEF PageType
  <2>2. lost \in Nat
    BY ONLY <1>2, <1>4
  <2> QED
    BY <2>1, <2>2
<1>6. /\ flash' = [flash EXCEPT ![p] = page]
      /\ pgOff' = [pgOff EXCEPT ![p] = pgOff[p]]
      /\ pgLost' = [pgLost EXCEPT ![p] = lost]
  BY <1>1, StepFacts DEF ZeroItem, Zero, new
<1> HIDE DEF page
<1>7. /\ Fewer(page.items, flash[p].items)
      /\ \A j \in 1 .. Len(page.items) : Sized(page.items[j])
  BY <1>1, StepFacts, <1>4, <1>5
<1>8. /\ Total(page.items) <= PageSize
      /\ Total(page.items) + pgOff[p] <= TotalOn(p) + pgOff[p]
      /\ lost + LostOn(p) + pgOff[p] + Total(page.items)
           <= pgLost[p] + Lost(page.items) + pgOff[p] + TotalOn(p)
      /\ pgOff[p] <= pgOff[p] + Room(flash, Step, p)
  <2>1. Total(page.items) = TotalOn(p) /\ Lost(page.items) = LostOn(p) + items[k].len
    BY <1>4, <1>5 DEF TotalOn, LostOn
  <2>2. /\ TotalOn(p) \in Nat /\ LostOn(p) \in Nat /\ TotalOn(p) <= PageSize
        /\ Room(flash, Step, p) \in Nat /\ PageSize \in Nat
    BY <1>1, StepFacts
  <2>3. pgOff[p] \in Nat /\ pgLost[p] \in Nat /\ items[k].len \in Nat
    BY <1>2, <1>4
  <2> QED
    BY ONLY <2>1, <2>2, <2>3, SMTT(30)
<1> HIDE DEF items, k, lost
<1> QED
  BY ONLY NvInv, <1>1, <1>2, <1>5, <1>6, <1>7, <1>8, StepDone

LEMMA WriteHeaderKeeps == NvInv /\ WriteHeader => NvInv'
<1> SUFFICES ASSUME NvInv, WriteHeader PROVE NvInv'
  OBVIOUS
<1> DEFINE p == Step.pg
           items == flash[p].items
           item == [id |-> Step.id, len |-> Size[Step.id], stat |-> "live", val |-> Blank]
           new == Append(items, item)
           page == [flash[p] EXCEPT !.items = new]
           off == pgOff[p] + Size[Step.id]
<1>1. todo # <<>> /\ Step.op = "head" /\ Step.op \notin {"erase", "copy"} /\ todo' = Tail(todo)
      /\ pgRes' = pgRes /\ pc' = pc /\ call' = call /\ boot' = boot
      /\ pgLost' = pgLost
  BY DEF WriteHeader, Doing, codeVars
<1>2. p \in Pages /\ items \in Seq(Item) /\ Len(items) \in Nat /\ DOMAIN items = 1 .. Len(items)
      /\ pgOff[p] \in Nat /\ pgLost[p] \in Nat
  BY <1>1, StepFacts
<1>3. /\ Step.id \in Ids /\ Step.id # Nothing /\ Size[Step.id] \in 1 .. PageSize
      /\ Size[Step.id] \in Nat
  BY <1>1, NextOp, OpFields, ItemsAssumption
<1>4. item \in Item /\ item.id # Nothing /\ item.len = Size[Step.id] /\ Sized(item)
  BY <1>3 DEF Item, Sized
<1> HIDE DEF item
<1>5. /\ new \in Seq(Item) /\ Total(new) = Total(items) + Size[Step.id]
      /\ Lost(new) = Lost(items) /\ Len(new) = Len(items) + 1
      /\ \A j \in 1 .. Len(items) : new[j] = items[j]
      /\ new[Len(items) + 1] = item
  BY <1>2, <1>4, TotalAppend, LostAppend
<1> HIDE DEF new
<1>6. page \in PageType /\ page.items = new /\ off \in Nat
  <2>1. page \in PageType /\ page.items = new
    BY <1>1, <1>5, StepFacts DEF PageType
  <2>2. off \in Nat
    BY ONLY <1>2, <1>3
  <2> QED
    BY <2>1, <2>2
<1>7. /\ flash' = [flash EXCEPT ![p] = page]
      /\ pgOff' = [pgOff EXCEPT ![p] = off]
      /\ pgLost' = [pgLost EXCEPT ![p] = pgLost[p]]
  BY <1>1, StepFacts DEF WriteHeader, item, new
<1> HIDE DEF page
<1>8. /\ p \in Targets(Step)
      /\ \A j \in 1 .. Len(page.items) : Sized(page.items[j])
      /\ \A j \in DOMAIN flash[p].items :
           flash[p].items[j].id # Nothing => /\ j \in DOMAIN page.items
                                             /\ page.items[j].id # Nothing
  <2>1. \A j \in 1 .. Len(items) : Sized(items[j])
    BY <1>1, StepFacts
  <2>2. ASSUME NEW j \in 1 .. Len(new) PROVE Sized(new[j])
    <3>1. j \in 1 .. Len(items) \/ j = Len(items) + 1
      BY <1>2, <1>5
    <3> QED
      BY <1>4, <1>5, <2>1, <3>1
  <2>3. \A j \in DOMAIN items : items[j].id # Nothing => j \in DOMAIN new /\ new[j].id # Nothing
    BY <1>2, <1>5
  <2>4. p \in Targets(Step)
    BY <1>1 DEF Targets
  <2> QED
    BY <1>6, <2>2, <2>3, <2>4
<1>9. /\ Total(page.items) <= PageSize
      /\ Total(page.items) + pgOff[p] <= TotalOn(p) + off
      /\ pgLost[p] + LostOn(p) + pgOff[p] + Total(page.items)
           <= pgLost[p] + Lost(page.items) + off + TotalOn(p)
      /\ off <= pgOff[p] + Room(flash, Step, p)
  <2>1. Total(page.items) = TotalOn(p) + Size[Step.id] /\ Lost(page.items) = LostOn(p)
    BY <1>5, <1>6 DEF TotalOn, LostOn
  <2>2. Room(flash, Step, p) = Size[Step.id]
    BY <1>1 DEF Room
  <2>3. TotalOn(p) <= pgOff[p]
    BY <1>1, <1>8, NextOp DEF NvInv, TargetsOK, Clear, Step
  <2>4. pgOff[p] + Size[Step.id] <= PageSize
    <3>1. /\ Planned(flash, todo, p) = Room(flash, Step, p) + Planned(flash, Tail(todo), p)
          /\ Planned(flash, Tail(todo), p) \in Nat
      <4>1. flash \in Flashes /\ todo \in Seq(Ops)
        BY DEF NvInv, Types, TypeOK, Flashes
      <4> QED
        BY <1>1, <1>2, <4>1, PlannedTail, PlannedNat, NextOp DEF Step
    <3>2. pgOff[p] + Planned(flash, todo, p) <= PageSize
      BY <1>2 DEF NvInv, RoomOK
    <3> QED
      BY <1>2, <1>3, <2>2, <3>1, <3>2, ItemsAssumption
  <2> QED
    BY <1>1, <1>3, <2>1, <2>2, <2>3, <2>4, StepFacts
<1> HIDE DEF items, off
<1> QED
  BY ONLY NvInv, <1>1, <1>2, <1>6, <1>7, <1>8, <1>9, StepDone

\* The plan with another one X for its first operation, and the flash as it is.
LEMMA PlanKeeps ==
  ASSUME NvInv, todo # <<>>, Step.op # "erase",
         NEW X \in Seq(Ops), todo' = X \o Tail(todo),
         flash' = flash, pgRes' = pgRes, pc' = pc, call' = call, boot' = boot,
         pgOff' = pgOff, pgLost' = pgLost,
         \A p \in Pages : Planned(flash, X, p) <= Room(flash, Step, p),
         \A op \in ToSet(X) :
           /\ op.op \notin {"zero", "erase"}
           /\ \A p \in Pages : Touches(op, p) => Touches(Step, p)
           /\ Targets(op) \subseteq Targets(Step)
           /\ op.op = "copy" => Step.op = "copy" /\ op.pg = Step.pg
           /\ Writes(op) => Copying(op) /\ Copying(Step)
  PROVE  NvInv'
<1>1. /\ flash' \in Flashes /\ pgOff' \in [Pages -> Nat] /\ pgLost' \in [Pages -> Nat]
      /\ ItemsSized'
  BY DEF NvInv, Types, TypeOK, Flashes, ItemsSized
<1>2. Step \in Ops
  BY NextOp
<1>3. ASSUME NEW p \in Pages
      PROVE  /\ TotalOn(p)' <= PageSize
             /\ TotalOn(p)' + pgOff[p] <= TotalOn(p) + pgOff'[p]
             /\ pgLost'[p] + LostOn(p) + pgOff[p] + TotalOn(p)'
                  <= pgLost[p] + LostOn(p)' + pgOff'[p] + TotalOn(p)
             /\ pgOff'[p] + Planned(flash', X, p) <= pgOff[p] + Room(flash, Step, p)
             /\ ~ Touches(Step, p) => flash'[p] = flash[p] /\ pgOff'[p] = pgOff[p]
  <2>1. TotalOn(p)' = TotalOn(p) /\ LostOn(p)' = LostOn(p)
    BY DEF TotalOn, LostOn
  <2>2. /\ TotalOn(p) \in Nat /\ LostOn(p) \in Nat /\ pgOff[p] \in Nat /\ pgLost[p] \in Nat
        /\ TotalOn(p) <= PageSize
    BY PageTyped
  <2>3. flash \in Flashes
    BY DEF NvInv, Types, TypeOK, Flashes
  <2>4. Planned(flash, X, p) \in Nat /\ Room(flash, Step, p) \in Nat
    BY <1>2, <2>3, PlannedNat, RoomNat
  <2>5. Planned(flash, X, p) <= Room(flash, Step, p)
    OBVIOUS
  <2>6. pgOff'[p] = pgOff[p] /\ pgLost'[p] = pgLost[p] /\ flash'[p] = flash[p]
        /\ Planned(flash', X, p) = Planned(flash, X, p)
    OBVIOUS
  <2> QED
    BY ONLY <2>1, <2>2, <2>4, <2>5, <2>6
<1>4. \A op \in ToSet(Tail(todo)) :
        op.op = "copy" => Fewer(flash'[op.pg].items, flash[op.pg].items)
  BY DEF Fewer
<1>5. Step.op # "zero" =>
        \A p \in Pages : \A k \in DOMAIN flash[p].items :
          flash[p].items[k].id # Nothing => /\ k \in DOMAIN flash'[p].items
                                            /\ flash'[p].items[k].id # Nothing
  OBVIOUS
<1> QED
  BY <1>1, <1>3, <1>4, <1>5, StepKeeps

\* The records a plan is made of.
LEMMA OpsAre ==
  /\ \A name, p : ToSet(Op(name, p)) = {[op |-> name, pg |-> p]}
  /\ \A name, p, k : ToSet(ItemOp(name, <<p, k>>)) = {[op |-> name, pg |-> p, k |-> k]}
  /\ \A p, id :
       /\ ToSet(WriteItem(p, id, TRUE)) = {[op |-> "head", pg |-> p, id |-> id, copy |-> TRUE]}
       /\ ToSet(WriteItem(p, id, FALSE)) = {[op |-> "head", pg |-> p, id |-> id, copy |-> FALSE]}
  /\ \A p, v :
       /\ ToSet(Seal(p, v, TRUE)) = {[op |-> "seal", pg |-> p, val |-> v, copy |-> TRUE]}
       /\ ToSet(Seal(p, v, FALSE)) = {[op |-> "seal", pg |-> p, val |-> v, copy |-> FALSE]}
  /\ \A p, k, to, skip :
       ToSet(Copies(p, k, to, skip))
         = {[op |-> "copy", pg |-> p, k |-> k, to |-> to, skip |-> skip]}
  /\ ToSet(<<>>) = {}
BY SetOfOne DEF Op, ItemOp, WriteItem, Seal, Copies

\* The room they take.
LEMMA PlannedOp ==
  ASSUME NEW fl \in Flashes, NEW q \in Pages, NEW p \in Pages,
         NEW name \in {"xfer", "use", "erase"}
  PROVE  Planned(fl, Op(name, p), q) = 0
<1> DEFINE op == [op |-> name, pg |-> p]
<1>1. op \in Ops /\ Room(fl, op, q) = 0
  BY DEF Ops, Room
<1> HIDE DEF op
<1>2. Planned(fl, <<op>>, q) = 0
  BY <1>1, PlannedOne
<1> QED
  BY <1>2 DEF Op, op

LEMMA PlannedItemOp ==
  ASSUME NEW fl \in Flashes, NEW q \in Pages, NEW p \in Pages, NEW k \in Nat \ {0},
         NEW name \in {"mark", "zero"}
  PROVE  Planned(fl, ItemOp(name, <<p, k>>), q) = 0
<1> DEFINE op == [op |-> name, pg |-> p, k |-> k]
<1>1. op \in Ops /\ Room(fl, op, q) = 0
  BY DEF Ops, Room
<1> HIDE DEF op
<1>2. Planned(fl, <<op>>, q) = 0
  BY <1>1, PlannedOne
<1> QED
  BY <1>2 DEF ItemOp, op

LEMMA PlannedWrite ==
  ASSUME NEW fl \in Flashes, NEW q \in Pages, NEW p \in Pages, NEW id \in Ids
  PROVE  /\ Planned(fl, WriteItem(p, id, TRUE), q) = IF p = q THEN Size[id] ELSE 0
         /\ Planned(fl, WriteItem(p, id, FALSE), q) = IF p = q THEN Size[id] ELSE 0
<1> DEFINE op == [op |-> "head", pg |-> p, id |-> id, copy |-> TRUE]
           own == [op |-> "head", pg |-> p, id |-> id, copy |-> FALSE]
<1>1. /\ op \in Ops /\ Room(fl, op, q) = IF p = q THEN Size[id] ELSE 0
      /\ own \in Ops /\ Room(fl, own, q) = IF p = q THEN Size[id] ELSE 0
  BY DEF Ops, Room
<1> HIDE DEF op, own
<1>2. /\ Planned(fl, <<op>>, q) = IF p = q THEN Size[id] ELSE 0
      /\ Planned(fl, <<own>>, q) = IF p = q THEN Size[id] ELSE 0
  BY <1>1, PlannedOne
<1> QED
  BY <1>2 DEF WriteItem, op, own

LEMMA PlannedSeal ==
  ASSUME NEW fl \in Flashes, NEW q \in Pages, NEW p \in Pages, NEW v \in Values \cup {Blank}
  PROVE  Planned(fl, Seal(p, v, TRUE), q) = 0 /\ Planned(fl, Seal(p, v, FALSE), q) = 0
<1> DEFINE op == [op |-> "seal", pg |-> p, val |-> v, copy |-> TRUE]
           own == [op |-> "seal", pg |-> p, val |-> v, copy |-> FALSE]
<1>1. /\ op \in Ops /\ Room(fl, op, q) = 0
      /\ own \in Ops /\ Room(fl, own, q) = 0
  BY DEF Ops, Room
<1> HIDE DEF op, own
<1>2. Planned(fl, <<op>>, q) = 0 /\ Planned(fl, <<own>>, q) = 0
  BY <1>1, PlannedOne
<1> QED
  BY <1>2 DEF Seal, op, own

LEMMA PlannedCopies ==
  ASSUME NEW fl \in Flashes, NEW q \in Pages, NEW p \in Pages, NEW to \in Pages,
         NEW k \in Nat \ {0}, NEW skip \in Ids \cup {Nothing}
  PROVE  Planned(fl, Copies(p, k, to, skip), q)
           = IF to = q THEN CopyRoom(fl[p].items, k, skip) ELSE 0
<1> DEFINE op == [op |-> "copy", pg |-> p, k |-> k, to |-> to, skip |-> skip]
<1>1. op \in Ops /\ Room(fl, op, q) = IF to = q THEN CopyRoom(fl[p].items, k, skip) ELSE 0
  BY DEF Ops, Room
<1> HIDE DEF op
<1>2. Planned(fl, <<op>>, q) = IF to = q THEN CopyRoom(fl[p].items, k, skip) ELSE 0
  BY <1>1, PlannedOne
<1> QED
  BY <1>2 DEF Copies, op

LEMMA PlannedNone ==
  ASSUME NEW fl \in Flashes, NEW q \in Pages
  PROVE  Planned(fl, <<>>, q) = 0
<1>1. [op |-> "use", pg |-> q] \in Ops
  BY DEF Ops
<1> QED
  BY <1>1, PlannedOne

\* compactPage takes its items in turn, and no more room than was left for them.
LEMMA CopyItemKeeps == NvInv /\ CopyItem => NvInv'
<1> SUFFICES ASSUME NvInv, CopyItem PROVE NvInv'
  OBVIOUS
<1> DEFINE pg == Step.pg
           k == Step.k
           to == Step.to
           skip == Step.skip
           items == flash[pg].items
           item == items[k]
           on == Copies(pg, k + 1, to, skip)
           mark == MarkXfer(<<pg, k>>)
           head == WriteItem(to, item.id, TRUE)
           seal == Seal(to, item.val, TRUE)
           X == CASE k > Len(items) -> <<>>
                  [] k <= Len(items) /\ ~ Goes(item, skip) -> on
                  [] k <= Len(items) /\ Goes(item, skip) -> mark \o head \o seal \o on
<1>1. /\ todo # <<>> /\ Step.op = "copy" /\ Step.op # "erase" /\ todo' = X \o Tail(todo)
      /\ flash' = flash /\ pgRes' = pgRes /\ pc' = pc /\ call' = call /\ boot' = boot
      /\ pgOff' = pgOff /\ pgLost' = pgLost
  BY Zenon DEF CopyItem, Doing, ramVars, codeVars
<1>2. /\ Step \in Ops /\ pg \in Pages /\ to \in Pages /\ k \in Nat \ {0} /\ k + 1 \in Nat \ {0}
      /\ skip \in Ids \cup {Nothing}
  <2>1. todo # <<>> /\ Step.op = "copy"
    BY <1>1, Zenon
  <2>2. Step \in Ops
    BY <2>1, NextOp
  <2>3. pg \in Pages /\ to \in Pages /\ k \in Nat \ {0} /\ skip \in Ids \cup {Nothing}
    BY ONLY <2>1, <2>2, OpFields
  <2>4. k + 1 \in Nat \ {0}
    BY ONLY <2>3
  <2> QED
    BY ONLY <2>2, <2>3, <2>4
<1>3. /\ items \in Seq(Item) /\ Len(items) \in Nat
      /\ \A j \in 1 .. Len(items) : Sized(items[j]) /\ items[j] \in Item
      /\ flash \in Flashes
  BY <1>1, StepFacts, Zenon DEF NvInv, Types, TypeOK, Flashes
<1> HIDE DEF pg, k, to, skip, items
<1>4. ASSUME k <= Len(items), Goes(item, skip)
      PROVE  /\ item \in Item /\ item.id \in Ids /\ item.val \in Values \cup {Blank}
             /\ item.len = Size[item.id] /\ k \in 1 .. Len(items)
  BY <1>2, <1>3, <1>4 DEF Item, Goes, Sized
<1>5. on \in Seq(Ops) /\ mark \in Seq(Ops)
  BY <1>2, OpsTyped DEF MarkXfer
<1>6. ASSUME k <= Len(items), Goes(item, skip)
      PROVE  head \in Seq(Ops) /\ seal \in Seq(Ops)
  BY <1>2, <1>4, <1>6, OpsTyped
<1> HIDE DEF item, on, mark, head, seal
<1>7. X \in Seq(Ops)
  <2>1. ASSUME k <= Len(items), Goes(item, skip)
        PROVE  mark \o head \o seal \o on \in Seq(Ops)
    BY <1>5, <1>6, <2>1
  <2>2. <<>> \in Seq(Ops)
    BY OpsTyped
  <2> QED
    BY <1>2, <1>3, <1>5, <2>1, <2>2
<1>11. /\ k > Len(items) => X = <<>>
       /\ k <= Len(items) /\ ~ Goes(item, skip) => X = on
       /\ k <= Len(items) /\ Goes(item, skip) => X = ((mark \o head) \o seal) \o on
       /\ k > Len(items) \/ k <= Len(items)
  BY <1>2, <1>3
<1> HIDE DEF X
<1>8. ASSUME NEW p \in Pages PROVE Planned(flash, X, p) <= Room(flash, Step, p)
  <2>1. Room(flash, Step, p) = IF to = p THEN CopyRoom(items, k, skip) ELSE 0
    BY <1>1 DEF Room, to, items, k, skip, pg
  <2>2. Planned(flash, on, p) = IF to = p THEN CopyRoom(items, k + 1, skip) ELSE 0
    BY <1>2, <1>3, PlannedCopies DEF on, items
  <2>3. CopyRoom(items, k, skip) \in Nat /\ CopyRoom(items, k + 1, skip) \in Nat
    BY <1>3, CopyRoomNat
  <2>4. CASE k > Len(items)
    BY <1>3, PlannedNone, <1>11, <2>4, <2>1, <2>3
  <2>5. CASE k <= Len(items) /\ ~ Goes(item, skip)
    <3>1. k \in 1 .. Len(items)
      BY <1>2, <1>3, <2>5
    <3>2. CopyRoom(items, k + 1, skip) <= CopyRoom(items, k, skip)
      BY <1>3, <3>1, CopyRoomStep
    <3>3. X = on
      BY <1>11, <2>5
    <3> QED
      BY <2>1, <2>2, <2>3, <3>2, <3>3
  <2>6. CASE k <= Len(items) /\ Goes(item, skip)
    <3>1. k \in 1 .. Len(items) /\ item.len = Size[item.id] /\ item.id \in Ids
          /\ item.val \in Values \cup {Blank}
      BY <1>4, <2>6
    <3>2. CopyRoom(items, k + 1, skip) + Size[item.id] <= CopyRoom(items, k, skip)
      BY <1>3, <2>6, <3>1, CopyRoomStep DEF item
    <3>3. X = ((mark \o head) \o seal) \o on
      BY <1>11, <2>6
    <3>4. /\ mark \in Seq(Ops) /\ head \in Seq(Ops) /\ seal \in Seq(Ops) /\ on \in Seq(Ops)
          /\ mark \o head \in Seq(Ops) /\ (mark \o head) \o seal \in Seq(Ops)
      BY <1>5, <1>6, <2>6
    <3>5. Planned(flash, ((mark \o head) \o seal) \o on, p)
            = ((Planned(flash, mark, p) + Planned(flash, head, p)) + Planned(flash, seal, p))
              + Planned(flash, on, p)
      <4>1. Planned(flash, mark \o head, p) = Planned(flash, mark, p) + Planned(flash, head, p)
        BY <1>3, <3>4, PlannedConcat
      <4>2. Planned(flash, (mark \o head) \o seal, p)
              = Planned(flash, mark \o head, p) + Planned(flash, seal, p)
        BY <1>3, <3>4, PlannedConcat
      <4>3. Planned(flash, ((mark \o head) \o seal) \o on, p)
              = Planned(flash, (mark \o head) \o seal, p) + Planned(flash, on, p)
        BY <1>3, <3>4, PlannedConcat
      <4> QED
        BY <4>1, <4>2, <4>3
    <3>6. Planned(flash, mark, p) = 0
      BY <1>2, <1>3, PlannedItemOp, PlannedNone DEF mark, MarkXfer
    <3>7. Planned(flash, head, p) = IF to = p THEN Size[item.id] ELSE 0
      BY <1>2, <1>3, <3>1, PlannedWrite DEF head
    <3>8. Planned(flash, seal, p) = 0
      BY <1>2, <1>3, <3>1, PlannedSeal DEF seal
    <3>9. Size[item.id] \in Nat
      BY <3>1, ItemsAssumption
    <3>10. Planned(flash, X, p)
             = IF to = p THEN Size[item.id] + CopyRoom(items, k + 1, skip) ELSE 0
      BY <2>2, <2>3, <3>3, <3>5, <3>6, <3>7, <3>8, <3>9
    <3> QED
      BY <2>1, <2>3, <3>2, <3>9, <3>10
  <2> QED
    BY <1>11, <2>4, <2>5, <2>6
<1>9. ASSUME NEW op \in ToSet(X)
      PROVE  \/ op = [op |-> "mark", pg |-> pg, k |-> k]
             \/ op = [op |-> "head", pg |-> to, id |-> item.id, copy |-> TRUE]
             \/ op = [op |-> "seal", pg |-> to, val |-> item.val, copy |-> TRUE]
             \/ op = [op |-> "copy", pg |-> pg, k |-> k + 1, to |-> to, skip |-> skip]
  <2>1. /\ ToSet(mark) \subseteq {[op |-> "mark", pg |-> pg, k |-> k]}
        /\ ToSet(head) = {[op |-> "head", pg |-> to, id |-> item.id, copy |-> TRUE]}
        /\ ToSet(seal) = {[op |-> "seal", pg |-> to, val |-> item.val, copy |-> TRUE]}
        /\ ToSet(on) = {[op |-> "copy", pg |-> pg, k |-> k + 1, to |-> to, skip |-> skip]}
        /\ ToSet(<<>>) = {}
    <3>1. ToSet(mark) \subseteq {[op |-> "mark", pg |-> pg, k |-> k]}
      BY OpsAre DEF mark, MarkXfer
    <3>2. ToSet(head) = {[op |-> "head", pg |-> to, id |-> item.id, copy |-> TRUE]}
      BY OpsAre DEF head
    <3>3. ToSet(seal) = {[op |-> "seal", pg |-> to, val |-> item.val, copy |-> TRUE]}
      BY OpsAre DEF seal
    <3>4. ToSet(on) = {[op |-> "copy", pg |-> pg, k |-> k + 1, to |-> to, skip |-> skip]}
      BY OpsAre DEF on
    <3>5. ToSet(<<>>) = {}
      BY OpsAre
    <3> QED
      BY ONLY <3>1, <3>2, <3>3, <3>4, <3>5
  <2>2. CASE k > Len(items)
    BY <1>11, <2>2, <1>9, <2>1
  <2>3. CASE k <= Len(items) /\ ~ Goes(item, skip)
    BY <1>11, <2>3, <1>9, <2>1
  <2>4. CASE k <= Len(items) /\ Goes(item, skip)
    <3>1. X = ((mark \o head) \o seal) \o on
      BY <1>11, <2>4
    <3>2. /\ mark \in Seq(Ops) /\ head \in Seq(Ops) /\ seal \in Seq(Ops) /\ on \in Seq(Ops)
      BY <1>5, <1>6, <2>4
    <3>3. mark \o head \in Seq(Ops) /\ (mark \o head) \o seal \in Seq(Ops)
      BY <3>2
    <3>4. ToSet(X) = ((ToSet(mark) \cup ToSet(head)) \cup ToSet(seal)) \cup ToSet(on)
      <4>1. ToSet(mark \o head) = ToSet(mark) \cup ToSet(head)
        BY <3>2, SetOfPlans
      <4>2. ToSet((mark \o head) \o seal) = ToSet(mark \o head) \cup ToSet(seal)
        BY <3>2, <3>3, SetOfPlans
      <4>3. ToSet(X) = ToSet((mark \o head) \o seal) \cup ToSet(on)
        BY <3>1, <3>2, <3>3, SetOfPlans
      <4> QED
        BY ONLY <4>1, <4>2, <4>3
    <3> QED
      BY <1>9, <2>1, <3>4
  <2> QED
    BY <1>11, <2>2, <2>3, <2>4
<1>10. ASSUME NEW op \in ToSet(X)
       PROVE  /\ op.op \notin {"zero", "erase"}
              /\ \A p \in Pages : Touches(op, p) => Touches(Step, p)
              /\ Targets(op) \subseteq Targets(Step)
              /\ op.op = "copy" => Step.op = "copy" /\ op.pg = Step.pg
              /\ Writes(op) => Copying(op) /\ Copying(Step)
  BY <1>9, <1>1 DEF Targets, to, Touches, pg, Writes, Copying
<1> HIDE DEF X
<1> QED
  BY <1>1, <1>7, <1>8, <1>10, PlanKeeps

\* Plans that only use and erase pages, the last one erased being left alone.
LEMMA EraseToCome ==
  ASSUME NEW p \in Pages, NEW a \in Seq(Ops)
  PROVE  ToCome(a \o Op("erase", p))
<1>1. Op("erase", p) \in Seq(Ops)
  BY OpsTyped
<1>2. ToCome(Op("erase", p))
  BY DEF Op, ToCome
<1> QED
  BY <1>1, <1>2, ToComeAfter

LEMMA NoneToCome == ~ ToCome(<<>>)
BY DEF ToCome

LEMMA AbortPlans ==
  ASSUME NvInv, todo # <<>>, Step.op \in {"head", "seal"}
  PROVE  /\ pgRes \in Pages /\ Aborted(Step) \in Seq(Ops)
         /\ \A op \in ToSet(Aborted(Step)) : op.op \in {"use", "erase"}
         /\ \A p \in Pages : Planned(flash, Aborted(Step), p) = 0
         /\ \/ ToCome(Aborted(Step)) /\ (pc = "call" => call.com # Nothing)
            \/ Aborted(Step) = <<>> /\ pc = "call" /\ call.com = Nothing
<1>1. /\ Step \in ToSet(todo) /\ Writes(Step) /\ pgRes \in Pages /\ Step.copy \in BOOLEAN
  BY NextOp, OpFields DEF Writes, NvInv, PhaseOK
<1>2. /\ pc \in {"call", "recover"}
      /\ pc = "recover" => Step.copy
      /\ pc = "call" /\ Step.copy => call.com # Nothing
  BY <1>1 DEF NvInv, PhaseOK, Copying
<1>3. call.com \in Pages \cup {Nothing} /\ flash \in Flashes
  BY DEF NvInv, Types, TypeOK, Calls, Flashes
<1> DEFINE done == Aborted(Step)
<1>4. ASSUME NEW p \in Pages, done = Op("erase", p), pc = "call" => call.com # Nothing
      PROVE  /\ done \in Seq(Ops) /\ ToCome(done)
             /\ \A op \in ToSet(done) : op.op \in {"use", "erase"}
             /\ \A q \in Pages : Planned(flash, done, q) = 0
  <2>1. done \in Seq(Ops)
    BY <1>4, OpsTyped
  <2>2. ToCome(done)
    <3>1. <<>> \in Seq(Ops) /\ <<>> \o Op("erase", p) = Op("erase", p)
      BY DEF Op
    <3> QED
      BY <1>4, <3>1, EraseToCome
  <2>3. \A op \in ToSet(done) : op.op \in {"use", "erase"}
    BY <1>4, OpsAre
  <2>4. \A q \in Pages : Planned(flash, done, q) = 0
    BY <1>3, <1>4, PlannedOp
  <2> QED
    BY <2>1, <2>2, <2>3, <2>4
<1>5. ASSUME NEW p \in Pages, done = Op("use", pgRes) \o Op("erase", p)
      PROVE  /\ done \in Seq(Ops) /\ ToCome(done)
             /\ \A op \in ToSet(done) : op.op \in {"use", "erase"}
             /\ \A q \in Pages : Planned(flash, done, q) = 0
  <2>1. Op("use", pgRes) \in Seq(Ops) /\ Op("erase", p) \in Seq(Ops)
    BY <1>1, OpsTyped
  <2>2. ToCome(done)
    BY <1>5, <2>1, EraseToCome
  <2>3. \A op \in ToSet(done) : op.op \in {"use", "erase"}
    BY <1>5, <2>1, SetOfPlans, OpsAre
  <2>4. ASSUME NEW q \in Pages PROVE Planned(flash, done, q) = 0
    BY <1>3, <1>5, <2>1, PlannedConcat, <1>1, PlannedOp
  <2>5. done \in Seq(Ops)
    BY <1>5, <2>1
  <2> QED
    BY <2>2, <2>3, <2>4, <2>5
<1>6. CASE Step.copy \/ (call.com # Nothing /\ call.src # Nothing /\ call.src[1] = call.com)
  <2>1. done = Op("erase", pgRes)
    BY <1>6 DEF Aborted
  <2>2. pc = "call" => call.com # Nothing
    BY <1>2, <1>6
  <2> HIDE DEF done
  <2>3. /\ done \in Seq(Ops) /\ ToCome(done)
        /\ \A op \in ToSet(done) : op.op \in {"use", "erase"}
        /\ \A q \in Pages : Planned(flash, done, q) = 0
    BY <1>1, <1>4, <2>1, <2>2
  <2> QED
    BY <1>1, <2>2, <2>3 DEF done
<1>7. CASE ~ Step.copy /\ call.com = Nothing
  <2>1. done = <<>> /\ pc = "call"
    BY <1>2, <1>7 DEF Aborted
  <2>2. <<>> \in Seq(Ops) /\ ToSet(<<>>) = {}
    BY OpsAre, OpsTyped
  <2>3. \A q \in Pages : Planned(flash, <<>>, q) = 0
    BY <1>3, PlannedNone
  <2> HIDE DEF done
  <2>4. /\ done \in Seq(Ops) /\ done = <<>>
        /\ \A op \in ToSet(done) : op.op \in {"use", "erase"}
        /\ \A q \in Pages : Planned(flash, done, q) = 0
    BY <2>1, <2>2, <2>3
  <2> QED
    BY <1>1, <1>7, <2>1, <2>4 DEF done
<1>8. CASE ~ Step.copy /\ call.com # Nothing /\ ~ (call.src # Nothing /\ call.src[1] = call.com)
  <2>1. done = Op("use", pgRes) \o Op("erase", call.com) /\ call.com \in Pages
    BY <1>3, <1>8 DEF Aborted, Cleanup
  <2> HIDE DEF done
  <2>2. /\ done \in Seq(Ops) /\ ToCome(done)
        /\ \A op \in ToSet(done) : op.op \in {"use", "erase"}
        /\ \A q \in Pages : Planned(flash, done, q) = 0
    BY <1>5, <2>1
  <2> QED
    BY <1>1, <1>8, <2>2 DEF done
<1> QED
  BY <1>1, <1>6, <1>7, <1>8

\* A write that has read back wrong gives the plan up.
LEMMA AbortKeeps ==
  ASSUME NvInv, todo # <<>>, Step.op \in {"head", "seal"}, todo' = Aborted(Step),
         call' = [call EXCEPT !.ok = FALSE],
         flash' = flash, pgRes' = pgRes, pc' = pc, boot' = boot,
         pgOff' \in [Pages -> Nat], pgLost' \in [Pages -> Nat],
         \A p \in Pages : /\ pgOff'[p] <= PageSize
                          /\ Counted(p) => Counted(p)'
                          /\ p # Step.pg => pgOff'[p] = pgOff[p]
  PROVE  NvInv'
<1>1. /\ pgRes \in Pages /\ todo' \in Seq(Ops)
      /\ \A op \in ToSet(todo') : op.op \in {"use", "erase"}
      /\ \A p \in Pages : Planned(flash, todo', p) = 0
      /\ \/ ToCome(todo') /\ (pc = "call" => call.com # Nothing)
         \/ todo' = <<>> /\ pc = "call" /\ call.com = Nothing
  BY AbortPlans
<1>2. pc \in {"recover", "last", "call"} /\ Step.pg \in Pages /\ Step \in ToSet(todo)
  BY NextOp, OpFields
<1>3. Types'
  BY <1>1 DEF NvInv, Types, Calls, ItemsSized, TypeOK
<1>4. PagesFit'
  BY DEF NvInv, PagesFit, TotalOn
<1>5. CountsOK'
  BY <1>2 DEF NvInv, CountsOK
<1>6. WalkOK' /\ HeadersOK'
  BY <1>2 DEF WalkOK, HeadersOK
<1>7. RoomOK'
  <2>1. SUFFICES ASSUME NEW p \in Pages PROVE pgOff'[p] + Planned(flash', todo', p) <= PageSize
    BY DEF RoomOK
  <2>2. Planned(flash', todo', p) = 0 /\ pgOff'[p] <= PageSize /\ pgOff'[p] \in Nat
    BY <1>1
  <2> QED
    BY ONLY <2>2
<1>8. TargetsOK' /\ SourcesOK'
  BY <1>1 DEF Targets, TargetsOK, SourcesOK
<1>9. ZeroesOK' /\ PhaseOK'
  BY <1>1, <1>2 DEF ToSet, Writes, ZeroesOK, PhaseOK
<1>10. ReserveOK'
  BY <1>2, OpsAre, <1>1 DEF NvInv, Types, Calls, ReserveOK, Ready, Touches
<1> QED
  BY <1>3, <1>4, <1>5, <1>6, <1>7, <1>8, <1>9, <1>10 DEF NvInv

\* No page is counted to hold more than it can.
LEMMA OffFits ==
  ASSUME NvInv, NEW p \in Pages
  PROVE  pgOff[p] \in Nat /\ pgOff[p] <= PageSize
<1>1. flash \in Flashes /\ todo \in Seq(Ops) /\ pgOff[p] \in Nat
  BY DEF NvInv, Types, TypeOK, Flashes
<1>2. Planned(flash, todo, p) \in Nat
  BY <1>1, PlannedNat
<1>3. pgOff[p] + Planned(flash, todo, p) <= PageSize
  BY DEF NvInv, RoomOK
<1> QED
  BY ONLY <1>1, <1>2, <1>3, ItemsAssumption

LEMMA SealFailsKeeps == NvInv /\ SealFails => NvInv'
BY OffFits, AbortKeeps DEF SealFails, Doing, ramVars, NvInv, Types, TypeOK, Counted, TotalOn,
   LostOn

LEMMA HeaderFailsKeeps == NvInv /\ HeaderFails => NvInv'
<1> SUFFICES ASSUME NvInv, HeaderFails PROVE NvInv'
  OBVIOUS
<1> DEFINE q == Step.pg
<1>1. /\ todo # <<>> /\ Step.op \in {"head", "seal"} /\ todo' = Aborted(Step)
      /\ call' = [call EXCEPT !.ok = FALSE]
      /\ flash' = flash /\ pgRes' = pgRes /\ pc' = pc /\ boot' = boot
      /\ pgOff' = [pgOff EXCEPT ![q] = PageSize]
      /\ pgLost' = [pgLost EXCEPT ![q] = pgLost[q] + PageSize - pgOff[q]]
  BY DEF HeaderFails, Doing
<1>2. /\ q \in Pages /\ pgOff \in [Pages -> Nat] /\ pgLost \in [Pages -> Nat]
      /\ pgOff[q] \in Nat /\ pgLost[q] \in Nat /\ PageSize \in Nat /\ pgOff[q] <= PageSize
  BY <1>1, StepFacts, OffFits
<1>3. pgLost[q] + PageSize - pgOff[q] \in Nat
  BY ONLY <1>2
<1>4. pgOff' \in [Pages -> Nat] /\ pgLost' \in [Pages -> Nat]
  BY <1>1, <1>2, <1>3
<1>5. ASSUME NEW p \in Pages
      PROVE  /\ pgOff'[p] <= PageSize
             /\ Counted(p) => Counted(p)'
             /\ p # q => pgOff'[p] = pgOff[p]
  <2>1. TotalOn(p)' = TotalOn(p) /\ LostOn(p)' = LostOn(p)
    BY <1>1 DEF TotalOn, LostOn
  <2>2. CASE p = q
    <3>1. pgOff'[p] = PageSize /\ pgLost'[p] = pgLost[p] + PageSize - pgOff[p]
      BY <1>1, <1>2, <2>2
    <3>2. TotalOn(p) \in Nat /\ LostOn(p) \in Nat /\ TotalOn(p) <= PageSize
      BY PageTyped
    <3>3. ASSUME TotalOn(p) <= pgOff[p], pgLost[p] <= LostOn(p) + pgOff[p] - TotalOn(p)
          PROVE  pgLost'[p] <= LostOn(p) + pgOff'[p] - TotalOn(p)
      BY ONLY <1>2, <2>2, <3>1, <3>2, <3>3
    <3> QED
      BY <1>2, <2>1, <2>2, <3>1, <3>2, <3>3 DEF Counted
  <2>3. CASE p # q
    BY <1>1, <1>2, <2>1, <2>3, OffFits DEF Counted
  <2> QED
    BY <2>2, <2>3
<1> HIDE DEF q
<1>6. \A p \in Pages : /\ pgOff'[p] <= PageSize
                       /\ Counted(p) => Counted(p)'
                       /\ p # Step.pg => pgOff'[p] = pgOff[p]
  BY <1>5 DEF q
<1> QED
  BY <1>1, <1>4, <1>6, AbortKeeps

\* The page that is erased is the reserve page from then on.
LEMMA ErasePageKeeps == NvInv /\ ErasePage => NvInv'
<1> SUFFICES ASSUME NvInv, ErasePage PROVE NvInv'
  OBVIOUS
<1>0. PICK q : q = Step.pg
  OBVIOUS
<1>1. /\ todo # <<>> /\ Step.op = "erase" /\ todo' = Tail(todo)
      /\ pgRes' = q /\ pc' = pc /\ call' = call /\ boot' = boot
      /\ flash' = [flash EXCEPT ![q] = Erased]
      /\ pgOff' = [pgOff EXCEPT ![q] = 0] /\ pgLost' = [pgLost EXCEPT ![q] = 0]
  BY <1>0 DEF ErasePage, Doing, codeVars
<1>2. /\ Step \in Ops /\ Step \in ToSet(todo) /\ Tail(todo) \in Seq(Ops) /\ q \in Pages
      /\ ToSet(Tail(todo)) \subseteq ToSet(todo) /\ ToSet(todo) \subseteq Ops
      /\ pc \in {"recover", "last", "call"} /\ Step = Head(todo)
  BY <1>0, <1>1, NextOp, OpFields DEF Step
<1>3. /\ flash \in Flashes /\ pgOff \in [Pages -> Nat] /\ pgLost \in [Pages -> Nat]
      /\ todo \in Seq(Ops) /\ ItemsSized /\ PageSize \in Nat
  BY ItemsAssumption DEF NvInv, Types, TypeOK, Flashes
<1>4. /\ flash' \in Flashes /\ pgOff' \in [Pages -> Nat] /\ pgLost' \in [Pages -> Nat]
      /\ flash'[q] = Erased /\ pgOff'[q] = 0 /\ pgLost'[q] = 0
      /\ flash'[q].items = <<>>
  BY EmptySeq, <1>1, <1>2, <1>3 DEF Erased, Flashes
<1>5. \A p \in Pages : p # q =>
        flash'[p] = flash[p] /\ pgOff'[p] = pgOff[p] /\ pgLost'[p] = pgLost[p]
  BY <1>1, <1>2, <1>3 DEF Flashes
<1>6. Types'
  <2>1. ItemsSized'
    <3>1. SUFFICES ASSUME NEW p \in Pages, NEW k \in 1 .. Len(flash'[p].items)
                   PROVE  Sized(flash'[p].items[k])
      BY DEF ItemsSized
    <3>2. CASE p = q
      BY <1>4, <3>2
    <3>3. CASE p # q
      BY <1>3, <1>5, <3>3 DEF ItemsSized
    <3> QED
      BY <3>2, <3>3
  <2>2. /\ pgRes' \in Pages /\ todo' \in Seq(Ops) /\ pc' = pc /\ call' = call /\ boot' = boot
    BY <1>1, <1>2
  <2>3. TypeOK'
    BY <1>4, <2>2, ItemsAssumption DEF NvInv, Types, TypeOK, Flashes
  <2> QED
    BY <2>1, <2>2, <2>3 DEF NvInv, Types
<1>7. TotalOn(q)' = 0 /\ LostOn(q)' = 0
  BY <1>4, EmptyPage DEF TotalOn, LostOn
<1>8. \A p \in Pages : p # q => TotalOn(p)' = TotalOn(p) /\ LostOn(p)' = LostOn(p)
  BY <1>5 DEF TotalOn, LostOn
<1>9. PagesFit'
  BY <1>3, <1>7, <1>8 DEF NvInv, PagesFit
<1>10. CountsOK'
  BY <1>4, <1>7, <1>5, <1>8, <1>1, <1>2 DEF Counted, NvInv, CountsOK
<1>11. WalkOK' /\ HeadersOK'
  BY <1>1, <1>2 DEF WalkOK, HeadersOK
<1>12. RoomOK'
  <2>1. SUFFICES ASSUME NEW p \in Pages PROVE pgOff'[p] + Planned(flash', todo', p) <= PageSize
    BY DEF RoomOK
  <2>2. Planned(flash', Tail(todo), p) <= Planned(flash, Tail(todo), p)
    <3>1. ASSUME NEW op \in ToSet(Tail(todo)) PROVE Room(flash', op, p) <= Room(flash, op, p)
      <4>1. op \in Ops /\ op.pg \in Pages
        BY <1>2, OpFields
      <4>2. Room(flash, op, p) \in Nat /\ Room(flash', op, p) \in Nat
        BY <1>3, <1>4, <4>1, RoomNat
      <4>3. CASE op.op = "copy" /\ op.pg = q
        <5>1. CopyRoom(flash'[op.pg].items, op.k, op.skip) = 0
          BY <1>4, <4>3, EmptyPage
        <5>2. Room(flash', op, p) = 0
          BY <4>3, <5>1 DEF Room
        <5> QED
          BY ONLY <4>2, <5>2
      <4>4. CASE op.op = "copy" /\ op.pg # q
        <5>1. Room(flash', op, p) = Room(flash, op, p)
          BY <1>5, <4>1, <4>4 DEF Room
        <5> QED
          BY ONLY <4>2, <5>1
      <4>5. CASE op.op # "copy"
        <5>1. Room(flash', op, p) = Room(flash, op, p)
          BY <4>5 DEF Room
        <5> QED
          BY ONLY <4>2, <5>1
      <4> QED
        BY <4>3, <4>4, <4>5
    <3> QED
      BY <1>2, <1>3, <1>4, <3>1, PlannedLeq
  <2>3. Planned(flash, todo, p) = Room(flash, Step, p) + Planned(flash, Tail(todo), p)
    BY <1>1, <1>3, PlannedTail DEF Step
  <2>4. pgOff[p] + Planned(flash, todo, p) <= PageSize
    BY DEF NvInv, RoomOK
  <2>5. /\ Planned(flash', Tail(todo), p) \in Nat /\ Planned(flash, Tail(todo), p) \in Nat
        /\ Room(flash, Step, p) \in Nat /\ pgOff[p] \in Nat /\ pgOff'[p] \in Nat
    BY <1>2, <1>3, <1>4, PlannedNat, RoomNat
  <2>6. pgOff'[p] <= pgOff[p]
    BY <1>4, <1>5, <2>5
  <2>7. todo' = Tail(todo)
    BY <1>1
  <2> QED
    BY ONLY <1>3, <2>2, <2>3, <2>4, <2>5, <2>6, <2>7
<1>13. TargetsOK'
  <2>1. SUFFICES ASSUME NEW op \in ToSet(todo'), NEW p \in Targets(op)
                 PROVE  TotalOn(p)' <= pgOff'[p]
    BY DEF TargetsOK, Clear
  <2>2. op \in ToSet(todo) /\ p \in Pages
    BY <1>1, <1>2, OpFields DEF Targets
  <2>3. Clear(p)
    BY <2>2 DEF NvInv, TargetsOK
  <2>4. CASE p = q
    BY <1>4, <1>7, <2>4
  <2>5. CASE p # q
    BY <1>0, <1>2, <2>3, <2>5, <1>5, <1>8, <2>2 DEF Clear
  <2> QED
    BY <2>4, <2>5
<1>14. SourcesOK'
  BY <1>1, <1>2 DEF NvInv, SourcesOK
<1>15. ZeroesOK'
  <2>1. SUFFICES ASSUME NEW i \in DOMAIN todo', todo'[i].op = "zero"
                 PROVE  /\ i = Len(todo')
                        /\ todo'[i].k \in DOMAIN flash'[todo'[i].pg].items
                        /\ flash'[todo'[i].pg].items[todo'[i].k].id # Nothing
                        /\ \A op \in ToSet(todo') : op.op = "erase" => op.pg # todo'[i].pg
    BY DEF ZeroesOK
  <2> DEFINE z == Tail(todo)[i]
  <2>2. i \in 1 .. Len(Tail(todo)) /\ todo'[i] = z
    BY <1>1, <1>2, <2>1
  <2>3. /\ i = Len(Tail(todo))
        /\ z.pg \in Pages
        /\ z.k \in DOMAIN flash[z.pg].items
        /\ flash[z.pg].items[z.k].id # Nothing
        /\ \A op \in ToSet(todo) : op.op = "erase" => op.pg # z.pg
    BY <1>1, <2>1, <2>2, TailZeroes
  <2> HIDE DEF z
  <2>4. z.pg # q /\ flash'[z.pg] = flash[z.pg]
    BY <1>0, <1>1, <1>2, <1>5, <2>3
  <2> QED
    BY <1>1, <1>2, <2>2, <2>3, <2>4
<1>16. ReserveOK'
  BY <1>1, <1>2, <1>0, TailToCome, <1>4 DEF Touches, Ready, NvInv, ReserveOK
<1>17. PhaseOK'
  BY <1>1, <1>2 DEF NvInv, PhaseOK
<1> QED
  BY <1>6, <1>9, <1>10, <1>11, <1>12, <1>13, <1>14, <1>15, <1>16, <1>17 DEF NvInv

\* Every flash operation keeps the invariant.
LEMMA FlashKeeps == NvInv /\ Flash => NvInv'
BY CopyItemKeeps, MarkPageKeeps, MarkItemKeeps, ZeroItemKeeps, WriteHeaderKeeps,
   HeaderFailsKeeps, SealItemKeeps, SealFailsKeeps, UsePageKeeps, ErasePageKeeps DEF Flash

-----------------------------------------------------------------------------
(* The calls.                                                              *)

\* What a walk over some of the pages leaves of the counts.
Recounted ==
  /\ pgOff' \in [Pages -> Nat] /\ pgLost' \in [Pages -> Nat]
  /\ \A p \in Pages : /\ pgOff'[p] <= PageSize
                      /\ Counted(p) => Counted(p)'
                      /\ flash[p] = Erased /\ pgOff[p] = 0 => pgOff'[p] = 0

\* The counts that a walk takes of some of the pages.
CountsFor(off, lost) ==
  /\ off \in [Pages -> Nat] /\ lost \in [Pages -> Nat]
  /\ \A p \in Pages :
       /\ off[p] <= PageSize
       /\ Counted(p) => /\ TotalOn(p) <= off[p]
                        /\ lost[p] <= LostOn(p) + off[p] - TotalOn(p)
       /\ flash[p] = Erased /\ pgOff[p] = 0 => off[p] = 0

LEMMA WalkCounts ==
  ASSUME NvInv, NEW W
  PROVE  CountsFor(RecountedOff(W), RecountedLost(W))
<1> DEFINE off == RecountedOff(W)
           lost == RecountedLost(W)
<1>1. off = [p \in Pages |-> IF p \in W THEN TotalOn(p) ELSE pgOff[p]]
      /\ lost = [p \in Pages |-> IF p \in W THEN LostOn(p) ELSE pgLost[p]]
  BY DEF RecountedOff, RecountedLost, TotalOn, LostOn
<1> HIDE DEF off, lost
<1>2. ASSUME NEW p \in Pages
      PROVE  /\ off[p] \in Nat /\ lost[p] \in Nat
             /\ off[p] <= PageSize
             /\ Counted(p) => /\ TotalOn(p) <= off[p]
                              /\ lost[p] <= LostOn(p) + off[p] - TotalOn(p)
             /\ flash[p] = Erased /\ pgOff[p] = 0 => off[p] = 0
  <2>1. /\ pgOff[p] \in Nat /\ pgLost[p] \in Nat /\ TotalOn(p) \in Nat /\ LostOn(p) \in Nat
        /\ TotalOn(p) <= PageSize /\ pgOff[p] <= PageSize
    BY PageTyped, OffFits
  <2>2. CASE p \in W
    <3>1. off[p] = TotalOn(p) /\ lost[p] = LostOn(p)
      BY <1>1, <2>2
    <3>2. LostOn(p) <= LostOn(p) + TotalOn(p) - TotalOn(p) /\ TotalOn(p) <= TotalOn(p)
      BY ONLY <2>1
    <3>3. flash[p] = Erased => TotalOn(p) = 0
      BY EmptyPage DEF TotalOn, Erased
    <3> QED
      BY <2>1, <3>1, <3>2, <3>3
  <2>3. CASE p \notin W
    BY <1>1, <2>3, <2>1 DEF Counted
  <2> QED
    BY <2>2, <2>3
<1>3. off \in [Pages -> Nat] /\ lost \in [Pages -> Nat]
  BY <1>1, <1>2
<1>4. CountsFor(off, lost)
  BY <1>2, <1>3 DEF CountsFor
<1> QED
  BY <1>4 DEF off, lost

LEMMA RecountOK ==
  ASSUME NvInv, flash' = flash, NEW id, Recount(id) PROVE Recounted
BY WalkCounts DEF Recount, TotalOn, LostOn, CountsFor, Recounted, Counted

\* Between calls, and once a call is done, the reserve page is erased.
LEMMA Resting ==
  ASSUME NvInv, pc \in {"idle", "call"}, todo = <<>>
  PROVE  /\ pgRes \in Pages /\ flash[pgRes] = Erased /\ pgOff[pgRes] = 0
         /\ flash[pgRes].items = <<>>
         /\ \A p \in Pages : Counted(p)
BY NoneToCome DEF NvInv, ReserveOK, CountsOK, Ready, Erased

\* A call plans, or only counts.
LEMMA CallKeeps ==
  ASSUME NvInv, pc \in {"idle", "call"}, todo = <<>>,
         flash' = flash, pgRes' = pgRes, boot' = boot, Recounted,
         call' \in Calls, todo' \in Seq(Ops),
         pc' = "call" \/ (pc' = "idle" /\ todo' = <<>>),
         \A p \in Pages : pgOff'[p] + Planned(flash, todo', p) <= PageSize,
         \A op \in ToSet(todo') : /\ op.op = "copy" =>
                                       \A other \in ToSet(todo') : op.pg \notin Targets(other)
                                  /\ Copying(op) => call'.com # Nothing,
         \A i \in DOMAIN todo' : todo'[i].op = "zero" =>
           /\ i = Len(todo')
           /\ todo'[i].k \in DOMAIN flash[todo'[i].pg].items
           /\ flash[todo'[i].pg].items[todo'[i].k].id # Nothing
           /\ \A op \in ToSet(todo') : op.op = "erase" => op.pg # todo'[i].pg,
         \/ \A op \in ToSet(todo') : ~ Touches(op, pgRes)
         \/ ToCome(todo') /\ call'.com # Nothing
  PROVE  NvInv'
<1>1. /\ pgRes \in Pages /\ flash[pgRes] = Erased /\ pgOff[pgRes] = 0
      /\ \A p \in Pages : Counted(p)
  BY Resting
<1>2. /\ pgOff' \in [Pages -> Nat] /\ pgLost' \in [Pages -> Nat]
      /\ pgOff'[pgRes] = 0 /\ \A p \in Pages : Counted(p)'
  BY <1>1 DEF Recounted
<1>3. Types'
  BY <1>1, <1>2, ItemsAssumption DEF NvInv, Types, ItemsSized, Calls, TypeOK
<1>4. PagesFit' /\ CountsOK' /\ WalkOK' /\ HeadersOK'
  BY <1>2 DEF NvInv, PagesFit, TotalOn, CountsOK, WalkOK, HeadersOK
<1>5. RoomOK'
  BY DEF RoomOK
<1>6. TargetsOK'
  BY OpFields, <1>2 DEF ToSet, Targets, TargetsOK, Clear, Counted
<1>7. SourcesOK' /\ ZeroesOK'
  BY DEF SourcesOK, ZeroesOK
<1>8. ReserveOK'
  BY <1>1, <1>2 DEF Ready, ReserveOK
<1>9. PhaseOK'
  BY OpsAre, <1>1 DEF PhaseOK
<1> QED
  BY <1>3, <1>4, <1>5, <1>6, <1>7, <1>8, <1>9 DEF NvInv

\* A call that only counts.
LEMMA QuietKeeps ==
  ASSUME NvInv, pc \in {"idle", "call"}, todo = <<>>, todo' = <<>>,
         flash' = flash, pgRes' = pgRes, boot' = boot, Recounted,
         call' \in Calls, pc' \in {"idle", "call"}
  PROVE  NvInv'
<1>1. <<>> \in Seq(Ops) /\ ToSet(<<>>) = {} /\ DOMAIN <<>> = {}
  BY OpsAre, OpsTyped
<1>2. ASSUME NEW p \in Pages PROVE pgOff'[p] + Planned(flash, <<>>, p) <= PageSize
  <2>1. flash \in Flashes
    BY DEF NvInv, Types, TypeOK, Flashes
  <2>2. Planned(flash, <<>>, p) = 0
    BY <2>1, PlannedNone
  <2>3. pgOff'[p] \in Nat /\ pgOff'[p] <= PageSize
    BY DEF Recounted
  <2> QED
    BY ONLY <2>2, <2>3
<1> QED
  BY <1>1, <1>2, CallKeeps

LEMMA NoCallTyped == NoCall \in Calls
BY DEF NoCall, Calls

LEMMA ReturnKeeps == NvInv /\ Return => NvInv'
<1> SUFFICES ASSUME NvInv, Return PROVE NvInv'
  OBVIOUS
<1>1. /\ pc \in {"idle", "call"} /\ todo = <<>> /\ todo' = <<>>
      /\ flash' = flash /\ pgRes' = pgRes /\ boot' = boot
      /\ call' = NoCall /\ pc' \in {"idle", "call"}
  BY DEF Return
<1>2. Recounted
  BY OffFits, <1>1, RecountOK DEF Return, Recounted, Counted, TotalOn, LostOn, NvInv, Types,
     TypeOK
<1> QED
  BY <1>1, <1>2, QuietKeeps, NoCallTyped

LEMMA LookupKeeps == ASSUME NvInv, NEW id, Lookup(id) PROVE NvInv'
BY QuietKeeps, RecountOK DEF Lookup, codeVars, NvInv, PhaseOK, Types

LEMMA ItemExistsKeeps == ASSUME NvInv, NEW id, ItemExists(id) PROVE NvInv'
BY QuietKeeps, RecountOK DEF ItemExists, codeVars, NvInv, PhaseOK, Types

-----------------------------------------------------------------------------
(* What a search finds.                                                    *)

\* The lowest of several places.
LEMMA FirstIsOne ==
  ASSUME NEW places \in SUBSET (Pages \X (Nat \ {0})), places # {}
  PROVE  First(places) \in places
<1> DEFINE pages == {p \in Pages : \E k \in Nat \ {0} : <<p, k>> \in places}
<1>1. pages # {} /\ pages \in SUBSET Nat
  BY PagesAssumption DEF Pages
<1>2. PICK p \in pages : \A q \in pages : p <= q
  BY <1>1, LeastElement
<1> DEFINE slots == {k \in Nat \ {0} : <<p, k>> \in places}
<1>3. slots # {} /\ slots \in SUBSET Nat
  BY <1>2
<1>4. PICK k \in slots : \A j \in slots : k <= j
  BY <1>3, LeastElement
<1>5. ASSUME NEW b \in places
      PROVE  p < b[1] \/ (p = b[1] /\ k <= b[2])
  BY <1>5, <1>1, <1>2, <1>4
<1>6. /\ <<p, k>> \in places /\ <<p, k>>[1] = p /\ <<p, k>>[2] = k
  BY <1>4
<1>7. \E a \in places : \A b \in places : a[1] < b[1] \/ (a[1] = b[1] /\ a[2] <= b[2])
  BY <1>5, <1>6
<1> QED
  BY <1>7 DEF First

LEMMA PlacesAre ==
  ASSUME NvInv, NEW id, NEW stat
  PROVE  /\ Places(id, stat) \in SUBSET (Pages \X (Nat \ {0}))
         /\ \A a \in Places(id, stat) :
              /\ a = <<a[1], a[2]>> /\ a[1] \in Pages /\ a[2] \in Nat \ {0}
              /\ a[2] \in 1 .. Len(flash[a[1]].items)
              /\ flash[a[1]].items[a[2]].id = id
              /\ flash[a[1]].items[a[2]].stat = stat
<1>1. ASSUME NEW a \in Places(id, stat)
      PROVE  /\ a \in Pages \X (Nat \ {0})
             /\ a = <<a[1], a[2]>> /\ a[1] \in Pages /\ a[2] \in Nat \ {0}
             /\ a[2] \in 1 .. Len(flash[a[1]].items)
             /\ flash[a[1]].items[a[2]].id = id
             /\ flash[a[1]].items[a[2]].stat = stat
  <2>1. PICK p \in Pages : \E k \in DOMAIN flash[p].items :
          /\ a = <<p, k>> /\ flash[p].items[k].id = id /\ flash[p].items[k].stat = stat
    BY DEF Places
  <2>3. PICK k \in DOMAIN flash[p].items :
          /\ a = <<p, k>> /\ flash[p].items[k].id = id /\ flash[p].items[k].stat = stat
    BY <2>1
  <2>2. DOMAIN flash[p].items = 1 .. Len(flash[p].items) /\ Len(flash[p].items) \in Nat
    BY PageTyped
  <2> QED
    BY <2>2, <2>3
<1> QED
  BY <1>1

\* findItem finds an item of that name.
LEMMA Found ==
  ASSUME NvInv, NEW id, findItem(id) # Nothing
  PROVE  /\ findItem(id) = <<findItem(id)[1], findItem(id)[2]>>
         /\ findItem(id)[1] \in Pages /\ findItem(id)[2] \in Nat \ {0}
         /\ findItem(id)[2] \in 1 .. Len(flash[findItem(id)[1]].items)
         /\ flash[findItem(id)[1]].items[findItem(id)[2]].id = id
<1>1. CASE Places(id, "live") # {}
  <2>1. findItem(id) \in Places(id, "live")
    BY <1>1, FirstIsOne, PlacesAre DEF findItem
  <2> QED
    BY <2>1, PlacesAre
<1>2. CASE Places(id, "live") = {} /\ Places(id, "xfer") # {}
  <2>1. findItem(id) \in Places(id, "xfer")
    BY <1>2, FirstIsOne, PlacesAre DEF findItem
  <2> QED
    BY <2>1, PlacesAre
<1>3. CASE Places(id, "live") = {} /\ Places(id, "xfer") = {}
  BY <1>3 DEF findItem
<1> QED
  BY <1>1, <1>2, <1>3

LEMMA DeleteKeeps == ASSUME NvInv, NEW id \in Ids, osal_nv_delete(id) PROVE NvInv'
<1>0. PICK p, k : p = findItem(id)[1] /\ k = findItem(id)[2]
  OBVIOUS
<1>1. /\ p \in Pages /\ k \in Nat \ {0} /\ k \in DOMAIN flash[p].items
      /\ flash[p].items[k].id = id /\ id # Nothing
      /\ findItem(id) = <<p, k>>
  BY <1>0, Found, PageTyped, ItemsAssumption DEF osal_nv_delete
<1>2. /\ pc \in {"idle", "call"} /\ pc = "idle" /\ todo = <<>>
      /\ todo' = ItemOp("zero", <<p, k>>)
      /\ flash' = flash /\ pgRes' = pgRes /\ boot' = boot
      /\ call' = [NoCall EXCEPT !.id = id] /\ pc' = "call" /\ Recount(id)
  BY <1>1 DEF osal_nv_delete, NvInv, PhaseOK
<1>3. call' \in Calls /\ Recounted
  BY <1>2, RecountOK DEF NoCall, Calls
<1>4. todo' \in Seq(Ops) /\ ToSet(todo') = {[op |-> "zero", pg |-> p, k |-> k]}
  BY <1>1, <1>2, OpsTyped, OpsAre
<1>5. ASSUME NEW q \in Pages PROVE pgOff'[q] + Planned(flash, todo', q) <= PageSize
  <2>1. flash \in Flashes
    BY DEF NvInv, Types, TypeOK, Flashes
  <2>2. Planned(flash, todo', q) = 0
    BY <1>1, <1>2, <2>1, PlannedItemOp
  <2>3. pgOff'[q] \in Nat /\ pgOff'[q] <= PageSize
    BY <1>3 DEF Recounted
  <2> QED
    BY ONLY <2>2, <2>3
<1>6. \A op \in ToSet(todo') : op.op = "zero" /\ op.pg = p /\ op.k = k
  BY <1>4
<1>7. \A op \in ToSet(todo') : op.op # "copy" /\ ~ Copying(op) /\ ~ Touches(op, pgRes)
  BY <1>1, <1>2, Resting, <1>6 DEF Copying, Touches, Targets
<1>8. \A i \in DOMAIN todo' : i = Len(todo') /\ todo'[i].pg = p /\ todo'[i].k = k
  BY <1>2 DEF ItemOp
<1> QED
  BY <1>1, <1>2, <1>3, <1>4, <1>5, <1>6, <1>7, <1>8, CallKeeps

\* PageFor looks at every page, from the reserve page on.
LEMMA PageForFits ==
  ASSUME NEW id, NEW off, NEW lost, pgRes \in Pages, PageFor(id, off, lost) # Nothing
  PROVE  /\ PageFor(id, off, lost) \in Pages /\ PageFor(id, off, lost) # pgRes
         /\ Size[id] <= PageSize - off[PageFor(id, off, lost)] + lost[PageFor(id, off, lost)]
<1> DEFINE fits == {p \in Pages \ {pgRes} : Size[id] <= PageSize - off[p] + lost[p]}
           far(p) == (p - pgRes - 1) % OSAL_NV_PAGES_USED
           fars == {far(p) : p \in fits}
<1>1. fits # {}
  BY DEF PageFor
<1>2. \A p \in fits : far(p) \in Nat
  BY PagesAssumption DEF Pages
<1>3. fars # {} /\ fars \in SUBSET Nat
  BY <1>1, <1>2
<1> HIDE DEF far
<1>4. PICK f \in fars : \A g \in fars : f <= g
  <2> HIDE DEF fars
  <2> QED
    BY <1>3, LeastElement
<1>5. \E p \in fits : \A q \in fits : far(p) <= far(q)
  BY <1>4
<1>6. (CHOOSE p \in fits : \A q \in fits : far(p) <= far(q)) \in fits
  BY <1>5
<1>7. PageFor(id, off, lost) = CHOOSE p \in fits : \A q \in fits : far(p) <= far(q)
  BY <1>1 DEF PageFor, far
<1>8. PageFor(id, off, lost) \in fits
  BY <1>6, <1>7
<1> QED
  BY <1>8

\* The page of an item, and one to compact for it.
LEMMA TargetFits ==
  ASSUME NvInv, pc = "idle", flash' = flash, NEW id \in Ids, Recount(id), Target(id) # Nothing
  PROVE  /\ Target(id) \in Pages /\ Target(id) # pgRes
         /\ Size[id] <= PageSize - pgOff'[Target(id)] + pgLost'[Target(id)]
         /\ Compacted(id) \in {Target(id), Nothing} /\ Nothing \notin Pages
         /\ Compacted(id) = Nothing => pgOff'[Target(id)] + Size[id] <= PageSize
<1>1. pgRes \in Pages
  BY Resting DEF NvInv, PhaseOK
<1>2. /\ pgOff' = RecountedOff(WalkedFor(id)) /\ pgLost' = RecountedLost(WalkedFor(id))
  BY DEF Recount
<1>3. /\ Target(id) \in Pages /\ Target(id) # pgRes
      /\ Size[id] <= PageSize - pgOff'[Target(id)] + pgLost'[Target(id)]
  BY <1>1, <1>2, PageForFits DEF Target
<1>4. Compacted(id) \in {Target(id), Nothing} /\ Nothing \notin Pages
  BY ItemsAssumption DEF Compacted
<1>5. ASSUME Compacted(id) = Nothing PROVE pgOff'[Target(id)] + Size[id] <= PageSize
  <2>1. ~ (Size[id] > PageSize - pgOff'[Target(id)])
    BY <1>2, <1>3, <1>4, <1>5 DEF Compacted
  <2>2. Size[id] \in Nat /\ PageSize \in Nat /\ pgOff'[Target(id)] \in Nat
    BY <1>3, RecountOK, ItemsAssumption DEF Recounted
  <2> QED
    BY ONLY <2>1, <2>2
<1> QED
  BY <1>3, <1>4, <1>5

\* The parts of the plan of a call.
LEMMA MakeRoomIs ==
  ASSUME flash \in Flashes, pgRes \in Pages, NEW p \in Pages, NEW id \in Ids
  PROVE  /\ MakeRoom(p, id) \in Seq(Ops)
         /\ \A op \in ToSet(MakeRoom(p, id)) :
              \/ op.op = "xfer" /\ op.pg = p
              \/ op.op = "copy" /\ op.pg = p /\ op.to = pgRes
         /\ \A q \in Pages : Planned(flash, MakeRoom(p, id), q)
                               = IF pgRes = q THEN CopyRoom(flash[p].items, 1, id) ELSE 0
<1> DEFINE a == IF flash[p].xfer THEN <<>> ELSE Op("xfer", p)
           b == Copies(p, 1, pgRes, id)
<1>1. a \in Seq(Ops) /\ b \in Seq(Ops)
  BY OpsTyped
<1>2. /\ \A op \in ToSet(a) : op.op = "xfer" /\ op.pg = p
      /\ \A op \in ToSet(b) : op.op = "copy" /\ op.pg = p /\ op.to = pgRes
  BY OpsAre
<1>3. ASSUME NEW q \in Pages
      PROVE  /\ Planned(flash, a, q) = 0
             /\ Planned(flash, b, q) = IF pgRes = q THEN CopyRoom(flash[p].items, 1, id) ELSE 0
  BY PlannedOp, PlannedNone, PlannedCopies
<1> HIDE DEF a, b
<1>4. a \o b \in Seq(Ops) /\ ToSet(a \o b) = ToSet(a) \cup ToSet(b)
  BY <1>1, SetOfPlans
<1>5. ASSUME NEW q \in Pages
      PROVE  Planned(flash, a \o b, q)
               = IF pgRes = q THEN CopyRoom(flash[p].items, 1, id) ELSE 0
  <2>1. Planned(flash, a \o b, q) = Planned(flash, a, q) + Planned(flash, b, q)
    BY <1>1, PlannedConcat
  <2>2. Planned(flash, b, q) \in Nat
    BY <1>1, PlannedNat
  <2> QED
    BY ONLY <1>3, <2>1, <2>2
<1>6. MakeRoom(p, id) = a \o b
  BY DEF MakeRoom, a, b
<1> QED
  BY <1>2, <1>4, <1>5, <1>6

LEMMA CleanupIs ==
  ASSUME flash \in Flashes, pgRes \in Pages, NEW p \in Pages
  PROVE  /\ Cleanup(p) \in Seq(Ops) /\ ToCome(Cleanup(p))
         /\ \A op \in ToSet(Cleanup(p)) : op.op = "use" \/ (op.op = "erase" /\ op.pg = p)
         /\ \A q \in Pages : Planned(flash, Cleanup(p), q) = 0
<1>1. Op("use", pgRes) \in Seq(Ops) /\ Op("erase", p) \in Seq(Ops)
  BY OpsTyped
<1>2. Cleanup(p) = Op("use", pgRes) \o Op("erase", p)
  BY DEF Cleanup
<1>3. ToCome(Cleanup(p)) /\ Cleanup(p) \in Seq(Ops)
  BY <1>1, <1>2, EraseToCome
<1>4. \A op \in ToSet(Cleanup(p)) : op.op = "use" \/ (op.op = "erase" /\ op.pg = p)
  BY <1>1, <1>2, SetOfPlans, OpsAre
<1>5. ASSUME NEW q \in Pages PROVE Planned(flash, Cleanup(p), q) = 0
  BY <1>1, <1>2, PlannedConcat, PlannedOp
<1> QED
  BY <1>3, <1>4, <1>5

\* The parts of a plan, put together.
Together(fl, a, b, c, d, e, z) ==
  /\ a \o b \o c \o d \o e \in Seq(Ops)
  /\ a \o b \o c \o d \o e \o z \in Seq(Ops)
  /\ ToSet(a \o b \o c \o d \o e)
       = ToSet(a) \cup ToSet(b) \cup ToSet(c) \cup ToSet(d) \cup ToSet(e)
  /\ ToSet(a \o b \o c \o d \o e \o z)
       = ToSet(a) \cup ToSet(b) \cup ToSet(c) \cup ToSet(d) \cup ToSet(e) \cup ToSet(z)
  /\ \A q \in Pages :
       Planned(fl, a \o b \o c \o d \o e \o z, q)
         = Planned(fl, a, q) + Planned(fl, b, q) + Planned(fl, c, q)
           + Planned(fl, d, q) + Planned(fl, e, q) + Planned(fl, z, q)
  /\ ToCome(e) => ToCome(a \o b \o c \o d \o e)

LEMMA SixParts ==
  ASSUME NEW fl \in Flashes,
         NEW a \in Seq(Ops), NEW b \in Seq(Ops), NEW c \in Seq(Ops),
         NEW d \in Seq(Ops), NEW e \in Seq(Ops), NEW z \in Seq(Ops)
  PROVE  Together(fl, a, b, c, d, e, z)
<1> DEFINE ab == a \o b
           abc == ab \o c
           abcd == abc \o d
           abcde == abcd \o e
           all == abcde \o z
<1>1. ab \in Seq(Ops) /\ abc \in Seq(Ops) /\ abcd \in Seq(Ops) /\ abcde \in Seq(Ops)
      /\ all \in Seq(Ops)
  OBVIOUS
<1> HIDE DEF ab, abc, abcd, abcde, all
<1>2. /\ ToSet(ab) = ToSet(a) \cup ToSet(b)
      /\ ToSet(abc) = ToSet(ab) \cup ToSet(c)
      /\ ToSet(abcd) = ToSet(abc) \cup ToSet(d)
      /\ ToSet(abcde) = ToSet(abcd) \cup ToSet(e)
      /\ ToSet(all) = ToSet(abcde) \cup ToSet(z)
  BY <1>1, SetOfPlans DEF ab, abc, abcd, abcde, all
<1>3. ASSUME NEW q \in Pages
      PROVE  /\ Planned(fl, ab, q) = Planned(fl, a, q) + Planned(fl, b, q)
             /\ Planned(fl, abc, q) = Planned(fl, ab, q) + Planned(fl, c, q)
             /\ Planned(fl, abcd, q) = Planned(fl, abc, q) + Planned(fl, d, q)
             /\ Planned(fl, abcde, q) = Planned(fl, abcd, q) + Planned(fl, e, q)
             /\ Planned(fl, all, q) = Planned(fl, abcde, q) + Planned(fl, z, q)
  BY <1>1, PlannedConcat DEF ab, abc, abcd, abcde, all
<1>4. ToCome(e) => ToCome(abcde)
  BY <1>1, ToComeAfter DEF abcde
<1>5. /\ ToSet(all) = ToSet(a) \cup ToSet(b) \cup ToSet(c) \cup ToSet(d) \cup ToSet(e)
                      \cup ToSet(z)
      /\ ToSet(abcde) = ToSet(a) \cup ToSet(b) \cup ToSet(c) \cup ToSet(d) \cup ToSet(e)
  BY <1>2, Zenon
<1>6. \A q \in Pages :
        Planned(fl, all, q) = Planned(fl, a, q) + Planned(fl, b, q) + Planned(fl, c, q)
                              + Planned(fl, d, q) + Planned(fl, e, q) + Planned(fl, z, q)
  BY <1>3, Zenon
<1>7. all = a \o b \o c \o d \o e \o z /\ abcde = a \o b \o c \o d \o e
  BY DEF ab, abc, abcd, abcde, all
<1> QED
  BY <1>1, <1>4, <1>5, <1>6, <1>7 DEF Together

\* A page that is to be erased stays so if what is added leaves it alone.
LEMMA ToComeBefore ==
  ASSUME NEW a \in Seq(Ops), NEW z \in Seq(Ops), ToCome(a),
         \A x \in ToSet(a), op \in ToSet(z) : x.op = "erase" => ~ Touches(op, x.pg)
  PROVE  ToCome(a \o z)
<1>1. PICK e \in DOMAIN a : /\ a[e].op = "erase"
                            /\ \A j \in e + 1 .. Len(a) : ~ Touches(a[j], a[e].pg)
  BY DEF ToCome
<1>2. /\ DOMAIN a = 1 .. Len(a) /\ Len(a) \in Nat /\ Len(z) \in Nat
      /\ DOMAIN (a \o z) = 1 .. Len(a) + Len(z) /\ Len(a \o z) = Len(a) + Len(z)
      /\ \A i \in 1 .. Len(a) + Len(z) :
           (a \o z)[i] = IF i <= Len(a) THEN a[i] ELSE z[i - Len(a)]
  BY ConcatProperties
<1>3. e \in DOMAIN (a \o z) /\ (a \o z)[e] = a[e] /\ a[e] \in ToSet(a)
  BY <1>2 DEF ToSet
<1>4. ASSUME NEW j \in e + 1 .. Len(a \o z) PROVE ~ Touches((a \o z)[j], a[e].pg)
  <2>1. CASE j <= Len(a)
    BY <1>2, <2>1, <1>1
  <2>2. CASE ~ (j <= Len(a))
    <3>1. j \in 1 .. Len(a) + Len(z) /\ j - Len(a) \in 1 .. Len(z)
      BY <1>2, <2>2
    <3>2. (a \o z)[j] = z[j - Len(a)]
      BY <1>2, <2>2, <3>1
    <3>3. z[j - Len(a)] \in ToSet(z)
      BY <3>1 DEF ToSet
    <3> QED
      BY <1>1, <1>3, <3>2, <3>3
  <2> QED
    BY <2>1, <2>2
<1> QED
  BY <1>1, <1>3, <1>4 DEF ToCome

\* An item that is zeroed comes last in a plan.
LEMMA ZeroLast ==
  ASSUME NEW a \in Seq(Ops), NEW z \in Seq(Ops), Len(z) \in {0, 1},
         \A op \in ToSet(a) : op.op # "zero",
         NEW i \in DOMAIN (a \o z), (a \o z)[i].op = "zero"
  PROVE  i = Len(a \o z) /\ (a \o z)[i] \in ToSet(z)
<1>1. /\ DOMAIN a = 1 .. Len(a) /\ Len(a) \in Nat /\ Len(z) \in Nat
      /\ DOMAIN (a \o z) = 1 .. Len(a) + Len(z) /\ Len(a \o z) = Len(a) + Len(z)
      /\ \A j \in 1 .. Len(a) + Len(z) :
           (a \o z)[j] = IF j <= Len(a) THEN a[j] ELSE z[j - Len(a)]
  BY ConcatProperties
<1>2. ~ (i <= Len(a))
  BY <1>1 DEF ToSet
<1>3. i - Len(a) \in 1 .. Len(z) /\ (a \o z)[i] = z[i - Len(a)]
  BY <1>1, <1>2
<1> QED
  BY <1>1, <1>3 DEF ToSet

\* The new item of a call.
OwnWrite(p, id, v) ==
  /\ WriteItem(p, id, FALSE) \in Seq(Ops) /\ Seal(p, v, FALSE) \in Seq(Ops)
  /\ \A op \in ToSet(WriteItem(p, id, FALSE)) : op.op = "head" /\ op.pg = p /\ ~ op.copy
  /\ \A op \in ToSet(Seal(p, v, FALSE)) : op.op = "seal" /\ op.pg = p /\ ~ op.copy
  /\ \A q \in Pages :
       /\ Planned(flash, WriteItem(p, id, FALSE), q) = IF p = q THEN Size[id] ELSE 0
       /\ Planned(flash, Seal(p, v, FALSE), q) = 0

LEMMA OwnWriteIs ==
  ASSUME flash \in Flashes, NEW p \in Pages, NEW id \in Ids, NEW v \in Values \cup {Blank}
  PROVE  OwnWrite(p, id, v)
<1>1. WriteItem(p, id, FALSE) \in Seq(Ops) /\ Seal(p, v, FALSE) \in Seq(Ops)
  BY OpsTyped
<1> DEFINE h == [op |-> "head", pg |-> p, id |-> id, copy |-> FALSE]
           s == [op |-> "seal", pg |-> p, val |-> v, copy |-> FALSE]
<1>2. h.op = "head" /\ h.pg = p /\ ~ h.copy /\ s.op = "seal" /\ s.pg = p /\ ~ s.copy
  OBVIOUS
<1>3. ToSet(WriteItem(p, id, FALSE)) = {h} /\ ToSet(Seal(p, v, FALSE)) = {s}
  BY ONLY OpsAre
<1> HIDE DEF h, s
<1>4. /\ \A op \in ToSet(WriteItem(p, id, FALSE)) : op.op = "head" /\ op.pg = p /\ ~ op.copy
      /\ \A op \in ToSet(Seal(p, v, FALSE)) : op.op = "seal" /\ op.pg = p /\ ~ op.copy
  BY ONLY <1>2, <1>3, Zenon
<1>5. ASSUME NEW q \in Pages
      PROVE  /\ Planned(flash, WriteItem(p, id, FALSE), q) = IF p = q THEN Size[id] ELSE 0
             /\ Planned(flash, Seal(p, v, FALSE), q) = 0
  BY PlannedWrite, PlannedSeal
<1> QED
  BY ONLY <1>1, <1>4, <1>5 DEF OwnWrite

\* A call that writes an item, with the ones it marks and zeroes on the way.
LEMMA WritesKeep ==
  ASSUME NvInv, pc = "idle", flash' = flash, pgRes' = pgRes, boot' = boot, pc' = "call",
         NEW id \in Ids, NEW v \in Values \cup {Blank}, Recount(id), Target(id) # Nothing,
         call' \in Calls, call'.com = Compacted(id),
         NEW mark \in Seq(Ops), NEW zero \in Seq(Ops), Len(zero) \in {0, 1},
         \A op \in ToSet(mark) : op.op = "mark" /\ op.pg # pgRes,
         \A op \in ToSet(zero) :
           /\ op.op = "zero" /\ op.pg # pgRes /\ op.pg # Compacted(id)
           /\ op.k \in DOMAIN flash[op.pg].items
           /\ flash[op.pg].items[op.k].id # Nothing,
         \A q \in Pages : Planned(flash, mark, q) = 0 /\ Planned(flash, zero, q) = 0,
         NEW dst, dst = IF Compacted(id) = Nothing THEN Target(id) ELSE pgRes,
         todo' = (IF Compacted(id) = Nothing THEN <<>> ELSE MakeRoom(Target(id), id))
                 \o WriteItem(dst, id, FALSE) \o mark \o Seal(dst, v, FALSE)
                 \o (IF Compacted(id) = Nothing THEN <<>> ELSE Cleanup(Target(id)))
                 \o zero
  PROVE  NvInv'
<1>0. PICK t, com : t = Target(id) /\ com = Compacted(id)
  OBVIOUS
<1> DEFINE a == IF com = Nothing THEN <<>> ELSE MakeRoom(t, id)
           b == WriteItem(dst, id, FALSE)
           d == Seal(dst, v, FALSE)
           e == IF com = Nothing THEN <<>> ELSE Cleanup(t)
<1>1. /\ todo = <<>> /\ flash \in Flashes /\ Recounted
      /\ pgRes \in Pages /\ flash[pgRes] = Erased /\ pgOff[pgRes] = 0
      /\ \A p \in Pages : Counted(p)
  BY Resting, RecountOK DEF NvInv, PhaseOK, Types, TypeOK, Flashes
<1>2. /\ t \in Pages /\ t # pgRes /\ dst \in Pages /\ com \in {t, Nothing} /\ Nothing \notin Pages
      /\ Size[id] <= PageSize - pgOff'[t] + pgLost'[t]
      /\ com = Nothing => pgOff'[t] + Size[id] <= PageSize
      /\ com = Nothing => dst = t
      /\ com # Nothing => dst = pgRes /\ com = t
  BY <1>0, <1>1, TargetFits
<1>20. OwnWrite(dst, id, v)
  BY <1>1, <1>2, OwnWriteIs
<1>3. /\ a \in Seq(Ops) /\ b \in Seq(Ops) /\ d \in Seq(Ops) /\ e \in Seq(Ops)
  <2>1. b \in Seq(Ops) /\ d \in Seq(Ops)
    BY ONLY <1>20 DEF b, d, OwnWrite
  <2>2. a \in Seq(Ops) /\ e \in Seq(Ops)
    BY <1>1, <1>2, OpsTyped, MakeRoomIs, CleanupIs
  <2> QED
    BY <2>1, <2>2
<1>4. /\ \A op \in ToSet(a) : /\ com # Nothing
                              /\ \/ op.op = "xfer" /\ op.pg = t
                                 \/ op.op = "copy" /\ op.pg = t /\ op.to = pgRes
      /\ \A op \in ToSet(b) : op.op = "head" /\ op.pg = dst /\ ~ op.copy
      /\ \A op \in ToSet(d) : op.op = "seal" /\ op.pg = dst /\ ~ op.copy
      /\ \A op \in ToSet(e) : com # Nothing /\ (op.op = "use" \/ (op.op = "erase" /\ op.pg = t))
      /\ com # Nothing => ToCome(e)
  <2>1. /\ \A op \in ToSet(b) : op.op = "head" /\ op.pg = dst /\ ~ op.copy
        /\ \A op \in ToSet(d) : op.op = "seal" /\ op.pg = dst /\ ~ op.copy
    BY ONLY <1>20 DEF b, d, OwnWrite
  <2>2. ASSUME com # Nothing
        PROVE  /\ \A op \in ToSet(a) : \/ op.op = "xfer" /\ op.pg = t
                                       \/ op.op = "copy" /\ op.pg = t /\ op.to = pgRes
               /\ \A op \in ToSet(e) : op.op = "use" \/ (op.op = "erase" /\ op.pg = t)
               /\ ToCome(e)
    BY <1>1, <1>2, <2>2, MakeRoomIs, CleanupIs
  <2>3. com = Nothing => ToSet(a) = {} /\ ToSet(e) = {}
    BY OpsAre
  <2> HIDE DEF a, b, d, e
  <2> QED
    BY ONLY <2>1, <2>2, <2>3
<1>5. ASSUME NEW q \in Pages
      PROVE  /\ com = Nothing =>
                  /\ Planned(flash, a, q) = 0 /\ Planned(flash, e, q) = 0
                  /\ Planned(flash, b, q) = IF t = q THEN Size[id] ELSE 0
             /\ com # Nothing =>
                  /\ Planned(flash, a, q)
                       = IF pgRes = q THEN CopyRoom(flash[t].items, 1, id) ELSE 0
                  /\ Planned(flash, e, q) = 0
                  /\ Planned(flash, b, q) = IF pgRes = q THEN Size[id] ELSE 0
             /\ Planned(flash, d, q) = 0
  <2>1. Planned(flash, b, q) = IF dst = q THEN Size[id] ELSE 0
    BY ONLY <1>20 DEF b, d, OwnWrite
  <2>2. Planned(flash, d, q) = 0
    BY ONLY <1>20 DEF b, d, OwnWrite
  <2>3. com = Nothing => Planned(flash, a, q) = 0 /\ Planned(flash, e, q) = 0
    BY <1>1, PlannedNone
  <2>4. com # Nothing => /\ Planned(flash, a, q)
                              = IF pgRes = q THEN CopyRoom(flash[t].items, 1, id) ELSE 0
                         /\ Planned(flash, e, q) = 0
    BY <1>1, <1>2, MakeRoomIs, CleanupIs
  <2> HIDE DEF a, b, d, e
  <2> QED
    BY ONLY <1>2, <2>1, <2>2, <2>3, <2>4
<1>6. todo' = a \o b \o mark \o d \o e \o zero
  BY <1>0
<1> HIDE DEF a, b, d, e
<1>7. /\ a \o b \o mark \o d \o e \in Seq(Ops) /\ todo' \in Seq(Ops)
      /\ ToSet(a \o b \o mark \o d \o e)
           = ToSet(a) \cup ToSet(b) \cup ToSet(mark) \cup ToSet(d) \cup ToSet(e)
      /\ ToSet(todo') = ToSet(a) \cup ToSet(b) \cup ToSet(mark) \cup ToSet(d) \cup ToSet(e)
                        \cup ToSet(zero)
      /\ \A q \in Pages :
           Planned(flash, todo', q)
             = Planned(flash, a, q) + Planned(flash, b, q) + Planned(flash, mark, q)
               + Planned(flash, d, q) + Planned(flash, e, q) + Planned(flash, zero, q)
      /\ ToCome(e) => ToCome(a \o b \o mark \o d \o e)
  <2>1. flash \in Flashes /\ mark \in Seq(Ops) /\ zero \in Seq(Ops)
    BY <1>1
  <2> DEFINE all == a \o b \o mark \o d \o e \o zero
  <2>2. /\ a \o b \o mark \o d \o e \in Seq(Ops) /\ all \in Seq(Ops)
        /\ ToSet(a \o b \o mark \o d \o e)
             = ToSet(a) \cup ToSet(b) \cup ToSet(mark) \cup ToSet(d) \cup ToSet(e)
        /\ ToSet(all) = ToSet(a) \cup ToSet(b) \cup ToSet(mark) \cup ToSet(d) \cup ToSet(e)
                          \cup ToSet(zero)
        /\ \A q \in Pages :
             Planned(flash, all, q)
               = Planned(flash, a, q) + Planned(flash, b, q) + Planned(flash, mark, q)
                 + Planned(flash, d, q) + Planned(flash, e, q) + Planned(flash, zero, q)
        /\ ToCome(e) => ToCome(a \o b \o mark \o d \o e)
    <3>1. Together(flash, a, b, mark, d, e, zero)
      BY ONLY <1>3, <2>1, SixParts
    <3> QED
      BY ONLY <3>1 DEF Together, all
  <2>3. todo' = all
    BY <1>6
  <2> HIDE DEF all
  <2> QED
    BY ONLY <2>2, <2>3
<1>8. ASSUME NEW q \in Pages PROVE pgOff'[q] + Planned(flash, todo', q) <= PageSize
  <2>1. Planned(flash, todo', q)
          = Planned(flash, a, q) + Planned(flash, b, q) + Planned(flash, mark, q)
            + Planned(flash, d, q) + Planned(flash, e, q) + Planned(flash, zero, q)
    BY <1>7
  <2>2. Planned(flash, mark, q) = 0 /\ Planned(flash, zero, q) = 0
    OBVIOUS
  <2>3. /\ pgOff'[q] \in Nat /\ pgOff'[q] <= PageSize /\ PageSize \in Nat
        /\ pgOff'[t] \in Nat /\ pgLost'[t] \in Nat /\ Size[id] \in Nat
        /\ Counted(t)' /\ pgOff'[pgRes] = 0
    BY <1>1, <1>2, ItemsAssumption DEF Recounted
  <2>4. CASE com = Nothing
    <3>1. Planned(flash, todo', q) = IF t = q THEN Size[id] ELSE 0
      BY ONLY <1>5, <2>1, <2>2, <2>3, <2>4
    <3> QED
      BY ONLY <1>2, <2>3, <2>4, <3>1
  <2>5. CASE com # Nothing
    <3> DEFINE C == CopyRoom(flash[t].items, 1, id)
    <3>1. C \in Nat /\ C + LostOn(t) <= TotalOn(t) /\ LostOn(t) \in Nat /\ TotalOn(t) \in Nat
      BY <1>2, PageTyped, CopiesFit DEF LostOn, TotalOn
    <3>2. pgLost'[t] <= LostOn(t) + pgOff'[t] - TotalOn(t)
      BY <2>3 DEF Counted, LostOn, TotalOn
    <3>3. Planned(flash, a, q) = (IF pgRes = q THEN C ELSE 0)
      BY <1>5, <2>5
    <3> HIDE DEF C
    <3>4. Planned(flash, todo', q) = IF pgRes = q THEN C + Size[id] ELSE 0
      BY ONLY <1>5, <2>1, <2>2, <2>3, <2>5, <3>1, <3>3
    <3>5. C + Size[id] <= PageSize
      <4> DEFINE off == pgOff'[t]
                 lost == pgLost'[t]
                 L == LostOn(t)
                 T == TotalOn(t)
                 S == Size[id]
      <4>1. /\ off \in Nat /\ lost \in Nat /\ L \in Nat /\ T \in Nat /\ S \in Nat /\ C \in Nat
            /\ C + L <= T /\ lost <= L + off - T /\ S <= PageSize - off + lost
            /\ PageSize \in Nat
        BY ONLY <1>2, <2>3, <3>1, <3>2
      <4> HIDE DEF off, lost, L, T, S
      <4>2. C + S <= PageSize
        BY ONLY <4>1
      <4> QED
        BY <4>2 DEF S
    <3> QED
      BY ONLY <2>3, <3>1, <3>4, <3>5
  <2> QED
    BY <2>4, <2>5
<1>9. ASSUME NEW op \in ToSet(todo')
      PROVE  /\ op.op = "copy" => \A other \in ToSet(todo') : op.pg \notin Targets(other)
             /\ Copying(op) => call'.com # Nothing
  <2>1. op.op = "copy" => op.pg = t /\ com # Nothing
    BY <1>4, <1>7
  <2>2. com # Nothing => \A other \in ToSet(todo') : t \notin Targets(other)
    <3>1. SUFFICES ASSUME com # Nothing, NEW other \in ToSet(todo')
                   PROVE  t \notin Targets(other)
      OBVIOUS
    <3>2. dst # t /\ pgRes # t
      BY <1>2, <3>1
    <3>3. \/ other.op \in {"xfer", "use", "erase", "mark", "zero"}
          \/ other.op = "copy" /\ other.to = pgRes
          \/ other.op \in {"head", "seal"} /\ other.pg = dst
      BY <1>4, <1>7
    <3> QED
      BY <3>2, <3>3 DEF Targets
  <2>3. Copying(op) => com # Nothing
    BY <1>4, <1>7 DEF Copying
  <2> QED
    BY <1>0, <2>1, <2>2, <2>3
<1>10. ASSUME NEW i \in DOMAIN todo', todo'[i].op = "zero"
       PROVE  /\ i = Len(todo')
              /\ todo'[i].k \in DOMAIN flash[todo'[i].pg].items
              /\ flash[todo'[i].pg].items[todo'[i].k].id # Nothing
              /\ \A op \in ToSet(todo') : op.op = "erase" => op.pg # todo'[i].pg
  <2> DEFINE x == a \o b \o mark \o d \o e
  <2>1. \A op \in ToSet(x) : op.op # "zero"
    <3>1. ToSet(x) = ToSet(a) \cup ToSet(b) \cup ToSet(mark) \cup ToSet(d) \cup ToSet(e)
      BY ONLY <1>7 DEF x
    <3> QED
      BY <1>4, <3>1
  <2>2. x \in Seq(Ops) /\ todo' = x \o zero
    BY <1>6, <1>7
  <2> HIDE DEF x
  <2>3. i = Len(todo') /\ todo'[i] \in ToSet(zero)
    <3>1. zero \in Seq(Ops) /\ Len(zero) \in {0, 1} /\ i \in DOMAIN (x \o zero)
          /\ (x \o zero)[i].op = "zero"
      BY <1>10, <2>2
    <3>2. i = Len(x \o zero) /\ (x \o zero)[i] \in ToSet(zero)
      BY ONLY <2>1, <2>2, <3>1, ZeroLast
    <3> QED
      BY ONLY <2>2, <3>2
  <2>4. \A op \in ToSet(todo') : op.op = "erase" => op.pg = t /\ com # Nothing
    BY <1>4, <1>7
  <2>5. PICK op : op = todo'[i]
    OBVIOUS
  <2>6. /\ op.pg # Compacted(id) /\ op.k \in DOMAIN flash[op.pg].items
        /\ flash[op.pg].items[op.k].id # Nothing
    BY <2>3, <2>5, Zenon
  <2> QED
    BY ONLY <1>0, <1>2, <2>3, <2>4, <2>5, <2>6
<1>11. \/ \A op \in ToSet(todo') : ~ Touches(op, pgRes)
       \/ ToCome(todo') /\ call'.com # Nothing
  <2>1. CASE com = Nothing
    <3>1. \A op \in ToSet(todo') : ~ Touches(op, pgRes)
      BY <1>2, <1>4, <1>7, <2>1 DEF Touches, Targets
    <3> QED
      BY <3>1
  <2>2. CASE com # Nothing
    <3> DEFINE x == a \o b \o mark \o d \o e
    <3>1. x \in Seq(Ops) /\ todo' = x \o zero /\ ToCome(x)
      BY <1>4, <1>6, <1>7, <2>2
    <3>2. ToSet(todo') = ToSet(x) \cup ToSet(zero)
      BY <3>1, SetOfPlans
    <3> HIDE DEF x
    <3>3. \A y \in ToSet(x), op \in ToSet(zero) : y.op = "erase" => ~ Touches(op, y.pg)
      <4>1. \A y \in ToSet(todo') : y.op = "erase" => y.pg = t
        BY <1>4, <1>7
      <4> QED
        BY <1>0, <1>2, <2>2, <3>2, <4>1 DEF Touches, Targets
    <3> QED
      BY <1>0, <2>2, <3>1, <3>3, ToComeBefore
  <2> QED
    BY <2>1, <2>2
<1>12. pc \in {"idle", "call"} /\ todo = <<>> /\ Recounted
  BY <1>1
<1> QED
  BY <1>7, <1>8, <1>9, <1>10, <1>11, <1>12, CallKeeps, Zenon

LEMMA WriteKeeps ==
  ASSUME NvInv, NEW id \in Ids, NEW v \in Values, osal_nv_write(id, v) PROVE NvInv'
<1>0. PICK src, t, com : src = findItem(id) /\ t = Target(id) /\ com = Compacted(id)
  OBVIOUS
<1>1. /\ src = <<src[1], src[2]>> /\ src[1] \in Pages /\ src[2] \in Nat \ {0}
      /\ src[2] \in DOMAIN flash[src[1]].items
      /\ flash[src[1]].items[src[2]].id = id /\ id # Nothing
  BY <1>0, Found, PageTyped, ItemsAssumption DEF osal_nv_write
<1>2. /\ pc = "idle" /\ pc \in {"idle", "call"} /\ todo = <<>> /\ flash \in Flashes
      /\ flash' = flash /\ pgRes' = pgRes /\ boot' = boot /\ Recount(id) /\ Recounted
  BY RecountOK DEF osal_nv_write, NvInv, PhaseOK, Types, TypeOK, Flashes
<1>3. CASE t = Nothing
  BY <1>0, <1>2, <1>3, QuietKeeps DEF osal_nv_write, NvInv, Types
<1>4. CASE t # Nothing
  <2> DEFINE sealed == IF ItemAt(src).val = Blank THEN Blank ELSE v
             mark == MarkXfer(src)
             zero == IF src[1] = com THEN <<>> ELSE ItemOp("zero", src)
             dst == IF com = Nothing THEN t ELSE pgRes
  <2>1. /\ todo' = WritePlan(id, v, t, com, src)
        /\ call' = [id |-> id, val |-> v, src |-> src, com |-> com, ok |-> TRUE]
        /\ pc' = "call"
    BY <1>0, <1>4 DEF osal_nv_write
  <2>2. todo' = (IF com = Nothing THEN <<>> ELSE MakeRoom(t, id))
                \o WriteItem(dst, id, FALSE) \o mark \o Seal(dst, sealed, FALSE)
                \o (IF com = Nothing THEN <<>> ELSE Cleanup(t))
                \o zero
    BY <2>1 DEF WritePlan
  <2>3. call' \in Calls /\ call'.com = com
    BY <1>0, <1>2, <1>4, TargetFits, <1>1, <2>1 DEF Calls
  <2>4. src[1] # pgRes
    BY <1>1, <1>2, Resting
  <2> DEFINE zeroed == [op |-> "zero", pg |-> src[1], k |-> src[2]]
             marked == [op |-> "mark", pg |-> src[1], k |-> src[2]]
  <2>5. ItemOp("zero", src) = <<zeroed>> /\ ItemOp("mark", src) = <<marked>>
        /\ zeroed.op = "zero" /\ zeroed.pg = src[1] /\ zeroed.k = src[2]
        /\ marked.op = "mark" /\ marked.pg = src[1]
    BY DEF ItemOp
  <2>6. zeroed \in Ops /\ marked \in Ops /\ <<zeroed>> \in Seq(Ops) /\ <<marked>> \in Seq(Ops)
    <3>1. zeroed \in Ops /\ marked \in Ops
      BY <1>1 DEF Ops
    <3> HIDE DEF zeroed, marked
    <3> QED
      BY <3>1
  <2>7. /\ mark \in {<<>>, <<marked>>} /\ zero \in {<<>>, <<zeroed>>}
        /\ zero # <<>> => src[1] # com
    BY <2>5 DEF MarkXfer
  <2> HIDE DEF mark, zero, sealed, dst, zeroed, marked
  <2>8. mark \in Seq(Ops) /\ zero \in Seq(Ops) /\ Len(zero) \in {0, 1}
    BY <2>6, <2>7, OpsTyped
  <2>9. \A op \in ToSet(mark) : op.op = "mark" /\ op.pg # pgRes
    BY <2>4, <2>5, <2>7, SetOfOne
  <2>10. \A op \in ToSet(zero) :
           /\ op.op = "zero" /\ op.pg # pgRes /\ op.pg # com
           /\ op.k \in DOMAIN flash[op.pg].items
           /\ flash[op.pg].items[op.k].id # Nothing
    BY <2>7, SetOfOne, <1>1, <2>4, <2>5
  <2>11. ASSUME NEW q \in Pages
         PROVE  Planned(flash, mark, q) = 0 /\ Planned(flash, zero, q) = 0
    BY <1>1, <1>2, PlannedItemOp, <2>5, PlannedNone, <2>7
  <2>12. sealed \in Values \cup {Blank}
    BY DEF sealed
  <2>13. dst = IF com = Nothing THEN t ELSE pgRes
    BY DEF dst
  <2> QED
    BY ONLY NvInv, <1>0, <1>2, <1>4, <2>1, <2>2, <2>3, <2>8, <2>9, <2>10, <2>11, <2>12, <2>13,
            WritesKeep, Zenon
<1> QED
  BY <1>3, <1>4

LEMMA ItemInitKeeps ==
  ASSUME NvInv, NEW id \in Ids, NEW v \in Values, osal_nv_item_init(id, v) PROVE NvInv'
<1>0. PICK t, com : t = Target(id) /\ com = Compacted(id)
  OBVIOUS
<1>2. /\ pc = "idle" /\ pc \in {"idle", "call"} /\ todo = <<>> /\ flash \in Flashes
      /\ flash' = flash /\ pgRes' = pgRes /\ boot' = boot /\ Recount(id) /\ Recounted
  BY RecountOK DEF osal_nv_item_init, NvInv, PhaseOK, Types, TypeOK, Flashes
<1>3. CASE t = Nothing
  BY <1>0, <1>2, <1>3, QuietKeeps DEF osal_nv_item_init, NvInv, Types
<1>4. CASE t # Nothing
  <2> DEFINE dst == IF com = Nothing THEN t ELSE pgRes
             none == <<>>
  <2>1. /\ todo' = InitPlan(id, v, t, com)
        /\ call' = [id |-> id, val |-> v, src |-> Nothing, com |-> com, ok |-> TRUE]
        /\ pc' = "call"
    BY <1>0, <1>4 DEF osal_nv_item_init
  <2>2. com \in Pages \cup {Nothing} /\ t \in Pages /\ pgRes \in Pages /\ dst \in Pages
    BY <1>0, <1>2, <1>4, TargetFits, Resting
  <2>3. call' \in Calls /\ call'.com = com
    BY <2>1, <2>2 DEF Calls
  <2>4. todo' = (IF com = Nothing THEN <<>> ELSE MakeRoom(t, id))
                \o WriteItem(dst, id, FALSE) \o none \o Seal(dst, v, FALSE)
                \o (IF com = Nothing THEN <<>> ELSE Cleanup(t))
                \o none
    <3> DEFINE w == WriteItem(dst, id, FALSE)
               s == Seal(dst, v, FALSE)
    <3>1. w \in Seq(Ops) /\ s \in Seq(Ops)
      BY <1>2, <2>2, OwnWriteIs DEF OwnWrite
    <3>2. CASE com = Nothing
      <4>1. todo' = w \o s
        BY <2>1, <3>2 DEF InitPlan
      <4> HIDE DEF w, s
      <4>2. <<>> \o w \o <<>> \o s \o <<>> \o <<>> = w \o s
        BY <3>1
      <4> QED
        BY <3>2, <4>1, <4>2 DEF w, s
    <3>3. CASE com # Nothing
      <4> DEFINE m == MakeRoom(t, id)
                 c == Cleanup(t)
      <4>1. m \in Seq(Ops) /\ c \in Seq(Ops)
        BY <1>2, <2>2, MakeRoomIs, CleanupIs
      <4>2. todo' = m \o w \o s \o c
        BY <2>1, <3>3 DEF InitPlan
      <4> HIDE DEF w, s, m, c
      <4>3. m \o w \in Seq(Ops) /\ m \o w \o s \o c \in Seq(Ops)
        BY <3>1, <4>1
      <4>4. m \o w \o <<>> = m \o w /\ m \o w \o s \o c \o <<>> = m \o w \o s \o c
        BY <4>3, ConcatEmptySeq
      <4>5. m \o w \o <<>> \o s \o c \o <<>> = m \o w \o s \o c
        BY <4>4
      <4> QED
        BY <3>3, <4>2, <4>5 DEF w, s, m, c
    <3> QED
      BY <3>2, <3>3
  <2>5. /\ none \in Seq(Ops) /\ Len(none) \in {0, 1} /\ ToSet(none) = {}
        /\ \A q \in Pages : Planned(flash, none, q) = 0
    BY <1>2, OpsTyped, OpsAre, PlannedNone
  <2> HIDE DEF none, dst
  <2>6. /\ \A op \in ToSet(none) : op.op = "mark" /\ op.pg # pgRes
        /\ \A op \in ToSet(none) :
             /\ op.op = "zero" /\ op.pg # pgRes /\ op.pg # com
             /\ op.k \in DOMAIN flash[op.pg].items
             /\ flash[op.pg].items[op.k].id # Nothing
    BY <2>5
  <2>7. v \in Values \cup {Blank}
    OBVIOUS
  <2>8. dst = IF com = Nothing THEN t ELSE pgRes
    BY DEF dst
  <2>9. \A q \in Pages : Planned(flash, none, q) = 0 /\ Planned(flash, none, q) = 0
    BY <2>5
  <2> QED
    BY ONLY NvInv, <1>0, <1>2, <1>4, <2>1, <2>3, <2>4, <2>5, <2>6, <2>7, <2>8, <2>9,
            WritesKeep, Zenon
<1> QED
  BY <1>3, <1>4

-----------------------------------------------------------------------------
(* initNV.                                                                 *)

\* A stage of initNV: at most an erase is planned.
LEMMA StageKeeps ==
  ASSUME todo' = <<>> \/ \E p \in Pages : todo' = Op("erase", p),
         pc' \in {"headers", "walk", "idle"} => todo' = <<>>,
         TypeOK', ItemsSized', call' \in Calls, boot' \in Boots,
         PagesFit', CountsOK', WalkOK', HeadersOK', ReserveOK',
         \A p \in Pages : pgOff'[p] <= PageSize
  PROVE  NvInv'
<1>1. /\ todo' \in Seq(Ops)
      /\ \A op \in ToSet(todo') : op.op = "erase"
      /\ \A q \in Pages : Planned(flash', todo', q) = 0
  <2>1. flash' \in Flashes
    BY DEF TypeOK, Flashes
  <2>2. CASE todo' = <<>>
    BY <2>1, <2>2, OpsTyped, OpsAre, PlannedNone
  <2>3. CASE todo' # <<>>
    <3>1. PICK p \in Pages : todo' = Op("erase", p)
      BY <2>3
    <3>2. \A op \in ToSet(Op("erase", p)) : op.op = "erase"
      BY OpsAre
    <3>3. \A q \in Pages : Planned(flash', Op("erase", p), q) = 0
      BY <2>1, PlannedOp
    <3>4. Op("erase", p) \in Seq(Ops)
      BY OpsTyped
    <3> QED
      BY <3>1, <3>2, <3>3, <3>4
  <2> QED
    BY <2>2, <2>3
<1>2. Types'
  BY <1>1 DEF Types
<1>3. RoomOK'
  <2>1. SUFFICES ASSUME NEW p \in Pages PROVE pgOff'[p] + Planned(flash', todo', p) <= PageSize
    BY DEF RoomOK
  <2>2. Planned(flash', todo', p) = 0 /\ pgOff'[p] \in Nat /\ pgOff'[p] <= PageSize
    BY <1>1 DEF TypeOK
  <2> QED
    BY ONLY <2>2
<1>4. TargetsOK' /\ SourcesOK'
  BY <1>1 DEF Targets, TargetsOK, SourcesOK
<1>5. ZeroesOK' /\ PhaseOK'
  BY <1>1 DEF ToSet, Writes, ZeroesOK, PhaseOK
<1> QED
  BY <1>2, <1>3, <1>4, <1>5 DEF NvInv

LEMMA EraseIsToCome == \A p \in Pages : ToCome(Op("erase", p))
BY OpsTyped, ConcatEmptySeq, EraseToCome

\* Steps that change no item and no count.
LEMMA QuietStageKeeps ==
  ASSUME NvInv, pgOff' = pgOff, pgLost' = pgLost,
         flash' \in Flashes, \A p \in Pages : flash'[p].items = flash[p].items,
         pgRes' \in Pages \cup {Nothing}, call' \in Calls, boot' \in Boots,
         pc' \in {"headers", "recover", "walk", "last", "idle"},
         pc' = "idle" => pgRes' # Nothing,
         todo' = <<>> \/ \E p \in Pages : todo' = Op("erase", p),
         pc' \in {"headers", "walk", "idle"} => todo' = <<>>,
         CountsOK', WalkOK', HeadersOK', ReserveOK'
  PROVE  NvInv'
<1>1. TypeOK'
  <2>1. /\ call'.id \in Ids \cup {Nothing} /\ call'.ok \in BOOLEAN
        /\ boot'.pg \in Nat /\ boot'.k \in Nat \ {0} /\ boot'.lost \in Nat
    BY PagesAssumption DEF Calls, Boots
  <2>2. pgOff' \in [Pages -> Nat] /\ pgLost' \in [Pages -> Nat]
    BY DEF NvInv, Types, TypeOK
  <2> QED
    BY <2>1, <2>2 DEF TypeOK, Flashes
<1>2. ItemsSized'
  BY DEF NvInv, Types, ItemsSized
<1>3. PagesFit'
  BY DEF NvInv, PagesFit, TotalOn
<1>4. \A p \in Pages : pgOff'[p] <= PageSize
  BY OffFits
<1> QED
  BY <1>1, <1>2, <1>3, <1>4, StageKeeps

LEMMA BootIs ==
  ASSUME NvInv
  PROVE  /\ boot.old \in Pages \cup {Nothing} /\ boot.pass \in {"first", "second", "third"}
         /\ boot.pg \in Nat /\ boot.pg >= 1 /\ boot.pg <= OSAL_NV_PAGES_USED + 1
         /\ boot.k \in Nat \ {0} /\ boot.lost \in Nat
         /\ boot = [old |-> boot.old, pass |-> boot.pass, pg |-> boot.pg, k |-> boot.k,
                    lost |-> boot.lost]
         /\ OSAL_NV_PAGES_USED \in Nat /\ Pages = 1 .. OSAL_NV_PAGES_USED
         /\ Nothing \notin Pages /\ call \in Calls /\ flash \in Flashes
         /\ pgRes \in Pages \cup {Nothing}
BY PagesAssumption, ItemsAssumption DEF NvInv, Types, TypeOK, Boots, Pages, Flashes

LEMMA LocalsTyped == Locals \in Boots
BY PagesAssumption DEF Locals, Boots

\* A walk of a page starts with nothing.
LEMMA NoneLost ==
  ASSUME NvInv, NEW p \in Pages
  PROVE  1 <= Len(flash[p].items) + 1 /\ 0 <= LostIn(flash[p].items, 1, 1 - 1)
<1>1. flash[p].items \in Seq(Item)
  BY PageTyped
<1>2. Len(flash[p].items) \in Nat
  BY <1>1, LenProperties
<1>3. 0 \in 0 .. Len(flash[p].items) /\ 1 - 1 = 0 /\ 1 <= Len(flash[p].items) + 1
  BY ONLY <1>2
<1>4. LostIn(flash[p].items, 1, 0) \in Nat
  BY <1>1, <1>3, LostNat
<1> QED
  BY <1>3, <1>4

LEMMA ReadHeaderKeeps == NvInv /\ ReadHeader => NvInv'
<1> SUFFICES ASSUME NvInv, ReadHeader PROVE NvInv'
  OBVIOUS
<1>0. PICK p : p = boot.pg
  OBVIOUS
<1>1. /\ pc = "headers" /\ p \in Pages /\ pc' = pc /\ call' = call /\ todo' = todo
      /\ pgOff' = pgOff /\ pgLost' = pgLost
      /\ pgRes' = (IF ~ flash[p].inUse /\ pgRes = Nothing THEN p ELSE pgRes)
      /\ flash' = [flash EXCEPT ![p].inUse = @ \/ pgRes # Nothing]
      /\ boot' = [boot EXCEPT !.pg = p + 1,
                    !.old = IF flash[p].inUse /\ flash[p].xfer THEN p ELSE @]
  BY <1>0 DEF ReadHeader
<1>2. /\ flash' \in Flashes /\ \A q \in Pages : flash'[q].items = flash[q].items
  <2>1. flash \in Flashes
    BY BootIs
  <2>2. flash[p].inUse \in BOOLEAN
    BY <1>1, <2>1 DEF Flashes
  <2> QED
    BY <1>1, <2>1, <2>2 DEF Flashes
<1>3. /\ boot'.pg = p + 1
      /\ boot'.old = IF flash[p].inUse /\ flash[p].xfer THEN p ELSE boot.old
      /\ boot' \in Boots
  <2>1. /\ boot'.pg = p + 1
        /\ boot'.old = IF flash[p].inUse /\ flash[p].xfer THEN p ELSE boot.old
        /\ boot'.pass = boot.pass /\ boot'.k = boot.k /\ boot'.lost = boot.lost
        /\ boot' = [old |-> boot'.old, pass |-> boot'.pass, pg |-> boot'.pg, k |-> boot'.k,
                    lost |-> boot'.lost]
    BY <1>1, BootIs
  <2>2. p + 1 \in 1 .. OSAL_NV_PAGES_USED + 1
    BY <1>1, BootIs
  <2> QED
    BY <1>1, <2>1, <2>2, BootIs DEF Boots
<1>4. HeadersOK'
  <2>1. /\ boot.old # Nothing => boot.old < p
        /\ pgRes # Nothing => pgRes < p
        /\ boot.old # Nothing => boot.old # pgRes
    BY <1>0, <1>1 DEF NvInv, HeadersOK
  <2>2. p \in Nat /\ p # Nothing /\ Pages \subseteq Nat
        /\ boot.old \in Pages \cup {Nothing} /\ pgRes \in Pages \cup {Nothing}
    BY <1>1, BootIs
  <2>3. boot'.old # Nothing => boot'.old < boot'.pg
    <3>1. CASE boot'.old = p
      BY <2>2, <1>3, <3>1
    <3>2. CASE boot'.old = boot.old /\ boot.old # Nothing
      <4>1. boot.old < p /\ boot.old \in Nat /\ p \in Nat
        BY <2>1, <2>2, <3>2
      <4>2. boot.old < p + 1
        BY ONLY <4>1
      <4> QED
        BY <1>3, <3>2, <4>2
    <3> QED
      BY <1>3, <3>1, <3>2
  <2>4. pgRes' # Nothing => pgRes' < boot'.pg
    BY <1>1, <1>3, <2>1, <2>2
  <2>5. boot'.old # Nothing => boot'.old # pgRes'
    BY <1>1, <1>3, <2>1, <2>2
  <2> QED
    BY <2>3, <2>4, <2>5 DEF HeadersOK
<1>5. CountsOK' /\ WalkOK' /\ ReserveOK' /\ todo' = <<>>
  BY <1>1 DEF NvInv, CountsOK, WalkOK, ReserveOK, PhaseOK
<1>6. pgRes' \in Pages \cup {Nothing} /\ call' \in Calls
  BY <1>1, BootIs
<1> QED
  BY <1>1, <1>2, <1>3, <1>4, <1>5, <1>6, QuietStageKeeps

LEMMA StartWalkKeeps == NvInv /\ StartWalk => NvInv'
BY BootIs, NoneLost, NoneToCome, QuietStageKeeps, LocalsTyped, NoCallTyped DEF StartWalk,
   ramVars, Locals, CountsOK, WalkOK, HeadersOK, NvInv, ReserveOK, Ready

LEMMA WalkStopsKeeps == NvInv /\ WalkStops => NvInv'
<1> SUFFICES ASSUME NvInv, WalkStops PROVE NvInv'
  OBVIOUS
<1>1. /\ pc = "walk" /\ pc' = pc /\ todo' = todo /\ boot.pg \in Pages /\ boot.pass # "second"
      /\ boot' = (IF boot.pass = "first" THEN [Locals EXCEPT !.pass = "second"]
                  ELSE [Locals EXCEPT !.pass = "third", !.pg = boot.pg + 1])
      /\ call' = call /\ flash' = flash /\ pgOff' = pgOff /\ pgLost' = pgLost /\ pgRes' = pgRes
  BY DEF WalkStops, AtItem, Walking, ramVars
<1>2. /\ boot'.k = 1 /\ boot'.lost = 0 /\ boot'.pg \in 1 .. OSAL_NV_PAGES_USED + 1
      /\ boot'.pass = "third" => boot.pass = "third"
      /\ boot'.pass = "third" \/ boot'.pg = 1
      /\ boot' \in Boots
  <2>1. CASE boot.pass = "first"
    BY <1>1, <2>1, BootIs DEF Locals, Boots
  <2>2. CASE boot.pass = "third"
    <3>1. boot' = [Locals EXCEPT !.pass = "third", !.pg = boot.pg + 1]
      BY <1>1, <2>2
    <3>2. boot.pg + 1 \in 1 .. OSAL_NV_PAGES_USED + 1
      BY <1>1, BootIs
    <3>3. /\ boot'.old = Nothing /\ boot'.pass = "third" /\ boot'.pg = boot.pg + 1
          /\ boot'.k = 1 /\ boot'.lost = 0
          /\ boot' = [old |-> Nothing, pass |-> "third", pg |-> boot.pg + 1, k |-> 1, lost |-> 0]
      BY <3>1 DEF Locals
    <3>4. boot' \in Boots
      BY <3>2, <3>3 DEF Boots
    <3> QED
      BY <2>2, <3>2, <3>3, <3>4
  <2> QED
    BY <1>1, <2>1, <2>2, BootIs
<1>3. CountsOK'
  BY BootIs, <1>1, <1>2 DEF NvInv, CountsOK, Counted, TotalOn, LostOn
<1>4. WalkOK' /\ HeadersOK'
  BY NoneLost, <1>1, <1>2 DEF WalkOK, HeadersOK
<1>5. todo = <<>>
  BY <1>1 DEF NvInv, PhaseOK
<1>6. ReserveOK'
  BY <1>1, <1>5, NoneToCome DEF NvInv, ReserveOK, Ready
<1>7. flash' \in Flashes /\ pgRes' \in Pages \cup {Nothing} /\ call' \in Calls
  BY <1>1, BootIs
<1> QED
  BY <1>1, <1>2, <1>3, <1>4, <1>5, <1>6, <1>7, QuietStageKeeps

LEMMA WalkAgainKeeps == NvInv /\ WalkAgain => NvInv'
BY PagesAssumption, BootIs, NoneLost, NoneToCome, QuietStageKeeps DEF WalkAgain, ramVars,
   Locals, Boots, NvInv, CountsOK, Counted, TotalOn, LostOn, WalkOK, HeadersOK, PhaseOK,
   ReserveOK, Ready

\* The page with the most lost space is one of the pages.
LEMMA MostLostIs == ASSUME NvInv PROVE MostLost \in Pages
<1>1. /\ Pages \in SUBSET Nat /\ Pages # {} /\ \A p \in Pages : pgLost[p] \in Nat
  <2>1. 1 \in Pages
    BY PagesAssumption DEF Pages
  <2>2. \A p \in Pages : p \in Nat
    BY PagesAssumption DEF Pages
  <2>3. \A p \in Pages : pgLost[p] \in Nat
    BY DEF NvInv, Types, TypeOK
  <2> QED
    BY <2>1, <2>2, <2>3
<1>2. CASE AllLost # {}
  BY <1>1, <1>2, LeastElement DEF AllLost, MostLost
<1>3. CASE AllLost = {}
  <2> DEFINE most == {p \in Pages : \A q \in Pages : pgLost[p] >= pgLost[q]}
             Best(n) == \E p \in 1 .. n : \A q \in 1 .. n : pgLost[p] >= pgLost[q]
             off == {n \in Pages : ~ Best(n)}
  <2>1. off = {}
    <3>1. SUFFICES ASSUME off # {} PROVE FALSE
      OBVIOUS
    <3>2. PICK n \in off : \A m \in off : n <= m
      <4>1. off \in SUBSET Nat
        BY <1>1
      <4> HIDE DEF off
      <4> QED
        BY <3>1, <4>1, LeastElement
    <3>3. n \in Nat \ {0} /\ n <= OSAL_NV_PAGES_USED /\ OSAL_NV_PAGES_USED \in Nat /\ ~ Best(n)
          /\ \A p \in 1 .. n : pgLost[p] \in Nat
      BY <1>1, BootIs
    <3>4. CASE n = 1
      BY <3>3, <3>4
    <3>5. CASE n > 1
      <4>1. n - 1 \in Pages /\ n - 1 \notin off
        BY <3>2, <3>3, <3>5, BootIs
      <4>2. PICK p \in 1 .. n - 1 : \A q \in 1 .. n - 1 : pgLost[p] >= pgLost[q]
        BY <4>1
      <4>3. /\ p \in 1 .. n /\ n \in 1 .. n /\ pgLost[p] \in Nat /\ pgLost[n] \in Nat
            /\ \A q \in 1 .. n : q = n \/ q \in 1 .. n - 1
        BY <3>3, <3>5, <4>2
      <4>4. CASE pgLost[p] >= pgLost[n]
        BY <3>3, <4>2, <4>3, <4>4
      <4>5. CASE pgLost[n] >= pgLost[p]
        BY <3>3, <4>2, <4>3, <4>5
      <4> QED
        BY <4>3, <4>4, <4>5
    <3> QED
      BY <3>3, <3>4, <3>5
  <2>2. Best(OSAL_NV_PAGES_USED)
    <3>1. OSAL_NV_PAGES_USED \in Pages
      BY PagesAssumption DEF Pages
    <3> QED
      BY <2>1, <3>1
  <2>3. most # {} /\ most \in SUBSET Nat
    BY <1>1, <2>2, BootIs
  <2> HIDE DEF most
  <2>4. PICK p \in most : \A q \in most : p <= q
    BY <2>3, LeastElement
  <2> USE DEF most
  <2>5. ASSUME NEW q \in Pages
        PROVE  pgLost[p] > pgLost[q] \/ (pgLost[p] = pgLost[q] /\ p <= q)
    BY <1>1, <2>4
  <2>6. \E x \in Pages : \A q \in Pages :
          pgLost[x] > pgLost[q] \/ (pgLost[x] = pgLost[q] /\ x <= q)
    BY <2>4, <2>5
  <2> QED
    BY <1>3, <2>6 DEF MostLost
<1> QED
  BY <1>2, <1>3

\* Once all pages have been counted, a page is erased unless one is.
LEMMA BootedKeeps == NvInv /\ Booted => NvInv'
<1> SUFFICES ASSUME NvInv, Booted PROVE NvInv'
  OBVIOUS
<1>1. /\ pc = "walk" /\ boot.pg \notin Pages /\ boot.pass # "second" /\ boot' = Locals
      /\ call' = call /\ flash' = flash /\ pgOff' = pgOff /\ pgLost' = pgLost /\ pgRes' = pgRes
      /\ \/ pgRes = Nothing /\ pc' = "last" /\ todo' = Op("erase", MostLost)
         \/ pgRes # Nothing /\ pc' = "idle" /\ todo' = todo
  BY DEF Booted, ramVars
<1>2. todo = <<>>
  BY <1>1 DEF NvInv, PhaseOK
<1>3. CountsOK'
  BY <1>1, BootIs DEF NvInv, CountsOK, Counted, TotalOn, LostOn
<1>4. WalkOK' /\ HeadersOK'
  BY <1>1 DEF WalkOK, HeadersOK
<1>5. todo' = <<>> \/ \E p \in Pages : todo' = Op("erase", p)
  BY <1>1, <1>2, MostLostIs
<1>6. ReserveOK'
  BY <1>1, MostLostIs, EraseIsToCome, <1>2, NoneToCome DEF ReserveOK, NvInv, Ready
<1>7. /\ flash' \in Flashes /\ pgRes' \in Pages \cup {Nothing} /\ call' \in Calls
      /\ boot' \in Boots
  BY <1>1, BootIs, LocalsTyped
<1> QED
  BY <1>1, <1>2, <1>3, <1>4, <1>5, <1>6, <1>7, QuietStageKeeps

LEMMA BootedLastKeeps == NvInv /\ BootedLast => NvInv'
BY NoneToCome, BootIs, QuietStageKeeps DEF BootedLast, ramVars, NvInv, CountsOK, Counted,
   TotalOn, LostOn, WalkOK, HeadersOK, ReserveOK, Ready, Types

\* The item that a walk comes to, and what it has lost on the way there.
LEMMA HereIs ==
  ASSUME NvInv, Walking
  PROVE  /\ Items \in Seq(Item) /\ Len(Items) \in Nat /\ DOMAIN Items = 1 .. Len(Items)
         /\ boot.pg \in Pages /\ pc = "walk" /\ todo = <<>>
         /\ Here \in 1 .. Len(Items) + 1
         /\ Here <= Len(Items) => Here \in 1 .. Len(Items) /\ Items[Here].id # Nothing
         /\ LostHere \in Nat /\ LostHere <= LostIn(Items, 1, Here - 1)
<1>1. /\ Items \in Seq(Item) /\ Len(Items) \in Nat /\ DOMAIN Items = 1 .. Len(Items)
      /\ boot.pg \in Pages /\ pc = "walk" /\ todo = <<>>
  BY PageTyped DEF Walking, Items, NvInv, PhaseOK
<1>2. /\ boot.k \in Nat \ {0} /\ boot.lost \in Nat
      /\ boot.k <= Len(Items) + 1 /\ boot.lost <= LostIn(Items, 1, boot.k - 1)
  BY <1>1, BootIs DEF NvInv, WalkOK, Items
<1>3. /\ Here \in boot.k .. Len(Items) + 1
      /\ Here <= Len(Items) => Items[Here].id # Nothing
  <2> DEFINE later == {k \in boot.k .. Len(Items) : Matters(Items[k])}
  <2>1. CASE later = {}
    BY <2>1, <1>1, <1>2 DEF Here
  <2>2. CASE later # {}
    <3>1. later \in SUBSET Nat
      BY <1>1, <1>2
    <3>2. \E k \in later : \A j \in later : k <= j
      <4> HIDE DEF later
      <4> QED
        BY <2>2, <3>1, LeastElement
    <3>3. Here = CHOOSE k \in later : \A j \in later : k <= j
      BY <2>2 DEF Here
    <3>4. Here \in later
      BY <3>2, <3>3
    <3> QED
      BY <1>1, <1>2, <3>4 DEF Matters
  <2> QED
    BY <2>1, <2>2
<1>4. Here \in 1 .. Len(Items) + 1 /\ (Here <= Len(Items) => Here \in 1 .. Len(Items))
  BY <1>1, <1>2, <1>3
<1>5. LostHere \in Nat /\ LostHere <= LostIn(Items, 1, Here - 1)
  <2> DEFINE m == boot.k - 1
             b == Here - 1
  <2>1. m \in 0 .. Len(Items) /\ b \in m .. Len(Items) /\ b \in 0 .. Len(Items) /\ m + 1 = boot.k
    BY <1>1, <1>2, <1>3
  <2>2. LostIn(Items, 1, m) + LostIn(Items, m + 1, b) <= LostIn(Items, 1, b)
    BY <1>1, <2>1, LostPieces
  <2>3. /\ LostIn(Items, 1, m) \in Nat /\ LostIn(Items, m + 1, b) \in Nat
        /\ LostIn(Items, 1, b) \in Nat
    BY <1>1, <2>1, LostNat
  <2>4. LostHere = boot.lost + LostIn(Items, m + 1, b)
    BY <2>1 DEF LostHere
  <2>5. boot.lost \in Nat /\ boot.lost <= LostIn(Items, 1, m)
    BY <1>2
  <2> HIDE DEF m
  <2>6. LostHere \in Nat /\ LostHere <= LostIn(Items, 1, b)
    BY ONLY <2>2, <2>3, <2>4, <2>5
  <2> QED
    BY <2>6
<1> QED
  BY <1>1, <1>3, <1>4, <1>5

LEMMA WalkPageEndKeeps == NvInv /\ WalkPageEnd => NvInv'
<1> SUFFICES ASSUME NvInv, WalkPageEnd PROVE NvInv'
  OBVIOUS
<1>0. PICK pg, lost : pg = boot.pg /\ lost = LostHere
  OBVIOUS
<1>1. /\ Walking /\ ~ (Here <= Len(Items))
      /\ pgOff' = [pgOff EXCEPT ![pg] = TotalOn(pg)]
      /\ pgLost' = [pgLost EXCEPT ![pg] = lost]
      /\ boot' = [boot EXCEPT !.pg = pg + 1, !.k = 1, !.lost = 0]
      /\ flash' = flash /\ pgRes' = pgRes /\ pc' = pc /\ call' = call /\ todo' = todo
  BY <1>0 DEF WalkPageEnd, AtItem, TotalOn, Items
<1>2. /\ pg \in Pages /\ pc = "walk" /\ todo = <<>> /\ lost \in Nat /\ lost <= LostOn(pg)
  <2>1. /\ Len(Items) \in Nat /\ Here \in 1 .. Len(Items) + 1 /\ boot.pg \in Pages /\ pc = "walk"
        /\ todo = <<>> /\ LostHere \in Nat /\ LostHere <= LostIn(Items, 1, Here - 1)
    BY <1>1, HereIs
  <2>2. Here - 1 = Len(Items)
    BY <1>1, <2>1
  <2> QED
    BY <1>0, <2>1, <2>2 DEF LostOn, Lost, Items
<1>3. /\ TotalOn(pg) \in Nat /\ LostOn(pg) \in Nat /\ TotalOn(pg) <= PageSize
      /\ pgOff \in [Pages -> Nat] /\ pgLost \in [Pages -> Nat]
  BY <1>2, PageTyped DEF NvInv, Types, TypeOK
<1>4. /\ pgOff' \in [Pages -> Nat] /\ pgLost' \in [Pages -> Nat]
      /\ pgOff'[pg] = TotalOn(pg) /\ pgLost'[pg] = lost
      /\ \A p \in Pages : p # pg => pgOff'[p] = pgOff[p] /\ pgLost'[p] = pgLost[p]
  BY <1>1, <1>2, <1>3
<1>5. /\ boot'.pg = pg + 1 /\ boot'.k = 1 /\ boot'.lost = 0 /\ boot'.pass = boot.pass
      /\ boot' \in Boots
  <2>1. /\ boot'.pg = pg + 1 /\ boot'.k = 1 /\ boot'.lost = 0 /\ boot'.pass = boot.pass
        /\ boot' = [old |-> boot.old, pass |-> boot.pass, pg |-> pg + 1, k |-> 1, lost |-> 0]
    BY <1>1, BootIs
  <2>2. pg + 1 \in 1 .. OSAL_NV_PAGES_USED + 1
    BY <1>2, BootIs
  <2> QED
    BY <2>1, <2>2, BootIs DEF Boots
<1>6. \A p \in Pages : TotalOn(p)' = TotalOn(p) /\ LostOn(p)' = LostOn(p)
  BY <1>1 DEF TotalOn, LostOn
<1>7. CountsOK'
  <2>1. Counted(pg)'
    <3>1. TotalOn(pg) <= TotalOn(pg) /\ lost <= LostOn(pg) + TotalOn(pg) - TotalOn(pg)
      BY ONLY <1>2, <1>3
    <3> QED
      BY <1>2, <1>4, <1>6, <3>1 DEF Counted
  <2>2. \A p \in Pages : p # pg /\ Counted(p) => Counted(p)'
    BY <1>4, <1>6 DEF Counted
  <2>3. \A p \in Pages : p < pg + 1 => p = pg \/ p < pg
    BY <1>2, BootIs
  <2> QED
    BY <1>0, <1>1, <1>2, <1>5, <2>1, <2>2, <2>3 DEF NvInv, CountsOK
<1>8. WalkOK' /\ HeadersOK'
  BY <1>1, <1>2, <1>5, NoneLost DEF WalkOK, HeadersOK
<1>9. ReserveOK'
  BY EmptyPage, <1>1, <1>2, <1>4, NoneToCome DEF TotalOn, Erased, Ready, NvInv, ReserveOK
<1>10. TypeOK' /\ ItemsSized' /\ call' \in Calls
  <2>1. boot'.pg \in Nat /\ boot'.k \in Nat \ {0} /\ boot'.lost \in Nat
    BY <1>2, <1>5, BootIs
  <2> QED
    BY <1>1, <1>4, <2>1 DEF NvInv, Types, TypeOK, ItemsSized
<1>11. PagesFit'
  BY <1>6 DEF NvInv, PagesFit
<1>12. \A p \in Pages : pgOff'[p] <= PageSize
  BY <1>3, <1>4, OffFits
<1> QED
  BY <1>1, <1>2, <1>5, <1>7, <1>8, <1>9, <1>10, <1>11, <1>12, StageKeeps

\* A walk goes on behind an item.
LEMMA WalkOnKeeps ==
  ASSUME NvInv, Walking, Here <= Len(Items),
         flash' \in Flashes, ItemsSized', PagesFit',
         pgOff' \in [Pages -> Nat], pgLost' \in [Pages -> Nat],
         \A p \in Pages :
           /\ pgOff'[p] <= PageSize
           /\ Counted(p) => Counted(p)'
           /\ flash[p] = Erased => flash'[p] = Erased
           /\ flash[p] = Erased /\ pgOff[p] = 0 => pgOff'[p] = 0
           /\ Len(flash'[p].items) = Len(flash[p].items),
         NEW l \in Nat, l <= LostIn(flash'[boot.pg].items, 1, Here),
         boot' = [boot EXCEPT !.k = Here + 1, !.lost = l],
         pgRes' = pgRes, pc' = pc, call' = call, todo' = todo
  PROVE  NvInv'
<1>1. /\ boot.pg \in Pages /\ pc = "walk" /\ todo = <<>>
      /\ Here \in 1 .. Len(Items) /\ Len(Items) \in Nat
  BY HereIs
<1>2. /\ boot'.pg = boot.pg /\ boot'.pass = boot.pass /\ boot'.k = Here + 1 /\ boot'.lost = l
      /\ boot' \in Boots /\ boot'.k \in Nat \ {0} /\ boot'.pg \in Nat
  <2>1. /\ boot'.pg = boot.pg /\ boot'.pass = boot.pass /\ boot'.k = Here + 1 /\ boot'.lost = l
        /\ boot' = [old |-> boot.old, pass |-> boot.pass, pg |-> boot.pg, k |-> Here + 1,
                    lost |-> l]
    BY BootIs
  <2>2. Here + 1 \in Nat \ {0} /\ boot.pg \in 1 .. OSAL_NV_PAGES_USED + 1
    BY <1>1, BootIs
  <2> QED
    BY <2>1, <2>2, BootIs DEF Boots
<1>3. WalkOK' /\ HeadersOK'
  <2>1. Len(flash'[boot.pg].items) = Len(Items)
    BY <1>1 DEF Items
  <2>2. Here + 1 <= Len(Items) + 1 /\ (Here + 1) - 1 = Here
    BY ONLY <1>1
  <2>3. /\ boot'.k <= Len(flash'[boot'.pg].items) + 1
        /\ boot'.lost <= LostIn(flash'[boot'.pg].items, 1, boot'.k - 1)
    BY <1>2, <2>1, <2>2
  <2> QED
    BY <1>1, <2>3 DEF WalkOK, HeadersOK
<1>4. CountsOK'
  BY <1>1, <1>2 DEF NvInv, CountsOK
<1>5. ReserveOK'
  BY <1>1, NoneToCome DEF Ready, NvInv, ReserveOK
<1>6. TypeOK' /\ call' \in Calls
  BY <1>2 DEF NvInv, Types, TypeOK, Flashes
<1> QED
  BY <1>1, <1>2, <1>3, <1>4, <1>5, <1>6, StageKeeps

\* A step of initPage that zeroes the k-th item of page q, having counted off and
\* lost.
Zeroes(q, k, off, lost, l) ==
  /\ Walking /\ Here <= Len(Items) /\ CountsFor(off, lost)
  /\ q \in Pages /\ k \in 1 .. Len(flash[q].items) /\ flash[q].items[k].id # Nothing
  /\ flash' = [flash EXCEPT ![q].items[k] = Zeroed(flash[q].items[k])]
  /\ pgOff' = off /\ pgLost' = [lost EXCEPT ![q] = lost[q] + flash[q].items[k].len]
  /\ l \in Nat
  /\ l <= LostHere + (IF q = boot.pg /\ k = Here THEN flash[q].items[k].len ELSE 0)
  /\ boot' = [boot EXCEPT !.k = Here + 1, !.lost = l]
  /\ pgRes' = pgRes /\ pc' = pc /\ call' = call /\ todo' = todo

LEMMA ZeroingKeeps ==
  ASSUME NvInv, NEW q, NEW k, NEW off, NEW lost, NEW l, Zeroes(q, k, off, lost, l)
  PROVE  NvInv'
<1> USE DEF Zeroes
<1>0. PICK items, new : items = flash[q].items /\ new = [items EXCEPT ![k] = Zeroed(items[k])]
  OBVIOUS
<1>1. /\ items \in Seq(Item) /\ DOMAIN items = 1 .. Len(items) /\ Len(items) \in Nat
      /\ k \in 1 .. Len(items) /\ items[k].id # Nothing
      /\ \A j \in 1 .. Len(items) : Sized(items[j])
      /\ TotalOn(q) = Total(items) /\ LostOn(q) = Lost(items)
      /\ TotalOn(q) \in Nat /\ LostOn(q) \in Nat /\ TotalOn(q) <= PageSize
  BY <1>0, PageTyped DEF TotalOn, LostOn
<1>2. WithZeroed(new, items, k)
  BY <1>0, <1>1, ZeroedItem
<1>3. /\ new \in Seq(Item) /\ Len(new) = Len(items) /\ Total(new) = Total(items)
      /\ Lost(new) = Lost(items) + items[k].len /\ items[k].len \in Nat
      /\ \A n \in 0 .. Len(items) :
           LostIn(new, 1, n) = LostIn(items, 1, n) + IF k <= n THEN items[k].len ELSE 0
      /\ \A j \in 1 .. Len(items) : Sized(items[j]) => Sized(new[j])
  BY ONLY <1>2 DEF WithZeroed
<1>4. flash \in Flashes
  BY BootIs
<1>5. /\ flash' \in Flashes /\ flash'[q].items = new
      /\ \A p \in Pages : p # q => flash'[p] = flash[p]
      /\ flash'[q].inUse = flash[q].inUse /\ flash'[q].xfer = flash[q].xfer
  BY <1>0, <1>3, <1>4 DEF Flashes
<1>6. /\ TotalOn(q)' = TotalOn(q) /\ LostOn(q)' = LostOn(q) + items[k].len
      /\ \A p \in Pages : p # q => TotalOn(p)' = TotalOn(p) /\ LostOn(p)' = LostOn(p)
  BY <1>1, <1>3, <1>5 DEF TotalOn, LostOn
<1>7. PagesFit'
  BY <1>1, <1>6 DEF NvInv, PagesFit
<1>8. ItemsSized'
  <2>1. SUFFICES ASSUME NEW p \in Pages, NEW j \in 1 .. Len(flash'[p].items)
                 PROVE  Sized(flash'[p].items[j])
    BY DEF ItemsSized
  <2>2. CASE p = q
    BY <1>1, <1>3, <1>5, <2>2
  <2>3. CASE p # q
    BY <1>5, <2>3 DEF NvInv, Types, ItemsSized
  <2> QED
    BY <2>2, <2>3
<1>9. off \in [Pages -> Nat] /\ lost \in [Pages -> Nat]
  BY DEF CountsFor
<1>10. /\ pgOff' \in [Pages -> Nat] /\ pgLost' \in [Pages -> Nat]
       /\ pgLost'[q] = lost[q] + items[k].len
       /\ \A p \in Pages : p # q => pgLost'[p] = lost[p]
  <2>1. lost[q] + items[k].len \in Nat
    BY <1>3, <1>9
  <2> QED
    BY <1>0, <1>9, <2>1
<1>11. ASSUME NEW p \in Pages
       PROVE  /\ pgOff'[p] <= PageSize
              /\ Counted(p) => Counted(p)'
              /\ flash[p] = Erased => flash'[p] = Erased
              /\ flash[p] = Erased /\ pgOff[p] = 0 => pgOff'[p] = 0
              /\ Len(flash'[p].items) = Len(flash[p].items)
  <2>1. /\ pgOff'[p] <= PageSize
        /\ flash[p] = Erased /\ pgOff[p] = 0 => pgOff'[p] = 0
        /\ Counted(p) => /\ TotalOn(p) <= off[p] /\ lost[p] <= LostOn(p) + off[p] - TotalOn(p)
    BY DEF CountsFor
  <2>2. CASE p = q
    <3>1. flash[q] # Erased
      BY <1>0, <1>1 DEF Erased
    <3>2. ASSUME Counted(p) PROVE Counted(p)'
      <4>1. /\ TotalOn(q) <= off[q] /\ lost[q] <= LostOn(q) + off[q] - TotalOn(q)
            /\ off[q] \in Nat /\ lost[q] \in Nat
        BY <1>9, <2>1, <2>2, <3>2
      <4>2. lost[q] + items[k].len <= LostOn(q) + items[k].len + off[q] - TotalOn(q)
        BY ONLY <1>1, <1>3, <4>1
      <4> QED
        BY <1>6, <1>10, <2>2, <4>1, <4>2 DEF Counted
    <3> QED
      BY <1>0, <1>3, <1>5, <2>1, <2>2, <3>1, <3>2
  <2>3. CASE p # q
    BY <1>5, <1>6, <1>10, <2>1, <2>3 DEF Counted
  <2> QED
    BY <2>2, <2>3
<1>12. l <= LostIn(flash'[boot.pg].items, 1, Here)
  <2>1. /\ Items \in Seq(Item) /\ Len(Items) \in Nat /\ boot.pg \in Pages
        /\ Here \in 1 .. Len(Items) /\ LostHere \in Nat
        /\ LostHere <= LostIn(Items, 1, Here - 1)
    BY HereIs
  <2>2. /\ LostIn(Items, 1, Here - 1) <= LostIn(Items, 1, Here)
        /\ LostIn(Items, 1, Here - 1) \in Nat /\ LostIn(Items, 1, Here) \in Nat
    <3>1. Here - 1 \in 0 .. Len(Items) /\ Here \in (Here - 1) .. Len(Items)
          /\ Here \in 0 .. Len(Items)
      BY <2>1
    <3> QED
      BY <2>1, <3>1, LostMore, LostNat
  <2>3. CASE q = boot.pg
    <3>1. items = Items /\ flash'[boot.pg].items = new
      BY <1>0, <1>5, <2>3 DEF Items
    <3>2. LostIn(new, 1, Here) = LostIn(Items, 1, Here) + IF k <= Here THEN items[k].len ELSE 0
      BY <1>3, <2>1, <3>1
    <3>3. l <= LostHere + (IF k = Here THEN items[k].len ELSE 0)
      BY <1>0, <2>3
    <3>4. k \in Nat /\ Here \in Nat /\ items[k].len \in Nat /\ l \in Nat
      BY <1>1, <1>3, <2>1
    <3>5. l <= LostIn(new, 1, Here)
      BY ONLY <2>1, <2>2, <3>2, <3>3, <3>4
    <3> QED
      BY <3>1, <3>5
  <2>4. CASE q # boot.pg
    <3>1. flash'[boot.pg].items = Items
      BY <1>5, <2>1, <2>4 DEF Items
    <3>2. l <= LostHere
      BY <2>1, <2>4
    <3>3. l <= LostIn(Items, 1, Here)
      BY ONLY <2>1, <2>2, <3>2, l \in Nat
    <3> QED
      BY <3>1, <3>3
  <2> QED
    BY <2>3, <2>4
<1> QED
  BY <1>5, <1>7, <1>8, <1>10, <1>11, <1>12, WalkOnKeeps

LEMMA WalkBadKeeps == NvInv /\ WalkBad => NvInv'
<1> SUFFICES ASSUME NvInv, WalkBad PROVE NvInv'
  OBVIOUS
<1>1. /\ Walking /\ Here <= Len(Items) /\ boot.pg \in Pages
      /\ Here \in 1 .. Len(flash[boot.pg].items) /\ flash[boot.pg].items[Here].id # Nothing
      /\ LostHere \in Nat
  BY HereIs DEF WalkBad, AtItem, Items
<1>2. CountsFor(pgOff, pgLost)
  <2>1. pgOff = RecountedOff({}) /\ pgLost = RecountedLost({})
    BY DEF RecountedOff, RecountedLost, NvInv, Types, TypeOK
  <2> QED
    BY <2>1, WalkCounts
<1>3. PICK l : l = LostHere + flash[boot.pg].items[Here].len
  OBVIOUS
<1>4. flash[boot.pg].items[Here].len \in Nat
  BY <1>1, PageTyped, ItemLens
<1>5. l \in Nat
  <2>1. PICK a, b \in Nat : a = LostHere /\ b = flash[boot.pg].items[Here].len
    BY <1>1, <1>4, Zenon
  <2>2. l = a + b
    BY ONLY <1>3, <2>1, Zenon
  <2> QED
    BY ONLY <2>2
<1>6. l <= LostHere + (IF boot.pg = boot.pg /\ Here = Here THEN flash[boot.pg].items[Here].len
                       ELSE 0)
  BY <1>3, <1>5
<1>7. /\ flash' = [flash EXCEPT ![boot.pg].items[Here] = Zeroed(flash[boot.pg].items[Here])]
      /\ pgOff' = pgOff
      /\ pgLost' = [pgLost EXCEPT ![boot.pg] = pgLost[boot.pg] + flash[boot.pg].items[Here].len]
      /\ boot' = [boot EXCEPT !.k = Here + 1, !.lost = l]
      /\ pgRes' = pgRes /\ pc' = pc /\ call' = call /\ todo' = todo
  BY <1>3 DEF WalkBad, Zero, OnWith, Items
<1>8. Zeroes(boot.pg, Here, pgOff, pgLost, l)
  BY <1>1, <1>2, <1>5, <1>6, <1>7 DEF Zeroes
<1> QED
  BY <1>8, ZeroingKeeps

LEMMA WalkTwinKeeps == NvInv /\ WalkTwin => NvInv'
<1> SUFFICES ASSUME NvInv, WalkTwin PROVE NvInv'
  OBVIOUS
<1>0. PICK id, W, old : /\ id = Items[Here].id /\ W = Walked(id, {"xfer"})
                        /\ old = First(Places(id, "xfer"))
  OBVIOUS
<1>1. /\ Walking /\ Here <= Len(Items) /\ LostHere \in Nat /\ id # Nothing
      /\ LostHere <= LostIn(Items, 1, Here - 1) /\ boot.pg \in Pages
      /\ Items \in Seq(Item) /\ Len(Items) \in Nat /\ Here \in 1 .. Len(Items)
  BY <1>0, HereIs DEF WalkTwin, AtItem
<1>2. PICK lost : lost = RecountedLost(W)
  OBVIOUS
<1>3. CountsFor(RecountedOff(W), lost)
  BY <1>2, WalkCounts
<1>4. /\ pgOff' = RecountedOff(W)
      /\ boot' = [boot EXCEPT !.k = Here + 1, !.lost = LostHere]
      /\ pgRes' = pgRes /\ pc' = pc /\ call' = call /\ todo' = todo
  BY <1>0 DEF WalkTwin, OnWith
<1>5. CASE Places(id, "xfer") = {}
  <2>1. pgLost' = lost /\ flash' = flash
    BY <1>0, <1>2, <1>5 DEF WalkTwin
  <2>2. \A p \in Pages : TotalOn(p)' = TotalOn(p) /\ LostOn(p)' = LostOn(p)
    BY <2>1 DEF TotalOn, LostOn
  <2>3. flash' \in Flashes /\ ItemsSized' /\ PagesFit'
    BY <2>1, <2>2, BootIs DEF NvInv, Types, ItemsSized, PagesFit
  <2>4. pgOff' \in [Pages -> Nat] /\ pgLost' \in [Pages -> Nat]
    BY <1>3, <1>4, <2>1 DEF CountsFor
  <2>5. ASSUME NEW p \in Pages
        PROVE  /\ pgOff'[p] <= PageSize
               /\ Counted(p) => Counted(p)'
               /\ flash[p] = Erased => flash'[p] = Erased
               /\ flash[p] = Erased /\ pgOff[p] = 0 => pgOff'[p] = 0
               /\ Len(flash'[p].items) = Len(flash[p].items)
    BY <1>3, <1>4, <2>1, <2>2 DEF CountsFor, Counted
  <2>6. LostHere <= LostIn(flash'[boot.pg].items, 1, Here)
    <3>1. Here - 1 \in 0 .. Len(Items) /\ Here \in (Here - 1) .. Len(Items)
          /\ Here \in 0 .. Len(Items)
      BY <1>1
    <3>2. /\ LostIn(Items, 1, Here - 1) <= LostIn(Items, 1, Here)
          /\ LostIn(Items, 1, Here - 1) \in Nat /\ LostIn(Items, 1, Here) \in Nat
      BY <1>1, <3>1, LostMore, LostNat
    <3>3. LostHere <= LostIn(Items, 1, Here)
      BY ONLY <1>1, <3>2
    <3> QED
      BY <2>1, <3>3 DEF Items
  <2> QED
    BY <1>1, <1>4, <2>3, <2>4, <2>5, <2>6, WalkOnKeeps
<1>6. CASE Places(id, "xfer") # {}
  <2>1. old \in Places(id, "xfer")
    BY <1>0, <1>6, FirstIsOne, PlacesAre
  <2>2. PICK q, k : q = old[1] /\ k = old[2]
    OBVIOUS
  <2>3. /\ q \in Pages /\ k \in 1 .. Len(flash[q].items) /\ flash[q].items[k].id = id
    BY <2>1, <2>2, PlacesAre
  <2>4. flash[q].items[k].len = Size[id]
    BY <1>1, <2>3, PageTyped DEF Sized
  <2>5. /\ flash' = [flash EXCEPT ![q].items[k] = Zeroed(flash[q].items[k])]
        /\ pgLost' = [lost EXCEPT ![q] = lost[q] + flash[q].items[k].len]
    <3>1. /\ flash' = [flash EXCEPT ![q].items[k] = Zeroed(@)]
          /\ pgLost' = [lost EXCEPT ![q] = @ + Size[id]]
      BY <1>0, <1>2, <1>6, <2>2 DEF WalkTwin
    <3> QED
      BY <2>4, <3>1
  <2>6. flash[q].items[k].len \in Nat
    BY <2>3, PageTyped, ItemLens
  <2>7. LostHere <= LostHere + (IF q = boot.pg /\ k = Here THEN flash[q].items[k].len ELSE 0)
    BY ONLY <1>1, <2>6
  <2>8. flash[q].items[k].id # Nothing /\ Walking /\ Here <= Len(Items) /\ LostHere \in Nat
    BY <1>1, <2>3
  <2>9. PICK off, l : off = RecountedOff(W) /\ l = LostHere
    OBVIOUS
  <2>10. /\ CountsFor(off, lost) /\ pgOff' = off /\ l \in Nat
         /\ l <= LostHere + (IF q = boot.pg /\ k = Here THEN flash[q].items[k].len ELSE 0)
         /\ boot' = [boot EXCEPT !.k = Here + 1, !.lost = l]
    BY <1>1, <1>3, <1>4, <2>7, <2>9
  <2>11. pgRes' = pgRes /\ pc' = pc /\ call' = call /\ todo' = todo
    BY <1>4
  <2> QED
    <3>1. Zeroes(q, k, off, lost, l)
      BY ONLY <2>3, <2>5, <2>8, <2>10, <2>11 DEF Zeroes
    <3> QED
      BY <3>1, ZeroingKeeps
<1> QED
  BY <1>5, <1>6

\* initNV decides what to erase, from the headers it has read.
LEMMA RecoverErases ==
  ASSUME NvInv, Recover, boot.old = Nothing \/ pgRes = Nothing
  PROVE  NvInv'
BY BootIs, EraseIsToCome, QuietStageKeeps DEF Recover, ramVars, CountsOK, WalkOK, HeadersOK,
   ReserveOK, NvInv, Types

\* It may also find a page that was being compacted, and a page to start that over on.
RecoveryPlan(old) ==
  Op("erase", pgRes) \o Copies(old, 1, pgRes, Nothing) \o Cleanup(old)

LEMMA RecoveryPlanIs ==
  ASSUME flash \in Flashes, pgRes \in Pages, NEW old \in Pages
  PROVE  /\ RecoveryPlan(old) \in Seq(Ops) /\ ToCome(RecoveryPlan(old))
         /\ Head(RecoveryPlan(old)) = [op |-> "erase", pg |-> pgRes]
         /\ \A op \in ToSet(RecoveryPlan(old)) :
              \/ op.op \in {"use", "erase"}
              \/ op = [op |-> "copy", pg |-> old, k |-> 1, to |-> pgRes, skip |-> Nothing]
         /\ \A q \in Pages : Planned(flash, RecoveryPlan(old), q)
                               = IF pgRes = q THEN CopyRoom(flash[old].items, 1, Nothing) ELSE 0
<1> DEFINE a == Op("erase", pgRes)
           b == Copies(old, 1, pgRes, Nothing)
           c == Cleanup(old)
<1>1. /\ a \in Seq(Ops) /\ b \in Seq(Ops) /\ a \o b \in Seq(Ops)
  BY OpsTyped, ConcatProperties
<1>2. /\ c \in Seq(Ops) /\ ToCome(c) /\ a \o b \o c \in Seq(Ops)
      /\ \A op \in ToSet(c) : op.op = "use" \/ (op.op = "erase" /\ op.pg = old)
      /\ \A q \in Pages : Planned(flash, c, q) = 0
  BY <1>1, CleanupIs, ConcatProperties
<1>3. ToCome(a \o b \o c)
  BY <1>1, <1>2, ToComeAfter
<1>4. Head(a \o b \o c) = [op |-> "erase", pg |-> pgRes]
  <2>1. Len(a) = 1 /\ a[1] = [op |-> "erase", pg |-> pgRes]
    BY DEF Op
  <2>2. Len(a \o b) >= 1 /\ (a \o b)[1] = a[1]
    BY <1>1, <2>1, ConcatProperties, LenProperties
  <2>3. Len(a \o b \o c) >= 1 /\ (a \o b \o c)[1] = a[1]
    BY <1>1, <1>2, <2>2, ConcatProperties, LenProperties
  <2>4. a \o b \o c # <<>>
    BY <2>3
  <2> HIDE DEF a, b, c
  <2> QED
    BY <1>2, <2>1, <2>3, <2>4, SetOfTail
<1>5. /\ ToSet(a) = {[op |-> "erase", pg |-> pgRes]}
      /\ ToSet(b) = {[op |-> "copy", pg |-> old, k |-> 1, to |-> pgRes, skip |-> Nothing]}
  BY OpsAre
<1>6. ASSUME NEW q \in Pages
      PROVE  /\ Planned(flash, a, q) = 0
             /\ Planned(flash, b, q)
                  = IF pgRes = q THEN CopyRoom(flash[old].items, 1, Nothing) ELSE 0
  BY PlannedOp, PlannedCopies
<1> HIDE DEF a, b, c
<1>7. ToSet(a \o b \o c) = ToSet(a) \cup ToSet(b) \cup ToSet(c)
  BY <1>1, <1>2, SetOfPlans
<1>8. \A op \in ToSet(a \o b \o c) :
        \/ op.op \in {"use", "erase"}
        \/ op = [op |-> "copy", pg |-> old, k |-> 1, to |-> pgRes, skip |-> Nothing]
  BY <1>2, <1>5, <1>7
<1>9. ASSUME NEW q \in Pages
      PROVE  Planned(flash, a \o b \o c, q)
               = IF pgRes = q THEN CopyRoom(flash[old].items, 1, Nothing) ELSE 0
  <2>1. /\ Planned(flash, a \o b \o c, q) = Planned(flash, a \o b, q) + Planned(flash, c, q)
        /\ Planned(flash, a \o b, q) = Planned(flash, a, q) + Planned(flash, b, q)
    BY <1>1, <1>2, PlannedConcat
  <2>2. CopyRoom(flash[old].items, 1, Nothing) \in Nat
    BY CopyRoomNat DEF Flashes
  <2> QED
    BY <1>2, <1>6, <2>1, <2>2
<1> QED
  BY <1>2, <1>3, <1>4, <1>8, <1>9 DEF RecoveryPlan, a, b, c

\* Starting a compaction over fits the reserve page, which is erased first.
LEMMA RecoverCopies ==
  ASSUME NvInv, Recover, boot.old # Nothing, pgRes # Nothing
  PROVE  NvInv'
<1>0. PICK old, copy :
        /\ old = boot.old
        /\ copy = [op |-> "copy", pg |-> old, k |-> 1, to |-> pgRes, skip |-> Nothing]
  OBVIOUS
<1>1. /\ pc = "headers" /\ pc' = "recover" /\ call' = call /\ boot' = boot
      /\ flash' = flash /\ pgOff' = pgOff /\ pgLost' = pgLost /\ pgRes' = pgRes
      /\ todo' = RecoveryPlan(old)
  BY <1>0 DEF Recover, ramVars, RecoveryPlan
<1>2. /\ old \in Pages /\ pgRes \in Pages /\ old # pgRes /\ flash \in Flashes
      /\ \A p \in Pages : pgOff[p] = 0
  BY <1>0, <1>1, BootIs DEF NvInv, HeadersOK, CountsOK
<1>3. /\ todo' \in Seq(Ops) /\ ToCome(todo')
      /\ Head(todo') = [op |-> "erase", pg |-> pgRes]
      /\ \A op \in ToSet(todo') : op.op \in {"use", "erase"} \/ op = copy
      /\ \A q \in Pages : Planned(flash, todo', q)
                            = IF pgRes = q THEN CopyRoom(flash[old].items, 1, Nothing) ELSE 0
  BY <1>0, <1>1, <1>2, RecoveryPlanIs
<1>4. /\ copy.op = "copy" /\ copy.pg = old /\ copy.to = pgRes
      /\ Targets(copy) = {pgRes} /\ Copying(copy) /\ Writes(copy)
      /\ \A op \in ToSet(todo') : op.op \in {"use", "erase"} =>
           Targets(op) = {} /\ ~ Writes(op) /\ op.op # "copy" /\ op.op # "zero"
  BY <1>0 DEF Targets, Copying, Writes
<1>5. Types'
  BY <1>1, <1>3 DEF NvInv, Types, TypeOK, ItemsSized
<1>6. PagesFit' /\ CountsOK' /\ WalkOK' /\ HeadersOK'
  BY <1>1 DEF NvInv, PagesFit, TotalOn, CountsOK, WalkOK, HeadersOK
<1>7. RoomOK'
  <2>1. /\ CopyRoom(flash[old].items, 1, Nothing) \in Nat
        /\ CopyRoom(flash[old].items, 1, Nothing) + LostOn(old) <= TotalOn(old)
        /\ LostOn(old) \in Nat /\ TotalOn(old) \in Nat /\ TotalOn(old) <= PageSize
        /\ PageSize \in Nat
    BY <1>2, PageTyped, CopiesFit DEF TotalOn, LostOn
  <2>2. CopyRoom(flash[old].items, 1, Nothing) <= PageSize
    BY ONLY <2>1
  <2>3. \A q \in Pages : pgOff'[q] = 0 /\ flash' = flash
    BY <1>1, <1>2
  <2>4. \A q \in Pages : 0 + Planned(flash, todo', q) <= PageSize
    BY <1>3, <2>1, <2>2
  <2> QED
    BY <2>3, <2>4 DEF RoomOK
<1>8. TargetsOK' /\ SourcesOK'
  BY <1>3, <1>4, <1>1, <1>2 DEF Clear, TargetsOK, SourcesOK
<1>9. ZeroesOK'
  BY <1>3, <1>4 DEF ZeroesOK, ToSet
<1>10. ReserveOK' /\ PhaseOK'
  BY <1>1, <1>2, <1>3, <1>4 DEF ReserveOK, PhaseOK
<1> QED
  BY <1>5, <1>6, <1>7, <1>8, <1>9, <1>10 DEF NvInv

LEMMA RecoverKeeps == NvInv /\ Recover => NvInv'
BY RecoverErases, RecoverCopies

LEMMA BootKeeps == NvInv /\ Boot => NvInv'
BY ReadHeaderKeeps, RecoverKeeps, StartWalkKeeps, WalkBadKeeps, WalkTwinKeeps,
   WalkStopsKeeps, WalkPageEndKeeps, WalkAgainKeeps, BootedKeeps, BootedLastKeeps DEF Boot

\* The start-up code, whatever a reset has left of the items.
LEMMA StartupKeeps ==
  ASSUME NvInv, Startup, flash' \in Flashes,
         \A p \in Pages : flash'[p].items \in {flash[p].items, <<>>}
  PROVE  NvInv'
<1>1. /\ pgOff' = [p \in Pages |-> 0] /\ pgLost' = [p \in Pages |-> 0] /\ pgRes' = Nothing
      /\ pc' = "headers" /\ call' = NoCall /\ boot' = Locals /\ todo' = <<>>
  BY DEF Startup
<1>2. /\ boot' \in Boots /\ boot'.old = Nothing /\ boot'.pg = 1 /\ boot'.k = 1
      /\ boot'.lost = 0 /\ call' \in Calls /\ call'.id = Nothing /\ call'.ok = TRUE
  BY <1>1, LocalsTyped, NoCallTyped DEF Locals, NoCall
<1>3. TypeOK'
  <2>1. pgOff' \in [Pages -> Nat] /\ pgLost' \in [Pages -> Nat]
    BY <1>1
  <2>2. boot'.pg \in Nat /\ boot'.k \in Nat \ {0} /\ boot'.lost \in Nat
    BY <1>2
  <2>3. call'.id \in Ids \cup {Nothing} /\ call'.ok \in BOOLEAN
    BY <1>2
  <2> QED
    BY <1>1, <2>1, <2>2, <2>3 DEF TypeOK, Flashes
<1>4. ItemsSized'
  BY LenProperties DEF ItemsSized, NvInv, Types
<1>5. PagesFit'
  BY EmptyPage, ItemsAssumption DEF PagesFit, TotalOn, NvInv
<1>6. CountsOK' /\ WalkOK' /\ HeadersOK' /\ ReserveOK'
  BY <1>1, <1>2 DEF CountsOK, WalkOK, HeadersOK, ReserveOK
<1>7. \A p \in Pages : pgOff'[p] <= PageSize
  BY <1>1, ItemsAssumption
<1> QED
  BY <1>1, <1>2, <1>3, <1>4, <1>5, <1>6, <1>7, StageKeeps

LEMMA ResetKeeps == NvInv /\ Reset => NvInv'
BY StartupKeeps, BootIs DEF Reset

LEMMA ResetInEraseKeeps ==
  ASSUME NvInv, NEW parts, ResetInErase(parts) PROVE NvInv'
<1>1. PICK p : p = Step.pg
  OBVIOUS
<1>2. /\ p \in Pages /\ Startup /\ flash' = [flash EXCEPT ![p] = Torn(flash[p], parts)]
      /\ flash \in Flashes
  BY <1>1, StepFacts, BootIs DEF ResetInErase, Doing
<1>3. /\ Torn(flash[p], parts) \in [inUse : BOOLEAN, xfer : BOOLEAN, items : Seq(Item)]
      /\ Torn(flash[p], parts).items \in {flash[p].items, <<>>}
  BY <1>2, EmptySeq DEF Flashes, Torn
<1>4. flash' \in Flashes
  BY <1>2, <1>3 DEF Flashes
<1>5. \A q \in Pages : flash'[q].items \in {flash[q].items, <<>>}
  BY <1>2, <1>3 DEF Flashes
<1> QED
  BY <1>2, <1>4, <1>5, StartupKeeps

-----------------------------------------------------------------------------
(* What a reset preserves: the copies of an item, and its value.           *)

LEMMA ValueIs ==
  ASSUME NEW id
  PROVE  Recoverable(id) = Value(flash, id) /\ Recoverable(id)' = Value(flash', id)
BY DEF Recoverable, Kept, Places, ItemAt, Value, ValueAt, CopiesOf

LEMMA SlotTyped ==
  ASSUME NEW fl \in Flashes, NEW p \in Pages
  PROVE  /\ fl[p] \in PageType /\ fl[p].inUse \in BOOLEAN /\ fl[p].xfer \in BOOLEAN
         /\ fl[p].items \in Seq(Item)
         /\ DOMAIN fl[p].items = 1 .. Len(fl[p].items) /\ Len(fl[p].items) \in Nat
         /\ \A k \in DOMAIN fl[p].items :
              /\ k \in Nat \ {0} /\ k \in 1 .. Len(fl[p].items)
              /\ fl[p].items[k] \in Item
              /\ fl[p].items[k].stat \in {"live", "xfer"}
              /\ fl[p].items[k].id \in Ids \cup {Nothing}
              /\ fl[p].items[k].val \in Values \cup {Blank}
<1>1. /\ fl[p] \in PageType /\ fl[p].inUse \in BOOLEAN /\ fl[p].xfer \in BOOLEAN
      /\ fl[p].items \in Seq(Item)
  BY DEF Flashes, PageType
<1>2. /\ DOMAIN fl[p].items = 1 .. Len(fl[p].items) /\ Len(fl[p].items) \in Nat
      /\ \A k \in DOMAIN fl[p].items : k \in Nat \ {0} /\ fl[p].items[k] \in Item
  BY <1>1
<1>3. \A item \in Item : /\ item.stat \in {"live", "xfer"}
                         /\ item.id \in Ids \cup {Nothing}
                         /\ item.val \in Values \cup {Blank}
  BY DEF Item
<1> QED
  BY <1>1, <1>2, <1>3

LEMMA CopiesAre ==
  ASSUME NEW fl \in Flashes, NEW id, NEW stat
  PROVE  /\ CopiesOf(fl, id, stat) \in SUBSET (Pages \X (Nat \ {0}))
         /\ \A a \in CopiesOf(fl, id, stat) :
              /\ a[1] \in Pages /\ a[2] \in DOMAIN fl[a[1]].items
              /\ Copy(fl, a[1], a[2], id) /\ fl[a[1]].items[a[2]].stat = stat
         /\ \A p \in Pages : \A k \in DOMAIN fl[p].items :
              Copy(fl, p, k, id) /\ fl[p].items[k].stat = stat
                => <<p, k>> \in CopiesOf(fl, id, stat)
<1>1. ASSUME NEW a \in CopiesOf(fl, id, stat)
      PROVE  /\ a \in Pages \X (Nat \ {0})
             /\ a[1] \in Pages /\ a[2] \in DOMAIN fl[a[1]].items
             /\ Copy(fl, a[1], a[2], id) /\ fl[a[1]].items[a[2]].stat = stat
  <2>1. PICK p \in Pages : \E k \in DOMAIN fl[p].items :
          /\ a = <<p, k>> /\ fl[p].items[k].id = id /\ fl[p].items[k].stat = stat
    BY DEF CopiesOf
  <2>2. PICK k \in DOMAIN fl[p].items :
          /\ a = <<p, k>> /\ fl[p].items[k].id = id /\ fl[p].items[k].stat = stat
    BY <2>1
  <2>3. fl[p].items \in Seq(Item)
    BY DEF Flashes
  <2>4. k \in Nat \ {0}
    BY <2>2, <2>3
  <2>5. fl[a[1]].inUse /\ fl[a[1]].items[a[2]].val # Blank
    BY DEF CopiesOf
  <2> QED
    BY <2>2, <2>4, <2>5 DEF Copy
<1>2. ASSUME NEW p \in Pages, NEW k \in DOMAIN fl[p].items,
             Copy(fl, p, k, id), fl[p].items[k].stat = stat
      PROVE  <<p, k>> \in CopiesOf(fl, id, stat)
  BY <1>2 DEF CopiesOf, Copy
<1> QED
  BY <1>1, <1>2

LEMMA ValueHolds ==
  ASSUME NEW fl \in Flashes, NEW id
  PROVE  Holds(fl, id, Value(fl, id))
<1> DEFINE live == CopiesOf(fl, id, "live")
           xfer == CopiesOf(fl, id, "xfer")
<1>1. CASE live # {}
  <2>1. First(live) \in live
    BY <1>1, CopiesAre, FirstIsOne
  <2>2. Value(fl, id) = ValueAt(fl, First(live))
    BY <1>1 DEF Value
  <2>3. /\ First(live)[1] \in Pages /\ First(live)[2] \in DOMAIN fl[First(live)[1]].items
        /\ Live(fl, First(live)[1], First(live)[2], id)
    <3> HIDE DEF live
    <3> QED
      BY <2>1, CopiesAre DEF Live, live
  <2> QED
    BY <2>2, <2>3 DEF Holds, ValueAt
<1>2. CASE live = {} /\ xfer # {}
  <2>1. First(xfer) \in xfer
    BY <1>2, CopiesAre, FirstIsOne
  <2>2. Value(fl, id) = ValueAt(fl, First(xfer))
    BY <1>2 DEF Value
  <2>3. /\ First(xfer)[1] \in Pages /\ First(xfer)[2] \in DOMAIN fl[First(xfer)[1]].items
        /\ Copy(fl, First(xfer)[1], First(xfer)[2], id)
    <3> HIDE DEF xfer
    <3> QED
      BY <2>1, CopiesAre DEF xfer
  <2>4. ~ SomeLive(fl, id)
    BY <1>2, CopiesAre DEF SomeLive, Live
  <2> QED
    BY <2>2, <2>3, <2>4 DEF Holds, ValueAt
<1>3. CASE live = {} /\ xfer = {}
  <2>1. Value(fl, id) = Nothing
    BY <1>3 DEF Value
  <2>2. ASSUME NEW p \in Pages, NEW k \in DOMAIN fl[p].items, Copy(fl, p, k, id) PROVE FALSE
    <3>1. fl[p].items[k].stat \in {"live", "xfer"}
      BY SlotTyped
    <3> QED
      BY <1>3, <2>2, <3>1, CopiesAre
  <2> QED
    BY <2>1, <2>2 DEF Holds, SomeCopy
<1> QED
  BY <1>1, <1>2, <1>3

LEMMA HoldsOne ==
  ASSUME NEW fl \in Flashes, NEW id, OneFor(fl, id), NEW v, Holds(fl, id, v)
  PROVE  Value(fl, id) = v
<1>1. Holds(fl, id, Value(fl, id))
  BY ValueHolds
<1>2. \A w, u : Holds(fl, id, w) /\ Holds(fl, id, u) => w = u
  <2>1. SUFFICES ASSUME NEW w, NEW u, Holds(fl, id, w), Holds(fl, id, u) PROVE w = u
    OBVIOUS
  <2>2. ASSUME NEW p \in Pages, NEW k \in DOMAIN fl[p].items, Copy(fl, p, k, id)
        PROVE  /\ fl[p].items[k].stat \in {"live", "xfer"} /\ SomeCopy(fl, id)
               /\ Live(fl, p, k, id) => SomeLive(fl, id)
    BY <2>2, SlotTyped DEF SomeCopy, SomeLive
  <2>3. ASSUME NEW p \in Pages, NEW k \in DOMAIN fl[p].items, Copy(fl, p, k, id),
               NEW q \in Pages, NEW j \in DOMAIN fl[q].items, Copy(fl, q, j, id),
               Live(fl, p, k, id) <=> Live(fl, q, j, id)
        PROVE  fl[p].items[k].val = fl[q].items[j].val
    BY <2>2, <2>3 DEF Live, OneFor
  <2>4. CASE SomeLive(fl, id)
    BY <2>1, <2>4, <2>3 DEF Holds, SomeLive, SomeCopy, Live
  <2>5. CASE ~ SomeLive(fl, id) /\ SomeCopy(fl, id)
    BY <2>1, <2>5, <2>3 DEF Holds, SomeLive, Live
  <2>6. CASE ~ SomeCopy(fl, id)
    BY <2>1, <2>6 DEF Holds, SomeCopy, Live
  <2> QED
    BY <2>4, <2>5, <2>6 DEF SomeLive, SomeCopy, Live
<1> QED
  BY <1>1, <1>2

-----------------------------------------------------------------------------
(* What keeps the value of an item.                                        *)

LEMMA SingleIsOne ==
  /\ \A fl, id : SingleFor(fl, id) => OneFor(fl, id)
  /\ \A fl : Single(fl) => OneOfAKind(fl)
BY DEF SingleFor, OneFor, Single, OneOfAKind

\* A copy is one of the places.
LEMMA CopyIs ==
  \A fl, p, k, id : Copy(fl, p, k, id) =>
    /\ p \in Pages /\ k \in DOMAIN fl[p].items /\ SomeCopy(fl, id)
    /\ fl[p].items[k].stat = "live" => Live(fl, p, k, id) /\ SomeLive(fl, id)
BY DEF Copy, SomeCopy, SomeLive, Live

LEMMA HoldsBy ==
  ASSUME NEW fl \in Flashes, NEW id, NEW v
  PROVE  /\ \A p, k : Live(fl, p, k, id) /\ fl[p].items[k].val = v => Holds(fl, id, v)
         /\ \A p, k : /\ Copy(fl, p, k, id) /\ fl[p].items[k].val = v
                      /\ SingleFor(fl, id) \/ ~ SomeLive(fl, id)
                      => Holds(fl, id, v)
         /\ ~ SomeCopy(fl, id) => Holds(fl, id, Nothing)
<1>1. \A p, k : Live(fl, p, k, id) /\ fl[p].items[k].val = v => Holds(fl, id, v)
  BY CopyIs DEF Live, Holds
<1>2. ASSUME NEW p, NEW k, Copy(fl, p, k, id), fl[p].items[k].val = v, SingleFor(fl, id)
      PROVE  Holds(fl, id, v)
  <2>1. CASE SomeLive(fl, id)
    <3>1. PICK q \in Pages : \E j \in DOMAIN fl[q].items : Live(fl, q, j, id)
      BY <2>1 DEF SomeLive
    <3>2. PICK j \in DOMAIN fl[q].items : Live(fl, q, j, id)
      BY <3>1
    <3>3. q = p /\ j = k
      BY <1>2, <3>2, CopyIs DEF SingleFor, Live
    <3> QED
      BY <1>1, <1>2, <3>2, <3>3
  <2>2. CASE ~ SomeLive(fl, id)
    BY <1>2, <2>2, CopyIs DEF Holds
  <2> QED
    BY <2>1, <2>2
<1>3. ASSUME NEW p, NEW k, Copy(fl, p, k, id), fl[p].items[k].val = v, ~ SomeLive(fl, id)
      PROVE  Holds(fl, id, v)
  BY <1>3, CopyIs DEF Holds
<1>4. ~ SomeCopy(fl, id) => Holds(fl, id, Nothing)
  BY DEF Holds
<1> QED
  BY <1>1, <1>2, <1>3, <1>4

LEMMA SameKeeps ==
  ASSUME NEW fl \in Flashes, NEW new \in Flashes, NEW id, SingleFor(fl, id),
         SameFor(fl, new, id)
  PROVE  SingleFor(new, id) /\ Value(new, id) = Value(fl, id)
<1>1. SingleFor(new, id)
  BY CopyIs DEF SingleFor, SameFor
<1>2. Holds(fl, id, Value(fl, id))
  BY ValueHolds
<1>3. CASE SomeCopy(fl, id)
  <2>1. PICK p, k : Copy(fl, p, k, id) /\ fl[p].items[k].val = Value(fl, id)
    BY <1>2, <1>3 DEF Holds, Live
  <2>2. Copy(new, p, k, id) /\ new[p].items[k].val = Value(fl, id)
    BY <2>1 DEF SameFor
  <2>3. Holds(new, id, Value(fl, id))
    BY <1>1, <2>2, HoldsBy
  <2> QED
    BY <1>1, <2>3, HoldsOne, SingleIsOne
<1>4. CASE ~ SomeCopy(fl, id)
  BY <1>2, <1>4, CopyIs, HoldsBy, <1>1, HoldsOne, SingleIsOne DEF Holds, Live, SameFor, SomeCopy
<1> QED
  BY <1>1, <1>3, <1>4

LEMMA DropKeeps ==
  ASSUME NEW fl \in Flashes, NEW new \in Flashes, NEW id, OneFor(fl, id),
         DropsFor(fl, new, id)
  PROVE  OneFor(new, id) /\ Value(new, id) = Value(fl, id)
<1>1. OneFor(new, id)
  BY CopyIs DEF DropsFor, OneFor
<1>2. Holds(fl, id, Value(fl, id))
  BY ValueHolds
<1>3. ASSUME NEW p, NEW k, Live(new, p, k, id) PROVE Live(fl, p, k, id)
  BY <1>3 DEF DropsFor, Live
<1>4. CASE SomeLive(fl, id)
  <2>1. PICK p, k : Live(fl, p, k, id) /\ fl[p].items[k].val = Value(fl, id)
    BY <1>2, <1>4, CopyIs DEF Holds, SomeLive, Live
  <2>2. Live(new, p, k, id) /\ new[p].items[k].val = Value(fl, id)
    BY <2>1 DEF DropsFor, Live
  <2>3. Holds(new, id, Value(fl, id))
    BY <2>2, HoldsBy
  <2> QED
    BY <1>1, <2>3, HoldsOne
<1>5. CASE ~ SomeLive(fl, id) /\ SomeCopy(fl, id)
  <2>1. PICK p, k : Copy(fl, p, k, id) /\ fl[p].items[k].val = Value(fl, id)
    BY <1>2, <1>5 DEF Holds, SomeLive, Live
  <2>2. Copy(new, p, k, id) /\ new[p].items[k].val = Value(fl, id)
    BY <1>5, <2>1 DEF DropsFor
  <2>3. ~ SomeLive(new, id)
    BY <1>5, CopyIs, <1>3 DEF Live, SomeLive
  <2>4. Holds(new, id, Value(fl, id))
    BY <2>2, <2>3, HoldsBy
  <2> QED
    BY <1>1, <2>4, HoldsOne
<1>6. CASE ~ SomeCopy(fl, id)
  BY <1>2, <1>6, CopyIs, HoldsBy, <1>1, HoldsOne DEF Holds, Live, DropsFor, SomeCopy
<1> QED
  BY <1>1, <1>4, <1>5, <1>6

-----------------------------------------------------------------------------
(* The pages.                                                              *)

LEMMA FlashAtRest ==
  ASSUME NEW fl, NEW r, Spare(fl, r), Unmarked(fl), OneOfAKind(fl), Sealed(fl)
  PROVE  FlashOK(fl)
BY DEF FlashOK, Spare, Unmarked, AllUsed

LEMMA FlashCompacting ==
  ASSUME NEW fl, NEW r, Spare(fl, r), NEW c, OnlyMarked(fl, c), Single(fl), Sealed(fl)
  PROVE  FlashOK(fl)
BY SingleIsOne DEF FlashOK, Spare, OnlyMarked, AllUsed

LEMMA FlashCompacted ==
  ASSUME NEW fl, AllUsed(fl), NEW c, OnlyMarked(fl, c), Superseded(fl, c),
         OneOfAKind(fl), Sealed(fl)
  PROVE  FlashOK(fl)
BY DEF FlashOK, OnlyMarked, AllUsed

-----------------------------------------------------------------------------
(* What the flash operations do to a page.                                 *)

LEMMA FlashTyped == NvInv => flash \in Flashes
BY DEF NvInv, Types, TypeOK, Flashes

LEMMA PageEffects ==
  ASSUME NvInv
  PROVE  /\ MarkPage => MarksPage(flash, flash', Step.pg)
         /\ UsePage => Uses(flash, flash', Step.pg)
         /\ ErasePage => Erases(flash, flash', Step.pg)
<1>1. flash \in [Pages -> PageType]
  BY FlashTyped DEF Flashes, PageType
<1>2. Doing("xfer") \/ Doing("use") \/ Doing("erase") => Step.pg \in Pages
  BY StepFacts DEF Doing
<1>3. MarkPage => MarksPage(flash, flash', Step.pg)
  BY <1>1, <1>2 DEF MarkPage, MarksPage, Others, PageType
<1>4. UsePage => Uses(flash, flash', Step.pg)
  BY <1>1, <1>2 DEF UsePage, Uses, Others, PageType
<1>5. ErasePage => Erases(flash, flash', Step.pg)
  BY <1>1, <1>2 DEF ErasePage, Erases, Others
<1> QED
  BY <1>3, <1>4, <1>5

LEMMA MarkEffect ==
  ASSUME NvInv, MarkItem, Step.k \in DOMAIN flash[Step.pg].items
  PROVE  Marks(flash, flash', Step.pg, Step.k)
<1>1. PICK p, k : p = Step.pg /\ k = Step.k
  OBVIOUS
<1>2. /\ p \in Pages /\ flash \in [Pages -> PageType] /\ k \in DOMAIN flash[p].items
      /\ flash[p].items \in Seq(Item)
      /\ flash' = [flash EXCEPT ![p].items[k].stat = "xfer"]
  BY <1>1, StepFacts DEF MarkItem, Doing
<1>3. /\ flash'[p] = [flash[p] EXCEPT !.items[k].stat = "xfer"]
      /\ \A q \in Pages : q # p => flash'[q] = flash[q]
  BY <1>2
<1>4. /\ flash'[p].inUse = flash[p].inUse /\ flash'[p].xfer = flash[p].xfer
      /\ flash'[p].items = [flash[p].items EXCEPT ![k].stat = "xfer"]
  BY <1>2, <1>3 DEF PageType
<1>5. \A item \in Item : /\ [item EXCEPT !.stat = "xfer"].id = item.id
                         /\ [item EXCEPT !.stat = "xfer"].val = item.val
                         /\ [item EXCEPT !.stat = "xfer"].stat = "xfer"
  BY DEF Item
<1>6. ASSUME NEW j \in DOMAIN flash[p].items
      PROVE  flash'[p].items[j] = IF j = k THEN [flash[p].items[k] EXCEPT !.stat = "xfer"]
                                  ELSE flash[p].items[j]
  BY <1>2, <1>4
<1>7. DOMAIN flash'[p].items = DOMAIN flash[p].items
  BY <1>2, <1>4
<1>8. \A j \in DOMAIN flash[p].items : flash[p].items[j] \in Item
  BY <1>2
<1> HIDE DEF Item
<1> QED
  <2>1. ASSUME NEW j \in DOMAIN flash[p].items
        PROVE  /\ flash'[p].items[j].id = flash[p].items[j].id
               /\ flash'[p].items[j].val = flash[p].items[j].val
               /\ flash'[p].items[j].stat = IF j = k THEN "xfer" ELSE flash[p].items[j].stat
    BY <1>2, <1>5, <1>6, <1>8
  <2>2. p \in Pages /\ (\A q \in Pages : q # p => flash'[q] = flash[q])
    BY <1>2, <1>3
  <2>3. flash'[p].inUse = flash[p].inUse /\ flash'[p].xfer = flash[p].xfer
    BY <1>4
  <2>4. Marks(flash, flash', p, k)
    BY ONLY <1>7, <2>1, <2>2, <2>3 DEF Marks, Others, SameHeader, SameSlots
  <2> QED
    BY <1>1, <2>4

LEMMA AddEffect ==
  ASSUME NvInv, WriteHeader
  PROVE  Adds(flash, flash', Step.pg, Step.id)
<1>1. PICK p, id : p = Step.pg /\ id = Step.id
  OBVIOUS
<1>2. PICK item : item = [id |-> id, len |-> Size[id], stat |-> "live", val |-> Blank]
  OBVIOUS
<1>3. /\ p \in Pages /\ flash \in [Pages -> PageType]
      /\ flash[p].items \in Seq(Item) /\ id \in Ids
      /\ flash' = [flash EXCEPT ![p].items = Append(@, item)]
  BY <1>1, <1>2, StepFacts, OpFields DEF WriteHeader, Doing
<1>4. item \in Item
  BY <1>2, <1>3, ItemsAssumption DEF Item
<1>5. /\ flash'[p] = [flash[p] EXCEPT !.items = Append(flash[p].items, item)]
      /\ \A q \in Pages : q # p => flash'[q] = flash[q]
  BY <1>3
<1>6. /\ flash'[p].inUse = flash[p].inUse /\ flash'[p].xfer = flash[p].xfer
      /\ flash'[p].items = Append(flash[p].items, item)
  BY <1>3, <1>5 DEF PageType
<1>7. /\ Len(flash'[p].items) = Len(flash[p].items) + 1
      /\ \A j \in 1 .. Len(flash[p].items) : flash'[p].items[j] = flash[p].items[j]
      /\ flash'[p].items[Len(flash[p].items) + 1] = item
  BY <1>3, <1>4, <1>6, AppendProperties
<1> QED
  BY <1>1, <1>2, <1>3, <1>5, <1>6, <1>7 DEF Adds, Others, SameHeader

LEMMA FillEffect ==
  ASSUME NvInv, SealItem, flash[Step.pg].items # <<>>
  PROVE  Fills(flash, flash', Step.pg, Step.val)
<1>1. PICK p, v, k : p = Step.pg /\ v = Step.val /\ k = Len(flash[p].items)
  OBVIOUS
<1>2. /\ p \in Pages /\ flash \in [Pages -> PageType]
      /\ flash[p].items \in Seq(Item) /\ k \in DOMAIN flash[p].items
      /\ flash' = [flash EXCEPT ![p].items[k].val = v]
  <2>1. p \in Pages /\ flash \in [Pages -> PageType] /\ flash[p].items \in Seq(Item)
    BY <1>1, StepFacts DEF SealItem, Doing
  <2>2. k \in DOMAIN flash[p].items
    BY <1>1, <2>1, EmptySeq
  <2> QED
    BY <1>1, <2>1, <2>2 DEF SealItem
<1>3. /\ flash'[p] = [flash[p] EXCEPT !.items[k].val = v]
      /\ \A q \in Pages : q # p => flash'[q] = flash[q]
  BY <1>2
<1>4. /\ flash'[p].inUse = flash[p].inUse /\ flash'[p].xfer = flash[p].xfer
      /\ flash'[p].items = [flash[p].items EXCEPT ![k].val = v]
  BY <1>2, <1>3 DEF PageType
<1>5. \A item \in Item : /\ [item EXCEPT !.val = v].id = item.id
                         /\ [item EXCEPT !.val = v].val = v
                         /\ [item EXCEPT !.val = v].stat = item.stat
  BY DEF Item
<1>6. ASSUME NEW j \in DOMAIN flash[p].items
      PROVE  flash'[p].items[j] = IF j = k THEN [flash[p].items[k] EXCEPT !.val = v]
                                  ELSE flash[p].items[j]
  BY <1>2, <1>4
<1>7. DOMAIN flash'[p].items = DOMAIN flash[p].items
      /\ Len(flash'[p].items) = Len(flash[p].items)
  BY <1>2, <1>4
<1>8. \A j \in DOMAIN flash[p].items : flash[p].items[j] \in Item
  BY <1>2
<1> HIDE DEF Item
<1> QED
  <2>1. ASSUME NEW j \in DOMAIN flash[p].items
        PROVE  /\ j # k => flash'[p].items[j] = flash[p].items[j]
               /\ flash'[p].items[j].id = flash[p].items[j].id
               /\ flash'[p].items[j].stat = flash[p].items[j].stat
               /\ j = k => flash'[p].items[j].val = v
    BY <1>2, <1>5, <1>6, <1>8
  <2>2. p \in Pages /\ (\A q \in Pages : q # p => flash'[q] = flash[q])
    BY <1>2, <1>3
  <2>3. flash'[p].inUse = flash[p].inUse /\ flash'[p].xfer = flash[p].xfer
    BY <1>4
  <2>4. Fills(flash, flash', p, v)
    BY ONLY <1>1, <1>7, <2>1, <2>2, <2>3 DEF Fills, Others, SameHeader, SameSlots
  <2> QED
    BY <1>1, <2>4

\* Zeroing an item, by a call or by initPage.
LEMMA ZeroEffect ==
  ASSUME NvInv, NEW p \in Pages, NEW k \in DOMAIN flash[p].items,
         flash' = [flash EXCEPT ![p].items[k] = Zeroed(@)]
  PROVE  Clears(flash, flash', p, k)
BY FlashTyped, PageTyped DEF Flashes, PageType, Zeroed, Clears, Others, SameHeader, SameSlots

-----------------------------------------------------------------------------
(* What they do to the copies and the values.                              *)

LEMMA SameCopiesKeep ==
  ASSUME NEW fl \in Flashes, NEW new \in Flashes, Single(fl), SameCopies(fl, new)
  PROVE  Single(new) /\ SameValues(fl, new)
BY SameKeeps DEF Single, SameCopies, SameValues

LEMMA OnlyDropsKeep ==
  ASSUME NEW fl \in Flashes, NEW new \in Flashes, OneOfAKind(fl), OnlyDrops(fl, new)
  PROVE  OneOfAKind(new) /\ SameValues(fl, new)
BY DropKeeps DEF OneOfAKind, OnlyDrops, SameValues

\* The copies on other pages stay.
LEMMA OtherCopies ==
  ASSUME NEW fl, NEW new, NEW p, Others(fl, new, p)
  PROVE  \A q, k, id : q # p => /\ Copy(new, q, k, id) <=> Copy(fl, q, k, id)
                                /\ Copy(fl, q, k, id) => new[q].items[k] = fl[q].items[k]
BY DEF Others, Copy

\* Whatever happens on a page that is not in use.
LEMMA Hidden ==
  ASSUME NEW fl, NEW new, NEW r, Others(fl, new, r), ~ fl[r].inUse, ~ new[r].inUse
  PROVE  /\ SameCopies(fl, new) /\ OnlyDrops(fl, new)
         /\ \A p, k, id : Copy(new, p, k, id) <=> Copy(fl, p, k, id)
         /\ Spare(fl, r) => Spare(new, r)
         /\ Unmarked(fl) => Unmarked(new)
         /\ \A c : OnlyMarked(fl, c) => OnlyMarked(new, c)
         /\ NoBlanks(fl) => NoBlanks(new)
<1>1. \A p, k, id : ~ (Copy(fl, p, k, id) /\ p = r) /\ ~ (Copy(new, p, k, id) /\ p = r)
  BY DEF Copy
<1>2. \A p, k, id : /\ Copy(new, p, k, id) <=> Copy(fl, p, k, id)
                    /\ Copy(fl, p, k, id) => new[p].items[k] = fl[p].items[k]
  BY <1>1, OtherCopies
<1>3. SameCopies(fl, new) /\ OnlyDrops(fl, new)
  BY <1>2 DEF SameCopies, OnlyDrops, SameFor, DropsFor
<1>4. /\ Spare(fl, r) => Spare(new, r)
      /\ Unmarked(fl) => Unmarked(new)
      /\ \A c : OnlyMarked(fl, c) => OnlyMarked(new, c)
  BY DEF Others, Spare, Unmarked, OnlyMarked
<1>5. NoBlanks(fl) => NoBlanks(new)
  BY DEF Others, NoBlanks
<1> QED
  BY <1>2, <1>3, <1>4, <1>5

LEMMA HeadersStay ==
  ASSUME NEW fl, NEW new, NEW p, Others(fl, new, p), SameHeader(fl, new, p)
  PROVE  /\ \A r : Spare(fl, r) => Spare(new, r)
         /\ Unmarked(fl) => Unmarked(new)
         /\ \A c : OnlyMarked(fl, c) => OnlyMarked(new, c)
         /\ AllUsed(fl) => AllUsed(new)
BY DEF Others, SameHeader, Spare, Unmarked, OnlyMarked, AllUsed

LEMMA MarksCopies ==
  ASSUME NEW fl, NEW new, NEW p, NEW k, Marks(fl, new, p, k)
  PROVE  /\ SameCopies(fl, new)
         /\ \A q, j, id : Copy(new, q, j, id) <=> Copy(fl, q, j, id)
         /\ NoBlanks(fl) => NoBlanks(new)
         /\ Sealed(fl) /\ fl[p].items[k].val # Blank => Sealed(new)
<1>1. Others(fl, new, p)
  BY DEF Marks
<1>2. \A j, id : /\ Copy(new, p, j, id) <=> Copy(fl, p, j, id)
                 /\ Copy(fl, p, j, id) => new[p].items[j].val = fl[p].items[j].val
  BY DEF Marks, SameHeader, SameSlots, Copy
<1>3. \A q, j, id : /\ Copy(new, q, j, id) <=> Copy(fl, q, j, id)
                    /\ Copy(fl, q, j, id) => new[q].items[j].val = fl[q].items[j].val
  BY <1>1, <1>2, OtherCopies
<1>4. NoBlanks(fl) => NoBlanks(new)
  BY DEF Marks, Others, SameHeader, SameSlots, NoBlanks
<1>5. Sealed(fl) /\ fl[p].items[k].val # Blank => Sealed(new)
  BY DEF Marks, Others, SameSlots, Sealed
<1> QED
  BY <1>3, <1>4, <1>5 DEF SameCopies, SameFor

LEMMA AddsCopies ==
  ASSUME NEW fl \in Flashes, NEW new \in Flashes, NEW p, NEW name, Adds(fl, new, p, name)
  PROVE  /\ SameCopies(fl, new) /\ OnlyDrops(fl, new)
         /\ \A q, j, id : Copy(new, q, j, id) <=> Copy(fl, q, j, id)
         /\ Sealed(fl) => Sealed(new)
<1>1. Others(fl, new, p) /\ p \in Pages
  BY DEF Adds, Others
<1>2. /\ DOMAIN fl[p].items = 1 .. Len(fl[p].items) /\ Len(fl[p].items) \in Nat
      /\ DOMAIN new[p].items = 1 .. Len(fl[p].items) + 1
      /\ new[p].inUse = fl[p].inUse
      /\ \A j \in 1 .. Len(fl[p].items) : new[p].items[j] = fl[p].items[j]
      /\ new[p].items[Len(fl[p].items) + 1].val = Blank
      /\ new[p].items[Len(fl[p].items) + 1].stat = "live"
  BY <1>1, SlotTyped DEF Adds, SameHeader
<1>3. \A j, id : /\ Copy(new, p, j, id) <=> Copy(fl, p, j, id)
                 /\ Copy(fl, p, j, id) => new[p].items[j] = fl[p].items[j]
  <2>1. \A j : j \in 1 .. Len(fl[p].items) + 1 <=>
                 j \in 1 .. Len(fl[p].items) \/ j = Len(fl[p].items) + 1
    BY <1>2
  <2> QED
    BY <1>1, <1>2, <2>1 DEF Copy
<1>4. \A q, j, id : /\ Copy(new, q, j, id) <=> Copy(fl, q, j, id)
                    /\ Copy(fl, q, j, id) => new[q].items[j] = fl[q].items[j]
  BY <1>1, <1>3, OtherCopies
<1>5. Sealed(fl) => Sealed(new)
  <2>1. SUFFICES ASSUME Sealed(fl), NEW q \in Pages, NEW j \in DOMAIN new[q].items,
                        new[q].items[j].stat = "xfer"
                 PROVE  new[q].items[j].val # Blank
    BY DEF Sealed
  <2>2. CASE q = p
    <3>1. j \in 1 .. Len(fl[p].items)
      BY <1>2, <2>1, <2>2
    <3> QED
      BY <1>1, <1>2, <2>1, <2>2, <3>1 DEF Sealed
  <2>3. CASE q # p
    BY <1>1, <2>1, <2>3 DEF Sealed, Others
  <2> QED
    BY <2>2, <2>3
<1> QED
  BY <1>4, <1>5 DEF SameCopies, SameFor, OnlyDrops, DropsFor

\* An item without data is zeroed.
LEMMA ClearsBlank ==
  ASSUME NEW fl, NEW new, NEW p, NEW k, Clears(fl, new, p, k), fl[p].items[k].val = Blank
  PROVE  /\ SameCopies(fl, new) /\ OnlyDrops(fl, new)
         /\ \A q, j, id : id \in Ids => (Copy(new, q, j, id) <=> Copy(fl, q, j, id))
<1>1. Others(fl, new, p) /\ Nothing \notin Ids
  BY ItemsAssumption DEF Clears
<1>2. ASSUME NEW j, NEW id \in Ids
      PROVE  /\ Copy(new, p, j, id) <=> Copy(fl, p, j, id)
             /\ Copy(fl, p, j, id) => new[p].items[j] = fl[p].items[j]
  BY <1>1 DEF Clears, Copy, SameHeader, SameSlots
<1>3. \A q, j, id : id \in Ids => /\ Copy(new, q, j, id) <=> Copy(fl, q, j, id)
                                  /\ Copy(fl, q, j, id) => new[q].items[j] = fl[q].items[j]
  BY <1>1, <1>2, OtherCopies
<1> QED
  BY <1>3 DEF SameCopies, SameFor, OnlyDrops, DropsFor

\* Zeroing leaves the other items as they are.
LEMMA ClearsStay ==
  ASSUME NEW fl, NEW new, NEW p, NEW k, Clears(fl, new, p, k)
  PROVE  /\ \A q, j, id : id \in Ids =>
              /\ Copy(new, q, j, id) <=> Copy(fl, q, j, id) /\ ~ (q = p /\ j = k)
              /\ Copy(new, q, j, id) => new[q].items[j] = fl[q].items[j]
         /\ Sealed(fl) => Sealed(new)
         /\ NoBlanks(fl) => NoBlanks(new)
<1>1. Others(fl, new, p) /\ Nothing \notin Ids
  BY ItemsAssumption DEF Clears
<1>2. ASSUME NEW j, NEW id \in Ids
      PROVE  /\ Copy(new, p, j, id) <=> Copy(fl, p, j, id) /\ j # k
             /\ Copy(new, p, j, id) => new[p].items[j] = fl[p].items[j]
  BY <1>1 DEF Clears, Copy, SameHeader, SameSlots
<1>3. \A q, j, id : id \in Ids =>
        /\ Copy(new, q, j, id) <=> Copy(fl, q, j, id) /\ ~ (q = p /\ j = k)
        /\ Copy(new, q, j, id) => new[q].items[j] = fl[q].items[j]
  BY <1>1, <1>2, OtherCopies
<1>4. \A q \in Pages : \A j \in DOMAIN new[q].items :
        \/ j \in DOMAIN fl[q].items /\ new[q].items[j] = fl[q].items[j]
           /\ new[q].inUse = fl[q].inUse
        \/ new[q].items[j].id = Nothing /\ new[q].items[j].stat = "live"
  BY DEF Clears, Others, SameHeader, SameSlots
<1>5. Sealed(fl) => Sealed(new)
  BY <1>4 DEF Sealed
<1>6. NoBlanks(fl) => NoBlanks(new)
  BY <1>4 DEF NoBlanks
<1> QED
  BY <1>3, <1>5, <1>6

-----------------------------------------------------------------------------
(* The flash operations that make a new value count, and those that clear  *)
(* the old one away.                                                       *)

\* An erase of page c, complete or not.
LEMMA SupersededGoes ==
  ASSUME NEW fl \in Flashes, NEW new \in Flashes, NEW c \in Pages,
         AllUsed(fl), OnlyMarked(fl, c), Superseded(fl, c), OneOfAKind(fl),
         Others(fl, new, c), ~ new[c].inUse
  PROVE  /\ OnlyDrops(fl, new) /\ OneOfAKind(new) /\ SameValues(fl, new)
         /\ Spare(new, c) /\ Unmarked(new)
         /\ \A p, k, id : Copy(new, p, k, id) <=> Copy(fl, p, k, id) /\ p # c
         /\ \A p, k, id : Copy(new, p, k, id) => new[p].items[k] = fl[p].items[k]
         /\ NoBlanks(fl) => NoBlanks(new)
<1>1. \A p, k, id : /\ Copy(new, p, k, id) <=> Copy(fl, p, k, id) /\ p # c
                    /\ Copy(new, p, k, id) => new[p].items[k] = fl[p].items[k]
  <2>1. \A p, k, id : ~ (Copy(new, p, k, id) /\ p = c)
    BY DEF Copy
  <2> QED
    BY <2>1, OtherCopies
<1>2. OnlyDrops(fl, new)
  BY CopyIs, <1>1 DEF Superseded, Live, OnlyDrops, DropsFor
<1>3. Spare(new, c) /\ Unmarked(new)
  BY DEF AllUsed, OnlyMarked, Others, Spare, Unmarked
<1>4. NoBlanks(fl) => NoBlanks(new)
  BY DEF NoBlanks, Others
<1> QED
  BY <1>1, <1>2, <1>3, <1>4, OnlyDropsKeep

\* A deleted item.
LEMMA DeletedGoes ==
  ASSUME NEW fl \in Flashes, NEW new \in Flashes, Single(fl), NEW p, NEW k, NEW id \in Ids,
         Clears(fl, new, p, k), Copy(fl, p, k, id)
  PROVE  Commits(fl, new, id, Nothing) /\ Single(new) /\ ~ SomeCopy(new, id)
<1>1. \A q, j, x : x \in Ids =>
        /\ Copy(new, q, j, x) <=> Copy(fl, q, j, x) /\ ~ (q = p /\ j = k)
        /\ Copy(new, q, j, x) => new[q].items[j] = fl[q].items[j]
  BY ClearsStay
<1>2. Single(new)
  BY <1>1, CopyIs DEF Single, SingleFor
<1>3. ~ SomeCopy(new, id)
  BY <1>1, CopyIs DEF SomeCopy, Single, SingleFor
<1>4. Value(new, id) = Nothing
  BY <1>2, <1>3, HoldsBy, HoldsOne, SingleIsOne DEF Single
<1>5. ASSUME NEW x \in Ids, x # id PROVE Value(new, x) = Value(fl, x)
  <2>1. \A q, j : Copy(new, q, j, x) <=> Copy(fl, q, j, x)
    BY <1>1, <1>5 DEF Copy
  <2>2. SameFor(fl, new, x)
    BY <1>1, <2>1 DEF SameFor
  <2> QED
    BY <2>2, SameKeeps DEF Single
<1> QED
  BY <1>2, <1>3, <1>4, <1>5 DEF Commits

\* The old item, when there is a newer one.
LEMMA OldGoes ==
  ASSUME NEW fl \in Flashes, NEW new \in Flashes, OneOfAKind(fl), NEW p, NEW k, NEW id \in Ids,
         Clears(fl, new, p, k), Copy(fl, p, k, id), fl[p].items[k].stat = "xfer",
         SomeLive(fl, id)
  PROVE  /\ OneOfAKind(new) /\ SameValues(fl, new) /\ OnlyDrops(fl, new)
         /\ Sole(fl, Nothing, <<p, k>>) => Single(new)
<1>1. \A q, j, x : x \in Ids =>
        /\ Copy(new, q, j, x) <=> Copy(fl, q, j, x) /\ ~ (q = p /\ j = k)
        /\ Copy(new, q, j, x) => new[q].items[j] = fl[q].items[j]
  BY ClearsStay
<1>2. OnlyDrops(fl, new)
  <2>1. ASSUME NEW x \in Ids, NEW q, NEW j, Copy(fl, q, j, x), ~ Copy(new, q, j, x)
        PROVE  ~ Live(fl, q, j, x) /\ SomeLive(fl, x)
    BY <1>1, <2>1 DEF Copy, Live
  <2> QED
    BY <1>1, <2>1 DEF OnlyDrops, DropsFor
<1>3. ASSUME Sole(fl, Nothing, <<p, k>>) PROVE Single(new)
  BY <1>1, CopyIs, ItemsAssumption, <1>3 DEF Sole, Single, SingleFor
<1> QED
  BY <1>2, <1>3, OnlyDropsKeep

\* The data of a new item.
LEMMA SealCounts ==
  ASSUME NEW fl \in Flashes, NEW new \in Flashes, Single(fl), NEW q \in Pages, NEW id \in Ids,
         fl[q].inUse, fl[q].items # <<>>, NEW v, v # Blank, Fills(fl, new, q, v),
         fl[q].items[Len(fl[q].items)].id = id,
         fl[q].items[Len(fl[q].items)].stat = "live",
         fl[q].items[Len(fl[q].items)].val = Blank,
         NEW src, <<q, Len(fl[q].items)>> # src,
         \A p, k : Copy(fl, p, k, id) => <<p, k>> = src /\ fl[p].items[k].stat = "xfer"
  PROVE  /\ Commits(fl, new, id, v) /\ OneOfAKind(new)
         /\ Sole(new, Nothing, src) /\ NewThere(new, Nothing, src, id, v)
         /\ \A p, k, x : Copy(fl, p, k, x) =>
              Copy(new, p, k, x) /\ new[p].items[k] = fl[p].items[k]
         /\ Sealed(fl) => Sealed(new)
<1>1. PICK n : n = Len(fl[q].items)
  OBVIOUS
<1>2. /\ DOMAIN fl[q].items = 1 .. n /\ n \in Nat /\ DOMAIN new[q].items = 1 .. n
      /\ n \in 1 .. n
  BY <1>1, SlotTyped, EmptySeq DEF Fills, SameSlots
<1>3. /\ new[q].inUse /\ new[q].items[n].id = id /\ new[q].items[n].stat = "live"
      /\ new[q].items[n].val = v
      /\ \A j \in 1 .. n : j # n => new[q].items[j] = fl[q].items[j]
  BY <1>1, <1>2 DEF Fills, SameHeader
<1>4. \A p, k, x : Copy(new, p, k, x) <=>
        Copy(fl, p, k, x) \/ (p = q /\ k = n /\ x = id)
  <2>1. \A k, x : Copy(new, q, k, x) <=> Copy(fl, q, k, x) \/ (k = n /\ x = id)
    BY <1>1, <1>2, <1>3 DEF Copy
  <2>2. Others(fl, new, q)
    BY DEF Fills
  <2> QED
    BY <2>1, <2>2, OtherCopies
<1>5. \A p, k, x : Copy(fl, p, k, x) => /\ ~ (p = q /\ k = n)
                                        /\ new[p].items[k] = fl[p].items[k]
  <2>1. \A k, x : Copy(fl, q, k, x) => k # n
    BY <1>1 DEF Copy
  <2>2. \A k, x : Copy(fl, q, k, x) => new[q].items[k] = fl[q].items[k]
    BY <1>2, <1>3, <2>1 DEF Copy
  <2>3. Others(fl, new, q)
    BY DEF Fills
  <2> QED
    BY <2>1, <2>2, <2>3, OtherCopies
<1>6. ASSUME NEW x \in Ids, x # id
      PROVE  /\ SingleFor(new, x) /\ Value(new, x) = Value(fl, x)
             /\ \A p, k : Copy(new, p, k, x) <=> Copy(fl, p, k, x)
  BY <1>4, <1>6, <1>5, SameKeeps DEF SameFor, Single
<1>7. Live(new, q, n, id)
  BY <1>2, <1>3, <1>4 DEF Live
<1>8. OneFor(new, id)
  BY <1>3, <1>4, <1>5, CopyIs DEF Single, OneFor, SingleFor
<1>9. Value(new, id) = v
  BY <1>3, <1>7, <1>8, HoldsBy, HoldsOne
<1>10. OneOfAKind(new)
  BY <1>6, <1>8, SingleIsOne DEF OneOfAKind
<1>11. Sole(new, Nothing, src)
  <2>1. ASSUME NEW p, NEW k, Copy(new, p, k, id), <<p, k>> # src PROVE p = q /\ k = n
    BY <1>4, <2>1
  <2>2. ASSUME NEW x \in Ids, NEW p \in Pages, NEW pp \in Pages, NEW j \in DOMAIN new[p].items,
               NEW k \in DOMAIN new[pp].items, Copy(new, p, j, x), Copy(new, pp, k, x),
               <<p, j>> # src, <<pp, k>> # src
        PROVE  p = pp /\ j = k
    BY <2>1, <2>2, <1>6 DEF SingleFor
  <2> QED
    BY <2>2 DEF Sole
<1>12. NewThere(new, Nothing, src, id, v)
  BY <1>1, ItemsAssumption, <1>2, <1>3, <1>7 DEF NewThere
<1>13. Sealed(fl) => Sealed(new)
  BY <1>2, <1>3 DEF Fills, Others, Sealed
<1> QED
  BY <1>4, <1>5, <1>6, <1>9, <1>10, <1>11, <1>12, <1>13 DEF Commits

-----------------------------------------------------------------------------
(* A compacted page comes into use.                                        *)

LEMMA TakesAre ==
  ASSUME NEW fl \in Flashes, NEW c \in Pages, fl[c].inUse, NEW skip
  PROVE  /\ \A j : Takes(fl, c, j, skip) =>
              /\ fl[c].items[j].id \in Ids \ {skip} /\ fl[c].items[j].val # Blank
              /\ Copy(fl, c, j, fl[c].items[j].id)
         /\ \A j, x : Copy(fl, c, j, x) /\ x \in Ids \ {skip} => Takes(fl, c, j, skip)
BY ItemsAssumption, SlotTyped DEF Takes, Goes, Copy

LEMMA CarriedIs ==
  ASSUME NEW fl \in Flashes, NEW c \in Pages, NEW r \in Pages, fl[c].inUse,
         NEW skip \in Ids \cup {Nothing}, NEW m, Carried(fl, c, Len(fl[c].items), r, m, skip)
  PROVE  AllCarried(fl, c, r, m, skip)
<1>1. DOMAIN fl[c].items = 1 .. Len(fl[c].items)
  BY SlotTyped
<1>2. ASSUME NEW i \in 1 .. m
      PROVE  /\ fl[r].items[i].stat = "live" /\ fl[r].items[i].val # Blank
             /\ fl[r].items[i].id \in Ids /\ fl[r].items[i].id # skip
             /\ \E j \in DOMAIN fl[c].items : /\ Copy(fl, c, j, fl[r].items[i].id)
                                              /\ fl[r].items[i].val = fl[c].items[j].val
  <2>1. fl[r].items[i].stat = "live"
    BY DEF Carried
  <2>2. PICK j \in 1 .. Len(fl[c].items) : /\ Takes(fl, c, j, skip)
                                           /\ fl[r].items[i].id = fl[c].items[j].id
                                           /\ fl[r].items[i].val = fl[c].items[j].val
    BY DEF Carried
  <2>3. /\ fl[c].items[j].id \in Ids \ {skip} /\ fl[c].items[j].val # Blank
        /\ Copy(fl, c, j, fl[c].items[j].id)
    BY <2>2, TakesAre
  <2> QED
    BY <1>1, <2>1, <2>2, <2>3
<1>3. ASSUME NEW j, NEW x \in Ids, x # skip, Copy(fl, c, j, x)
      PROVE  fl[c].items[j].stat = "xfer" /\ \E i \in 1 .. m : fl[r].items[i].id = x
  <2>1. Takes(fl, c, j, skip) /\ fl[c].items[j].id = x /\ j \in 1 .. Len(fl[c].items)
    BY <1>1, <1>3, TakesAre DEF Copy
  <2> QED
    BY <2>1 DEF Carried
<1>4. \A i, l \in 1 .. m : fl[r].items[i].id = fl[r].items[l].id => i = l
  BY DEF Carried
<1> QED
  BY <1>2, <1>3, <1>4 DEF AllCarried

LEMMA RecoveryFilled ==
  ASSUME NEW fl \in Flashes, NEW c \in Pages, NEW r \in Pages, fl[c].inUse,
         Carried(fl, c, Len(fl[c].items), r, Len(fl[r].items), Nothing)
  PROVE  Filled(fl, c, r, Nothing, Nothing)
<1>1. DOMAIN fl[r].items = 1 .. Len(fl[r].items) /\ Nothing \notin Ids
      /\ Nothing \in Ids \cup {Nothing}
  BY SlotTyped, ItemsAssumption
<1>2. /\ \A i \in DOMAIN fl[r].items :
           /\ fl[r].items[i].stat = "live" /\ fl[r].items[i].val # Blank
           /\ fl[r].items[i].id \in Ids /\ fl[r].items[i].id # Nothing
           /\ \E j \in DOMAIN fl[c].items : /\ Copy(fl, c, j, fl[r].items[i].id)
                                            /\ fl[r].items[i].val = fl[c].items[j].val
      /\ \A j, x : Copy(fl, c, j, x) /\ x \in Ids /\ x # Nothing =>
           /\ fl[c].items[j].stat = "xfer"
           /\ \E i \in DOMAIN fl[r].items : fl[r].items[i].id = x
      /\ \A i, l \in DOMAIN fl[r].items : fl[r].items[i].id = fl[r].items[l].id => i = l
  <2>1. AllCarried(fl, c, r, Len(fl[r].items), Nothing)
    BY <1>1, CarriedIs
  <2> QED
    BY <1>1, <2>1 DEF AllCarried
<1> QED
  BY <1>1, <1>2 DEF Filled

LEMMA CallFilled ==
  ASSUME NEW fl \in Flashes, NEW c \in Pages, NEW r \in Pages, fl[c].inUse, NEW id \in Ids,
         NEW m \in Nat, Len(fl[r].items) = m + 1,
         Carried(fl, c, Len(fl[c].items), r, m, id),
         NEW v, v # Blank, fl[r].items[m + 1].id = id, fl[r].items[m + 1].val = v,
         fl[r].items[m + 1].stat = "live",
         \A k : Copy(fl, c, k, id) => fl[c].items[k].stat = "xfer"
  PROVE  Filled(fl, c, r, id, v)
<1>1. /\ DOMAIN fl[r].items = 1 .. m + 1
      /\ \A i \in 1 .. m + 1 : i \in 1 .. m \/ i = m + 1
      /\ \A i \in 1 .. m : i \in 1 .. m + 1
      /\ m + 1 \in 1 .. m + 1
  BY SlotTyped
<1>2. /\ \A i \in 1 .. m :
           /\ fl[r].items[i].stat = "live" /\ fl[r].items[i].val # Blank
           /\ fl[r].items[i].id \in Ids /\ fl[r].items[i].id # id
           /\ \E j \in DOMAIN fl[c].items : /\ Copy(fl, c, j, fl[r].items[i].id)
                                            /\ fl[r].items[i].val = fl[c].items[j].val
      /\ \A j, x : Copy(fl, c, j, x) /\ x \in Ids /\ x # id =>
           /\ fl[c].items[j].stat = "xfer"
           /\ \E i \in 1 .. m : fl[r].items[i].id = x
      /\ \A i, l \in 1 .. m : fl[r].items[i].id = fl[r].items[l].id => i = l
  <2>1. AllCarried(fl, c, r, m, id)
    BY CarriedIs
  <2> QED
    BY <2>1 DEF AllCarried
<1>3. ASSUME NEW j \in DOMAIN fl[c].items, NEW x \in Ids, Copy(fl, c, j, x)
      PROVE  /\ fl[c].items[j].stat = "xfer"
             /\ \E i \in DOMAIN fl[r].items : fl[r].items[i].id = x
  <2>1. CASE x = id
    BY <1>1, <1>3, <2>1
  <2>2. CASE x # id
    BY <1>1, <1>2, <1>3, <2>2
  <2> QED
    BY <2>1, <2>2
<1>4. ASSUME NEW i \in DOMAIN fl[r].items, NEW l \in DOMAIN fl[r].items,
             fl[r].items[i].id = fl[r].items[l].id
      PROVE  i = l
  BY <1>1, <1>2, <1>4
<1>5. \A i \in DOMAIN fl[r].items :
       /\ fl[r].items[i].stat = "live" /\ fl[r].items[i].val # Blank
       /\ fl[r].items[i].id \in Ids
       /\ \/ fl[r].items[i].id = id /\ fl[r].items[i].val = v
          \/ /\ fl[r].items[i].id # id
             /\ \E j \in DOMAIN fl[c].items : /\ Copy(fl, c, j, fl[r].items[i].id)
                                              /\ fl[r].items[i].val = fl[c].items[j].val
  BY <1>1, <1>2
<1>6. \E i \in DOMAIN fl[r].items : fl[r].items[i].id = id
  BY <1>1
<1> QED
  BY <1>3, <1>4, <1>5, <1>6 DEF Filled

\* What is so once the page is in use.
Counts(fl, new, c, id, v, src) ==
  /\ AllUsed(new) /\ OnlyMarked(new, c) /\ Superseded(new, c) /\ OneOfAKind(new)
  /\ Sealed(fl) => Sealed(new)
  /\ NoBlanks(fl) => NoBlanks(new)
  /\ \A x \in Ids : Value(new, x) = IF x = id THEN v ELSE Value(fl, x)
  /\ id \in Ids => Sole(new, c, src) /\ NewThere(new, c, src, id, v)
  /\ \A p, k, x : Copy(fl, p, k, x) =>
       Copy(new, p, k, x) /\ new[p].items[k] = fl[p].items[k]

LEMMA UseCounts ==
  ASSUME NEW fl \in Flashes, NEW new \in Flashes, NEW c, NEW r,
         Spare(fl, r), Single(fl), OnlyMarked(fl, c), fl[c].inUse, ~ fl[r].xfer,
         Uses(fl, new, r), NEW id \in Ids \cup {Nothing}, NEW v, Filled(fl, c, r, id, v),
         NEW src, \A k \in DOMAIN fl[r].items : <<r, k>> # src,
         id \in Ids => \A p, k : Copy(fl, p, k, id) =>
                         <<p, k>> = src /\ fl[p].items[k].stat = "xfer"
  PROVE  Counts(fl, new, c, id, v, src)
<1>1. /\ c \in Pages /\ r \in Pages /\ c # r /\ new[r].inUse /\ new[r].items = fl[r].items
      /\ \A p \in Pages : p # r => new[p] = fl[p]
      /\ \A p \in Pages : new[p].items = fl[p].items
      /\ \A p \in Pages : p # r => fl[p].inUse
  BY DEF Spare, OnlyMarked, Uses, Others
<1>2. AllUsed(new) /\ OnlyMarked(new, c)
  BY <1>1 DEF Spare, AllUsed, OnlyMarked, Uses
<1>3. \A p, k, x : Copy(new, p, k, x) =>
        \/ Copy(fl, p, k, x)
        \/ /\ p = r /\ k \in DOMAIN fl[r].items /\ fl[r].items[k].id = x
           /\ fl[r].items[k].stat = "live" /\ x \in Ids
  BY <1>1 DEF Copy, Filled
<1>4. \A k \in DOMAIN fl[r].items : Live(new, r, k, fl[r].items[k].id)
  BY <1>1 DEF Live, Copy, Filled
<1>5. \A p, k, x : Copy(fl, p, k, x) =>
        /\ p # r /\ p \in Pages /\ k \in DOMAIN fl[p].items
        /\ Copy(new, p, k, x) /\ new[p].items[k] = fl[p].items[k]
  BY <1>1 DEF Spare, Copy
<1>6. Superseded(new, c)
  <2>1. SUFFICES ASSUME NEW k \in DOMAIN new[c].items, NEW x \in Ids, Copy(new, c, k, x)
                 PROVE  new[c].items[k].stat = "xfer" /\ SomeLive(new, x)
    BY DEF Superseded
  <2>2. Copy(fl, c, k, x) /\ k \in DOMAIN fl[c].items /\ new[c].items[k] = fl[c].items[k]
    BY <1>1, <1>3, <1>5, <2>1
  <2>3. PICK i \in DOMAIN fl[r].items : fl[r].items[i].id = x
    BY <2>2 DEF Filled
  <2> QED
    BY <1>4, <2>2, <2>3, CopyIs DEF Filled, Live
<1>7. ASSUME NEW x \in Ids, x # id, NEW i \in DOMAIN fl[r].items, fl[r].items[i].id = x
      PROVE  \E j \in DOMAIN fl[c].items : /\ Copy(fl, c, j, x)
                                           /\ fl[r].items[i].val = fl[c].items[j].val
                                           /\ fl[c].items[j].stat = "xfer"
  BY <1>7 DEF Filled
\* an item that has a copy on r has its other one on c, or at src
<1>8. ASSUME NEW x \in Ids, NEW i \in DOMAIN fl[r].items, fl[r].items[i].id = x,
             NEW p, NEW k, Copy(fl, p, k, x)
      PROVE  /\ fl[p].items[k].stat = "xfer" /\ (p = c \/ <<p, k>> = src)
             /\ x # id => fl[p].items[k].val = fl[r].items[i].val
  <2>1. CASE x = id
    BY <1>8, <2>1
  <2>2. CASE x # id
    <3>1. PICK j \in DOMAIN fl[c].items : /\ Copy(fl, c, j, x)
                                          /\ fl[r].items[i].val = fl[c].items[j].val
                                          /\ fl[c].items[j].stat = "xfer"
      BY <1>7, <1>8, <2>2
    <3>2. p = c /\ k = j
      BY <1>1, <1>5, <1>8, <3>1 DEF Single, SingleFor
    <3> QED
      BY <3>1, <3>2
  <2> QED
    BY <2>1, <2>2
<1>9. ASSUME NEW x \in Ids PROVE OneFor(new, x)
  <2>1. \A p, k : Copy(new, p, k, x) =>
          \/ /\ Copy(fl, p, k, x) /\ k \in DOMAIN fl[p].items
             /\ new[p].items[k] = fl[p].items[k]
          \/ p = r /\ k \in DOMAIN fl[r].items /\ fl[r].items[k].id = x
             /\ new[p].items[k].stat = "live"
    BY <1>1, <1>3, <1>5
  <2>2. SingleFor(fl, x)
    BY DEF Single
  <2>3. \A i, l \in DOMAIN fl[r].items : fl[r].items[i].id = fl[r].items[l].id => i = l
    BY DEF Filled
  <2> QED
    BY <1>8, <2>1, <2>2, <2>3 DEF OneFor, SingleFor
<1>10. ASSUME NEW x \in Ids PROVE Value(new, x) = IF x = id THEN v ELSE Value(fl, x)
  <2>1. CASE \E i \in DOMAIN fl[r].items : fl[r].items[i].id = x
    <3>1. PICK i \in DOMAIN fl[r].items : fl[r].items[i].id = x
      BY <2>1
    <3>2. Value(new, x) = fl[r].items[i].val
      <4>1. Live(new, r, i, x) /\ new[r].items[i].val = fl[r].items[i].val
        BY <1>1, <1>4, <3>1
      <4>2. Holds(new, x, fl[r].items[i].val)
        BY <4>1, HoldsBy
      <4> QED
        BY <1>9, <4>2, HoldsOne
    <3>3. CASE x = id
      BY <3>1, <3>2, <3>3 DEF Filled
    <3>4. CASE x # id
      <4>1. PICK j \in DOMAIN fl[c].items : /\ Copy(fl, c, j, x)
                                            /\ fl[r].items[i].val = fl[c].items[j].val
        BY <1>7, <3>1, <3>4
      <4>2. Value(fl, x) = fl[c].items[j].val
        <5>1. SingleFor(fl, x)
          BY DEF Single
        <5>2. Holds(fl, x, fl[c].items[j].val)
          BY <4>1, <5>1, HoldsBy
        <5> QED
          BY <5>1, <5>2, HoldsOne, SingleIsOne
      <4> QED
        BY <3>2, <3>4, <4>1, <4>2
    <3> QED
      BY <3>3, <3>4
  <2>2. CASE ~ \E i \in DOMAIN fl[r].items : fl[r].items[i].id = x
    <3>1. x # id
      BY <2>2 DEF Filled
    <3>2. SameFor(fl, new, x)
      BY <1>3, <1>5, <2>2 DEF SameFor
    <3> QED
      BY <3>1, <3>2, SameKeeps DEF Single
  <2> QED
    BY <2>1, <2>2
<1>11. ASSUME id \in Ids PROVE NewThere(new, c, src, id, v)
  <2>1. PICK i \in DOMAIN fl[r].items : fl[r].items[i].id = id
    BY <1>11 DEF Filled
  <2>2. fl[r].items[i].val = v
    BY <2>1 DEF Filled
  <2> QED
    BY <1>1, <1>4, <2>1, <2>2 DEF NewThere
<1>12. Sole(new, c, src)
  <2>1. ASSUME NEW x \in Ids, NEW p, NEW k, Copy(new, p, k, x), p # c, <<p, k>> # src
        PROVE  \/ /\ Copy(fl, p, k, x) /\ k \in DOMAIN fl[p].items
                  /\ ~ \E i \in DOMAIN fl[r].items : fl[r].items[i].id = x
               \/ p = r /\ k \in DOMAIN fl[r].items /\ fl[r].items[k].id = x
    BY <1>3, <1>5, <1>8, <2>1
  <2>2. \A i, l \in DOMAIN fl[r].items : fl[r].items[i].id = fl[r].items[l].id => i = l
    BY DEF Filled
  <2>3. ASSUME NEW x \in Ids, NEW p \in Pages, NEW q \in Pages, NEW j, NEW k,
               Copy(new, p, j, x), Copy(new, q, k, x), p # c, q # c,
               <<p, j>> # src, <<q, k>> # src
        PROVE  p = q /\ j = k
    <3>1. SingleFor(fl, x)
      BY DEF Single
    <3> QED
      BY <2>1, <2>2, <2>3, <3>1 DEF SingleFor
  <2> QED
    BY <2>3 DEF Sole
<1>13. Sealed(fl) => Sealed(new)
  BY <1>1 DEF Sealed
<1>14. NoBlanks(fl) => NoBlanks(new)
  BY <1>1 DEF NoBlanks, Filled
<1> QED
  BY <1>2, <1>5, <1>6, <1>9, <1>10, <1>11, <1>12, <1>13, <1>14 DEF OneOfAKind, Counts

-----------------------------------------------------------------------------
(* What is to be done next.                                                *)

LEMMA LeadingOp ==
  ASSUME NEW S, NEW x \in S, NEW rest \in Seq(S)
  PROVE  /\ <<x>> \o rest \in Seq(S) /\ <<x>> \o rest # <<>>
         /\ Head(<<x>> \o rest) = x /\ Tail(<<x>> \o rest) = rest
<1>1. /\ <<x>> \in Seq(S) /\ Len(<<x>>) = 1 /\ <<x>>[1] = x
  OBVIOUS
<1>2. /\ <<x>> \o rest \in Seq(S) /\ Len(<<x>> \o rest) = 1 + Len(rest)
      /\ Len(rest) \in Nat
      /\ \A i \in 1 .. 1 + Len(rest) :
           (<<x>> \o rest)[i] = IF i <= 1 THEN <<x>>[i] ELSE rest[i - 1]
  BY <1>1, ConcatProperties
<1>3. <<x>> \o rest # <<>>
  BY <1>2
<1>4. PICK s \in Seq(S) : s = <<x>> \o rest
  BY <1>2
<1>5. /\ Head(s) = s[1] /\ Tail(s) \in Seq(S) /\ Len(Tail(s)) = Len(s) - 1
      /\ \A i \in 1 .. Len(s) - 1 : Tail(s)[i] = s[i + 1]
  BY <1>3, <1>4, SetOfTail
<1>6. Len(Tail(s)) = Len(rest) /\ \A i \in 1 .. Len(rest) : Tail(s)[i] = rest[i]
  BY <1>2, <1>4, <1>5
<1>7. Tail(s) = rest
  BY <1>5, <1>6, SeqEqual
<1>8. Head(s) = x
  BY <1>1, <1>2, <1>4, <1>5
<1> QED
  BY <1>2, <1>3, <1>4, <1>7, <1>8

LEMMA Alone == \A x : <<x>> # <<>> /\ Head(<<x>>) = x /\ Tail(<<x>>) = <<>>
OBVIOUS

Starts(td, op, rest) == td # <<>> /\ Head(td) = op /\ Tail(td) = rest

LEMMA Fronts ==
  ASSUME NEW rest \in Seq(Ops)
  PROVE  /\ \A p \in Pages, name \in {"xfer", "use", "erase"} :
              Starts(Op(name, p) \o rest, [op |-> name, pg |-> p], rest)
         /\ \A p \in Pages, k \in Nat \ {0}, name \in {"mark", "zero"} :
              Starts(ItemOp(name, <<p, k>>) \o rest, [op |-> name, pg |-> p, k |-> k], rest)
         /\ \A p \in Pages, id \in Ids, copy \in BOOLEAN :
              Starts(WriteItem(p, id, copy) \o rest,
                     [op |-> "head", pg |-> p, id |-> id, copy |-> copy], rest)
         /\ \A p \in Pages, v \in Values \cup {Blank}, copy \in BOOLEAN :
              Starts(Seal(p, v, copy) \o rest,
                     [op |-> "seal", pg |-> p, val |-> v, copy |-> copy], rest)
         /\ \A p, to \in Pages, k \in Nat \ {0}, skip \in Ids \cup {Nothing} :
              Starts(Copies(p, k, to, skip) \o rest,
                     [op |-> "copy", pg |-> p, k |-> k, to |-> to, skip |-> skip], rest)
<1>1. ASSUME NEW x \in Ops PROVE Starts(<<x>> \o rest, x, rest)
  BY LeadingOp DEF Starts
<1>2. \A p \in Pages, name \in {"xfer", "use", "erase"} : [op |-> name, pg |-> p] \in Ops
  BY DEF Ops
<1>3. \A p \in Pages, k \in Nat \ {0}, name \in {"mark", "zero"} :
        [op |-> name, pg |-> p, k |-> k] \in Ops
  BY DEF Ops
<1>4. \A p \in Pages, id \in Ids, copy \in BOOLEAN :
        [op |-> "head", pg |-> p, id |-> id, copy |-> copy] \in Ops
  BY DEF Ops
<1>5. \A p \in Pages, v \in Values \cup {Blank}, copy \in BOOLEAN :
        [op |-> "seal", pg |-> p, val |-> v, copy |-> copy] \in Ops
  BY DEF Ops
<1>6. \A p, to \in Pages, k \in Nat \ {0}, skip \in Ids \cup {Nothing} :
        [op |-> "copy", pg |-> p, k |-> k, to |-> to, skip |-> skip] \in Ops
  BY DEF Ops
<1>7. \A p \in Pages, name \in {"xfer", "use", "erase"} :
        Starts(Op(name, p) \o rest, [op |-> name, pg |-> p], rest)
  BY <1>1, <1>2 DEF Op
<1>8. \A p \in Pages, k \in Nat \ {0}, name \in {"mark", "zero"} :
        Starts(ItemOp(name, <<p, k>>) \o rest, [op |-> name, pg |-> p, k |-> k], rest)
  BY <1>1, <1>3 DEF ItemOp
<1>9. \A p \in Pages, id \in Ids, copy \in BOOLEAN :
        Starts(WriteItem(p, id, copy) \o rest,
               [op |-> "head", pg |-> p, id |-> id, copy |-> copy], rest)
  BY <1>1, <1>4 DEF WriteItem
<1>10. \A p \in Pages, v \in Values \cup {Blank}, copy \in BOOLEAN :
         Starts(Seal(p, v, copy) \o rest,
                [op |-> "seal", pg |-> p, val |-> v, copy |-> copy], rest)
  BY <1>1, <1>5 DEF Seal
<1>11. ASSUME NEW p \in Pages, NEW to \in Pages, NEW k \in Nat \ {0},
              NEW skip \in Ids \cup {Nothing}
       PROVE  Starts(Copies(p, k, to, skip) \o rest,
                     [op |-> "copy", pg |-> p, k |-> k, to |-> to, skip |-> skip], rest)
  BY <1>1, <1>6, Zenon DEF Copies
<1> QED
  BY <1>7, <1>8, <1>9, <1>10, <1>11

\* The next operation is the only one that is carried out.
LEMMA Carries ==
  ASSUME Flash, FlashFails = FALSE
  PROVE  /\ todo # <<>> /\ Step = Head(todo)
         /\ Step.op = "copy" => CopyItem
         /\ Step.op = "xfer" => MarkPage
         /\ Step.op = "mark" => MarkItem
         /\ Step.op = "zero" => ZeroItem
         /\ Step.op = "head" => WriteHeader
         /\ Step.op = "seal" /\ Step.val # Blank => SealItem
         /\ Step.op = "use" => UsePage
         /\ Step.op = "erase" => ErasePage
BY Zenon DEF Flash, Doing, Step, CopyItem, MarkPage, MarkItem, ZeroItem, WriteHeader, HeaderFails,
       SealItem, SealFails, UsePage, ErasePage
LEMMA Assoc ==
  /\ \A a, b \in Seq(Ops) : a \o b \in Seq(Ops) /\ <<>> \o a = a /\ a \o <<>> = a
  /\ \A a, b, c \in Seq(Ops) : (a \o b) \o c = a \o (b \o c)
<1>1. ASSUME NEW a \in Seq(Ops), NEW b \in Seq(Ops), NEW c \in Seq(Ops)
      PROVE  (a \o b) \o c = a \o (b \o c)
  BY ConcatAssociative
<1>2. \A a \in Seq(Ops) : <<>> \o a = a /\ a \o <<>> = a
  BY ConcatEmptySeq
<1>3. \A a, b \in Seq(Ops) : a \o b \in Seq(Ops)
  BY ConcatProperties
<1> QED
  BY <1>1, <1>2, <1>3

\* Four operations before the rest.
InOrder(a, b, c, d, e) ==
  (((a \o b) \o c) \o d) \o e = a \o (b \o (c \o (d \o e)))

LEMMA FiveParts ==
  ASSUME NEW a \in Seq(Ops), NEW b \in Seq(Ops), NEW c \in Seq(Ops), NEW d \in Seq(Ops),
         NEW e \in Seq(Ops)
  PROVE  InOrder(a, b, c, d, e)
<1> DEFINE Cat(x, y) == x \o y
           S == Seq(Ops)
<1>1. /\ \A x, y \in S : Cat(x, y) \in S
      /\ \A x, y, z \in S : Cat(Cat(x, y), z) = Cat(x, Cat(y, z))
  BY Assoc
<1>2. a \in S /\ b \in S /\ c \in S /\ d \in S /\ e \in S
  OBVIOUS
<1> HIDE DEF Cat, S
<1>3. Cat(a, b) \in S /\ Cat(Cat(a, b), c) \in S /\ Cat(d, e) \in S /\ Cat(c, Cat(d, e)) \in S
  BY <1>1, <1>2
<1>4. Cat(Cat(Cat(Cat(a, b), c), d), e) = Cat(Cat(Cat(a, b), c), Cat(d, e))
  BY <1>1, <1>2, <1>3
<1>5. Cat(Cat(Cat(a, b), c), Cat(d, e)) = Cat(Cat(a, b), Cat(c, Cat(d, e)))
  BY <1>1, <1>2, <1>3
<1>6. Cat(Cat(a, b), Cat(c, Cat(d, e))) = Cat(a, Cat(b, Cat(c, Cat(d, e))))
  BY <1>1, <1>2, <1>3
<1>7. Cat(Cat(Cat(Cat(a, b), c), d), e) = Cat(a, Cat(b, Cat(c, Cat(d, e))))
  BY <1>4, <1>5, <1>6
<1> QED
  BY <1>7, Zenon DEF Cat, InOrder

\* What the loop of compactPage does next.
PlansNext(c, k, r, skip, td, rest) ==
  /\ k > Len(flash[c].items) => td = <<>> \o rest
  /\ k <= Len(flash[c].items) /\ ~ Goes(flash[c].items[k], skip) =>
       td = Copies(c, k + 1, r, skip) \o rest
  /\ k <= Len(flash[c].items) /\ Goes(flash[c].items[k], skip) =>
       td = (((MarkXfer(<<c, k>>) \o WriteItem(r, flash[c].items[k].id, TRUE))
              \o Seal(r, flash[c].items[k].val, TRUE))
             \o Copies(c, k + 1, r, skip)) \o rest

LEMMA CopyPlans ==
  ASSUME CopyItem, NEW c, NEW k \in Nat, NEW r, NEW skip, Len(flash[c].items) \in Nat,
         Step.pg = c, Step.k = k, Step.to = r, Step.skip = skip
  PROVE  PlansNext(c, k, r, skip, todo', Tail(todo))
<1> DEFINE items == flash[c].items
           item == items[k]
           on == Copies(c, k + 1, r, skip)
           all == MarkXfer(<<c, k>>) \o WriteItem(r, item.id, TRUE)
                  \o Seal(r, item.val, TRUE) \o on
           X == CASE k > Len(items) -> <<>>
                  [] k <= Len(items) /\ ~ Goes(item, skip) -> on
                  [] k <= Len(items) /\ Goes(item, skip) -> all
<1>1. todo' = X \o Tail(todo)
  BY Zenon DEF CopyItem
<1> HIDE DEF items, item, on, all
<1>2. Len(items) \in Nat
  BY DEF items
<1>3. k > Len(items) => X = <<>>
  BY <1>2
<1>4. k <= Len(items) /\ ~ Goes(item, skip) => X = on
  BY <1>2
<1>5. k <= Len(items) /\ Goes(item, skip) => X = all
  BY <1>2
<1> HIDE DEF X
<1> QED
  BY <1>1, <1>3, <1>4, <1>5, Zenon DEF items, item, on, all, PlansNext

-----------------------------------------------------------------------------
(* The loop of compactPage.                                                *)

LEMMA CarriedStays ==
  ASSUME NEW fl, NEW new, NEW c, NEW r, NEW n, NEW m, NEW skip,
         Carried(fl, c, n, r, m, skip), DOMAIN new[c].items = DOMAIN fl[c].items,
         \A j \in DOMAIN fl[c].items :
           /\ new[c].items[j].id = fl[c].items[j].id
           /\ new[c].items[j].val = fl[c].items[j].val
           /\ fl[c].items[j].stat = "xfer" => new[c].items[j].stat = "xfer",
         \A i \in 1 .. m : new[r].items[i] = fl[r].items[i]
  PROVE  Carried(new, c, n, r, m, skip)
<1>1. \A j : /\ Takes(new, c, j, skip) <=> Takes(fl, c, j, skip)
             /\ Takes(fl, c, j, skip) => /\ j \in DOMAIN fl[c].items
                                         /\ new[c].items[j].id = fl[c].items[j].id
                                         /\ new[c].items[j].val = fl[c].items[j].val
  BY DEF Takes, Goes
<1> QED
  BY <1>1 DEF Carried

\* The next item has been passed over, or copied.
LEMMA CarriedOn ==
  ASSUME NEW fl, NEW c, NEW r, NEW k \in Nat \ {0}, NEW m, NEW skip,
         Carried(fl, c, k - 1, r, m, skip), ~ Takes(fl, c, k, skip)
  PROVE  Carried(fl, c, k, r, m, skip)
BY DEF Carried

LEMMA CarriedOver ==
  ASSUME NEW fl \in Flashes, NEW c \in Pages, NEW r \in Pages, fl[c].inUse,
         NEW k \in Nat \ {0}, NEW m \in Nat, NEW skip, SingleFor(fl, fl[c].items[k].id),
         Carried(fl, c, k - 1, r, m, skip), Takes(fl, c, k, skip),
         fl[c].items[k].stat = "xfer",
         fl[r].items[m + 1].stat = "live",
         fl[r].items[m + 1].id = fl[c].items[k].id,
         fl[r].items[m + 1].val = fl[c].items[k].val
  PROVE  Carried(fl, c, k, r, m + 1, skip)
<1>1. /\ \A j : j \in 1 .. k <=> j \in 1 .. k - 1 \/ j = k
      /\ \A i : i \in 1 .. m + 1 <=> i \in 1 .. m \/ i = m + 1
      /\ ~ (k \in 1 .. k - 1)
  OBVIOUS
<1>2. \A j \in 1 .. k : Takes(fl, c, j, skip) =>
        /\ fl[c].items[j].stat = "xfer"
        /\ \E i \in 1 .. m + 1 : fl[r].items[i].id = fl[c].items[j].id
  BY <1>1 DEF Carried
<1>3. \A i \in 1 .. m + 1 :
       /\ fl[r].items[i].stat = "live"
       /\ \E j \in 1 .. k : /\ Takes(fl, c, j, skip)
                            /\ fl[r].items[i].id = fl[c].items[j].id
                            /\ fl[r].items[i].val = fl[c].items[j].val
  BY <1>1 DEF Carried
<1>4. ASSUME NEW i \in 1 .. m PROVE fl[r].items[i].id # fl[c].items[k].id
  <2>1. PICK j \in 1 .. k - 1 : Takes(fl, c, j, skip) /\ fl[r].items[i].id = fl[c].items[j].id
    BY DEF Carried
  <2>2. /\ Copy(fl, c, j, fl[c].items[j].id) /\ Copy(fl, c, k, fl[c].items[k].id)
        /\ j \in DOMAIN fl[c].items /\ k \in DOMAIN fl[c].items
    BY <2>1, TakesAre DEF Takes
  <2>3. j # k
    BY <1>1, <2>1
  <2> QED
    BY <2>1, <2>2, <2>3 DEF SingleFor
<1>5. \A i, l \in 1 .. m : fl[r].items[i].id = fl[r].items[l].id => i = l
  BY DEF Carried
<1>6. \A i, l \in 1 .. m + 1 : fl[r].items[i].id = fl[r].items[l].id => i = l
  BY <1>1, <1>4, <1>5
<1> QED
  BY <1>2, <1>3, <1>6 DEF Carried

LEMMA FlashTypedNext == NvInv /\ NvInv' => flash \in Flashes /\ flash' \in Flashes
BY DEF NvInv, Types, TypeOK, Flashes

LEMMA CompactingIs ==
  ASSUME NEW fl \in Flashes, NEW c, NEW r, Compacting(fl, c, r)
  PROVE  /\ c \in Pages /\ r \in Pages /\ c # r /\ fl[c].inUse /\ ~ fl[r].inUse
         /\ DOMAIN fl[c].items = 1 .. Len(fl[c].items) /\ Len(fl[c].items) \in Nat
         /\ DOMAIN fl[r].items = 1 .. Len(fl[r].items) /\ Len(fl[r].items) \in Nat
         /\ FlashOK(fl)
BY FlashCompacting, SlotTyped DEF Compacting, Spare, OnlyMarked

\* An item that is copied is a copy.
LEMMA GoesIs ==
  ASSUME NEW fl \in Flashes, NEW c, NEW r, Compacting(fl, c, r), NEW skip,
         NEW k \in 1 .. Len(fl[c].items), Goes(fl[c].items[k], skip)
  PROVE  /\ k \in DOMAIN fl[c].items /\ k \in Nat \ {0}
         /\ k \in 1 .. Len(fl[c].items) + 1 /\ k + 1 \in 1 .. Len(fl[c].items) + 1
         /\ k + 1 \in Nat \ {0} /\ (k + 1) - 1 = k
         /\ Takes(fl, c, k, skip) /\ fl[c].items[k].id \in Ids
         /\ fl[c].items[k].id # skip
         /\ fl[c].items[k].val \in Values /\ fl[c].items[k].val # Blank
         /\ Copy(fl, c, k, fl[c].items[k].id) /\ SingleFor(fl, fl[c].items[k].id)
<1>1. c \in Pages /\ fl[c].inUse /\ DOMAIN fl[c].items = 1 .. Len(fl[c].items)
      /\ Len(fl[c].items) \in Nat
  BY CompactingIs
<1>2. Takes(fl, c, k, skip) /\ k \in DOMAIN fl[c].items
  BY <1>1 DEF Takes
<1>3. /\ fl[c].items[k].id \in Ids /\ fl[c].items[k].val # Blank
      /\ fl[c].items[k].id # skip
      /\ Copy(fl, c, k, fl[c].items[k].id)
  BY <1>1, <1>2, TakesAre
<1>4. fl[c].items[k].val \in Values
  BY <1>1, <1>2, <1>3, SlotTyped
<1>5. SingleFor(fl, fl[c].items[k].id)
  BY <1>3 DEF Compacting, Single
<1> QED
  BY <1>1, <1>2, <1>3, <1>4, <1>5

\* What is to be done is a plan.
LEMMA LoopTyped ==
  ASSUME NEW fl \in Flashes, NEW c, NEW r, Compacting(fl, c, r),
         NEW skip \in Ids \cup {Nothing}, NEW rest \in Seq(Ops)
  PROVE  /\ \A k \in Nat \ {0} : Onward(c, r, skip, k, rest) \in Seq(Ops)
         /\ \A k \in 1 .. Len(fl[c].items) : Goes(fl[c].items[k], skip) =>
              /\ Sealing(fl, c, r, skip, k, rest) \in Seq(Ops)
              /\ Heading(fl, c, r, skip, k, rest) \in Seq(Ops)
<1>1. c \in Pages /\ r \in Pages
  BY CompactingIs
<1>2. \A a, b \in Seq(Ops) : a \o b \in Seq(Ops)
  BY ConcatProperties
<1>3. ASSUME NEW k \in Nat \ {0} PROVE Onward(c, r, skip, k, rest) \in Seq(Ops)
  BY <1>1, OpsTyped, <1>2 DEF Onward
<1>4. ASSUME NEW k \in 1 .. Len(fl[c].items), Goes(fl[c].items[k], skip)
      PROVE  /\ Sealing(fl, c, r, skip, k, rest) \in Seq(Ops)
             /\ Heading(fl, c, r, skip, k, rest) \in Seq(Ops)
  BY <1>4, GoesIs, <1>1, OpsTyped, <1>2, <1>3 DEF Sealing, Heading
<1> QED
  BY <1>3, <1>4

LEMMA LoopCopy ==
  ASSUME NvInv, NvInv', FlashFails = FALSE, Flash, NEW c, NEW r, Compacting(flash, c, r),
         NEW skip \in Ids \cup {Nothing}, NEW rest \in Seq(Ops), NEW k,
         AtCopy(flash, todo, c, r, skip, rest, k)
  PROVE  /\ Ongoing /\ flash' = flash
         /\ Looping(flash, todo', c, r, skip, rest) \/ Looped(flash, todo', c, r, skip, rest)
<1>1. /\ flash \in Flashes /\ c \in Pages /\ r \in Pages /\ c # r
      /\ DOMAIN flash[c].items = 1 .. Len(flash[c].items) /\ Len(flash[c].items) \in Nat
  BY FlashTypedNext, CompactingIs
<1>2. /\ k \in 1 .. Len(flash[c].items) + 1 /\ k \in Nat \ {0}
      /\ todo = Onward(c, r, skip, k, rest)
      /\ Carried(flash, c, k - 1, r, Len(flash[r].items), skip)
  BY <1>1 DEF AtCopy
<1>3. Starts(todo, [op |-> "copy", pg |-> c, k |-> k, to |-> r, skip |-> skip], rest)
  BY <1>1, <1>2, Fronts DEF Onward
<1>4. /\ Step.op = "copy" /\ Step.pg = c /\ Step.k = k /\ Step.to = r /\ Step.skip = skip
      /\ Tail(todo) = rest /\ CopyItem
  <2>1. Step = [op |-> "copy", pg |-> c, k |-> k, to |-> r, skip |-> skip] /\ Tail(todo) = rest
    BY <1>3 DEF Starts, Step
  <2>2. Step.op = "copy"
    BY <2>1
  <2> QED
    BY <2>1, <2>2, Carries, Zenon
<1>5. /\ Ongoing /\ flash' = flash
  BY <1>4, Zenon DEF CopyItem, Ongoing, codeVars, ramVars
<1> DEFINE item == flash[c].items[k]
<1>6. /\ k > Len(flash[c].items) => todo' = <<>> \o rest
      /\ k <= Len(flash[c].items) /\ ~ Goes(item, skip) =>
           todo' = Copies(c, k + 1, r, skip) \o rest
      /\ k <= Len(flash[c].items) /\ Goes(item, skip) =>
           todo' = (((MarkXfer(<<c, k>>) \o WriteItem(r, item.id, TRUE))
                     \o Seal(r, item.val, TRUE)) \o Copies(c, k + 1, r, skip)) \o rest
  <2>1. PlansNext(c, k, r, skip, todo', rest)
    <3>1. k \in Nat /\ Len(flash[c].items) \in Nat
      BY <1>1, <1>2
    <3>2. PlansNext(c, k, r, skip, todo', Tail(todo))
      BY <1>4, <3>1, CopyPlans
    <3> QED
      BY <1>4, <3>2
  <2> QED
    BY <2>1, Zenon DEF PlansNext
<1>7. CASE k > Len(flash[c].items)
  <2>1. k - 1 = Len(flash[c].items) /\ todo' = rest
    <3>1. k - 1 = Len(flash[c].items)
      BY <1>1, <1>2, <1>7
    <3>2. todo' = <<>> \o rest
      BY <1>6, <1>7
    <3> QED
      BY <3>1, <3>2, Assoc
  <2> QED
    BY <1>2, <1>5, <2>1 DEF Looped
<1>8. CASE k <= Len(flash[c].items) /\ ~ Goes(item, skip)
  <2>1. ~ Takes(flash, c, k, skip) /\ k + 1 \in 1 .. Len(flash[c].items) + 1 /\ (k + 1) - 1 = k
    BY <1>1, <1>2, <1>8 DEF Takes
  <2>2. AtCopy(flash, todo', c, r, skip, rest, k + 1)
    BY <1>2, <1>6, <1>8, <2>1, CarriedOn DEF AtCopy, Onward
  <2> QED
    BY <1>5, <2>1, <2>2 DEF Looping
<1>9. CASE k <= Len(flash[c].items) /\ Goes(item, skip)
  <2>1. k \in 1 .. Len(flash[c].items) /\ Goes(flash[c].items[k], skip)
    BY <1>1, <1>2, <1>9
  <2>2. /\ k + 1 \in Nat \ {0} /\ item.id \in Ids /\ item.val \in Values \cup {Blank}
        /\ k \in DOMAIN flash[c].items
    BY <1>1, <2>1, GoesIs
  <2>3. /\ WriteItem(r, item.id, TRUE) \in Seq(Ops) /\ Seal(r, item.val, TRUE) \in Seq(Ops)
        /\ Copies(c, k + 1, r, skip) \in Seq(Ops) /\ ItemOp("mark", <<c, k>>) \in Seq(Ops)
        /\ <<>> \in Seq(Ops)
    BY <1>1, <1>2, <2>2, OpsTyped
  <2>4. PICK w, s, o \in Seq(Ops) : /\ w = WriteItem(r, item.id, TRUE)
                                    /\ s = Seal(r, item.val, TRUE)
                                    /\ o = Copies(c, k + 1, r, skip)
    BY <2>3
  <2>5. Heading(flash, c, r, skip, k, rest) = w \o (s \o (o \o rest))
    BY <2>4 DEF Heading, Sealing, Onward
  <2>6. ASSUME NEW a \in Seq(Ops)
        PROVE  (((a \o w) \o s) \o o) \o rest = a \o (w \o (s \o (o \o rest)))
    <3>1. InOrder(a, w, s, o, rest)
      BY FiveParts
    <3> QED
      BY <3>1, Zenon DEF InOrder
  <2>7. MarkXfer(<<c, k>>) = IF item.stat = "live" THEN ItemOp("mark", <<c, k>>) ELSE <<>>
    BY DEF MarkXfer, ItemAt
  <2>8. todo' = MarkXfer(<<c, k>>) \o Heading(flash, c, r, skip, k, rest)
    <3>1. MarkXfer(<<c, k>>) \in Seq(Ops)
      BY <2>3, <2>7, Zenon
    <3>2. todo' = (((MarkXfer(<<c, k>>) \o w) \o s) \o o) \o rest
      BY <1>6, <1>9, <2>4, Zenon
    <3> QED
      BY <2>5, <2>6, <3>1, <3>2
  <2>9. item.stat \in {"live", "xfer"}
    BY <1>1, <2>2, SlotTyped
  <2>10. k \in 1 .. Len(flash[c].items) + 1
    BY <1>2
  <2>11. CASE item.stat = "live"
    BY <1>2, <2>1, <2>7, <2>8, <2>11, <1>5, <2>10 DEF AtMark, Looping
  <2>12. CASE item.stat = "xfer"
    <3>1. todo' = Heading(flash, c, r, skip, k, rest)
      BY <1>1, <2>1, LoopTyped, <2>7, <2>8, <2>12, Assoc
    <3>2. AtHead(flash, todo', c, r, skip, rest, k)
      BY <1>2, <2>1, <2>12, <3>1 DEF AtHead
    <3> QED
      BY <1>5, <2>10, <3>2 DEF Looping
  <2> QED
    BY <2>9, <2>11, <2>12
<1> QED
  BY <1>1, <1>2, <1>7, <1>8, <1>9

-----------------------------------------------------------------------------
(* One flash operation, with what is left to do after it.                  *)

LEMMA Proceeds ==
  ASSUME NvInv, FlashFails = FALSE, Flash, NEW op \in Ops, NEW rest, Starts(todo, op, rest),
         op.op # "copy", op.op = "seal" => op.val # Blank
  PROVE  /\ Step = op /\ todo' = rest /\ pc' = pc /\ call' = call /\ boot' = boot
         /\ op.op # "erase" => pgRes' = pgRes
         /\ op.op = "erase" => ErasePage /\ pgRes' = op.pg
         /\ op.op = "xfer" => MarkPage
         /\ op.op = "use" => UsePage
         /\ op.op = "mark" => MarkItem
         /\ op.op = "zero" => ZeroItem
         /\ op.op = "head" => WriteHeader
         /\ op.op = "seal" => SealItem
<1>1. Step = op /\ Tail(todo) = rest /\ todo # <<>>
  BY DEF Starts, Step
<1>2. Step.op \in {"copy", "xfer", "mark", "zero", "head", "seal", "use", "erase"}
  BY <1>1 DEF Ops
<1>3. \/ MarkPage \/ MarkItem \/ ZeroItem \/ WriteHeader \/ SealItem \/ UsePage \/ ErasePage
  BY <1>1, <1>2, Carries
<1>4. todo' = rest /\ pc' = pc /\ call' = call /\ boot' = boot
  BY <1>1, <1>3 DEF MarkPage, MarkItem, ZeroItem, Zero, WriteHeader, SealItem, UsePage,
                    ErasePage, codeVars
<1>5. op.op # "erase" => pgRes' = pgRes
  BY <1>1, <1>3 DEF MarkPage, MarkItem, ZeroItem, WriteHeader, SealItem, UsePage,
                    ErasePage, Doing, ramVars
<1>6. op.op = "erase" => ErasePage /\ pgRes' = op.pg
  BY <1>1, Carries DEF ErasePage
<1> QED
  BY <1>1, <1>4, <1>5, <1>6, Carries

LEMMA DoesMark ==
  ASSUME NvInv, FlashFails = FALSE, Flash, NEW p \in Pages, NEW k \in DOMAIN flash[p].items,
         NEW rest \in Seq(Ops), todo = ItemOp("mark", <<p, k>>) \o rest
  PROVE  Marks(flash, flash', p, k) /\ todo' = rest /\ Ongoing
<1>1. k \in Nat \ {0}
  BY FlashTyped, SlotTyped
<1>2. PICK op : op = [op |-> "mark", pg |-> p, k |-> k]
  OBVIOUS
<1>3. op \in Ops /\ op.op = "mark" /\ op.pg = p /\ op.k = k
  BY <1>1, <1>2 DEF Ops
<1>4. Starts(todo, op, rest)
  BY <1>1, <1>2, Fronts
<1>5. /\ Step = op /\ todo' = rest /\ pc' = pc /\ call' = call /\ boot' = boot
      /\ pgRes' = pgRes /\ MarkItem
  BY <1>3, <1>4, Proceeds
<1> QED
  BY <1>3, <1>5, MarkEffect DEF Ongoing

LEMMA DoesZero ==
  ASSUME NvInv, FlashFails = FALSE, Flash, NEW p \in Pages, NEW k \in DOMAIN flash[p].items,
         NEW rest \in Seq(Ops), todo = ItemOp("zero", <<p, k>>) \o rest
  PROVE  Clears(flash, flash', p, k) /\ todo' = rest /\ Ongoing
<1>1. k \in Nat \ {0}
  BY FlashTyped, SlotTyped
<1>2. PICK op : op = [op |-> "zero", pg |-> p, k |-> k]
  OBVIOUS
<1>3. op \in Ops /\ op.op = "zero" /\ op.pg = p /\ op.k = k
  BY <1>1, <1>2 DEF Ops
<1>4. Starts(todo, op, rest)
  BY <1>1, <1>2, Fronts
<1>5. /\ Step = op /\ todo' = rest /\ pc' = pc /\ call' = call /\ boot' = boot
      /\ pgRes' = pgRes /\ ZeroItem
  BY <1>3, <1>4, Proceeds
<1>6. flash' = [flash EXCEPT ![p].items[k] = Zeroed(@)]
  BY <1>3, <1>5 DEF ZeroItem, Zero
<1> QED
  BY <1>5, <1>6, ZeroEffect DEF Ongoing

LEMMA DoesHead ==
  ASSUME NvInv, FlashFails = FALSE, Flash, NEW p \in Pages, NEW id \in Ids,
         NEW copy \in BOOLEAN, NEW rest \in Seq(Ops), todo = WriteItem(p, id, copy) \o rest
  PROVE  Adds(flash, flash', p, id) /\ todo' = rest /\ Ongoing
<1>2. PICK op : op = [op |-> "head", pg |-> p, id |-> id, copy |-> copy]
  OBVIOUS
<1>3. op \in Ops /\ op.op = "head" /\ op.pg = p /\ op.id = id
  BY <1>2 DEF Ops
<1>4. Starts(todo, op, rest)
  BY <1>2, Fronts
<1>5. /\ Step = op /\ todo' = rest /\ pc' = pc /\ call' = call /\ boot' = boot
      /\ pgRes' = pgRes /\ WriteHeader
  BY <1>3, <1>4, Proceeds
<1> QED
  BY <1>3, <1>5, AddEffect DEF Ongoing

LEMMA DoesSeal ==
  ASSUME NvInv, FlashFails = FALSE, Flash, NEW p \in Pages, NEW v \in Values,
         flash[p].items # <<>>,
         NEW copy \in BOOLEAN, NEW rest \in Seq(Ops), todo = Seal(p, v, copy) \o rest
  PROVE  Fills(flash, flash', p, v) /\ todo' = rest /\ Ongoing
<1>2. PICK op : op = [op |-> "seal", pg |-> p, val |-> v, copy |-> copy]
  OBVIOUS
<1>3. op \in Ops /\ op.op = "seal" /\ op.pg = p /\ op.val = v /\ v # Blank
  BY <1>2, ItemsAssumption DEF Ops
<1>4. Starts(todo, op, rest)
  BY <1>2, Fronts
<1>5. /\ Step = op /\ todo' = rest /\ pc' = pc /\ call' = call /\ boot' = boot
      /\ pgRes' = pgRes /\ SealItem
  BY <1>3, <1>4, Proceeds
<1> QED
  BY <1>3, <1>5, FillEffect DEF Ongoing

LEMMA DoesUse ==
  ASSUME NvInv, FlashFails = FALSE, Flash, NEW p \in Pages, NEW rest \in Seq(Ops),
         todo = Op("use", p) \o rest
  PROVE  Uses(flash, flash', p) /\ todo' = rest /\ Ongoing
<1>2. PICK op : op = [op |-> "use", pg |-> p]
  OBVIOUS
<1>3. op \in Ops /\ op.op = "use" /\ op.pg = p
  BY <1>2 DEF Ops
<1>4. Starts(todo, op, rest)
  BY <1>2, Fronts
<1>5. /\ Step = op /\ todo' = rest /\ pc' = pc /\ call' = call /\ boot' = boot
      /\ pgRes' = pgRes /\ UsePage
  BY <1>3, <1>4, Proceeds
<1> QED
  BY <1>3, <1>5, PageEffects DEF Ongoing

LEMMA DoesXfer ==
  ASSUME NvInv, FlashFails = FALSE, Flash, NEW p \in Pages, NEW rest \in Seq(Ops),
         todo = Op("xfer", p) \o rest
  PROVE  MarksPage(flash, flash', p) /\ todo' = rest /\ Ongoing
<1>2. PICK op : op = [op |-> "xfer", pg |-> p]
  OBVIOUS
<1>3. op \in Ops /\ op.op = "xfer" /\ op.pg = p
  BY <1>2 DEF Ops
<1>4. Starts(todo, op, rest)
  BY <1>2, Fronts
<1>5. /\ Step = op /\ todo' = rest /\ pc' = pc /\ call' = call /\ boot' = boot
      /\ pgRes' = pgRes /\ MarkPage
  BY <1>3, <1>4, Proceeds
<1> QED
  BY <1>3, <1>5, PageEffects DEF Ongoing

LEMMA DoesErase ==
  ASSUME NvInv, FlashFails = FALSE, Flash, NEW p \in Pages, NEW rest \in Seq(Ops),
         todo = Op("erase", p) \o rest
  PROVE  /\ Erases(flash, flash', p) /\ todo' = rest
         /\ pc' = pc /\ call' = call /\ boot' = boot /\ pgRes' = p
<1>2. PICK op : op = [op |-> "erase", pg |-> p]
  OBVIOUS
<1>3. op \in Ops /\ op.op = "erase" /\ op.pg = p
  BY <1>2 DEF Ops
<1>4. Starts(todo, op, rest)
  BY <1>2, Fronts
<1>5. /\ Step = op /\ todo' = rest /\ pc' = pc /\ call' = call /\ boot' = boot
      /\ pgRes' = p /\ ErasePage
  BY <1>3, <1>4, Proceeds
<1> QED
  BY <1>3, <1>5, PageEffects DEF Ongoing

LEMMA LoopMark ==
  ASSUME NvInv, NvInv', FlashFails = FALSE, Flash, NEW c, NEW r, Compacting(flash, c, r),
         NEW skip \in Ids \cup {Nothing}, NEW rest \in Seq(Ops), NEW k,
         AtMark(flash, todo, c, r, skip, rest, k)
  PROVE  /\ Ongoing /\ LoopKeeps(flash, flash', c, r, skip)
         /\ AtHead(flash', todo', c, r, skip, rest, k)
<1>1. /\ flash \in Flashes /\ flash' \in Flashes /\ c \in Pages /\ r \in Pages /\ c # r
      /\ flash[c].inUse /\ ~ flash[r].inUse
  BY FlashTypedNext, CompactingIs
<1>2. /\ k \in 1 .. Len(flash[c].items) /\ Goes(flash[c].items[k], skip)
      /\ flash[c].items[k].stat = "live"
      /\ todo = ItemOp("mark", <<c, k>>) \o Heading(flash, c, r, skip, k, rest)
      /\ Carried(flash, c, k - 1, r, Len(flash[r].items), skip)
  BY DEF AtMark
<1>3. /\ k \in DOMAIN flash[c].items /\ Heading(flash, c, r, skip, k, rest) \in Seq(Ops)
      /\ flash[c].items[k].id # skip /\ flash[c].items[k].val # Blank
  BY <1>1, <1>2, CompactingIs, LoopTyped DEF Goes
<1>4. Marks(flash, flash', c, k) /\ todo' = Heading(flash, c, r, skip, k, rest) /\ Ongoing
  BY <1>1, <1>2, <1>3, DoesMark
<1>5. /\ Others(flash, flash', c) /\ SameHeader(flash, flash', c)
      /\ SameSlots(flash, flash', c)
      /\ \A j \in DOMAIN flash[c].items :
           /\ flash'[c].items[j].id = flash[c].items[j].id
           /\ flash'[c].items[j].val = flash[c].items[j].val
           /\ flash'[c].items[j].stat = IF j = k THEN "xfer" ELSE flash[c].items[j].stat
  BY <1>4 DEF Marks
<1>6. flash'[r] = flash[r]
  BY <1>1, <1>5 DEF Others
<1>7. /\ SameCopies(flash, flash')
      /\ \A q, j, id : Copy(flash', q, j, id) <=> Copy(flash, q, j, id)
      /\ NoBlanks(flash) => NoBlanks(flash')
      /\ Sealed(flash) => Sealed(flash')
  BY <1>3, <1>4, MarksCopies
<1>8. LoopKeeps(flash, flash', c, r, skip)
  <2>1. Single(flash') /\ SameValues(flash, flash')
    BY <1>1, <1>7, SameCopiesKeep DEF Compacting
  <2>2. Spare(flash', r) /\ OnlyMarked(flash', c)
    BY <1>5, HeadersStay DEF Compacting
  <2>3. Compacting(flash', c, r)
    BY <1>1, <1>5, <1>6, <1>7, <2>1, <2>2 DEF Compacting, SameHeader
  <2>4. ASSUME NEW p, NEW j, Copy(flash, p, j, skip)
        PROVE  flash'[p].items[j].stat = flash[p].items[j].stat
    BY <1>3, <2>4, <1>5 DEF Copy, Others
  <2> QED
    BY <1>7, <2>1, <2>3, <2>4 DEF LoopKeeps
<1>9. AtHead(flash', todo', c, r, skip, rest, k)
  <2>1. Len(flash'[c].items) = Len(flash[c].items)
    BY <1>1, <1>5, SlotTyped DEF SameSlots
  <2>2. /\ flash'[c].items[k].id = flash[c].items[k].id
        /\ flash'[c].items[k].val = flash[c].items[k].val
        /\ flash'[c].items[k].stat = "xfer"
    BY <1>3, <1>5
  <2>3. Goes(flash'[c].items[k], skip)
    BY <1>2, <2>2 DEF Goes
  <2>4. Heading(flash', c, r, skip, k, rest) = Heading(flash, c, r, skip, k, rest)
    BY <2>2 DEF Heading, Sealing
  <2>5. Carried(flash', c, k - 1, r, Len(flash'[r].items), skip)
    BY <1>2, <1>5, <1>6, CarriedStays DEF SameSlots
  <2> QED
    BY <1>2, <1>4, <2>1, <2>2, <2>3, <2>4, <2>5 DEF AtHead
<1> QED
  BY <1>4, <1>8, <1>9

LEMMA LoopHead ==
  ASSUME NvInv, NvInv', FlashFails = FALSE, Flash, NEW c, NEW r, Compacting(flash, c, r),
         NEW skip \in Ids \cup {Nothing}, NEW rest \in Seq(Ops), NEW k,
         AtHead(flash, todo, c, r, skip, rest, k)
  PROVE  /\ Ongoing /\ LoopKeeps(flash, flash', c, r, skip)
         /\ AtSeal(flash', todo', c, r, skip, rest, k)
<1>1. /\ flash \in Flashes /\ flash' \in Flashes /\ c \in Pages /\ r \in Pages /\ c # r
      /\ flash[c].inUse /\ ~ flash[r].inUse
      /\ Len(flash[r].items) \in Nat
  BY FlashTypedNext, CompactingIs
<1>2. /\ k \in 1 .. Len(flash[c].items) /\ Goes(flash[c].items[k], skip)
      /\ flash[c].items[k].stat = "xfer"
      /\ todo = WriteItem(r, flash[c].items[k].id, TRUE)
                \o Sealing(flash, c, r, skip, k, rest)
      /\ Carried(flash, c, k - 1, r, Len(flash[r].items), skip)
  BY DEF AtHead, Heading
<1>3. /\ Sealing(flash, c, r, skip, k, rest) \in Seq(Ops)
      /\ flash[c].items[k].id \in Ids
  BY <1>1, <1>2, GoesIs, LoopTyped
<1>4. /\ Adds(flash, flash', r, flash[c].items[k].id)
      /\ todo' = Sealing(flash, c, r, skip, k, rest) /\ Ongoing
  BY <1>1, <1>2, <1>3, DoesHead
<1>5. /\ Others(flash, flash', r) /\ SameHeader(flash, flash', r)
      /\ flash'[c] = flash[c]
      /\ Len(flash'[r].items) = Len(flash[r].items) + 1
      /\ \A j \in 1 .. Len(flash[r].items) : flash'[r].items[j] = flash[r].items[j]
      /\ flash'[r].items[Len(flash[r].items) + 1].id = flash[c].items[k].id
      /\ flash'[r].items[Len(flash[r].items) + 1].stat = "live"
      /\ flash'[r].items[Len(flash[r].items) + 1].val = Blank
  BY <1>1, <1>4 DEF Adds, Others
<1>6. /\ SameCopies(flash, flash')
      /\ \A q, j, id : Copy(flash', q, j, id) <=> Copy(flash, q, j, id)
      /\ NoBlanks(flash) => NoBlanks(flash')
      /\ Spare(flash', r) /\ OnlyMarked(flash', c)
  BY <1>1, <1>5, Hidden DEF Compacting, SameHeader
<1>7. LoopKeeps(flash, flash', c, r, skip)
  <2>1. Single(flash') /\ SameValues(flash, flash')
    BY <1>1, <1>6, SameCopiesKeep DEF Compacting
  <2>2. Sealed(flash')
    BY <1>1, <1>4, AddsCopies DEF Compacting
  <2>3. Compacting(flash', c, r)
    BY <1>1, <1>5, <1>6, <2>1, <2>2 DEF Compacting, SameHeader
  <2>4. \A p, j : Copy(flash, p, j, skip) =>
                    flash'[p].items[j].stat = flash[p].items[j].stat
    BY ONLY <1>1, <1>5 DEF Others, Copy
  <2> QED
    BY <1>6, <2>1, <2>3, <2>4 DEF LoopKeeps
<1>8. AtSeal(flash', todo', c, r, skip, rest, k)
  <2>1. Sealing(flash', c, r, skip, k, rest) = Sealing(flash, c, r, skip, k, rest)
    BY <1>5 DEF Sealing
  <2>2. BlankLast(flash', r, flash'[c].items[k].id)
    BY <1>1, <1>5 DEF BlankLast
  <2>3. Len(flash'[r].items) - 1 = Len(flash[r].items)
    BY <1>1, <1>5
  <2>4. Carried(flash', c, k - 1, r, Len(flash[r].items), skip)
    BY <1>2, <1>5, CarriedStays
  <2> QED
    BY <1>2, <1>4, <1>5, <2>1, <2>2, <2>3, <2>4 DEF AtSeal
<1> QED
  BY <1>4, <1>7, <1>8

LEMMA LoopSeal ==
  ASSUME NvInv, NvInv', FlashFails = FALSE, Flash, NEW c, NEW r, Compacting(flash, c, r),
         NEW skip \in Ids \cup {Nothing}, NEW rest \in Seq(Ops), NEW k,
         AtSeal(flash, todo, c, r, skip, rest, k)
  PROVE  /\ Ongoing /\ LoopKeeps(flash, flash', c, r, skip)
         /\ AtCopy(flash', todo', c, r, skip, rest, k + 1)
<1>1. /\ flash \in Flashes /\ flash' \in Flashes /\ c \in Pages /\ r \in Pages /\ c # r
      /\ flash[c].inUse /\ ~ flash[r].inUse
      /\ DOMAIN flash[r].items = 1 .. Len(flash[r].items) /\ Len(flash[r].items) \in Nat
  BY FlashTypedNext, CompactingIs
<1>2. /\ k \in 1 .. Len(flash[c].items) /\ Goes(flash[c].items[k], skip)
      /\ flash[c].items[k].stat = "xfer"
      /\ todo = Seal(r, flash[c].items[k].val, TRUE) \o Onward(c, r, skip, k + 1, rest)
      /\ Carried(flash, c, k - 1, r, Len(flash[r].items) - 1, skip)
      /\ BlankLast(flash, r, flash[c].items[k].id)
  BY DEF AtSeal, Sealing
<1>3. /\ k \in DOMAIN flash[c].items /\ k \in Nat \ {0} /\ k + 1 \in Nat \ {0}
      /\ k + 1 \in 1 .. Len(flash[c].items) + 1 /\ (k + 1) - 1 = k
      /\ flash[c].items[k].val \in Values
      /\ Takes(flash, c, k, skip)
  BY <1>1, <1>2, GoesIs
<1>4. PICK m : m = Len(flash[r].items) - 1
  OBVIOUS
<1>5. /\ m \in Nat /\ Len(flash[r].items) = m + 1 /\ flash[r].items # <<>>
      /\ m + 1 \in DOMAIN flash[r].items
      /\ \A j \in 1 .. m : j \in DOMAIN flash[r].items /\ j # m + 1
  <2>1. /\ Len(flash[r].items) \in Nat \ {0} /\ flash[r].items # <<>>
        /\ DOMAIN flash[r].items = 1 .. Len(flash[r].items)
    BY <1>1, <1>2 DEF BlankLast
  <2> QED
    BY ONLY <1>4, <2>1
<1>6. Onward(c, r, skip, k + 1, rest) \in Seq(Ops)
  BY <1>1, <1>3, LoopTyped
<1>7. /\ Fills(flash, flash', r, flash[c].items[k].val)
      /\ todo' = Onward(c, r, skip, k + 1, rest) /\ Ongoing
  BY <1>1, <1>2, <1>3, <1>5, <1>6, DoesSeal
<1>8. /\ Others(flash, flash', r) /\ SameHeader(flash, flash', r)
      /\ flash'[c] = flash[c] /\ Len(flash'[r].items) = m + 1
      /\ \A j \in 1 .. m : flash'[r].items[j] = flash[r].items[j]
      /\ flash'[r].items[m + 1].id = flash[c].items[k].id
      /\ flash'[r].items[m + 1].stat = "live"
      /\ flash'[r].items[m + 1].val = flash[c].items[k].val
  BY <1>1, <1>2, <1>5, <1>7 DEF Fills, Others, BlankLast
<1>9. /\ SameCopies(flash, flash')
      /\ \A q, j, id : Copy(flash', q, j, id) <=> Copy(flash, q, j, id)
      /\ NoBlanks(flash) => NoBlanks(flash')
      /\ Spare(flash', r) /\ OnlyMarked(flash', c)
  BY <1>1, <1>8, Hidden DEF Compacting, SameHeader
<1>10. Compacting(flash', c, r) /\ SameValues(flash, flash')
  <2>1. Single(flash') /\ SameValues(flash, flash')
    BY <1>1, <1>9, SameCopiesKeep DEF Compacting
  <2>2. Sealed(flash')
    <3>1. \A p \in Pages : \A j \in DOMAIN flash'[p].items :
            \/ j \in DOMAIN flash[p].items /\ flash'[p].items[j] = flash[p].items[j]
            \/ flash'[p].items[j].stat = "live"
      BY <1>5, <1>7, <1>8 DEF Fills, Others, SameSlots
    <3> QED
      BY <3>1 DEF Sealed, Compacting
  <2> QED
    BY <1>1, <1>8, <1>9, <2>1, <2>2 DEF Compacting, SameHeader
<1>11. LoopKeeps(flash, flash', c, r, skip)
  BY <1>1, <1>8, <1>9, <1>10 DEF Others, Copy, LoopKeeps
<1>12. AtCopy(flash', todo', c, r, skip, rest, k + 1)
  <2>1. Carried(flash', c, k - 1, r, m, skip)
    BY <1>2, <1>4, <1>8, CarriedStays
  <2>2. Takes(flash', c, k, skip)
    BY <1>3, <1>8 DEF Takes
  <2>3. SingleFor(flash', flash'[c].items[k].id)
    <3>1. flash'[c].items[k].id \in Ids
      BY <1>1, <1>2, <1>8, GoesIs
    <3> QED
      BY <1>10, <3>1 DEF Compacting, Single
  <2>4. Carried(flash', c, k, r, m + 1, skip)
    BY <1>1, <1>2, <1>3, <1>5, <1>8, <2>1, <2>2, <2>3, CarriedOver
  <2>5. flash'[c] = flash[c] /\ Len(flash'[r].items) = m + 1
    BY <1>8, Zenon
  <2>6. k + 1 \in 1 .. Len(flash'[c].items) + 1
    BY ONLY <1>3, <2>5, Zenon
  <2>7. Carried(flash', c, (k + 1) - 1, r, Len(flash'[r].items), skip)
    BY ONLY <1>3, <2>4, <2>5, Zenon
  <2> QED
    BY ONLY <1>7, <2>6, <2>7, Zenon DEF AtCopy
<1> QED
  BY <1>7, <1>11, <1>12

\* A step of the loop.
LEMMA LoopStep ==
  ASSUME NvInv, NvInv', FlashFails = FALSE, Flash, NEW c, NEW r, Compacting(flash, c, r),
         NEW skip \in Ids \cup {Nothing}, NEW rest \in Seq(Ops),
         Looping(flash, todo, c, r, skip, rest)
  PROVE  /\ Ongoing /\ LoopKeeps(flash, flash', c, r, skip)
         /\ \/ Looping(flash', todo', c, r, skip, rest)
            \/ Looped(flash', todo', c, r, skip, rest)
<1>1. PICK k \in 1 .. Len(flash[c].items) + 1 :
        \/ AtCopy(flash, todo, c, r, skip, rest, k) \/ AtMark(flash, todo, c, r, skip, rest, k)
        \/ AtHead(flash, todo, c, r, skip, rest, k) \/ AtSeal(flash, todo, c, r, skip, rest, k)
  BY DEF Looping
<1>2. CASE AtCopy(flash, todo, c, r, skip, rest, k)
  BY <1>2, LoopCopy DEF LoopKeeps, SameValues
<1>3. CASE AtMark(flash, todo, c, r, skip, rest, k)
  <2>1. /\ Ongoing /\ LoopKeeps(flash, flash', c, r, skip)
        /\ AtHead(flash', todo', c, r, skip, rest, k)
    BY <1>3, LoopMark
  <2>2. k \in 1 .. Len(flash'[c].items) + 1
    BY <2>1, FlashTypedNext, CompactingIs DEF LoopKeeps, AtHead
  <2> QED
    BY <2>1, <2>2 DEF Looping
<1>4. CASE AtHead(flash, todo, c, r, skip, rest, k)
  <2>1. /\ Ongoing /\ LoopKeeps(flash, flash', c, r, skip)
        /\ AtSeal(flash', todo', c, r, skip, rest, k)
    BY <1>4, LoopHead
  <2>2. k \in 1 .. Len(flash'[c].items) + 1
    BY <2>1, FlashTypedNext, CompactingIs DEF LoopKeeps, AtSeal
  <2> QED
    BY <2>1, <2>2 DEF Looping
<1>5. CASE AtSeal(flash, todo, c, r, skip, rest, k)
  BY <1>5, LoopSeal DEF AtCopy, Looping
<1> QED
  BY <1>1, <1>2, <1>3, <1>4, <1>5

-----------------------------------------------------------------------------
(* The modes of the flash, and erases.                                     *)

LEMMA ModesOK ==
  /\ \A fl, r : AtRest(fl, r) => FlashOK(fl)
  /\ \A fl, c, r : Interrupted(fl, c, r) => FlashOK(fl)
  /\ \A fl, c : Replaced(fl, c) => FlashOK(fl)
BY FlashAtRest, FlashCompacting, FlashCompacted DEF AtRest, Interrupted, Replaced

LEMMA SealedAfter ==
  ASSUME NEW fl, NEW new, NEW p, Sealed(fl), Others(fl, new, p),
         new[p].items \in {<<>>, fl[p].items}
  PROVE  Sealed(new)
<1>1. SUFFICES ASSUME NEW q \in Pages, NEW k \in DOMAIN new[q].items,
                      new[q].items[k].stat = "xfer"
               PROVE  new[q].items[k].val # Blank
  BY DEF Sealed
<1>2. new[q].items = fl[q].items
  BY <1>1, EmptySeq DEF Others
<1> QED
  BY <1>1, <1>2 DEF Sealed

LEMMA TornKeeps ==
  ASSUME NEW fl \in Flashes, NEW new \in Flashes, NEW p \in Pages, Erasable(fl, p),
         Others(fl, new, p), ~ new[p].inUse, new[p].items \in {<<>>, fl[p].items}
  PROVE  FlashOK(new) /\ SameValues(fl, new)
<1>1. FlashOK(fl) /\ Sealed(fl) /\ OneOfAKind(fl)
  BY DEF Erasable, FlashOK
<1>2. Sealed(new)
  BY <1>1, SealedAfter
<1>3. CASE Spare(fl, p)
  <2>1. ~ fl[p].inUse
    BY <1>3 DEF Spare
  <2>2. SameCopies(fl, new) /\ OnlyDrops(fl, new) /\ Spare(new, p)
    BY <1>3, <2>1, Hidden
  <2>3. OneOfAKind(new) /\ SameValues(fl, new)
    BY <1>1, <2>2, OnlyDropsKeep
  <2>4. ~ AllUsed(fl) /\ ~ AllUsed(new)
    BY <2>1 DEF AllUsed
  <2>5. Single(fl) => Single(new)
    BY <2>2, SameCopiesKeep
  <2>6. \A q \in Pages : new[q].inUse => fl[q].inUse /\ new[q].xfer = fl[q].xfer
    BY DEF Others
  <2>7. \A q, c \in Pages : q # c /\ ~ new[q].inUse => new[c].inUse
    BY <2>2 DEF Spare
  <2>8. FlashOK(new)
    BY <1>1, <1>2, <2>3, <2>4, <2>5, <2>6, <2>7 DEF FlashOK
  <2> QED
    BY <2>3, <2>8
<1>4. CASE Replaced(fl, p)
  BY <1>4, SupersededGoes, <1>2, FlashAtRest DEF Replaced
<1> QED
  BY <1>3, <1>4 DEF Erasable

\* The page that has been replaced is erased.
LEMMA ErasesReplaced ==
  ASSUME NEW fl \in Flashes, NEW new \in Flashes, NEW c \in Pages, Replaced(fl, c),
         Erases(fl, new, c)
  PROVE  /\ AtRest(new, c) /\ SameValues(fl, new)
         /\ \A p, k, id : Copy(new, p, k, id) <=> Copy(fl, p, k, id) /\ p # c
         /\ \A p, k, id : Copy(new, p, k, id) => new[p].items[k] = fl[p].items[k]
         /\ NoBlanks(fl) => NoBlanks(new)
BY SealedAfter, SupersededGoes DEF Erases, Erased, Replaced, AtRest

\* The reserve page is erased.
LEMMA ErasesSpare ==
  ASSUME NEW fl \in Flashes, NEW new \in Flashes, NEW r \in Pages, Spare(fl, r),
         Sealed(fl), OneOfAKind(fl), Erases(fl, new, r)
  PROVE  /\ Spare(new, r) /\ SameValues(fl, new) /\ OneOfAKind(new) /\ Sealed(new)
         /\ ~ new[r].xfer /\ new[r].items = <<>>
         /\ Single(fl) => Single(new)
         /\ Unmarked(fl) => Unmarked(new)
         /\ \A c : OnlyMarked(fl, c) => OnlyMarked(new, c)
BY Hidden, SealedAfter, OnlyDropsKeep, SameCopiesKeep DEF Erases, Erased, Spare

-----------------------------------------------------------------------------
(* Recovering from an interrupted compaction.                              *)

LEMMA CleanedUpTyped ==
  \A c, r \in Pages : /\ CleanedUp(c, r) \in Seq(Ops) /\ Op("erase", c) \in Seq(Ops)
                      /\ Op("erase", c) \o <<>> = Op("erase", c)
BY OpsTyped, Assoc DEF CleanedUp

\* Nothing has been copied yet.
LEMMA NoneCarried ==
  ASSUME NEW fl \in Flashes, NEW c, NEW r, NEW skip, Len(fl[r].items) = 0
  PROVE  Carried(fl, c, 0, r, Len(fl[r].items), skip)
BY DEF Carried

LEMMA LoopStarts ==
  ASSUME NEW fl \in Flashes, NEW c, NEW r, NEW skip, NEW rest, Compacting(fl, c, r),
         fl[r].items = <<>>
  PROVE  Looping(fl, Copies(c, 1, r, skip) \o rest, c, r, skip, rest)
<1>1. Len(fl[c].items) \in Nat /\ Len(fl[r].items) = 0
  BY CompactingIs
<1>2. Carried(fl, c, 1 - 1, r, Len(fl[r].items), skip)
  BY <1>1, NoneCarried
<1>3. 1 \in 1 .. Len(fl[c].items) + 1
  BY <1>1
<1>4. AtCopy(fl, Copies(c, 1, r, skip) \o rest, c, r, skip, rest, 1)
  BY <1>2, <1>3 DEF AtCopy, Onward
<1> QED
  BY <1>3, <1>4 DEF Looping

LEMMA RecoverSteps ==
  ASSUME NvInv, NvInv', FlashFails = FALSE, Flash, Recovering(flash, todo, pgRes)
  PROVE  SameCall /\ SameValues(flash, flash') /\ Resumed(flash', todo', pgRes')
<1>1. flash \in Flashes /\ flash' \in Flashes
  BY FlashTypedNext
<1>2. todo # <<>>
  BY Carries
<1>3. CASE Recovered(flash, todo, pgRes)
  BY <1>2, <1>3 DEF Recovered
<1>4. CASE Clearing(flash, todo, pgRes)
  <2>1. PICK r \in Pages : r = pgRes
    BY <1>4 DEF Clearing, AtRest, Spare
  <2>2. AtRest(flash, r) /\ todo = Op("erase", r) \o <<>> /\ <<>> \in Seq(Ops)
    BY <1>4, <2>1, CleanedUpTyped, OpsTyped DEF Clearing
  <2>3. Erases(flash, flash', r) /\ todo' = <<>> /\ SameCall /\ pgRes' = r
    BY <2>2, DoesErase DEF SameCall
  <2>4. AtRest(flash', r) /\ SameValues(flash, flash')
    BY <1>1, <2>2, <2>3, ErasesSpare DEF AtRest
  <2> QED
    BY <2>3, <2>4 DEF Resumed, Recovered
<1>5. CASE Dropping(flash, todo)
  <2>1. PICK c \in Pages : todo = Op("erase", c) /\ Replaced(flash, c)
    BY <1>5 DEF Dropping
  <2>2. todo = Op("erase", c) \o <<>> /\ <<>> \in Seq(Ops)
    BY <2>1, CleanedUpTyped, OpsTyped
  <2>3. Erases(flash, flash', c) /\ todo' = <<>> /\ SameCall /\ pgRes' = c
    BY <2>2, DoesErase DEF SameCall
  <2>4. AtRest(flash', c) /\ SameValues(flash, flash')
    BY <1>1, <2>1, <2>3, ErasesReplaced
  <2> QED
    BY <2>3, <2>4 DEF Resumed, Recovered
<1>6. CASE Restarting(flash, todo, pgRes)
  <2>1. PICK c \in Pages :
          /\ Interrupted(flash, c, pgRes)
          /\ todo = Op("erase", pgRes) \o (Copies(c, 1, pgRes, Nothing) \o CleanedUp(c, pgRes))
    BY <1>6 DEF Restarting
  <2>2. PICK r \in Pages : r = pgRes
    BY <2>1 DEF Interrupted, Spare
  <2>3. PICK rest \in Seq(Ops) : rest = CleanedUp(c, r)
    BY CleanedUpTyped
  <2>4. Copies(c, 1, r, Nothing) \o rest \in Seq(Ops)
    BY OpsTyped, Assoc
  <2>5. todo = Op("erase", r) \o (Copies(c, 1, r, Nothing) \o rest)
    BY <2>1, <2>2, <2>3
  <2>6. /\ Erases(flash, flash', r) /\ todo' = Copies(c, 1, r, Nothing) \o rest
        /\ SameCall /\ pgRes' = r
    BY <2>4, <2>5, DoesErase DEF SameCall
  <2>7. Interrupted(flash, c, r) /\ OneOfAKind(flash)
    BY <2>1, <2>2, SingleIsOne DEF Interrupted
  <2>8. /\ Spare(flash', r) /\ SameValues(flash, flash') /\ Sealed(flash')
        /\ ~ flash'[r].xfer /\ flash'[r].items = <<>>
        /\ Single(flash') /\ OnlyMarked(flash', c)
    BY <1>1, <2>6, <2>7, ErasesSpare DEF Interrupted
  <2>9. flash'[c].inUse
    BY <2>6, <2>7, <2>8 DEF Erases, Others, Interrupted, Spare
  <2>10. Compacting(flash', c, r)
    BY <2>8, <2>9 DEF Compacting
  <2>11. Looping(flash', todo', c, r, Nothing, rest)
    BY <1>1, <2>6, <2>8, <2>10, LoopStarts
  <2>12. Repeating(flash', todo', pgRes')
    BY <2>3, <2>6, <2>10, <2>11 DEF Repeating
  <2> QED
    BY <2>6, <2>8, <2>12 DEF Resumed
<1>7. CASE Repeating(flash, todo, pgRes)
  <2>1. PICK c \in Pages : /\ Compacting(flash, c, pgRes)
                           /\ Looping(flash, todo, c, pgRes, Nothing, CleanedUp(c, pgRes))
    BY <1>7 DEF Repeating
  <2>2. PICK r \in Pages : r = pgRes
    BY <2>1 DEF Compacting, Spare
  <2>3. PICK rest \in Seq(Ops) : rest = CleanedUp(c, r)
    BY CleanedUpTyped
  <2>4. Compacting(flash, c, r) /\ Looping(flash, todo, c, r, Nothing, rest)
    BY <2>1, <2>2, <2>3
  <2>5. /\ Ongoing /\ LoopKeeps(flash, flash', c, r, Nothing)
        /\ \/ Looping(flash', todo', c, r, Nothing, rest)
           \/ Looped(flash', todo', c, r, Nothing, rest)
    BY <2>4, LoopStep
  <2>6. Repeating(flash', todo', pgRes') \/ Repeated(flash', todo', pgRes')
    BY <2>2, <2>3, <2>5 DEF Repeating, Repeated, LoopKeeps, Ongoing
  <2> QED
    BY <2>5, <2>6 DEF Resumed, LoopKeeps, Ongoing, SameCall
<1>8. CASE Repeated(flash, todo, pgRes)
  <2>1. PICK c \in Pages : /\ Compacting(flash, c, pgRes)
                           /\ Looped(flash, todo, c, pgRes, Nothing, CleanedUp(c, pgRes))
    BY <1>8 DEF Repeated
  <2>2. PICK r \in Pages : r = pgRes
    BY <2>1 DEF Compacting, Spare
  <2>3. /\ Compacting(flash, c, r) /\ todo = Op("use", r) \o Op("erase", c)
        /\ Carried(flash, c, Len(flash[c].items), r, Len(flash[r].items), Nothing)
    BY <2>1, <2>2 DEF Looped, CleanedUp
  <2>4. Uses(flash, flash', r) /\ todo' = Op("erase", c) /\ Ongoing
    BY <2>3, CleanedUpTyped, DoesUse
  <2>5. Filled(flash, c, r, Nothing, Nothing)
    BY <1>1, <2>3, RecoveryFilled DEF Compacting
  <2>6. PICK src : \A k \in DOMAIN flash[r].items : <<r, k>> # src
    <3>1. r # c
      BY <1>1, <2>3, CompactingIs
    <3>2. \A k \in DOMAIN flash[r].items : <<r, k>> # <<c, 1>>
      BY <3>1
    <3> QED
      BY <3>2
  <2>7. Nothing \notin Ids /\ Nothing \in Ids \cup {Nothing}
    BY ItemsAssumption
  <2>8. /\ AllUsed(flash') /\ OnlyMarked(flash', c) /\ Superseded(flash', c)
        /\ OneOfAKind(flash') /\ Sealed(flash')
        /\ \A x \in Ids : Value(flash', x) = IF x = Nothing THEN Nothing ELSE Value(flash, x)
    BY <2>3, <1>1, <2>4, <2>5, <2>6, <2>7, UseCounts DEF Compacting, Counts
  <2>9. SameValues(flash, flash')
    BY <2>7, <2>8 DEF SameValues
  <2>10. Dropping(flash', todo')
    BY <2>4, <2>8 DEF Dropping, Replaced
  <2> QED
    BY <2>4, <2>9, <2>10 DEF Resumed, Ongoing, SameCall
<1> QED
  BY <1>3, <1>4, <1>5, <1>6, <1>7, <1>8 DEF Recovering, Resumed

-----------------------------------------------------------------------------
(* What a call cl still has to do when page r is the reserve page.  The    *)
(* new item goes to page q.                                                *)

LEMMA CallIs ==
  ASSUME NEW cl \in Calls
  PROVE  /\ cl.src # Nothing => /\ cl.src[1] \in Pages /\ cl.src[2] \in Nat \ {0}
                                /\ cl.src = <<cl.src[1], cl.src[2]>>
         /\ cl.com \in Pages \cup {Nothing} /\ Nothing \notin Pages
         /\ \A p \in Pages, k \in Nat \ {0} : <<p, k>> # Nothing
BY ItemsAssumption, PlacesAssumption DEF Calls

LEMMA CallTyped ==
  ASSUME NEW cl \in Calls, cl.id \in Ids, cl.val \in Values, NEW q \in Pages, NEW r \in Pages,
         NEW fl
  PROVE  /\ Zeroing(cl) \in Seq(Ops) /\ Ending(r, cl) \in Seq(Ops)
         /\ Marking(fl, cl) \in Seq(Ops) /\ Data(q, r, cl) \in Seq(Ops)
         /\ MarkAndData(fl, q, r, cl) \in Seq(Ops) /\ NewItem(fl, q, r, cl) \in Seq(Ops)
<1>1. \A a, b \in Seq(Ops) : a \o b \in Seq(Ops)
  BY Assoc
<1>2. \A place : ItemOp("zero", place) = ItemOp("zero", <<place[1], place[2]>>)
                 /\ ItemOp("mark", place) = ItemOp("mark", <<place[1], place[2]>>)
  BY DEF ItemOp
<1>3. Zeroing(cl) \in Seq(Ops) /\ Marking(fl, cl) \in Seq(Ops)
  BY <1>2, CallIs, OpsTyped DEF Zeroing, Marking
<1>4. Ending(r, cl) \in Seq(Ops)
  BY <1>3, CallIs, OpsTyped, <1>1 DEF Ending
<1>5. Data(q, r, cl) \in Seq(Ops)
  BY OpsTyped, <1>1, <1>4 DEF Data
<1>6. MarkAndData(fl, q, r, cl) \in Seq(Ops)
  BY <1>1, <1>3, <1>5 DEF MarkAndData
<1>7. NewItem(fl, q, r, cl) \in Seq(Ops)
  BY OpsTyped, <1>1, <1>6 DEF NewItem
<1> QED
  BY <1>3, <1>4, <1>5, <1>6, <1>7

\* The item has no copy but the one the call has found.
OnlySource(fl, cl) == \A p, k : Copy(fl, p, k, cl.id) => <<p, k>> = cl.src

LEMMA SourceIs ==
  ASSUME NEW fl \in Flashes, NEW cl \in Calls, cl.id \in Ids, Single(fl), SourceOK(fl, cl)
  PROVE  OnlySource(fl, cl)
BY CopyIs, CallIs DEF OnlySource, SourceOK, CopyAt, Single, SingleFor

\* The copies stay, so the call still finds its item.
LEMMA SourceStays ==
  ASSUME NEW fl, NEW new, NEW cl, SourceOK(fl, cl),
         \A p, k : Copy(new, p, k, cl.id) <=> Copy(fl, p, k, cl.id)
  PROVE  SourceOK(new, cl)
BY DEF SourceOK, CopyAt, SomeCopy, Copy

-----------------------------------------------------------------------------
(* The steps of a call that does not compact a page.                       *)

\* The copies keep their places when a header is written.
LEMMA AddsStay ==
  ASSUME NEW fl \in Flashes, NEW new \in Flashes, NEW q, NEW name, Adds(fl, new, q, name)
  PROVE  /\ \A p, k, id : Copy(fl, p, k, id) => new[p].items[k] = fl[p].items[k]
         /\ \A cl : SourceOK(fl, cl) => Marking(new, cl) = Marking(fl, cl)
         /\ BlankLast(new, q, name)
         /\ NoBlanks(fl) => OnlyBlank(new, q)
<1>1. Others(fl, new, q) /\ q \in Pages
  BY DEF Adds, Others
<1>2. /\ DOMAIN fl[q].items = 1 .. Len(fl[q].items) /\ Len(fl[q].items) \in Nat
  BY <1>1, SlotTyped
<1>3. \A p, k, id : Copy(fl, p, k, id) => new[p].items[k] = fl[p].items[k]
  BY <1>1, <1>2 DEF Adds, Others, Copy
<1>4. ASSUME NEW cl, SourceOK(fl, cl) PROVE Marking(new, cl) = Marking(fl, cl)
  <2>1. CASE cl.src = Nothing
    BY <2>1 DEF Marking
  <2>2. CASE cl.src # Nothing
    BY <1>4, <2>2, <1>3 DEF SourceOK, CopyAt, Stat, Marking
  <2> QED
    BY <2>1, <2>2
<1>5. BlankLast(new, q, name)
  BY <1>2 DEF Adds, BlankLast
<1>6. ASSUME NoBlanks(fl) PROVE OnlyBlank(new, q)
  <2>1. SUFFICES ASSUME NEW p \in Pages, NEW k \in DOMAIN new[p].items, new[p].inUse,
                        new[p].items[k].id # Nothing, new[p].items[k].val = Blank
                 PROVE  p = q /\ k = Len(new[q].items)
    BY DEF OnlyBlank
  <2>2. CASE p # q
    BY <1>1, <1>6, <2>1, <2>2 DEF Others, NoBlanks
  <2>3. CASE p = q /\ k \in DOMAIN fl[q].items
    BY <1>1, <1>2, <1>6, <2>1, <2>3 DEF Adds, SameHeader, NoBlanks
  <2>4. CASE p = q /\ k \notin DOMAIN fl[q].items
    BY <1>1, <2>1, <2>4, SlotTyped, <1>2 DEF Adds
  <2> QED
    BY <2>2, <2>3, <2>4
<1> QED
  BY <1>3, <1>4, <1>5, <1>6

LEMMA AddingSteps ==
  ASSUME NvInv, NvInv', FlashFails = FALSE, Flash, call.id \in Ids, call.val \in Values,
         Adding(flash, todo, pgRes, call)
  PROVE  Ongoing /\ SameValues(flash, flash') /\ Added(flash', todo', pgRes, call)
<1>1. flash \in Flashes /\ flash' \in Flashes /\ call \in Calls
  BY FlashTypedNext DEF NvInv, Types
<1>2. PICK r \in Pages : r = pgRes
  BY DEF Adding, Settled, AtRest, Spare
<1>3. PICK q \in Pages \ {r} : todo = NewItem(flash, q, r, call)
  BY <1>2 DEF Adding
<1>4. /\ call.com = Nothing /\ Settled(flash, r) /\ SourceOK(flash, call)
  BY <1>2 DEF Adding
<1>5. MarkAndData(flash, q, r, call) \in Seq(Ops)
  BY <1>1, CallTyped
<1>6. Adds(flash, flash', q, call.id) /\ todo' = MarkAndData(flash, q, r, call) /\ Ongoing
  BY <1>3, <1>5, DoesHead DEF NewItem
<1>7. /\ SameCopies(flash, flash') /\ OnlyDrops(flash, flash') /\ Sealed(flash')
      /\ \A p, j, id : Copy(flash', p, j, id) <=> Copy(flash, p, j, id)
  BY <1>1, <1>4, <1>6, AddsCopies DEF Settled, AtRest
<1>8. Single(flash') /\ SameValues(flash, flash') /\ OneOfAKind(flash')
  BY <1>1, <1>4, <1>7, SameCopiesKeep, SingleIsOne DEF Settled
<1>9. Spare(flash', r) /\ Unmarked(flash')
  BY <1>6, <1>4, HeadersStay DEF Adds, Settled, AtRest
<1>10. SourceOK(flash', call)
  BY <1>4, <1>7, SourceStays
<1>11. /\ Marking(flash', call) = Marking(flash, call)
       /\ BlankLast(flash', q, call.id) /\ OnlyBlank(flash', q)
  BY <1>1, <1>4, <1>6, AddsStay DEF Settled
<1>12. todo' = MarkAndData(flash', q, r, call)
  BY <1>6, <1>11 DEF MarkAndData
<1> QED
  BY <1>2, <1>4, <1>6, <1>7, <1>8, <1>9, <1>10, <1>11, <1>12 DEF Added, AtRest

\* The old item is marked, if it was not marked already.
LEMMA MarksSource ==
  ASSUME NvInv, NvInv', FlashFails = FALSE, Flash, call.id \in Ids, call.val \in Values,
         NEW q \in Pages, NEW r \in Pages, todo = MarkAndData(flash, q, r, call),
         SourceOK(flash, call), Marking(flash, call) # <<>>, Single(flash), Sealed(flash)
  PROVE  /\ Ongoing /\ todo' = MarkAndData(flash', q, r, call)
         /\ call.src # Nothing /\ Copy(flash, call.src[1], call.src[2], call.id)
         /\ Marks(flash, flash', call.src[1], call.src[2])
         /\ SourceOK(flash', call) /\ Single(flash') /\ Sealed(flash')
         /\ SameValues(flash, flash') /\ (NoBlanks(flash) => NoBlanks(flash'))
<1>1. flash \in Flashes /\ flash' \in Flashes /\ call \in Calls
  BY FlashTypedNext DEF NvInv, Types
<1>2. call.src # Nothing /\ Stat(flash, call.src) = "live"
      /\ Marking(flash, call) = ItemOp("mark", call.src)
  BY DEF Marking
<1>3. PICK p, k : p = call.src[1] /\ k = call.src[2]
  OBVIOUS
<1>4. /\ p \in Pages /\ k \in DOMAIN flash[p].items /\ Copy(flash, p, k, call.id)
      /\ flash[p].items[k].val # Blank
  BY <1>2, <1>3 DEF SourceOK, CopyAt, Copy
<1>5. Data(q, r, call) \in Seq(Ops)
  BY <1>1, CallTyped
<1>6. todo = ItemOp("mark", <<p, k>>) \o Data(q, r, call)
  BY <1>2, <1>3 DEF MarkAndData, ItemOp
<1>7. Marks(flash, flash', p, k) /\ todo' = Data(q, r, call) /\ Ongoing
  BY <1>4, <1>5, <1>6, DoesMark
<1>8. Marking(flash', call) = <<>>
  <2>1. flash'[p].items[k].stat = "xfer"
    BY <1>4, <1>7 DEF Marks
  <2> QED
    BY <1>3, <2>1 DEF Marking, Stat
<1>9. todo' = MarkAndData(flash', q, r, call)
  BY <1>5, <1>7, <1>8, Assoc DEF MarkAndData
<1>10. /\ SameCopies(flash, flash')
       /\ \A a, j, id : Copy(flash', a, j, id) <=> Copy(flash, a, j, id)
       /\ NoBlanks(flash) => NoBlanks(flash')
       /\ Sealed(flash')
  BY <1>4, <1>7, MarksCopies
<1>11. Single(flash') /\ SameValues(flash, flash')
  BY <1>1, <1>10, SameCopiesKeep
<1>12. SourceOK(flash', call)
  BY <1>10, SourceStays
<1> QED
  BY <1>2, <1>3, <1>4, <1>7, <1>9, <1>10, <1>11, <1>12

\* Otherwise the data is written.
LEMMA SealsData ==
  ASSUME NvInv, NvInv', FlashFails = FALSE, Flash, call.id \in Ids, call.val \in Values,
         NEW q \in Pages, NEW r \in Pages, todo = MarkAndData(flash, q, r, call),
         SourceOK(flash, call), Marking(flash, call) = <<>>, flash[q].items # <<>>
  PROVE  /\ Ongoing /\ todo' = Ending(r, call) /\ Marked(flash, call)
         /\ Fills(flash, flash', q, call.val)
<1>1. flash \in Flashes /\ flash' \in Flashes /\ call \in Calls
  BY FlashTypedNext DEF NvInv, Types
<1>2. Data(q, r, call) \in Seq(Ops) /\ Ending(r, call) \in Seq(Ops)
  BY <1>1, CallTyped
<1>3. todo = Seal(q, call.val, FALSE) \o Ending(r, call)
  BY <1>2, Assoc DEF MarkAndData, Data
<1>4. /\ Fills(flash, flash', q, call.val) /\ todo' = Ending(r, call) /\ Ongoing
  BY <1>2, <1>3, DoesSeal
<1>5. Marked(flash, call)
  <2>1. SUFFICES ASSUME call.src # Nothing PROVE Stat(flash, call.src) = "xfer"
    BY DEF Marked
  <2>2. Stat(flash, call.src) # "live"
    BY <2>1 DEF ItemOp, Marking
  <2>3. call.src[1] \in Pages /\ call.src[2] \in DOMAIN flash[call.src[1]].items
    BY <2>1 DEF SourceOK, CopyAt, Copy
  <2> QED
    BY <1>1, <2>2, <2>3, SlotTyped DEF Stat
<1> QED
  BY <1>4, <1>5

\* A mark leaves items without data alone.
LEMMA MarksBlank ==
  ASSUME NEW fl \in Flashes, NEW new \in Flashes, NEW p, NEW k, Marks(fl, new, p, k),
         fl[p].items[k].val # Blank
  PROVE  /\ \A q \in Pages : Len(new[q].items) = Len(fl[q].items)
         /\ \A q \in Pages : \A id : BlankLast(fl, q, id) => BlankLast(new, q, id)
         /\ \A q \in Pages : OnlyBlank(fl, q) => OnlyBlank(new, q)
<1>1. Others(fl, new, p) /\ p \in Pages /\ SameHeader(fl, new, p) /\ SameSlots(fl, new, p)
  BY DEF Marks, Others
<1>2. ASSUME NEW q \in Pages
      PROVE  /\ Len(new[q].items) = Len(fl[q].items) /\ Len(fl[q].items) \in Nat
             /\ DOMAIN new[q].items = DOMAIN fl[q].items
             /\ DOMAIN fl[q].items = 1 .. Len(fl[q].items)
             /\ new[q].inUse = fl[q].inUse
    BY <1>1, SlotTyped DEF Others, SameSlots, SameHeader
<1>3. ASSUME NEW q \in Pages, NEW j \in DOMAIN fl[q].items
      PROVE  /\ new[q].items[j].id = fl[q].items[j].id
             /\ new[q].items[j].val = fl[q].items[j].val
             /\ fl[q].items[j].val = Blank => new[q].items[j].stat = fl[q].items[j].stat
    BY <1>1 DEF Marks, Others
<1>4. ASSUME NEW q \in Pages, NEW id, BlankLast(fl, q, id) PROVE BlankLast(new, q, id)
  BY <1>2, <1>4, <1>3 DEF BlankLast
<1>5. ASSUME NEW q \in Pages, OnlyBlank(fl, q) PROVE OnlyBlank(new, q)
  BY <1>2, <1>3, <1>5 DEF OnlyBlank
<1> QED
  BY <1>2, <1>4, <1>5

\* The new item counts, and nothing is left of the old one.
LEMMA NewIsValue ==
  ASSUME NEW fl \in Flashes, NEW c, NEW src, NEW id \in Ids, NEW v, OneOfAKind(fl),
         NewThere(fl, c, src, id, v)
  PROVE  Value(fl, id) = v /\ SomeLive(fl, id)
<1>1. PICK p \in Pages : \E k \in DOMAIN fl[p].items :
        Live(fl, p, k, id) /\ fl[p].items[k].val = v
  BY DEF NewThere
<1>2. PICK k \in DOMAIN fl[p].items : Live(fl, p, k, id) /\ fl[p].items[k].val = v
  BY <1>1
<1>3. Holds(fl, id, v) /\ OneFor(fl, id)
  BY <1>2, HoldsBy DEF OneOfAKind
<1> QED
  BY <1>2, <1>3, HoldsOne DEF SomeLive

LEMMA AddedMarks ==
  ASSUME NvInv, NvInv', FlashFails = FALSE, Flash, call.id \in Ids, call.val \in Values,
         Added(flash, todo, pgRes, call), Marking(flash, call) # <<>>
  PROVE  Ongoing /\ SameValues(flash, flash') /\ Added(flash', todo', pgRes, call)
<1>1. flash \in Flashes /\ flash' \in Flashes /\ call \in Calls
  BY FlashTypedNext DEF NvInv, Types
<1>2. PICK r \in Pages : r = pgRes
  BY DEF Added, AtRest, Spare
<1>3. PICK q \in Pages \ {r} :
        /\ todo = MarkAndData(flash, q, r, call) /\ BlankLast(flash, q, call.id)
        /\ OnlyBlank(flash, q)
  BY <1>2 DEF Added
<1>4. /\ call.com = Nothing /\ AtRest(flash, r) /\ SourceOK(flash, call)
      /\ Single(flash) /\ Sealed(flash) /\ Spare(flash, r) /\ Unmarked(flash)
  BY <1>2 DEF Added, AtRest
<1>5. PICK p, k : p = call.src[1] /\ k = call.src[2]
  OBVIOUS
<1>6. /\ Ongoing /\ todo' = MarkAndData(flash', q, r, call)
      /\ Copy(flash, p, k, call.id) /\ Marks(flash, flash', p, k)
      /\ SourceOK(flash', call) /\ Single(flash') /\ Sealed(flash')
      /\ SameValues(flash, flash')
  BY <1>3, <1>4, <1>5, MarksSource
<1>7. Spare(flash', r) /\ Unmarked(flash')
  BY <1>6, <1>4, HeadersStay DEF Marks
<1>8. BlankLast(flash', q, call.id) /\ OnlyBlank(flash', q)
  BY <1>6, <1>1, <1>3, MarksBlank DEF Copy
<1> QED
  BY <1>2, <1>4, <1>6, <1>7, <1>8, SingleIsOne DEF Added, AtRest

LEMMA AddedSeals ==
  ASSUME NvInv, NvInv', FlashFails = FALSE, Flash, call.id \in Ids, call.val \in Values,
         Added(flash, todo, pgRes, call), Marking(flash, call) = <<>>
  PROVE  /\ Ongoing /\ Commits(flash, flash', call.id, call.val)
         /\ Done(flash', todo', pgRes, call) \/ OldLeft(flash', todo', pgRes, call)
<1>1. flash \in Flashes /\ flash' \in Flashes /\ call \in Calls /\ call.val # Blank
  BY FlashTypedNext, ItemsAssumption DEF NvInv, Types
<1>2. PICK r \in Pages : r = pgRes
  BY DEF Added, AtRest, Spare
<1>3. PICK q \in Pages \ {r} :
        /\ todo = MarkAndData(flash, q, r, call) /\ BlankLast(flash, q, call.id)
        /\ OnlyBlank(flash, q)
  BY <1>2 DEF Added
<1>4. /\ call.com = Nothing /\ SourceOK(flash, call)
      /\ Single(flash) /\ Sealed(flash) /\ Spare(flash, r) /\ Unmarked(flash)
  BY <1>2 DEF Added, AtRest
<1>5. PICK n : n = Len(flash[q].items)
  OBVIOUS
<1>6. /\ n > 0 /\ flash[q].items[n].id = call.id /\ flash[q].items[n].stat = "live"
      /\ flash[q].items[n].val = Blank /\ n \in Nat /\ flash[q].items # <<>>
      /\ flash[q].inUse
  BY <1>1, <1>3, <1>4, <1>5, SlotTyped DEF BlankLast, Spare
<1>7. /\ Ongoing /\ todo' = Ending(r, call) /\ Marked(flash, call)
      /\ Fills(flash, flash', q, call.val)
  BY <1>3, <1>4, <1>6, SealsData
<1>8. PICK src : src = call.src
  OBVIOUS
<1>9. \A p, k : Copy(flash, p, k, call.id) => <<p, k>> = src
  <2>1. OnlySource(flash, call)
    BY <1>1, <1>4, SourceIs
  <2> QED
    BY <1>8, <2>1 DEF OnlySource
<1>10. \A p, k : Copy(flash, p, k, call.id) =>
         <<p, k>> = src /\ flash[p].items[k].stat = "xfer"
  BY <1>4, <1>8, <1>9, CopyIs, <1>7 DEF SourceOK, Marked, Stat
<1>11. <<q, n>> # src
  <2>1. CASE call.src = Nothing
    BY <1>6, <1>1, <1>8, <2>1, CallIs
  <2>2. CASE call.src # Nothing
    BY <1>4, <2>2, <1>6, <1>8 DEF SourceOK, CopyAt, Copy
  <2> QED
    BY <2>1, <2>2
<1>12. /\ Commits(flash, flash', call.id, call.val) /\ OneOfAKind(flash')
       /\ Sole(flash', Nothing, src) /\ NewThere(flash', Nothing, src, call.id, call.val)
       /\ \A p, k, x : Copy(flash, p, k, x) =>
            Copy(flash', p, k, x) /\ flash'[p].items[k] = flash[p].items[k]
       /\ Sealed(flash')
  BY <1>1, <1>4, <1>5, <1>6, <1>7, <1>10, <1>11, SealCounts
<1>13. Spare(flash', r) /\ Unmarked(flash')
  BY <1>7, <1>4, HeadersStay DEF Fills
<1>14. NoBlanks(flash')
  <2>1. SUFFICES ASSUME NEW p \in Pages, NEW k \in DOMAIN flash'[p].items, flash'[p].inUse,
                        flash'[p].items[k].id # Nothing, flash'[p].items[k].val = Blank
                 PROVE  FALSE
    BY DEF NoBlanks
  <2>2. CASE p = q
    BY <1>1, <1>3, <1>5, <1>7, <2>1, <2>2 DEF Fills, SameSlots, SameHeader, OnlyBlank
  <2>3. CASE p # q
    BY <1>3, <1>7, <2>1, <2>3 DEF Fills, Others, OnlyBlank
  <2> QED
    BY <2>2, <2>3
<1>15. todo' = Zeroing(call)
  BY <1>4, <1>7 DEF Ending
<1>16. CASE call.src = Nothing
  <2>1. todo' = <<>>
    BY <1>15, <1>16 DEF Zeroing
  <2>2. Single(flash')
    <3>1. ASSUME NEW id \in Ids, NEW p \in Pages, NEW a \in Pages,
                 NEW j \in DOMAIN flash'[p].items, NEW k \in DOMAIN flash'[a].items,
                 Copy(flash', p, j, id), Copy(flash', a, k, id)
          PROVE  p = a /\ j = k
      <4>1. j \in Nat \ {0} /\ k \in Nat \ {0}
        BY <1>1, SlotTyped
      <4>2. <<p, j>> # src /\ <<a, k>> # src /\ p # Nothing /\ a # Nothing
        BY <1>1, <1>8, <1>16, <4>1, CallIs
      <4> QED
        BY <1>12, <3>1, <4>2 DEF Sole
    <3> QED
      BY <3>1 DEF Single, SingleFor
  <2>3. Value(flash', call.id) = call.val
    BY <1>12 DEF Commits
  <2> QED
    BY <1>2, <1>7, <1>12, <1>13, <1>14, <2>1, <2>2, <2>3 DEF Done, Settled, AtRest
<1>17. CASE call.src # Nothing
  <2>1. todo' = ItemOp("zero", call.src)
    BY <1>1, <1>4, <1>15, <1>17, CallIs DEF Zeroing
  <2>2. PICK p, k : p = call.src[1] /\ k = call.src[2]
    OBVIOUS
  <2>3. Copy(flash, p, k, call.id) /\ flash[p].items[k].stat = "xfer"
    BY <1>4, <1>7, <1>17, <2>2 DEF SourceOK, CopyAt, Marked, Stat
  <2>4. CopyAt(flash', call.src, call.id) /\ Stat(flash', call.src) = "xfer"
    BY <1>12, <2>2, <2>3 DEF CopyAt, Stat
  <2> QED
    BY <1>2, <1>7, <1>8, <1>12, <1>13, <1>14, <1>17, <2>1, <2>4 DEF OldLeft, AtRest
<1> QED
  BY <1>16, <1>17

-----------------------------------------------------------------------------
(* The steps of a call that compacts a page.                               *)

\* The mark of the page.
LEMMA MakingRoomSteps ==
  ASSUME NvInv, NvInv', FlashFails = FALSE, Flash, call.id \in Ids, call.val \in Values,
         MakingRoom(flash, todo, pgRes, call)
  PROVE  Ongoing /\ SameValues(flash, flash') /\ Moving(flash', todo', pgRes, call)
<1>1. flash \in Flashes /\ flash' \in Flashes /\ call \in Calls
  BY FlashTypedNext DEF NvInv, Types
<1>2. PICK r \in Pages : r = pgRes
  BY DEF MakingRoom, Settled, AtRest, Spare
<1>3. PICK c \in Pages \ {r} : c = call.com
  BY <1>2 DEF MakingRoom
<1>4. /\ Spare(flash, r) /\ Unmarked(flash) /\ Single(flash) /\ Sealed(flash)
      /\ NoBlanks(flash) /\ SourceOK(flash, call)
      /\ flash[r].items = <<>> /\ ~ flash[r].xfer /\ flash[c].inUse
  BY <1>2, <1>3 DEF MakingRoom, Settled, AtRest, Spare
<1>5. PICK rest \in Seq(Ops) : rest = NewItem(flash, r, r, call)
  BY <1>1, CallTyped
<1>6. PICK on \in Seq(Ops) : on = Copies(c, 1, r, call.id) \o rest
  <2>1. Copies(c, 1, r, call.id) \in Seq(Ops)
    BY OpsTyped
  <2>2. Copies(c, 1, r, call.id) \o rest \in Seq(Ops)
    BY <2>1, Assoc
  <2> QED
    BY <2>2
<1>7. todo = Op("xfer", c) \o on
  BY <1>2, <1>3, <1>5, <1>6 DEF MakingRoom
<1>8. MarksPage(flash, flash', c) /\ todo' = on /\ Ongoing
  BY <1>7, DoesXfer
<1>9. /\ flash'[r] = flash[r]
      /\ \A p \in Pages : flash'[p].items = flash[p].items /\ flash'[p].inUse = flash[p].inUse
      /\ \A p \in Pages : p # c => flash'[p].xfer = flash[p].xfer
      /\ flash'[c].xfer
  BY <1>2, <1>3, <1>8 DEF MarksPage, Others
<1>10. \A p, k, id : Copy(flash', p, k, id) <=> Copy(flash, p, k, id)
  BY <1>9 DEF Copy
<1>11. SameCopies(flash, flash')
  BY <1>9, <1>10 DEF SameCopies, SameFor, Copy
<1>12. Single(flash') /\ SameValues(flash, flash')
  BY <1>1, <1>4, <1>11, SameCopiesKeep
<1>13. Spare(flash', r) /\ OnlyMarked(flash', c) /\ Sealed(flash') /\ NoBlanks(flash')
  BY <1>4, <1>9 DEF Spare, OnlyMarked, Unmarked, Sealed, NoBlanks
<1>14. Compacting(flash', c, r)
  BY <1>4, <1>9, <1>12, <1>13 DEF Compacting
<1>15. Looping(flash', todo', c, r, call.id, rest)
  BY <1>1, <1>4, <1>9, <1>14, LoopStarts, <1>6, <1>8
<1>16. SourceOK(flash', call)
  BY <1>4, <1>10, SourceStays
<1>17. NewItem(flash', r, r, call) = NewItem(flash, r, r, call)
  <2>1. call.src # Nothing => Stat(flash', call.src) = Stat(flash, call.src)
    BY <1>1, <1>9, CallIs DEF Stat
  <2>2. Marking(flash', call) = Marking(flash, call)
    BY <2>1 DEF Marking
  <2> QED
    BY <2>2 DEF NewItem, MarkAndData
<1> QED
  BY <1>2, <1>3, <1>5, <1>8, <1>12, <1>13, <1>14, <1>15, <1>16, <1>17
     DEF Moving, Transferring

\* What a step of the loop leaves alone.
LEMMA MovingSteps ==
  ASSUME NvInv, NvInv', FlashFails = FALSE, Flash, call.id \in Ids, call.val \in Values,
         Moving(flash, todo, pgRes, call)
  PROVE  /\ Ongoing /\ SameValues(flash, flash')
         /\ Moving(flash', todo', pgRes, call) \/ Moved(flash', todo', pgRes, call)
<1>1. flash \in Flashes /\ flash' \in Flashes /\ call \in Calls
  BY FlashTypedNext DEF NvInv, Types
<1>2. PICK r \in Pages : r = pgRes
  BY DEF Moving, Transferring, Compacting, Spare
<1>3. PICK c \in Pages : c = call.com
  BY DEF Moving, Transferring
<1>4. PICK rest \in Seq(Ops) : rest = NewItem(flash, r, r, call)
  BY <1>1, CallTyped
<1>5. /\ Compacting(flash, c, r) /\ NoBlanks(flash) /\ SourceOK(flash, call)
      /\ Looping(flash, todo, c, r, call.id, rest)
  BY <1>2, <1>3, <1>4 DEF Moving, Transferring
<1>6. /\ Ongoing /\ LoopKeeps(flash, flash', c, r, call.id)
      /\ \/ Looping(flash', todo', c, r, call.id, rest)
         \/ Looped(flash', todo', c, r, call.id, rest)
  BY <1>5, LoopStep
<1>7. /\ Compacting(flash', c, r) /\ SameValues(flash, flash') /\ NoBlanks(flash')
      /\ \A p, k, id : Copy(flash', p, k, id) <=> Copy(flash, p, k, id)
      /\ \A p, k : Copy(flash, p, k, call.id) =>
           flash'[p].items[k].stat = flash[p].items[k].stat
  BY <1>5, <1>6 DEF LoopKeeps
<1>8. SourceOK(flash', call)
  BY <1>5, <1>7, SourceStays
<1>9. NewItem(flash', r, r, call) = rest
  <2>1. call.src # Nothing => Stat(flash', call.src) = Stat(flash, call.src)
    BY <1>5, <1>7 DEF Stat, SourceOK, CopyAt
  <2>2. Marking(flash', call) = Marking(flash, call)
    BY <2>1 DEF Marking
  <2> QED
    BY <1>4, <2>2 DEF NewItem, MarkAndData
<1> QED
  BY <1>2, <1>3, <1>6, <1>7, <1>8, <1>9 DEF Moving, Moved, Transferring

\* The header of the new item.
LEMMA MovedSteps ==
  ASSUME NvInv, NvInv', FlashFails = FALSE, Flash, call.id \in Ids, call.val \in Values,
         Moved(flash, todo, pgRes, call)
  PROVE  Ongoing /\ SameValues(flash, flash') /\ MovedAndAdded(flash', todo', pgRes, call)
<1>1. flash \in Flashes /\ flash' \in Flashes /\ call \in Calls
  BY FlashTypedNext DEF NvInv, Types
<1>2. PICK r \in Pages : r = pgRes
  BY DEF Moved, Transferring, Compacting, Spare
<1>3. PICK c \in Pages : c = call.com
  BY DEF Moved, Transferring
<1>4. /\ Compacting(flash, c, r) /\ NoBlanks(flash) /\ SourceOK(flash, call)
      /\ todo = WriteItem(r, call.id, FALSE) \o MarkAndData(flash, r, r, call)
      /\ Carried(flash, c, Len(flash[c].items), r, Len(flash[r].items), call.id)
  BY <1>2, <1>3 DEF Moved, Transferring, Looped, NewItem
<1>5. c # r /\ ~ flash[r].inUse /\ Len(flash[r].items) \in Nat
  BY <1>1, <1>4, CompactingIs
<1>6. MarkAndData(flash, r, r, call) \in Seq(Ops)
  BY <1>1, CallTyped
<1>7. /\ Adds(flash, flash', r, call.id) /\ Ongoing
      /\ todo' = MarkAndData(flash, r, r, call)
  BY <1>4, <1>6, DoesHead
<1>8. /\ Others(flash, flash', r) /\ SameHeader(flash, flash', r)
      /\ flash'[c] = flash[c] /\ Len(flash'[r].items) = Len(flash[r].items) + 1
      /\ \A j \in 1 .. Len(flash[r].items) : flash'[r].items[j] = flash[r].items[j]
  BY <1>5, <1>7 DEF Adds, Others
<1>9. /\ SameCopies(flash, flash')
      /\ \A q, j, id : Copy(flash', q, j, id) <=> Copy(flash, q, j, id)
      /\ NoBlanks(flash') /\ Spare(flash', r) /\ OnlyMarked(flash', c)
  BY <1>4, <1>5, <1>8, Hidden DEF Compacting, SameHeader
<1>10. Single(flash') /\ SameValues(flash, flash')
  BY <1>1, <1>4, <1>9, SameCopiesKeep DEF Compacting
<1>11. Sealed(flash')
  BY <1>1, <1>4, <1>7, AddsCopies DEF Compacting
<1>12. Compacting(flash', c, r)
  BY <1>4, <1>8, <1>9, <1>10, <1>11 DEF Compacting, SameHeader
<1>13. SourceOK(flash', call)
  BY <1>4, <1>9, SourceStays
<1>14. Marking(flash', call) = Marking(flash, call) /\ BlankLast(flash', r, call.id)
  BY <1>1, <1>4, <1>7, AddsStay
<1>15. todo' = MarkAndData(flash', r, r, call)
  BY <1>7, <1>14 DEF MarkAndData
<1>16. Carried(flash', c, Len(flash'[c].items), r, Len(flash'[r].items) - 1, call.id)
  BY <1>5, <1>8, <1>4, CarriedStays
<1> QED
  BY <1>2, <1>3, <1>7, <1>9, <1>10, <1>12, <1>13, <1>14, <1>15, <1>16
     DEF MovedAndAdded, Transferring

LEMMA MovedAndAddedIs ==
  ASSUME NvInv, call \in Calls, call.id \in Ids, MovedAndAdded(flash, todo, pgRes, call)
  PROVE  \E c, r \in Pages :
           /\ c = call.com /\ r = pgRes /\ c # r
           /\ Compacting(flash, c, r) /\ NoBlanks(flash) /\ SourceOK(flash, call)
           /\ Single(flash) /\ Sealed(flash) /\ Spare(flash, r) /\ OnlyMarked(flash, c)
           /\ flash[c].inUse /\ ~ flash[r].inUse /\ ~ flash[r].xfer
           /\ todo = MarkAndData(flash, r, r, call) /\ BlankLast(flash, r, call.id)
           /\ Carried(flash, c, Len(flash[c].items), r, Len(flash[r].items) - 1, call.id)
BY FlashTyped, CompactingIs DEF MovedAndAdded, Transferring, Compacting, Spare

LEMMA MovedMarks ==
  ASSUME NvInv, NvInv', FlashFails = FALSE, Flash, call.id \in Ids, call.val \in Values,
         MovedAndAdded(flash, todo, pgRes, call), Marking(flash, call) # <<>>
  PROVE  Ongoing /\ SameValues(flash, flash') /\ MovedAndAdded(flash', todo', pgRes, call)
<1>1. flash \in Flashes /\ flash' \in Flashes /\ call \in Calls
  BY FlashTypedNext DEF NvInv, Types
<1>2. PICK c, r \in Pages :
        /\ c = call.com /\ r = pgRes /\ c # r
        /\ Compacting(flash, c, r) /\ NoBlanks(flash) /\ SourceOK(flash, call)
        /\ Single(flash) /\ Sealed(flash) /\ Spare(flash, r) /\ OnlyMarked(flash, c)
        /\ flash[c].inUse /\ ~ flash[r].inUse /\ ~ flash[r].xfer
        /\ todo = MarkAndData(flash, r, r, call) /\ BlankLast(flash, r, call.id)
        /\ Carried(flash, c, Len(flash[c].items), r, Len(flash[r].items) - 1, call.id)
  BY <1>1, MovedAndAddedIs
<1>3. PICK p, k : p = call.src[1] /\ k = call.src[2]
  OBVIOUS
<1>4. /\ Ongoing /\ todo' = MarkAndData(flash', r, r, call)
      /\ Copy(flash, p, k, call.id) /\ Marks(flash, flash', p, k)
      /\ SourceOK(flash', call) /\ Single(flash') /\ Sealed(flash')
      /\ SameValues(flash, flash') /\ NoBlanks(flash')
  BY <1>2, <1>3, MarksSource
<1>5. Others(flash, flash', p) /\ SameHeader(flash, flash', p)
  BY <1>4 DEF Marks
<1>6. p # r /\ p \in Pages /\ flash'[r] = flash[r] /\ flash[p].items[k].val # Blank
  BY <1>2, <1>4, <1>5 DEF Copy, Others
<1>7. Spare(flash', r) /\ OnlyMarked(flash', c) /\ flash'[c].inUse
  BY <1>2, <1>5, HeadersStay DEF Others, SameHeader
<1>8. Compacting(flash', c, r)
  BY <1>2, <1>4, <1>6, <1>7 DEF Compacting
<1>9. BlankLast(flash', r, call.id)
  BY <1>2, <1>6 DEF BlankLast
<1>10. Carried(flash', c, Len(flash'[c].items), r, Len(flash'[r].items) - 1, call.id)
  <2>1. Len(flash'[c].items) = Len(flash[c].items)
    BY <1>1, <1>4, <1>6, MarksBlank
  <2>2. /\ DOMAIN flash'[c].items = DOMAIN flash[c].items
        /\ \A j \in DOMAIN flash[c].items :
             /\ flash'[c].items[j].id = flash[c].items[j].id
             /\ flash'[c].items[j].val = flash[c].items[j].val
             /\ flash[c].items[j].stat = "xfer" => flash'[c].items[j].stat = "xfer"
    BY <1>2, <1>4, <1>5 DEF Marks, Others, SameSlots
  <2>3. Carried(flash', c, Len(flash[c].items), r, Len(flash[r].items) - 1, call.id)
    BY <1>2, <1>6, <2>2, CarriedStays
  <2> QED
    BY <1>6, <2>1, <2>3
<1> QED
  BY <1>2, <1>4, <1>8, <1>9, <1>10 DEF MovedAndAdded, Transferring

\* The data of the new item, on a page not yet in use.
LEMMA MovedSeals ==
  ASSUME NvInv, NvInv', FlashFails = FALSE, Flash, call.id \in Ids, call.val \in Values,
         MovedAndAdded(flash, todo, pgRes, call), Marking(flash, call) = <<>>
  PROVE  Ongoing /\ SameValues(flash, flash') /\ Replacing(flash', todo', pgRes, call)
<1>1. /\ flash \in Flashes /\ flash' \in Flashes /\ call \in Calls
      /\ call.val # Blank /\ Nothing \notin Pages
  BY FlashTypedNext, ItemsAssumption DEF NvInv, Types
<1>2. PICK c, r \in Pages :
        /\ c = call.com /\ r = pgRes /\ c # r
        /\ Compacting(flash, c, r) /\ NoBlanks(flash) /\ SourceOK(flash, call)
        /\ Single(flash) /\ Sealed(flash) /\ Spare(flash, r) /\ OnlyMarked(flash, c)
        /\ flash[c].inUse /\ ~ flash[r].inUse /\ ~ flash[r].xfer
        /\ todo = MarkAndData(flash, r, r, call) /\ BlankLast(flash, r, call.id)
        /\ Carried(flash, c, Len(flash[c].items), r, Len(flash[r].items) - 1, call.id)
  BY <1>1, MovedAndAddedIs
<1>3. PICK m : m = Len(flash[r].items) - 1
  OBVIOUS
<1>4. /\ m \in Nat /\ Len(flash[r].items) = m + 1 /\ flash[r].items # <<>>
      /\ m + 1 \in DOMAIN flash[r].items
      /\ \A j \in 1 .. m : j \in DOMAIN flash[r].items /\ j # m + 1
  BY <1>1, <1>2, <1>3, SlotTyped DEF BlankLast
<1>5. /\ Ongoing /\ todo' = Ending(r, call) /\ Marked(flash, call)
      /\ Fills(flash, flash', r, call.val)
  BY <1>2, <1>4, SealsData
<1>6. /\ Others(flash, flash', r) /\ SameHeader(flash, flash', r)
      /\ flash'[c] = flash[c] /\ Len(flash'[r].items) = m + 1
      /\ \A j \in 1 .. m : flash'[r].items[j] = flash[r].items[j]
      /\ flash'[r].items[m + 1].id = call.id
      /\ flash'[r].items[m + 1].stat = "live"
      /\ flash'[r].items[m + 1].val = call.val
  BY <1>2, <1>4, <1>5 DEF Fills, Others, BlankLast
<1>7. /\ SameCopies(flash, flash')
      /\ \A q, j, id : Copy(flash', q, j, id) <=> Copy(flash, q, j, id)
      /\ NoBlanks(flash') /\ Spare(flash', r) /\ OnlyMarked(flash', c)
  BY <1>2, <1>6, Hidden DEF SameHeader
<1>8. Single(flash') /\ SameValues(flash, flash')
  BY <1>1, <1>2, <1>7, SameCopiesKeep
<1>9. Sealed(flash')
  <2>1. \A p \in Pages : \A j \in DOMAIN flash'[p].items :
          \/ j \in DOMAIN flash[p].items /\ flash'[p].items[j] = flash[p].items[j]
          \/ flash'[p].items[j].stat = "live"
    BY <1>4, <1>5, <1>6 DEF Fills, Others, SameSlots
  <2> QED
    BY <1>2, <2>1 DEF Sealed
<1>10. Compacting(flash', c, r)
  BY <1>2, <1>6, <1>7, <1>8, <1>9 DEF Compacting, SameHeader
<1>11. SourceOK(flash', call)
  BY <1>2, <1>7, SourceStays
<1>12. Marked(flash', call)
  BY <1>2, <1>5, <1>6 DEF Marked, SourceOK, CopyAt, Copy, Others, Stat
<1>13. Filled(flash', c, r, call.id, call.val)
  <2>1. Carried(flash', c, Len(flash'[c].items), r, m, call.id)
    BY <1>2, <1>3, <1>6, CarriedStays
  <2>2. \A k : Copy(flash', c, k, call.id) => flash'[c].items[k].stat = "xfer"
    <3>1. OnlySource(flash', call)
      BY <1>1, <1>8, <1>11, SourceIs
    <3>2. ASSUME NEW k, Copy(flash', c, k, call.id) PROVE flash'[c].items[k].stat = "xfer"
      BY <3>1, <3>2, <1>11, CopyIs, <1>12 DEF OnlySource, SourceOK, Marked, Stat
    <3> QED
      BY <3>2
  <2>3. flash'[c].inUse
    BY <1>2, <1>6
  <2> QED
    BY <1>1, <1>4, <1>6, <2>1, <2>2, <2>3, CallFilled
<1> QED
  BY <1>2, <1>5, <1>7, <1>8, <1>10, <1>11, <1>12, <1>13 DEF Replacing, Transferring

\* The new page comes into use.
LEMMA ReplacingSteps ==
  ASSUME NvInv, NvInv', FlashFails = FALSE, Flash, call.id \in Ids, call.val \in Values,
         Replacing(flash, todo, pgRes, call)
  PROVE  /\ Ongoing /\ Commits(flash, flash', call.id, call.val)
         /\ OldOnPage(flash', todo', call)
<1>1. flash \in Flashes /\ flash' \in Flashes /\ call \in Calls
  BY FlashTypedNext DEF NvInv, Types
<1>2. PICK r \in Pages : r = pgRes
  BY DEF Replacing, Transferring, Compacting, Spare
<1>3. PICK c \in Pages : c = call.com
  BY DEF Replacing, Transferring
<1>4. /\ Compacting(flash, c, r) /\ NoBlanks(flash) /\ SourceOK(flash, call)
      /\ Marked(flash, call) /\ todo = Ending(r, call)
      /\ Filled(flash, c, r, call.id, call.val)
  BY <1>2, <1>3 DEF Replacing, Transferring
<1>5. PICK rest \in Seq(Ops) : rest = Op("erase", c) \o Zeroing(call)
  BY <1>1, <1>2, OpsTyped, CallTyped, Assoc
<1>6. todo = Op("use", r) \o rest
  BY <1>1, <1>3, <1>4, <1>5, CallIs DEF Ending
<1>7. Uses(flash, flash', r) /\ todo' = rest /\ Ongoing
  BY <1>6, DoesUse
<1>8. PICK src : src = call.src
  OBVIOUS
<1>9. OnlySource(flash, call)
  BY <1>1, <1>4, SourceIs DEF Compacting
<1>10. \A p, k : Copy(flash, p, k, call.id) =>
         <<p, k>> = src /\ flash[p].items[k].stat = "xfer"
  BY <1>4, <1>9, CopyIs, <1>8 DEF SourceOK, OnlySource, Marked, Stat
<1>11. \A k \in DOMAIN flash[r].items : <<r, k>> # src
  <2>1. CASE call.src = Nothing
    BY <1>1, <1>8, <2>1, SlotTyped, CallIs
  <2>2. CASE call.src # Nothing
    BY <1>4, <2>2, <1>8 DEF SourceOK, CopyAt, Copy, Compacting, Spare
  <2> QED
    BY <2>1, <2>2
<1>12. Counts(flash, flash', c, call.id, call.val, src)
  BY <1>4, <1>1, <1>7, <1>10, <1>11, UseCounts DEF Compacting
<1>13. Replaced(flash', c) /\ NoBlanks(flash')
  BY <1>4, <1>12 DEF Counts, Replaced, Compacting
<1>14. Commits(flash, flash', call.id, call.val)
  BY <1>12 DEF Counts, Commits
<1>15. Sole(flash', c, src) /\ NewThere(flash', c, src, call.id, call.val)
  BY <1>12 DEF Counts
<1>16. call.src # Nothing =>
         CopyAt(flash', call.src, call.id) /\ Stat(flash', call.src) = "xfer"
  BY <1>4, <1>12 DEF Counts, SourceOK, CopyAt, Marked, Stat
<1> QED
  BY <1>3, <1>5, <1>7, <1>8, <1>13, <1>14, <1>15, <1>16 DEF OldOnPage

LEMMA SoleIsSingle ==
  ASSUME NEW fl \in Flashes, NEW cl \in Calls, NEW new \in Flashes, NEW c,
         Sole(fl, c, cl.src), cl.src = Nothing \/ cl.src[1] = c,
         \A p, k, id : Copy(new, p, k, id) <=> Copy(fl, p, k, id) /\ p # c
  PROVE  Single(new)
<1>1. ASSUME NEW id \in Ids, NEW p, NEW k, Copy(new, p, k, id)
      PROVE  /\ Copy(fl, p, k, id) /\ p # c /\ p \in Pages /\ k \in DOMAIN fl[p].items
             /\ <<p, k>> # cl.src
  <2>1. Copy(fl, p, k, id) /\ p # c /\ p \in Pages /\ k \in DOMAIN fl[p].items
    BY <1>1, CopyIs
  <2>2. k \in Nat \ {0}
    BY <2>1, SlotTyped
  <2>3. CASE cl.src = Nothing
    BY <2>1, <2>2, <2>3, CallIs
  <2>4. CASE cl.src # Nothing
    BY <2>1, <2>4
  <2> QED
    BY <2>1, <2>3, <2>4
<1>2. SUFFICES ASSUME NEW id \in Ids, NEW p \in Pages, NEW q \in Pages,
                      NEW j \in DOMAIN new[p].items, NEW k \in DOMAIN new[q].items,
                      Copy(new, p, j, id), Copy(new, q, k, id)
               PROVE  p = q /\ j = k
  BY DEF Single, SingleFor
<1>3. /\ Copy(fl, p, j, id) /\ p # c /\ j \in DOMAIN fl[p].items /\ <<p, j>> # cl.src
      /\ Copy(fl, q, k, id) /\ q # c /\ k \in DOMAIN fl[q].items /\ <<q, k>> # cl.src
  BY <1>1, <1>2
<1> QED
  BY <1>3 DEF Sole

\* The compacted page is erased.
LEMMA OldOnPageSteps ==
  ASSUME NvInv, NvInv', FlashFails = FALSE, Flash, call.id \in Ids, call.val \in Values,
         OldOnPage(flash, todo, call)
  PROVE  /\ SameCall /\ SameValues(flash, flash')
         /\ Done(flash', todo', pgRes', call) \/ OldLeft(flash', todo', pgRes', call)
<1>1. flash \in Flashes /\ flash' \in Flashes /\ call \in Calls
  BY FlashTypedNext DEF NvInv, Types
<1>2. PICK c \in Pages : c = call.com
  BY DEF OldOnPage
<1>3. PICK src : src = call.src
  OBVIOUS
<1>4. /\ Replaced(flash, c) /\ NoBlanks(flash) /\ todo = Op("erase", c) \o Zeroing(call)
      /\ Sole(flash, c, src) /\ NewThere(flash, c, src, call.id, call.val)
      /\ OneOfAKind(flash)
  BY <1>2, <1>3 DEF OldOnPage, Replaced
<1>5. Zeroing(call) \in Seq(Ops)
  BY <1>1, <1>2, CallTyped
<1>6. Erases(flash, flash', c) /\ todo' = Zeroing(call) /\ SameCall /\ pgRes' = c
  BY <1>4, <1>5, DoesErase DEF SameCall
<1>7. /\ AtRest(flash', c) /\ SameValues(flash, flash') /\ NoBlanks(flash')
      /\ \A p, k, id : Copy(flash', p, k, id) <=> Copy(flash, p, k, id) /\ p # c
      /\ \A p, k, id : Copy(flash', p, k, id) => flash'[p].items[k] = flash[p].items[k]
  BY <1>1, <1>4, <1>6, ErasesReplaced
<1>8. CASE call.src = Nothing \/ call.src[1] = c
  <2>1. todo' = <<>>
    BY <1>2, <1>6, <1>8 DEF Zeroing
  <2>2. Single(flash')
    BY <1>1, <1>3, <1>4, <1>7, <1>8, SoleIsSingle
  <2>3. Value(flash', call.id) = call.val
    BY <1>1, <1>4, <1>7, NewIsValue DEF SameValues
  <2> QED
    BY <1>6, <1>7, <2>1, <2>2, <2>3 DEF Done, Settled
<1>9. CASE ~ (call.src = Nothing \/ call.src[1] = c)
  <2>1. todo' = ItemOp("zero", call.src)
    BY <1>2, <1>6, <1>9 DEF Zeroing
  <2>2. CopyAt(flash, call.src, call.id) /\ Stat(flash, call.src) = "xfer"
    BY <1>2, <1>9 DEF OldOnPage
  <2>3. CopyAt(flash', call.src, call.id) /\ Stat(flash', call.src) = "xfer"
    BY <1>7, <1>9, <2>2 DEF CopyAt, Stat
  <2>4. Sole(flash', Nothing, src)
    BY <1>7, CopyIs, <1>4 DEF Sole
  <2>5. NewThere(flash', Nothing, src, call.id, call.val)
    <3>1. PICK p \in Pages : \E k \in DOMAIN flash[p].items :
            /\ Live(flash, p, k, call.id) /\ flash[p].items[k].val = call.val
            /\ p # c /\ <<p, k>> # src
      BY <1>4 DEF NewThere
    <3>2. PICK k \in DOMAIN flash[p].items :
            /\ Live(flash, p, k, call.id) /\ flash[p].items[k].val = call.val
            /\ p # c /\ <<p, k>> # src
      BY <3>1
    <3>3. /\ Copy(flash', p, k, call.id) /\ flash'[p].items[k] = flash[p].items[k]
          /\ flash[p].items[k].stat = "live"
      BY <1>7, <3>2 DEF Live
    <3>4. Live(flash', p, k, call.id) /\ flash'[p].items[k].val = call.val
      BY <3>2, <3>3 DEF Live
    <3>5. k \in DOMAIN flash'[p].items /\ p # Nothing
      BY <1>1, <3>3, CallIs DEF Copy
    <3> QED
      BY <3>2, <3>4, <3>5 DEF NewThere
  <2> QED
    BY <1>3, <1>6, <1>7, <1>9, <2>1, <2>3, <2>4, <2>5 DEF OldLeft
<1> QED
  BY <1>6, <1>7, <1>8, <1>9

\* The old item is zeroed.
LEMMA OldLeftSteps ==
  ASSUME NvInv, NvInv', FlashFails = FALSE, Flash, call.id \in Ids, call.val \in Values,
         OldLeft(flash, todo, pgRes, call)
  PROVE  Ongoing /\ SameValues(flash, flash') /\ Done(flash', todo', pgRes, call)
<1>1. flash \in Flashes /\ flash' \in Flashes /\ call \in Calls
  BY FlashTypedNext DEF NvInv, Types
<1>2. PICK r \in Pages : r = pgRes
  BY DEF OldLeft, AtRest, Spare
<1>3. PICK p, k : p = call.src[1] /\ k = call.src[2]
  OBVIOUS
<1>4. /\ Spare(flash, r) /\ Unmarked(flash) /\ OneOfAKind(flash) /\ Sealed(flash)
      /\ NoBlanks(flash)
      /\ NewThere(flash, Nothing, call.src, call.id, call.val)
      /\ Copy(flash, p, k, call.id) /\ flash[p].items[k].stat = "xfer"
  BY <1>2, <1>3 DEF OldLeft, AtRest, CopyAt, Stat
<1>5. Sole(flash, Nothing, <<p, k>>)
  BY <1>1, <1>3, CallIs DEF OldLeft
<1>6. p \in Pages /\ k \in DOMAIN flash[p].items
  BY <1>4 DEF Copy
<1>7. todo = ItemOp("zero", <<p, k>>) \o <<>> /\ <<>> \in Seq(Ops)
  BY <1>1, <1>6, SlotTyped, OpsTyped, <1>3, Assoc DEF OldLeft, ItemOp
<1>8. Clears(flash, flash', p, k) /\ todo' = <<>> /\ Ongoing
  BY <1>6, <1>7, DoesZero
<1>9. Value(flash, call.id) = call.val /\ SomeLive(flash, call.id)
  BY <1>1, <1>4, NewIsValue
<1>10. OneOfAKind(flash') /\ SameValues(flash, flash') /\ Single(flash')
  BY <1>1, <1>4, <1>5, <1>8, <1>9, OldGoes
<1>11. Spare(flash', r) /\ Unmarked(flash')
  BY <1>8, <1>4, HeadersStay DEF Clears
<1>12. Sealed(flash') /\ NoBlanks(flash')
  BY <1>4, <1>8, ClearsStay
<1> QED
  BY <1>2, <1>8, <1>9, <1>10, <1>11, <1>12 DEF Done, Settled, AtRest, SameValues

LEMMA DeletingSteps ==
  ASSUME NvInv, NvInv', FlashFails = FALSE, Flash, call.id \in Ids,
         Deleting(flash, todo, pgRes, call)
  PROVE  /\ Ongoing /\ Commits(flash, flash', call.id, call.val)
         /\ Done(flash', todo', pgRes, call)
<1>1. flash \in Flashes /\ flash' \in Flashes /\ call \in Calls
  BY FlashTypedNext DEF NvInv, Types
<1>2. PICK r \in Pages : r = pgRes
  BY DEF Deleting, Settled, AtRest, Spare
<1>3. /\ Spare(flash, r) /\ Unmarked(flash) /\ Single(flash) /\ Sealed(flash)
      /\ NoBlanks(flash) /\ call.val = Nothing
  BY <1>2 DEF Deleting, Settled, AtRest
<1>4. PICK p \in Pages : \E k \in DOMAIN flash[p].items :
        todo = ItemOp("zero", <<p, k>>) /\ Copy(flash, p, k, call.id)
  BY DEF Deleting
<1>5. PICK k \in DOMAIN flash[p].items :
        todo = ItemOp("zero", <<p, k>>) /\ Copy(flash, p, k, call.id)
  BY <1>4
<1>6. todo = ItemOp("zero", <<p, k>>) \o <<>> /\ <<>> \in Seq(Ops)
  BY <1>1, SlotTyped, OpsTyped, <1>5, Assoc
<1>7. Clears(flash, flash', p, k) /\ todo' = <<>> /\ Ongoing
  BY <1>6, DoesZero
<1>8. Commits(flash, flash', call.id, call.val) /\ Single(flash')
  BY <1>1, <1>3, <1>5, <1>7, DeletedGoes
<1>9. Spare(flash', r) /\ Unmarked(flash')
  BY <1>7, <1>3, HeadersStay DEF Clears
<1>10. Sealed(flash') /\ NoBlanks(flash')
  BY <1>3, <1>7, ClearsStay
<1>11. Value(flash', call.id) = call.val
  BY <1>8 DEF Commits
<1> QED
  BY <1>2, <1>7, <1>8, <1>9, <1>10, <1>11, SingleIsOne DEF Done, Settled, AtRest

-----------------------------------------------------------------------------
(* A flash operation of a call.                                            *)

LEMMA CallSteps ==
  ASSUME NvInv, NvInv', FlashFails = FALSE, Flash, Calling(flash, todo, pgRes, call)
  PROVE  Advances
<1>1. call.id \in Ids /\ todo # <<>>
  BY Carries DEF Calling
<1>2. ASSUME Ongoing PROVE SameCall /\ pgRes' = pgRes
  BY <1>2 DEF Ongoing, SameCall
<1>3. CASE Deleting(flash, todo, pgRes, call)
  BY <1>1, <1>3, DeletingSteps, <1>2 DEF Advances, Calling
<1>4. CASE Done(flash, todo, pgRes, call)
  BY <1>1, <1>4 DEF Done
<1>5. CASE call.val \in Values
  <2>1. CASE Adding(flash, todo, pgRes, call)
    BY <1>1, <1>5, <2>1, AddingSteps, <1>2 DEF Advances, Calling
  <2>2. CASE Added(flash, todo, pgRes, call)
    BY <1>1, <1>5, <2>2, AddedMarks, <1>2, AddedSeals DEF Advances, Calling
  <2>3. CASE MakingRoom(flash, todo, pgRes, call)
    BY <1>1, <1>5, <2>3, MakingRoomSteps, <1>2 DEF Advances, Calling
  <2>4. CASE Moving(flash, todo, pgRes, call)
    BY <1>1, <1>5, <2>4, MovingSteps, <1>2 DEF Advances, Calling
  <2>5. CASE Moved(flash, todo, pgRes, call)
    BY <1>1, <1>5, <2>5, MovedSteps, <1>2 DEF Advances, Calling
  <2>6. CASE MovedAndAdded(flash, todo, pgRes, call)
    BY <1>1, <1>5, <2>6, MovedMarks, <1>2, MovedSeals DEF Advances, Calling
  <2>7. CASE Replacing(flash, todo, pgRes, call)
    BY <1>1, <1>5, <2>7, ReplacingSteps, <1>2 DEF Advances, Calling
  <2>8. CASE OldOnPage(flash, todo, call)
    BY <1>1, <1>5, <2>8, OldOnPageSteps DEF Advances, Calling
  <2>9. CASE OldLeft(flash, todo, pgRes, call)
    BY <1>1, <1>5, <2>9, OldLeftSteps, <1>2 DEF Advances, Calling
  <2>10. \/ Deleting(flash, todo, pgRes, call) \/ Done(flash, todo, pgRes, call)
         \/ Adding(flash, todo, pgRes, call) \/ Added(flash, todo, pgRes, call)
         \/ MakingRoom(flash, todo, pgRes, call) \/ Moving(flash, todo, pgRes, call)
         \/ Moved(flash, todo, pgRes, call) \/ MovedAndAdded(flash, todo, pgRes, call)
         \/ Replacing(flash, todo, pgRes, call) \/ OldOnPage(flash, todo, call)
         \/ OldLeft(flash, todo, pgRes, call)
    BY DEF Calling
  <2> QED
    BY <1>3, <1>4, <2>1, <2>2, <2>3, <2>4, <2>5, <2>6, <2>7, <2>8, <2>9, <2>10
<1> QED
  BY <1>3, <1>4, <1>5 DEF Calling

-----------------------------------------------------------------------------
(* What is next: an erase, an item to be zeroed, or what leaves the newest *)
(* place of every item be.                                                 *)

Erasing(td, p) == td # <<>> /\ Head(td).op = "erase" /\ p = Head(td).pg

\* The only copy of an item can be marked.
OnlyAt(fl, p, k, id) == \A q, j : SealedAt(fl, q, j, id) => q = p /\ j = k

\* It marks no item of which there is another, and seals an item that is to be sealed.
Harmless(fl, op) ==
  /\ op.op \notin {"zero", "erase"}
  /\ op.op = "mark" => /\ op.k \in DOMAIN fl[op.pg].items
                       /\ OnlyAt(fl, op.pg, op.k, fl[op.pg].items[op.k].id)
  /\ op.op = "seal" => op.val # Blank /\ \E id \in Ids : BlankLast(fl, op.pg, id)
Leads(fl, td) == td # <<>> /\ Harmless(fl, Head(td))

LEMMA ErasingIs ==
  ASSUME NEW rest \in Seq(Ops), NEW p \in Pages
  PROVE  Op("erase", p) \o rest # <<>> /\ \A q : Erasing(Op("erase", p) \o rest, q) <=> q = p
<1>1. Starts(Op("erase", p) \o rest, [op |-> "erase", pg |-> p], rest)
  BY Fronts
<1> QED
  BY <1>1 DEF Starts, Erasing

LEMMA Leading ==
  ASSUME NEW fl, NEW rest \in Seq(Ops), NEW p \in Pages
  PROVE  /\ Leads(fl, Op("xfer", p) \o rest) /\ Leads(fl, Op("use", p) \o rest)
         /\ \A id \in Ids, copy \in BOOLEAN : Leads(fl, WriteItem(p, id, copy) \o rest)
         /\ \A k \in Nat \ {0}, to \in Pages, skip \in Ids \cup {Nothing} :
              Leads(fl, Copies(p, k, to, skip) \o rest)
         /\ \A k \in Nat \ {0} :
              k \in DOMAIN fl[p].items /\ OnlyAt(fl, p, k, fl[p].items[k].id)
              => Leads(fl, ItemOp("mark", <<p, k>>) \o rest)
         /\ \A v \in Values, copy \in BOOLEAN, id \in Ids :
              BlankLast(fl, p, id) => Leads(fl, Seal(p, v, copy) \o rest)
<1>1. ASSUME NEW name \in {"xfer", "use"} PROVE Leads(fl, Op(name, p) \o rest)
  <2>1. Starts(Op(name, p) \o rest, [op |-> name, pg |-> p], rest)
    BY Fronts
  <2>2. Op(name, p) \o rest # <<>> /\ Head(Op(name, p) \o rest).op \in {"xfer", "use"}
    BY <2>1 DEF Starts
  <2> QED
    BY <2>2 DEF Leads, Harmless
<1>2. ASSUME NEW id \in Ids, NEW copy \in BOOLEAN
      PROVE  Leads(fl, WriteItem(p, id, copy) \o rest)
  <2>1. Starts(WriteItem(p, id, copy) \o rest,
               [op |-> "head", pg |-> p, id |-> id, copy |-> copy], rest)
    BY Fronts
  <2> QED
    BY <2>1 DEF Starts, Leads, Harmless
<1>3. ASSUME NEW k \in Nat \ {0}, NEW to \in Pages, NEW skip \in Ids \cup {Nothing}
      PROVE  Leads(fl, Copies(p, k, to, skip) \o rest)
  <2>1. Starts(Copies(p, k, to, skip) \o rest,
               [op |-> "copy", pg |-> p, k |-> k, to |-> to, skip |-> skip], rest)
    BY Fronts
  <2> QED
    BY <2>1 DEF Starts, Leads, Harmless
<1>4. ASSUME NEW k \in Nat \ {0}, k \in DOMAIN fl[p].items, OnlyAt(fl, p, k, fl[p].items[k].id)
      PROVE  Leads(fl, ItemOp("mark", <<p, k>>) \o rest)
  <2>1. Starts(ItemOp("mark", <<p, k>>) \o rest, [op |-> "mark", pg |-> p, k |-> k], rest)
    BY Fronts
  <2> QED
    BY <1>4, <2>1 DEF Starts, Leads, Harmless
<1>5. ASSUME NEW v \in Values, NEW copy \in BOOLEAN, NEW id \in Ids, BlankLast(fl, p, id)
      PROVE  Leads(fl, Seal(p, v, copy) \o rest)
  <2>1. Starts(Seal(p, v, copy) \o rest,
               [op |-> "seal", pg |-> p, val |-> v, copy |-> copy], rest)
    BY Fronts
  <2>2. v # Blank
    BY ItemsAssumption
  <2> QED
    BY <1>5, <2>1, <2>2 DEF Starts, Leads, Harmless
<1> QED
  BY <1>1, <1>2, <1>3, <1>4, <1>5

\* The loop marks an item of page c that is nowhere else, also not on the reserve page.
LEMMA LoopLeads ==
  ASSUME NEW fl \in Flashes, NEW td, NEW c, NEW r, Compacting(fl, c, r),
         NEW skip \in Ids \cup {Nothing}, NEW rest \in Seq(Ops), Looping(fl, td, c, r, skip, rest)
  PROVE  Leads(fl, td)
<1>1. PICK k \in 1 .. Len(fl[c].items) + 1 :
        \/ AtCopy(fl, td, c, r, skip, rest, k) \/ AtMark(fl, td, c, r, skip, rest, k)
        \/ AtHead(fl, td, c, r, skip, rest, k) \/ AtSeal(fl, td, c, r, skip, rest, k)
  BY DEF Looping
<1>2. c \in Pages /\ r \in Pages /\ Len(fl[c].items) \in Nat /\ k \in Nat \ {0}
  BY CompactingIs
<1>3. CASE AtCopy(fl, td, c, r, skip, rest, k)
  BY <1>2, <1>3, Leading DEF AtCopy, Onward
<1>4. CASE k \in 1 .. Len(fl[c].items) /\ Goes(fl[c].items[k], skip)
  <2>1. /\ fl[c].items[k].id \in Ids /\ fl[c].items[k].val \in Values
        /\ k \in Nat \ {0} /\ k + 1 \in Nat \ {0} /\ k \in DOMAIN fl[c].items
    BY <1>4, GoesIs
  <2>2. /\ Onward(c, r, skip, k + 1, rest) \in Seq(Ops)
        /\ Sealing(fl, c, r, skip, k, rest) \in Seq(Ops)
        /\ Heading(fl, c, r, skip, k, rest) \in Seq(Ops)
    BY <1>4, <2>1, LoopTyped
  <2>3. CASE AtSeal(fl, td, c, r, skip, rest, k)
    BY <1>2, <2>1, <2>2, <2>3, Leading DEF AtSeal, Sealing
  <2>4. CASE AtHead(fl, td, c, r, skip, rest, k)
    BY <1>2, <2>1, <2>2, <2>4, Leading DEF AtHead, Heading
  <2>5. CASE AtMark(fl, td, c, r, skip, rest, k)
    <3>1. ASSUME NEW q, NEW j, SealedAt(fl, q, j, fl[c].items[k].id) PROVE q = c /\ j = k
      <4>1. Copy(fl, c, k, fl[c].items[k].id) /\ Single(fl) /\ Spare(fl, r)
        BY <1>4, GoesIs DEF Compacting
      <4>2. CASE q # r
        <5>1. Copy(fl, q, j, fl[c].items[k].id)
          BY <3>1, <4>1, <4>2 DEF SealedAt, Copy, Spare
        <5> QED
          BY <2>1, <4>1, <5>1 DEF Single, SingleFor, Copy
      <4>3. CASE q = r
        <5>1. j \in 1 .. Len(fl[r].items)
          BY <1>2, <3>1, <4>3, SlotTyped DEF SealedAt
        <5>2. PICK i \in 1 .. k - 1 : Takes(fl, c, i, skip) /\ fl[r].items[j].id = fl[c].items[i].id
          BY <2>5, <5>1 DEF AtMark, Carried
        <5>3. Copy(fl, c, i, fl[c].items[k].id)
          BY <1>2, <3>1, <4>1, <4>3, <5>2, TakesAre DEF Copy, SealedAt
        <5>4. i = k
          BY <2>1, <4>1, <5>3 DEF Single, SingleFor, Copy
        <5> QED
          BY <5>4, <2>1
      <4> QED
        BY <4>2, <4>3
    <3>2. OnlyAt(fl, c, k, fl[c].items[k].id)
      BY <3>1 DEF OnlyAt
    <3> QED
      BY <1>2, <2>1, <2>2, <2>5, <3>2, Leading DEF AtMark
  <2> QED
    BY <1>1, <1>3, <2>3, <2>4, <2>5
<1> QED
  BY <1>1, <1>3, <1>4 DEF AtMark, AtHead, AtSeal

\* A call marks the item it has found, of which there is no other.
LEMMA MarkLeads ==
  ASSUME NEW fl \in Flashes, NEW cl \in Calls, cl.id \in Ids, cl.val \in Values,
         NEW q \in Pages, NEW r \in Pages, BlankLast(fl, q, cl.id), SourceOK(fl, cl),
         \A p, k : SealedAt(fl, p, k, cl.id) => Copy(fl, p, k, cl.id), Single(fl)
  PROVE  Leads(fl, MarkAndData(fl, q, r, cl))
<1>1. Data(q, r, cl) \in Seq(Ops) /\ Ending(r, cl) \in Seq(Ops)
  BY CallTyped
<1>2. Leads(fl, Data(q, r, cl))
  BY <1>1, Leading DEF Data
<1>3. CASE Marking(fl, cl) = <<>>
  BY <1>1, <1>2, <1>3, Assoc DEF MarkAndData
<1>4. CASE Marking(fl, cl) # <<>>
  <2>1. /\ cl.src # Nothing /\ Marking(fl, cl) = ItemOp("mark", <<cl.src[1], cl.src[2]>>)
        /\ cl.src[1] \in Pages /\ cl.src[2] \in Nat \ {0}
        /\ cl.src = <<cl.src[1], cl.src[2]>>
    BY <1>4, CallIs DEF Marking
  <2>2. Copy(fl, cl.src[1], cl.src[2], cl.id)
    BY <2>1 DEF SourceOK, CopyAt
  <2>3. OnlyAt(fl, cl.src[1], cl.src[2], cl.id)
    <3>1. ASSUME NEW p, NEW k, SealedAt(fl, p, k, cl.id) PROVE p = cl.src[1] /\ k = cl.src[2]
      <4>1. <<p, k>> = cl.src
        BY <3>1, SourceIs DEF OnlySource
      <4> QED
        BY <4>1
    <3> QED
      BY <3>1 DEF OnlyAt
  <2>4. /\ cl.src[2] \in DOMAIN fl[cl.src[1]].items
        /\ fl[cl.src[1]].items[cl.src[2]].id = cl.id
    BY <2>2 DEF Copy
  <2> QED
    BY <1>1, <2>1, <2>3, <2>4, Leading DEF MarkAndData
<1> QED
  BY <1>3, <1>4

\* A call has nothing left to do, or what is next is harmless, or erases the page it has
\* compacted, or zeroes an item.
LEMMA CallLeads ==
  ASSUME NvInv, Calling(flash, todo, pgRes, call), pc = "call"
  PROVE  \/ Done(flash, todo, pgRes, call) \/ Leads(flash, todo)
         \/ call.val \in Values /\ OldOnPage(flash, todo, call)
         \/ Deleting(flash, todo, pgRes, call) \/ OldLeft(flash, todo, pgRes, call)
<1>1. flash \in Flashes /\ call \in Calls /\ call.id \in Ids /\ Nothing \notin Pages
  BY FlashTyped, ItemsAssumption DEF NvInv, Types, Calling
<1>2. ASSUME call.val \in Values, NEW q \in Pages, NEW r \in Pages, todo = NewItem(flash, q, r, call)
      PROVE  Leads(flash, todo)
  BY <1>1, <1>2, CallTyped, Leading DEF NewItem
<1>3. CASE call.val \in Values
  <2>1. CASE Adding(flash, todo, pgRes, call)
    BY <1>2, <1>3, <2>1 DEF Adding, Settled, AtRest, Spare
  <2>2. CASE Added(flash, todo, pgRes, call)
    <3>1. PICK q \in Pages : /\ todo = MarkAndData(flash, q, pgRes, call)
                             /\ BlankLast(flash, q, call.id)
      BY <2>2 DEF Added
    <3>2. flash[pgRes] = Erased /\ pgRes \in Pages
      BY <2>2 DEF Added, NvInv, ReserveOK, Ready
    <3>3. \A p, k : SealedAt(flash, p, k, call.id) => Copy(flash, p, k, call.id)
      BY <2>2, <3>2 DEF SealedAt, Copy, Added, AtRest, Spare, Erased
    <3> QED
      BY <1>1, <1>3, <2>2, <3>1, <3>2, <3>3, MarkLeads DEF Added
  <2>3. CASE MakingRoom(flash, todo, pgRes, call)
    <3>1. PICK r \in Pages : r = pgRes
      BY <2>3 DEF MakingRoom, Settled, AtRest, Spare
    <3>2. call.com \in Pages /\ NewItem(flash, r, r, call) \in Seq(Ops)
      BY <1>1, <1>3, <2>3, CallTyped DEF MakingRoom
    <3>3. Copies(call.com, 1, r, call.id) \o NewItem(flash, r, r, call) \in Seq(Ops)
      BY <1>1, <3>2, OpsTyped, Assoc
    <3>4. todo = Op("xfer", call.com) \o (Copies(call.com, 1, r, call.id)
                                          \o NewItem(flash, r, r, call))
      BY <2>3, <3>1 DEF MakingRoom
    <3> QED
      BY <3>2, <3>3, <3>4, Leading
  <2>4. CASE Moving(flash, todo, pgRes, call)
    <3>1. PICK r \in Pages : r = pgRes
      BY <2>4 DEF Moving, Transferring, Compacting, Spare
    <3>2. NewItem(flash, r, r, call) \in Seq(Ops) /\ call.id \in Ids \cup {Nothing}
      BY <1>1, <1>3, CallTyped
    <3>3. /\ Compacting(flash, call.com, r)
          /\ Looping(flash, todo, call.com, r, call.id, NewItem(flash, r, r, call))
      BY <2>4, <3>1 DEF Moving, Transferring
    <3> QED
      BY <1>1, <3>2, <3>3, LoopLeads
  <2>5. CASE Moved(flash, todo, pgRes, call)
    BY <1>2, <1>3, <2>5 DEF Moved, Looped, Transferring, Compacting, Spare
  <2>6. CASE MovedAndAdded(flash, todo, pgRes, call)
    <3>1. PICK c, r \in Pages :
            /\ c = call.com /\ r = pgRes /\ c # r
            /\ SourceOK(flash, call) /\ Single(flash) /\ Spare(flash, r) /\ flash[c].inUse
            /\ todo = MarkAndData(flash, r, r, call) /\ BlankLast(flash, r, call.id)
            /\ Carried(flash, c, Len(flash[c].items), r, Len(flash[r].items) - 1, call.id)
      BY <1>1, <2>6, MovedAndAddedIs
    <3>2. AllCarried(flash, c, r, Len(flash[r].items) - 1, call.id)
      BY <1>1, <3>1, CarriedIs
    <3>3. \A k : ~ SealedAt(flash, r, k, call.id)
      <4>1. ASSUME NEW k, SealedAt(flash, r, k, call.id) PROVE FALSE
        <5>1. k \in 1 .. Len(flash[r].items) /\ Len(flash[r].items) \in Nat
          BY <1>1, <4>1, SlotTyped DEF SealedAt
        <5>2. k # Len(flash[r].items)
          BY <3>1, <4>1 DEF SealedAt, BlankLast
        <5>3. k \in 1 .. Len(flash[r].items) - 1
          BY <5>1, <5>2
        <5> QED
          BY <3>2, <4>1, <5>3 DEF AllCarried, SealedAt
      <4> QED
        BY <4>1
    <3>4. \A p, k : SealedAt(flash, p, k, call.id) => Copy(flash, p, k, call.id)
      BY <3>1, <3>3 DEF SealedAt, Copy, Spare
    <3> QED
      BY <1>1, <1>3, <3>1, <3>4, MarkLeads
  <2>7. CASE Replacing(flash, todo, pgRes, call)
    <3>1. PICK r \in Pages : r = pgRes
      BY <2>7 DEF Replacing, Transferring, Compacting, Spare
    <3>2. call.com \in Pages /\ call.com # Nothing /\ Zeroing(call) \in Seq(Ops)
      BY <1>1, <1>3, <2>7, <3>1, CallTyped, CallIs DEF Replacing, Transferring
    <3>3. Op("erase", call.com) \o Zeroing(call) \in Seq(Ops)
      BY <3>2, OpsTyped, Assoc
    <3>4. todo = Op("use", r) \o (Op("erase", call.com) \o Zeroing(call))
      BY <2>7, <3>1, <3>2 DEF Replacing, Ending
    <3> QED
      BY <3>1, <3>3, <3>4, Leading
  <2> QED
    BY <1>3, <2>1, <2>2, <2>3, <2>4, <2>5, <2>6, <2>7 DEF Calling
<1> QED
  BY <1>3 DEF Calling

\* What erases the page it has compacted does so next.
LEMMA OldOnPageErases ==
  ASSUME NvInv, call.id \in Ids, call.val \in Values, OldOnPage(flash, todo, call)
  PROVE  Erasing(todo, call.com) /\ Replaced(flash, call.com)
<1>1. PICK c \in Pages : c = call.com
  BY DEF OldOnPage
<1>2. Zeroing(call) \in Seq(Ops)
  BY <1>1, CallTyped DEF NvInv, Types
<1>3. todo = Op("erase", c) \o Zeroing(call) /\ Replaced(flash, c)
  BY <1>1 DEF OldOnPage
<1> QED
  BY <1>1, <1>2, <1>3, ErasingIs

LEMMA ZeroingNext ==
  ASSUME Deleting(flash, todo, pgRes, call) \/ OldLeft(flash, todo, pgRes, call)
  PROVE  todo # <<>> /\ Head(todo).op = "zero"
BY Alone DEF Deleting, OldLeft, ItemOp

LEMMA CallErases ==
  ASSUME NvInv, Calling(flash, todo, pgRes, call), pc = "call", NEW p, Erasing(todo, p)
  PROVE  Erasable(flash, p)
<1>1. ASSUME call.val \in Values, OldOnPage(flash, todo, call) PROVE Erasable(flash, p)
  BY <1>1, OldOnPageErases, ModesOK DEF Calling, Erasing, Erasable
<1> QED
  BY <1>1, CallLeads, ZeroingNext DEF Done, Erasing, Leads, Harmless

LEMMA CallDone ==
  ASSUME NvInv, Calling(flash, todo, pgRes, call), pc = "call", todo = <<>>
  PROVE  Done(flash, todo, pgRes, call)
BY CallLeads, OldOnPageErases, ZeroingNext DEF Calling, Erasing, Leads

\* A recovery that has begun has nothing left to do, or is to erase the page it has
\* replaced, or what is next is harmless.
LEMMA ResumedLeads ==
  ASSUME NEW fl \in Flashes, NEW td, NEW r, Resumed(fl, td, r)
  PROVE  Recovered(fl, td, r) \/ Dropping(fl, td) \/ Leads(fl, td)
<1>1. CASE Repeating(fl, td, r)
  <2>1. PICK c \in Pages : /\ Compacting(fl, c, r)
                           /\ Looping(fl, td, c, r, Nothing, CleanedUp(c, r))
    BY <1>1 DEF Repeating
  <2>2. CleanedUp(c, r) \in Seq(Ops) /\ Nothing \in Ids \cup {Nothing}
    BY <2>1, CleanedUpTyped DEF Compacting, Spare
  <2> QED
    BY <2>1, <2>2, LoopLeads
<1>2. CASE Repeated(fl, td, r)
  <2>1. PICK c \in Pages : Compacting(fl, c, r) /\ td = CleanedUp(c, r)
    BY <1>2 DEF Repeated, Looped
  <2>2. r \in Pages /\ Op("erase", c) \in Seq(Ops)
    BY <2>1, OpsTyped DEF Compacting, Spare
  <2> QED
    BY <2>1, <2>2, Leading DEF CleanedUp
<1> QED
  BY <1>1, <1>2 DEF Resumed

LEMMA DroppingErases ==
  ASSUME NEW fl, NEW td, Dropping(fl, td)
  PROVE  \E c \in Pages : Replaced(fl, c) /\ \A q : Erasing(td, q) <=> q = c
<1>1. PICK c \in Pages : td = Op("erase", c) \o <<>> /\ Replaced(fl, c)
  BY CleanedUpTyped DEF Dropping
<1> QED
  BY <1>1, OpsTyped, ErasingIs

\* It erases a page only when all are in use.
LEMMA ResumedErases ==
  ASSUME NEW fl \in Flashes, NEW td, NEW r, Resumed(fl, td, r), NEW p, Erasing(td, p)
  PROVE  AllUsed(fl)
BY ResumedLeads, DroppingErases DEF Recovered, Replaced, Erasing, Leads, Harmless

\* One that is to begin erases the reserve page.
LEMMA StartingErases ==
  ASSUME NEW fl, NEW td, NEW r, Clearing(fl, td, r) \/ Restarting(fl, td, r)
  PROVE  Spare(fl, r) /\ FlashOK(fl) /\ \A q : Erasing(td, q) <=> q = r
<1>1. Spare(fl, r) /\ FlashOK(fl) /\ r \in Pages
  BY ModesOK DEF Clearing, AtRest, Restarting, Interrupted, Spare
<1>2. \E rest \in Seq(Ops) : td = Op("erase", r) \o rest
  <2>1. CASE Clearing(fl, td, r)
    BY <1>1, <2>1, OpsTyped, CleanedUpTyped DEF Clearing
  <2>2. CASE Restarting(fl, td, r)
    <3>1. PICK c \in Pages :
            td = Op("erase", r) \o (Copies(c, 1, r, Nothing) \o CleanedUp(c, r))
      BY <2>2 DEF Restarting
    <3>2. Copies(c, 1, r, Nothing) \o CleanedUp(c, r) \in Seq(Ops)
      BY <1>1, OpsTyped, CleanedUpTyped, Assoc
    <3> QED
      BY <3>1, <3>2
  <2> QED
    BY <2>1, <2>2
<1> QED
  BY <1>1, <1>2, ErasingIs

LEMMA RecoveryErases ==
  ASSUME NvInv, Recovering(flash, todo, pgRes), NEW p, Erasing(todo, p)
  PROVE  Erasable(flash, p)
<1>1. CASE Resumed(flash, todo, pgRes)
  <2>1. Dropping(flash, todo)
    BY <1>1, FlashTyped, ResumedLeads DEF Recovered, Erasing, Leads, Harmless
  <2> QED
    BY <2>1, DroppingErases, ModesOK DEF Erasable
<1> QED
  BY <1>1, StartingErases DEF Recovering, Erasable

\* Nothing is left to do.
LEMMA RecoveryDone ==
  ASSUME NEW fl \in Flashes, NEW r, Recovering(fl, <<>>, r)
  PROVE  AtRest(fl, r)
<1>1. PICK none : none = <<>>
  OBVIOUS
<1>2. \A p : ~ Erasing(none, p) /\ ~ Leads(fl, none)
  BY <1>1 DEF Erasing, Leads
<1>3. Resumed(fl, none, r) /\ ~ Dropping(fl, none)
  BY <1>1, <1>2, StartingErases, DroppingErases DEF Recovering
<1> QED
  BY <1>2, <1>3, ResumedLeads DEF Recovered

-----------------------------------------------------------------------------
(* What initNV finds in the page headers.                                  *)

\* An erased page comes into use.
LEMMA EmptyUsed ==
  ASSUME NEW fl \in Flashes, NEW new \in Flashes, NEW p \in Pages, Others(fl, new, p),
         FlashOK(fl), fl[p] = Erased, new[p].items = <<>>, ~ new[p].xfer,
         NEW r \in Pages, r # p, ~ fl[r].inUse
  PROVE  FlashOK(new) /\ SameValues(fl, new)
<1>1. \A k : k \notin DOMAIN fl[p].items /\ k \notin DOMAIN new[p].items
  BY DEF Erased
<1>2. \A q, k, id : /\ Copy(new, q, k, id) <=> Copy(fl, q, k, id)
                    /\ Copy(fl, q, k, id) => new[q].items[k] = fl[q].items[k]
  <2>1. \A k, id : ~ Copy(new, p, k, id) /\ ~ Copy(fl, p, k, id)
    BY <1>1 DEF Copy
  <2> QED
    BY <2>1, OtherCopies
<1>3. SameCopies(fl, new) /\ OnlyDrops(fl, new)
  BY <1>2 DEF SameCopies, OnlyDrops, SameFor, DropsFor
<1>4. OneOfAKind(new) /\ SameValues(fl, new) /\ Sealed(new)
  BY SealedAfter, <1>3, OnlyDropsKeep DEF FlashOK
<1>5. ~ AllUsed(fl) /\ ~ AllUsed(new)
  BY DEF AllUsed, Others
<1>6. Single(fl) => Single(new)
  BY <1>3, SameCopiesKeep
<1>7. \A q \in Pages : /\ new[q].inUse /\ new[q].xfer => fl[q].inUse /\ fl[q].xfer
                       /\ ~ new[q].inUse => ~ fl[q].inUse
                       /\ fl[q] = Erased /\ q # p => new[q] = Erased
  BY DEF Others, Erased
<1>8. \A q, c \in Pages : q # c /\ ~ new[q].inUse /\ ~ new[c].inUse => new[q] = Erased
  BY SlotTyped, <1>7 DEF Erased, PageType, FlashOK
<1> QED
  BY <1>4, <1>5, <1>6, <1>7, <1>8 DEF FlashOK

LEMMA ReadHeaderKeepsFlash ==
  ASSUME NvInv, NvInv', ReadHeader, ReadUpTo(flash, pgRes, boot)
  PROVE  ReadUpTo(flash', pgRes', boot') /\ SameValues(flash, flash')
<1>0. PICK p : p = boot.pg
  OBVIOUS
<1>1. /\ pc = "headers" /\ p \in Pages
      /\ pgRes' = (IF ~ flash[p].inUse /\ pgRes = Nothing THEN p ELSE pgRes)
      /\ flash' = [flash EXCEPT ![p].inUse = @ \/ pgRes # Nothing]
      /\ boot' = [boot EXCEPT !.pg = p + 1,
                    !.old = IF flash[p].inUse /\ flash[p].xfer THEN p ELSE @]
  BY <1>0 DEF ReadHeader
<1>2. flash \in Flashes /\ flash' \in Flashes /\ Nothing \notin Pages /\ p # Nothing
  BY <1>1, FlashTypedNext, ItemsAssumption
<1>3. /\ boot'.pg = p + 1
      /\ boot'.old = IF flash[p].inUse /\ flash[p].xfer THEN p ELSE boot.old
      /\ \A q \in Pages : q < p + 1 <=> q < p \/ q = p
  BY PagesAssumption, <1>1, BootIs DEF Pages
<1>4. pgRes # Nothing => pgRes < p /\ pgRes # p /\ pgRes \in Pages /\ ~ flash[pgRes].inUse
  BY <1>0, <1>1, PagesAssumption DEF NvInv, HeadersOK, Pages, ReadUpTo
<1>5. /\ Others(flash, flash', p)
      /\ flash'[p].inUse = (flash[p].inUse \/ pgRes # Nothing)
      /\ flash'[p].xfer = flash[p].xfer /\ flash'[p].items = flash[p].items
  BY <1>1, <1>2, SlotTyped DEF Others, Flashes, PageType
<1>6. flash[p].inUse \in BOOLEAN
  BY <1>1, <1>2, SlotTyped
<1>7. FlashOK(flash)
  BY DEF ReadUpTo
<1>8. CASE flash[p].inUse \/ pgRes = Nothing
  <2>1. flash' = flash
    BY <1>1, <1>2, SlotTyped, <1>6, <1>8 DEF Flashes, PageType
  <2>2. \A q \in Pages : q < p + 1 /\ q # pgRes' => flash[q].inUse
    BY <1>0, <1>1, <1>2, <1>3, <1>8 DEF ReadUpTo
  <2>3. pgRes' \in Pages \cup {Nothing} /\ (pgRes' # Nothing => ~ flash[pgRes'].inUse)
    BY <1>1 DEF ReadUpTo
  <2>4. /\ boot'.old \in Pages \cup {Nothing}
        /\ boot'.old # Nothing => flash[boot'.old].inUse /\ flash[boot'.old].xfer
        /\ boot'.old = Nothing =>
             \A q \in Pages : q < p + 1 /\ flash[q].inUse => ~ flash[q].xfer
    BY <1>0, <1>1, <1>2, <1>3 DEF ReadUpTo
  <2> QED
    BY <1>3, <1>7, <2>1, <2>2, <2>3, <2>4 DEF ReadUpTo, SameValues
<1>9. CASE ~ flash[p].inUse /\ pgRes # Nothing
  <2>1. flash[p] = Erased
    BY <1>1, <1>4, <1>7, <1>9 DEF FlashOK
  <2>2. flash'[p].items = <<>> /\ ~ flash'[p].xfer
    BY <1>5, <2>1 DEF Erased
  <2>3. FlashOK(flash') /\ SameValues(flash, flash')
    BY <1>1, <1>2, <1>4, <1>5, <1>7, <1>9, <2>1, <2>2, EmptyUsed
  <2>4. pgRes' = pgRes /\ boot'.old = boot.old
    BY <1>1, <1>3, <1>9
  <2>5. \A q \in Pages : q < p + 1 /\ q # pgRes' => flash'[q].inUse
    BY <1>0, <1>3, <1>5, <1>9, <2>4 DEF ReadUpTo, Others
  <2>6. pgRes' \in Pages \cup {Nothing} /\ (pgRes' # Nothing => ~ flash'[pgRes'].inUse)
    BY <1>4, <1>5, <1>9, <2>4 DEF Others
  <2>7. /\ boot'.old \in Pages \cup {Nothing}
        /\ boot'.old # Nothing => flash'[boot'.old].inUse /\ flash'[boot'.old].xfer
    BY <1>5, <1>9, <2>4 DEF ReadUpTo, Others
  <2>8. boot'.old = Nothing =>
          \A q \in Pages : q < p + 1 /\ flash'[q].inUse => ~ flash'[q].xfer
    BY <1>0, <1>3, <1>5, <2>2, <2>4 DEF ReadUpTo, Others
  <2> QED
    BY <1>3, <2>3, <2>5, <2>6, <2>7, <2>8 DEF ReadUpTo
<1> QED
  BY <1>8, <1>9

LEMMA RecoverStarts ==
  ASSUME NvInv, Recover, ReadUpTo(flash, pgRes, boot)
  PROVE  Recovering(flash, todo', pgRes)
<1>1. /\ boot.pg \notin Pages /\ Nothing \notin Pages /\ FlashOK(flash)
      /\ boot.old \in Pages \cup {Nothing} /\ pgRes \in Pages \cup {Nothing}
  BY ItemsAssumption DEF Recover, ReadUpTo
<1>2. \A p \in Pages : p < boot.pg
  BY <1>1, BootIs
<1>3. /\ \A p \in Pages : p # pgRes => flash[p].inUse
      /\ boot.old = Nothing => Unmarked(flash)
      /\ pgRes = Nothing => AllUsed(flash)
      /\ pgRes # Nothing => Spare(flash, pgRes) /\ ~ AllUsed(flash)
  BY <1>1, <1>2 DEF ReadUpTo, Unmarked, AllUsed, Spare
<1>4. OneOfAKind(flash) /\ Sealed(flash)
  BY <1>1 DEF FlashOK
<1>5. ASSUME boot.old # Nothing PROVE OnlyMarked(flash, boot.old)
  BY <1>1, <1>5 DEF OnlyMarked, FlashOK, ReadUpTo
<1>6. CASE boot.old = Nothing /\ pgRes = Nothing
  BY <1>1, <1>3, <1>6 DEF FlashOK, Unmarked, AllUsed
<1>7. CASE boot.old = Nothing /\ pgRes # Nothing
  BY <1>7, <1>3, <1>4 DEF Recover, Recovering, Clearing, AtRest
<1>8. CASE boot.old # Nothing /\ pgRes = Nothing
  <2>1. todo' = Op("erase", boot.old)
    BY <1>8 DEF Recover
  <2>2. Superseded(flash, boot.old)
    <3>1. PICK c \in Pages : flash[c].xfer /\ Superseded(flash, c)
      BY <1>1, <1>3, <1>8 DEF FlashOK
    <3>2. c = boot.old
      BY <1>3, <1>5, <1>8, <3>1 DEF OnlyMarked, AllUsed
    <3> QED
      BY <3>1, <3>2
  <2>3. Replaced(flash, boot.old)
    BY <1>3, <1>4, <1>5, <1>8, <2>2 DEF Replaced
  <2> QED
    BY <1>1, <1>8, <2>1, <2>3 DEF Recovering, Resumed, Dropping
<1>9. CASE boot.old # Nothing /\ pgRes # Nothing
  <2>1. PICK r \in Pages, c \in Pages : r = pgRes /\ c = boot.old
    BY <1>1, <1>9
  <2>2. todo' = (Op("erase", r) \o Copies(c, 1, r, Nothing)) \o CleanedUp(c, r)
    BY <1>9, <2>1 DEF Recover, Cleanup, CleanedUp
  <2>3. /\ Op("erase", r) \in Seq(Ops) /\ Copies(c, 1, r, Nothing) \in Seq(Ops)
        /\ CleanedUp(c, r) \in Seq(Ops)
    BY OpsTyped, CleanedUpTyped
  <2>4. todo' = Op("erase", r) \o (Copies(c, 1, r, Nothing) \o CleanedUp(c, r))
    BY <2>2, <2>3, Assoc
  <2>5. Single(flash) /\ flash[c].inUse
    BY <1>1, <1>3, <1>9, <2>1 DEF FlashOK, ReadUpTo
  <2>6. Interrupted(flash, c, r)
    BY <1>3, <1>4, <1>5, <1>9, <2>1, <2>5 DEF Interrupted
  <2> QED
    BY <2>1, <2>4, <2>6 DEF Recovering, Restarting
<1> QED
  BY <1>1, <1>6, <1>7, <1>8, <1>9

-----------------------------------------------------------------------------
(* The walk of initNV over the items.                                      *)

\* All items are on pages in use.
LEMMA AllInUse ==
  ASSUME NvInv, pc # "headers", todo = <<>>, Spare(flash, pgRes)
  PROVE  /\ pgRes \in Pages /\ pgRes # Nothing /\ flash[pgRes] = Erased
         /\ \A p \in Pages : \A k \in DOMAIN flash[p].items : p # pgRes /\ flash[p].inUse
BY ItemsAssumption, NoneToCome DEF Spare, NvInv, ReserveOK, Ready, Erased

\* A walk goes from one item that matters to the next.
LEMMA HereMatters ==
  ASSUME NvInv, Walking
  PROVE  /\ \A k \in DOMAIN Items : boot.k <= k /\ k < Here => ~ Matters(Items[k])
         /\ Here <= Len(Items) => Matters(Items[Here])
<1>1. /\ Items \in Seq(Item) /\ Len(Items) \in Nat /\ DOMAIN Items = 1 .. Len(Items)
      /\ boot.k \in Nat \ {0}
  BY HereIs, BootIs
<1> DEFINE later == {k \in boot.k .. Len(Items) : Matters(Items[k])}
<1>2. CASE later = {}
  BY <1>2, <1>1 DEF Here
<1>3. CASE later # {}
  <2>1. later \in SUBSET Nat
    BY <1>1
  <2>2. \E k \in later : \A j \in later : k <= j
    <3> HIDE DEF later
    <3> QED
      BY <1>3, <2>1, LeastElement
  <2>3. Here = CHOOSE k \in later : \A j \in later : k <= j
    BY <1>3 DEF Here
  <2>4. Here \in later /\ \A j \in later : Here <= j
    BY <2>2, <2>3
  <2>5. \A k \in DOMAIN Items : boot.k <= k => k \in boot.k .. Len(Items)
    BY <1>1
  <2>6. \A j \in DOMAIN Items : ~ (Here <= j /\ j < Here)
    BY <2>1, <2>4, <1>1
  <2> QED
    BY <2>4, <2>5, <2>6
<1> QED
  BY <1>2, <1>3

\* Items that do not matter are good already.
LEMMA PassedOver ==
  ASSUME NvInv, Walking, boot.pass # "third", NEW k \in DOMAIN Items,
         boot.k <= k, k < Here
  PROVE  Good(flash, boot.pass, Items[k])
BY HereMatters, HereIs, BootIs, SlotTyped DEF Items, Matters, Good

\* Items are at most zeroed.
Thins(fl, new) ==
  \A p \in Pages :
    /\ new[p].inUse = fl[p].inUse /\ DOMAIN new[p].items = DOMAIN fl[p].items
    /\ \A k \in DOMAIN fl[p].items :
         new[p].items[k] = fl[p].items[k] \/ new[p].items[k].id = Nothing

LEMMA GoodStays ==
  ASSUME NEW fl \in Flashes, NEW new, Thins(fl, new), NEW pass,
         NEW p \in Pages, NEW k \in DOMAIN fl[p].items, Good(fl, pass, fl[p].items[k])
  PROVE  Good(new, pass, new[p].items[k])
<1>1. CASE new[p].items[k].id = Nothing
  BY <1>1 DEF Good
<1>2. CASE new[p].items[k].id # Nothing
  <2>1. new[p].items[k] = fl[p].items[k]
    BY <1>2 DEF Thins
  <2>2. PICK id : id = fl[p].items[k].id
    OBVIOUS
  <2>3. id # Nothing
    BY <1>2, <2>1, <2>2
  <2>4. AllLive(fl, id) => AllLive(new, id)
    BY <2>3 DEF Thins, Copy, AllLive
  <2> QED
    BY <2>1, <2>2, <2>4 DEF Good
<1> QED
  BY <1>1, <1>2

LEMMA SweptOn ==
  ASSUME NvInv, AtItem, boot.pass # "third", Swept(flash, boot),
         NEW new, Thins(flash, new), Good(new, boot.pass, new[boot.pg].items[Here]),
         NEW b, b.pass = boot.pass, b.pg = boot.pg, b.k = Here + 1
  PROVE  Swept(new, b)
<1>1. Walking /\ Here <= Len(Items)
  BY DEF AtItem
<1>2. /\ DOMAIN Items = 1 .. Len(Items) /\ Len(Items) \in Nat /\ boot.pg \in Pages
      /\ Here \in 1 .. Len(Items) + 1 /\ flash \in Flashes /\ boot.k \in Nat
  BY <1>1, HereIs, BootIs
<1>3. SUFFICES ASSUME NEW p \in Pages, NEW k \in DOMAIN new[p].items, Passed(b, p, k)
               PROVE  Good(new, b.pass, new[p].items[k])
  BY DEF Swept
<1>4. k \in DOMAIN flash[p].items
  BY DEF Thins
<1>5. CASE Passed(boot, p, k)
  BY <1>2, <1>4, <1>5, GoodStays DEF Swept
<1>6. CASE ~ Passed(boot, p, k)
  <2>1. p = boot.pg /\ k < Here + 1 /\ ~ (k < boot.k)
    BY <1>3, <1>6 DEF Passed
  <2>2. k \in DOMAIN Items
    BY <1>4, <2>1 DEF Items
  <2>3. k = Here \/ (boot.k <= k /\ k < Here)
    BY <1>2, <2>1, <2>2
  <2>4. CASE k = Here
    BY <2>1, <2>4
  <2>5. CASE boot.k <= k /\ k < Here
    <3>1. Good(flash, boot.pass, Items[k])
      BY <1>1, <2>2, <2>5, PassedOver
    <3> QED
      BY <1>2, <1>4, <2>1, <3>1, GoodStays DEF Items
  <2> QED
    BY <2>3, <2>4, <2>5
<1> QED
  BY <1>5, <1>6

\* Zeroing thins.
LEMMA ClearsThins ==
  ASSUME NEW fl \in Flashes, NEW new, NEW p, NEW k, Clears(fl, new, p, k)
  PROVE  Thins(fl, new)
BY DEF Thins, Clears, SameHeader, SameSlots, Others

LEMMA SweepStays ==
  ASSUME NEW fl \in Flashes, NEW new \in Flashes, NEW p, NEW k, Clears(fl, new, p, k),
         NEW r, AtRest(fl, r), OneOfAKind(new)
  PROVE  AtRest(new, r)
BY HeadersStay, ClearsStay DEF Clears, AtRest

LEMMA WalkStarts ==
  ASSUME StartWalk, NvInv, Recovering(flash, todo, pgRes)
  PROVE  Sweeping(flash', pgRes', boot') /\ SameValues(flash, flash') /\ todo' = <<>>
BY FlashTyped, RecoveryDone, PagesAssumption, SlotTyped DEF StartWalk, ramVars, Locals,
   Pages, Passed, Swept, Sweeping, SameValues

\* An item without data is zeroed.
LEMMA WalkBadSweeps ==
  ASSUME NvInv, NvInv', WalkBad, Sweeping(flash, pgRes, boot)
  PROVE  Sweeping(flash', pgRes', boot') /\ SameValues(flash, flash') /\ todo' = todo
<1>0. PICK p, k : p = boot.pg /\ k = Here
  OBVIOUS
<1>1. /\ AtItem /\ flash[p].items[k].val = Blank
      /\ flash' = [flash EXCEPT ![p].items[k] = Zeroed(@)]
      /\ pgRes' = pgRes /\ todo' = todo
      /\ boot' = [boot EXCEPT !.k = k + 1, !.lost = LostHere + Items[Here].len]
  BY <1>0 DEF WalkBad, Zero, OnWith, Items
<1>2. /\ flash \in Flashes /\ flash' \in Flashes
      /\ p \in Pages /\ k \in DOMAIN flash[p].items /\ pc = "walk" /\ todo = <<>>
      /\ flash[p].items[k].id # Nothing
  BY <1>0, <1>1, FlashTypedNext, HereIs DEF AtItem, Items
<1>3. Clears(flash, flash', p, k)
  BY <1>1, <1>2, ZeroEffect
<1>4. AtRest(flash, pgRes)
  BY DEF Sweeping
<1>5. OneOfAKind(flash') /\ SameValues(flash, flash')
  BY <1>1, <1>3, ClearsBlank, <1>2, <1>4, OnlyDropsKeep DEF AtRest
<1>6. AtRest(flash', pgRes')
  BY <1>1, <1>2, <1>3, <1>4, <1>5, SweepStays
<1>7. boot.pass # "third"
  BY <1>2, <1>4, AllInUse, <1>1 DEF AtRest, Sweeping, NoBlanks
<1>8. boot'.pass = boot.pass /\ boot'.pg = boot.pg /\ boot'.k = Here + 1
  BY <1>0, <1>1, BootIs
<1>9. Good(flash', boot.pass, flash'[p].items[k])
  BY <1>3 DEF Clears, Good
<1>10. Swept(flash', boot')
  <2>1. Thins(flash, flash')
    BY <1>2, <1>3, ClearsThins
  <2>2. Swept(flash, boot)
    BY <1>7 DEF Sweeping
  <2> QED
    BY <1>0, <1>1, <1>7, <1>8, <1>9, <2>1, <2>2, SweptOn
<1> QED
  BY <1>1, <1>5, <1>6, <1>7, <1>8, <1>10 DEF Sweeping

\* The old twin of a live item is zeroed.
LEMMA WalkTwinSweeps ==
  ASSUME NvInv, NvInv', WalkTwin, Sweeping(flash, pgRes, boot)
  PROVE  Sweeping(flash', pgRes', boot') /\ SameValues(flash, flash') /\ todo' = todo
<1>0. PICK p, k, id, old : p = boot.pg /\ k = Here /\ id = Items[Here].id
                           /\ old = First(Places(id, "xfer"))
  BY Zenon
<1>1. /\ AtItem /\ flash[p].items[k].val # Blank /\ boot.pass = "second"
      /\ Places(id, "xfer") = {} => flash' = flash
      /\ Places(id, "xfer") # {} =>
           flash' = [flash EXCEPT ![old[1]].items[old[2]] = Zeroed(@)]
      /\ pgRes' = pgRes /\ todo' = todo
      /\ boot' = [boot EXCEPT !.k = k + 1, !.lost = LostHere]
  BY <1>0, Zenon DEF WalkTwin, OnWith, Items
<1>2. /\ flash \in Flashes /\ flash' \in Flashes
      /\ p \in Pages /\ k \in DOMAIN flash[p].items /\ pc = "walk" /\ todo = <<>>
      /\ flash[p].items[k].id = id /\ id # Nothing /\ id \in Ids
  <2>1. /\ p \in Pages /\ k \in DOMAIN flash[p].items /\ pc = "walk" /\ todo = <<>>
        /\ flash[p].items[k].id = id /\ id # Nothing
    BY <1>0, <1>1, HereIs, Zenon DEF AtItem, Items
  <2>2. flash \in Flashes /\ flash' \in Flashes
    BY FlashTypedNext
  <2>3. flash[p].items[k].id \in Ids \cup {Nothing}
    BY ONLY <2>1, <2>2, SlotTyped
  <2> QED
    BY ONLY <2>1, <2>2, <2>3
<1>3. AtRest(flash, pgRes) /\ Swept(flash, boot)
  BY <1>1 DEF Sweeping
<1>4. flash[p].items[k].stat = "live"
  <2>1. Matters(flash[p].items[k])
    BY <1>0, <1>1, HereMatters, Zenon DEF AtItem, Items
  <2>2. flash[p].items[k].val # Blank /\ boot.pass = "second"
    BY <1>1, Zenon
  <2> QED
    BY ONLY <2>1, <2>2 DEF Matters
<1>5. \A q \in Pages : \A j \in DOMAIN flash[q].items : flash[q].inUse
  BY <1>2, <1>3, AllInUse DEF AtRest
<1>6. Live(flash, p, k, id) /\ SomeLive(flash, id)
  BY <1>1, <1>2, <1>4, <1>5 DEF Live, Copy, SomeLive
<1>7. boot'.pass = boot.pass /\ boot'.pg = boot.pg /\ boot'.k = Here + 1
  BY <1>0, <1>1, BootIs
<1>8. SUFFICES ASSUME TRUE
               PROVE  /\ Thins(flash, flash') /\ AtRest(flash', pgRes)
                      /\ SameValues(flash, flash') /\ AllLive(flash', id)
                      /\ flash'[p].items[k] = flash[p].items[k]
  <2>1. Good(flash', boot.pass, flash'[p].items[k])
    <3>1. flash[p].items[k].val # Blank /\ boot.pass = "second"
      BY <1>1, Zenon
    <3> QED
      BY ONLY <1>2, <1>8, <3>1 DEF Good
  <2>2. Swept(flash', boot')
    BY <1>0, <1>1, <1>3, <1>7, <1>8, <2>1, SweptOn
  <2> QED
    BY <1>1, <1>7, <1>8, <2>2 DEF Sweeping
<1>9. CASE Places(id, "xfer") = {}
  <2>1. flash' = flash
    BY <1>1, <1>9
  <2>2. AllLive(flash, id)
    <3>1. SUFFICES ASSUME NEW q, NEW j, Copy(flash, q, j, id), flash[q].items[j].stat # "live"
                   PROVE  FALSE
      BY DEF AllLive
    <3>2. /\ q \in Pages /\ j \in DOMAIN flash[q].items
          /\ flash[q].items[j].id = id
      BY <3>1 DEF Copy
    <3>3. flash[q].items[j].stat = "xfer"
      BY <1>2, <3>1, <3>2, SlotTyped
    <3>4. <<q, j>> \in Places(id, "xfer")
      BY <3>2, <3>3 DEF Places
    <3> QED
      BY <1>9, <3>4
  <2> QED
    BY <1>3, <2>1, <2>2 DEF Thins, SameValues
<1>10. CASE Places(id, "xfer") # {}
  <2>1. old \in Places(id, "xfer")
    BY <1>0, <1>10, PlacesAre, FirstIsOne
  <2>2. PICK q, j : q = old[1] /\ j = old[2]
    OBVIOUS
  <2>3. /\ q \in Pages /\ j \in DOMAIN flash[q].items
        /\ flash[q].items[j].id = id /\ flash[q].items[j].stat = "xfer"
    BY <2>1, <2>2, PlacesAre, <1>2, SlotTyped
  <2>4. Copy(flash, q, j, id)
    BY <1>3, <1>5, <2>3 DEF AtRest, Sealed, Copy
  <2>5. Clears(flash, flash', q, j)
    BY <1>1, <1>10, <2>2, <2>3, ZeroEffect
  <2>6. OneOfAKind(flash)
    BY <1>3 DEF AtRest
  <2>7. OneOfAKind(flash') /\ SameValues(flash, flash')
    BY <1>2, <1>6, <2>3, <2>4, <2>5, <2>6, OldGoes
  <2>8. AtRest(flash', pgRes)
    BY <1>2, <1>3, <2>5, <2>7, SweepStays
  <2>9. Thins(flash, flash')
    BY <1>2, <2>5, ClearsThins
  <2>10. AllLive(flash', id)
    <3>1. SUFFICES ASSUME NEW x, NEW y, Copy(flash', x, y, id),
                          flash'[x].items[y].stat # "live"
                   PROVE  FALSE
      BY DEF AllLive
    <3>2. /\ Copy(flash, x, y, id) /\ ~ (x = q /\ y = j)
          /\ flash'[x].items[y] = flash[x].items[y]
      BY <1>2, <2>5, <3>1, ClearsStay
    <3>3. x \in Pages /\ y \in DOMAIN flash[x].items
      BY <3>2 DEF Copy
    <3>4. flash[x].items[y].stat = "xfer"
      BY <1>2, <3>1, <3>2, <3>3, SlotTyped
    <3> QED
      BY <1>2, <2>3, <2>4, <2>6, <3>2, <3>3, <3>4 DEF OneOfAKind, OneFor
  <2>11. flash'[p].items[k] = flash[p].items[k]
    BY <1>4, <2>3, <1>2, <2>5 DEF Clears, Others
  <2> QED
    BY <2>7, <2>8, <2>9, <2>10, <2>11
<1> QED
  BY <1>9, <1>10

LEMMA WalkStopsSweeps ==
  ASSUME NvInv, WalkStops, Sweeping(flash, pgRes, boot)
  PROVE  Sweeping(flash', pgRes', boot') /\ SameValues(flash, flash') /\ todo' = todo
BY BootIs, PagesAssumption, FlashTyped, SlotTyped DEF WalkStops, ramVars, Locals, Pages,
   Passed, Sweeping, Swept, SameValues

LEMMA WalkPageEndSweeps ==
  ASSUME NvInv, WalkPageEnd, Sweeping(flash, pgRes, boot)
  PROVE  Sweeping(flash', pgRes', boot') /\ SameValues(flash, flash') /\ todo' = todo
<1>1. /\ Walking /\ ~ (Here <= Len(Items)) /\ flash' = flash /\ pgRes' = pgRes /\ todo' = todo
      /\ boot' = [boot EXCEPT !.pg = @ + 1, !.k = 1, !.lost = 0]
  BY DEF WalkPageEnd, AtItem
<1>2. /\ boot'.pass = boot.pass /\ boot'.pg = boot.pg + 1 /\ boot'.k = 1
  BY <1>1, BootIs
<1>3. ASSUME boot.pass # "third" PROVE Swept(flash, boot')
  <2>1. SUFFICES ASSUME NEW p \in Pages, NEW k \in DOMAIN flash[p].items, Passed(boot', p, k)
                 PROVE  Good(flash, boot'.pass, flash[p].items[k])
    BY DEF Swept
  <2>2. /\ p \in Nat /\ boot.pg \in Nat /\ k \in Nat /\ k >= 1 /\ boot.k \in Nat
    BY FlashTyped, SlotTyped, BootIs
  <2>3. p < boot.pg \/ p = boot.pg
    BY <1>2, <2>1, <2>2 DEF Passed
  <2>4. Swept(flash, boot)
    BY <1>3 DEF Sweeping
  <2>5. CASE p < boot.pg
    BY <1>2, <2>4, <2>5 DEF Swept, Passed
  <2>6. CASE p = boot.pg
    <3>1. k \in DOMAIN Items
      BY <2>6 DEF Items
    <3>2. k < Here
      BY <1>1, <3>1, HereIs
    <3>3. CASE k < boot.k
      BY <1>2, <2>4, <2>6, <3>3 DEF Swept, Passed
    <3>4. CASE boot.k <= k
      BY <1>1, <1>2, <1>3, <2>6, <3>1, <3>2, <3>4, PassedOver DEF Items
    <3> QED
      BY <2>2, <3>3, <3>4
  <2> QED
    BY <2>3, <2>5, <2>6
<1> QED
  BY <1>1, <1>2, <1>3 DEF Sweeping, SameValues

\* All pages have been walked.
LEMMA WalkedAll ==
  ASSUME NvInv, pc = "walk", boot.pg \notin Pages, Sweeping(flash, pgRes, boot)
  PROVE  Settled(flash, pgRes) /\ pgRes # Nothing /\ pgRes \in Pages
<1>1. /\ AtRest(flash, pgRes) /\ todo = <<>> /\ flash \in Flashes
      /\ boot.pass \in {"first", "second", "third"}
  BY FlashTyped, BootIs DEF Sweeping, NvInv, PhaseOK
<1>2. pgRes \in Pages /\ pgRes # Nothing
  BY <1>1, AllInUse DEF AtRest
<1>3. CASE boot.pass = "third"
  BY <1>1, <1>2, <1>3 DEF Sweeping, Settled
<1>4. CASE boot.pass # "third"
  <2>1. \A p \in Pages : p < boot.pg
    BY BootIs
  <2>2. \A p \in Pages : \A k \in DOMAIN flash[p].items :
          Good(flash, boot.pass, flash[p].items[k])
    BY <1>4, <2>1 DEF Sweeping, Swept, Passed
  <2>3. NoBlanks(flash)
    BY <2>2 DEF NoBlanks, Good
  <2>4. Single(flash)
    <3>1. SUFFICES ASSUME NEW id \in Ids, NEW p \in Pages, NEW q \in Pages,
                          NEW j \in DOMAIN flash[p].items, NEW k \in DOMAIN flash[q].items,
                          Copy(flash, p, j, id), Copy(flash, q, k, id)
                   PROVE  p = q /\ j = k
      BY DEF Single, SingleFor
    <3>2. id # Nothing
      BY ItemsAssumption
    <3>3. /\ flash[p].items[j].id = id /\ flash[q].items[k].id = id
          /\ flash[p].items[j].stat \in {"live", "xfer"}
          /\ flash[q].items[k].stat \in {"live", "xfer"}
      BY <1>1, <3>1, SlotTyped DEF Copy
    <3>4. Good(flash, boot.pass, flash[p].items[j]) /\ Good(flash, boot.pass, flash[q].items[k])
      BY <2>2
    <3>5. flash[p].items[j].stat = flash[q].items[k].stat
      BY <3>2, <3>3, <3>4, <3>1, <1>1, <1>4 DEF Good, AllLive
    <3> QED
      BY <1>1, <3>1, <3>5 DEF AtRest, OneOfAKind, OneFor
  <2> QED
    BY <1>1, <1>2, <2>3, <2>4 DEF Settled
<1> QED
  BY <1>3, <1>4

LEMMA WalkAgainSweeps ==
  ASSUME NvInv, WalkAgain, Sweeping(flash, pgRes, boot)
  PROVE  Sweeping(flash', pgRes', boot') /\ SameValues(flash, flash') /\ todo' = todo
BY WalkedAll DEF WalkAgain, ramVars, Locals, Sweeping, Settled, SameValues

LEMMA BootedSettles ==
  ASSUME NvInv, Booted, Sweeping(flash, pgRes, boot)
  PROVE  /\ pc' = "idle" /\ todo' = todo /\ SameValues(flash, flash')
         /\ Settled(flash', pgRes')
BY WalkedAll DEF Booted, ramVars, SameValues

-----------------------------------------------------------------------------
(* A call begins.                                                          *)

\* The order in which a plan is put together, and that in which it is carried out.
Reordered(w, m, s, z) ==
  /\ ((((<<>> \o w) \o m) \o s) \o <<>>) \o z = w \o (m \o (s \o z))
  /\ w \o s = w \o (<<>> \o (s \o <<>>))
LEMMA AddPlan ==
  ASSUME NEW w \in Seq(Ops), NEW m \in Seq(Ops), NEW s \in Seq(Ops), NEW z \in Seq(Ops)
  PROVE  Reordered(w, m, s, z)
<1>1. /\ <<>> \o w = w /\ w \o m \in Seq(Ops) /\ (w \o m) \o s \in Seq(Ops)
      /\ m \o s \in Seq(Ops) /\ s \o z \in Seq(Ops) /\ <<>> \o s = s /\ s \o <<>> = s
  BY Assoc
<1>2. ((w \o m) \o s) \o <<>> = (w \o m) \o s
  BY <1>1, Assoc
<1>3. ((w \o m) \o s) \o z = (w \o m) \o (s \o z)
  BY <1>1, Assoc
<1>4. (w \o m) \o (s \o z) = w \o (m \o (s \o z))
  BY <1>1, Assoc
<1> QED
  BY <1>1, <1>2, <1>3, <1>4 DEF Reordered

\* Where three operations stand in a plan makes no difference.
Grouped(a, b, c) == (a \o b) \o c = a \o (b \o c)
LEMMA Groups == \A a, b, c \in Seq(Ops) : Grouped(a, b, c)
BY Assoc DEF Grouped

RoomReordered(x, c, w, m, s, u, e, z) ==
  /\ (((((x \o c) \o w) \o m) \o s) \o (u \o e)) \o z
       = x \o (c \o (w \o (m \o (s \o (u \o (e \o z))))))
  /\ (((x \o c) \o w) \o s) \o (u \o e)
       = x \o (c \o (w \o (<<>> \o (s \o (u \o (e \o <<>>))))))
LEMMA RoomPlan ==
  ASSUME NEW x \in Seq(Ops), NEW c \in Seq(Ops), NEW w \in Seq(Ops), NEW m \in Seq(Ops),
         NEW s \in Seq(Ops), NEW u \in Seq(Ops), NEW e \in Seq(Ops), NEW z \in Seq(Ops)
  PROVE  RoomReordered(x, c, w, m, s, u, e, z)
<1>1. PICK xc \in Seq(Ops), ue \in Seq(Ops), ez \in Seq(Ops) :
        xc = x \o c /\ ue = u \o e /\ ez = e \o z
  BY Assoc
<1>2. PICK uez \in Seq(Ops) : uez = u \o ez
  BY Assoc
<1>3. PICK suez \in Seq(Ops), xcw \in Seq(Ops), sue \in Seq(Ops) :
        suez = s \o uez /\ xcw = xc \o w /\ sue = s \o ue
  BY Assoc
<1>4. PICK msuez \in Seq(Ops), xcwm \in Seq(Ops), wsue \in Seq(Ops) :
        msuez = m \o suez /\ xcwm = xcw \o m /\ wsue = w \o sue
  BY Assoc
<1>5. PICK xcwms \in Seq(Ops), tail \in Seq(Ops) : xcwms = xcwm \o s /\ tail = w \o msuez
  BY Assoc
<1>6. /\ Grouped(u, e, z) /\ Grouped(xcwms, ue, z) /\ Grouped(xcwm, s, uez)
      /\ Grouped(xcw, m, suez) /\ Grouped(xc, w, msuez) /\ Grouped(x, c, tail)
      /\ Grouped(xcw, s, ue) /\ Grouped(xc, w, sue) /\ Grouped(x, c, wsue)
  BY Groups
<1>7. (xcwms \o ue) \o z = x \o (c \o tail)
  <2>1. (xcwms \o ue) \o z = xcwms \o uez
    BY ONLY <1>1, <1>2, <1>6, Zenon DEF Grouped
  <2>2. xcwms \o uez = xcwm \o suez
    BY ONLY <1>3, <1>5, <1>6, Zenon DEF Grouped
  <2>3. xcwm \o suez = xcw \o msuez
    BY ONLY <1>4, <1>6, Zenon DEF Grouped
  <2>4. xcw \o msuez = xc \o tail
    BY ONLY <1>3, <1>5, <1>6, Zenon DEF Grouped
  <2>5. xc \o tail = x \o (c \o tail)
    BY ONLY <1>1, <1>6, Zenon DEF Grouped
  <2> QED
    BY ONLY <2>1, <2>2, <2>3, <2>4, <2>5, Zenon
<1>8. (xcw \o s) \o ue = x \o (c \o wsue)
  <2>1. (xcw \o s) \o ue = xcw \o sue
    BY ONLY <1>3, <1>6, Zenon DEF Grouped
  <2>2. xcw \o sue = xc \o wsue
    BY ONLY <1>3, <1>4, <1>6, Zenon DEF Grouped
  <2>3. xc \o wsue = x \o (c \o wsue)
    BY ONLY <1>1, <1>6, Zenon DEF Grouped
  <2> QED
    BY ONLY <2>1, <2>2, <2>3, Zenon
<1>9. e \o <<>> = e /\ <<>> \o sue = sue
  BY Assoc
<1> QED
  BY ONLY <1>1, <1>2, <1>3, <1>4, <1>5, <1>7, <1>8, <1>9, Zenon
     DEF RoomReordered

\* What a search finds between calls.
LEMMA FoundCopy ==
  ASSUME NvInv, pc = "idle", Settled(flash, pgRes), NEW id \in Ids
  PROVE  /\ findItem(id) # Nothing =>
              /\ CopyAt(flash, findItem(id), id) /\ ItemAt(findItem(id)).val # Blank
              /\ findItem(id) \in Pages \X (Nat \ {0})
              /\ findItem(id)[1] \in Pages /\ findItem(id)[2] \in DOMAIN flash[findItem(id)[1]].items
         /\ findItem(id) = Nothing => ~ SomeCopy(flash, id)
<1>1. /\ todo = <<>> /\ flash \in Flashes /\ id # Nothing /\ pc # "headers"
  BY FlashTyped, ItemsAssumption DEF NvInv, PhaseOK
<1>2. \A p \in Pages : \A k \in DOMAIN flash[p].items : flash[p].inUse
  BY <1>1, AllInUse DEF Settled, AtRest
<1>3. ASSUME findItem(id) # Nothing
      PROVE  /\ CopyAt(flash, findItem(id), id) /\ ItemAt(findItem(id)).val # Blank
             /\ findItem(id) \in Pages \X (Nat \ {0})
             /\ findItem(id)[1] \in Pages /\ findItem(id)[2] \in DOMAIN flash[findItem(id)[1]].items
  <2>1. PICK src : src = findItem(id)
    OBVIOUS
  <2>2. /\ src = <<src[1], src[2]>> /\ src[1] \in Pages /\ src[2] \in Nat \ {0}
        /\ src[2] \in 1 .. Len(flash[src[1]].items)
        /\ flash[src[1]].items[src[2]].id = id
    BY <1>3, <2>1, Found
  <2>3. src[2] \in DOMAIN flash[src[1]].items
    BY <1>1, <2>2, SlotTyped
  <2>4. flash[src[1]].items[src[2]].val # Blank
    BY <1>1, <1>2, <2>2, <2>3 DEF Settled, NoBlanks
  <2>5. src \in Pages \X (Nat \ {0})
    BY <2>2
  <2> QED
    BY <1>2, <2>1, <2>2, <2>3, <2>4, <2>5 DEF CopyAt, Copy, ItemAt
<1>4. ASSUME findItem(id) = Nothing PROVE ~ SomeCopy(flash, id)
  <2>1. \A stat : Places(id, stat) # {} => First(Places(id, stat)) # Nothing
    BY PlacesAre, FirstIsOne, PlacesAssumption
  <2>2. Places(id, "live") = {} /\ Places(id, "xfer") = {}
    BY <1>4, <2>1 DEF findItem
  <2>3. SUFFICES ASSUME NEW p \in Pages, NEW k \in DOMAIN flash[p].items, Copy(flash, p, k, id)
                 PROVE  FALSE
    BY DEF SomeCopy
  <2>4. flash[p].items[k].id = id /\ flash[p].items[k].stat \in {"live", "xfer"}
    BY <1>1, <2>3, SlotTyped DEF Copy
  <2>5. <<p, k>> \in Places(id, flash[p].items[k].stat)
    BY <2>3, <2>4 DEF Places
  <2> QED
    BY <2>2, <2>4, <2>5
<1> QED
  BY <1>3, <1>4

\* The page that is compacted is not marked yet.
LEMMA RoomMade ==
  ASSUME Settled(flash, pgRes), NEW p \in Pages \ {pgRes}, NEW id
  PROVE  MakeRoom(p, id) = Op("xfer", p) \o Copies(p, 1, pgRes, id)
BY DEF Settled, AtRest, Spare, Unmarked, MakeRoom

\* The plan of a call that writes an item, new or not.
LEMMA PlanBegins ==
  ASSUME NvInv, pc = "idle", Settled(flash, pgRes), NEW cl \in Calls,
         cl.id \in Ids, cl.val \in Values, SourceOK(flash, cl), NEW t \in Pages \ {pgRes},
         cl.com \in {t, Nothing}, NEW td,
         cl.com = Nothing => td = NewItem(flash, t, pgRes, cl),
         cl.com # Nothing =>
           td = Op("xfer", t) \o (Copies(t, 1, pgRes, cl.id) \o NewItem(flash, pgRes, pgRes, cl))
  PROVE  Calling(flash, td, pgRes, cl)
<1>1. /\ Nothing \notin Pages /\ flash[pgRes] = Erased
  BY AllInUse, ItemsAssumption DEF NvInv, PhaseOK, Settled, AtRest
<1>2. CASE cl.com = Nothing
  BY <1>2 DEF Calling, Adding
<1>3. CASE cl.com # Nothing
  <2>1. cl.com = t
    BY <1>3
  <2>2. flash[pgRes].items = <<>> /\ ~ flash[pgRes].xfer
    BY <1>1 DEF Erased
  <2> QED
    BY <1>3, <2>1, <2>2 DEF Calling, MakingRoom
<1> QED
  BY <1>2, <1>3

\* The parts of a plan are plans.
LEMMA PartsTyped ==
  ASSUME NEW cl \in Calls, cl.id \in Ids, cl.val \in Values, NEW q \in Pages, NEW fl,
         NEW r \in Pages, NEW t \in Pages
  PROVE  /\ WriteItem(q, cl.id, FALSE) \in Seq(Ops) /\ Seal(q, cl.val, FALSE) \in Seq(Ops)
         /\ Marking(fl, cl) \in Seq(Ops) /\ Zeroing(cl) \in Seq(Ops)
         /\ Op("xfer", t) \in Seq(Ops) /\ Copies(t, 1, r, cl.id) \in Seq(Ops)
         /\ Op("use", r) \in Seq(Ops) /\ Op("erase", t) \in Seq(Ops)
<1>1. cl.id \in Ids \cup {Nothing} /\ 1 \in Nat \ {0} /\ cl.val \in Values \cup {Blank}
      /\ FALSE \in BOOLEAN
  OBVIOUS
<1>2. /\ WriteItem(q, cl.id, FALSE) \in Seq(Ops) /\ Seal(q, cl.val, FALSE) \in Seq(Ops)
      /\ Copies(t, 1, r, cl.id) \in Seq(Ops)
  BY <1>1, OpsTyped
<1> QED
  BY <1>2, OpsTyped, CallTyped

LEMMA WriteBegins ==
  ASSUME NvInv, NvInv', NEW id \in Ids, NEW v \in Values, osal_nv_write(id, v),
         Settled(flash, pgRes), Target(id) # Nothing
  PROVE  /\ Calling(flash, todo', pgRes, call')
         /\ call'.id = id /\ call'.val = v /\ pc' = "call"
<1>0. PICK src, com, t, cl, r : src = findItem(id) /\ com = Compacted(id) /\ t = Target(id)
                                /\ cl = call' /\ r = pgRes
  OBVIOUS
<1>1. /\ pc = "idle" /\ src # Nothing /\ Recount(id) /\ t # Nothing /\ flash' = flash
      /\ todo' = WritePlan(id, v, t, com, src) /\ pc' = "call"
      /\ cl = [id |-> id, val |-> v, src |-> src, com |-> com, ok |-> TRUE]
  BY <1>0 DEF osal_nv_write
<1>2. cl.id = id /\ cl.val = v /\ cl.src = src /\ cl.com = com /\ cl \in Calls
  BY <1>0, <1>1 DEF NvInv, Types
<1>3. /\ t \in Pages \ {pgRes} /\ com \in {t, Nothing} /\ Nothing \notin Pages
  BY <1>0, <1>1, TargetFits
<1>4. /\ CopyAt(flash, src, id) /\ ItemAt(src).val # Blank /\ flash \in Flashes
      /\ r \in Pages
  BY <1>0, <1>1, FoundCopy, FlashTyped DEF Settled, AtRest, Spare
<1>5. SourceOK(flash, cl)
  BY <1>1, <1>2, <1>4 DEF SourceOK
<1>6. PICK w, m, s, z, x, c, u, e :
        /\ m = MarkXfer(src)
        /\ z = IF src[1] = com THEN <<>> ELSE ItemOp("zero", src)
        /\ x = Op("xfer", t) /\ c = Copies(t, 1, r, id)
        /\ u = Op("use", r) /\ e = Op("erase", t)
        /\ w = WriteItem(IF com = Nothing THEN t ELSE r, id, FALSE)
        /\ s = Seal(IF com = Nothing THEN t ELSE r, v, FALSE)
  OBVIOUS
<1>7. m = Marking(flash, cl) /\ z = Zeroing(cl)
  BY <1>1, <1>2, <1>6 DEF MarkXfer, Marking, Stat, ItemAt, Zeroing
<1>8. (IF com = Nothing THEN t ELSE r) \in Pages
  BY <1>3, <1>4
<1>9. /\ w \in Seq(Ops) /\ m \in Seq(Ops) /\ s \in Seq(Ops) /\ z \in Seq(Ops)
      /\ x \in Seq(Ops) /\ c \in Seq(Ops) /\ u \in Seq(Ops) /\ e \in Seq(Ops)
  BY <1>2, <1>3, <1>4, <1>6, <1>7, <1>8, PartsTyped
<1>10. todo' = (IF com = Nothing THEN <<>> ELSE MakeRoom(t, id))
               \o w \o m \o s \o (IF com = Nothing THEN <<>> ELSE Cleanup(t)) \o z
  BY <1>1, <1>4, <1>0, <1>6 DEF WritePlan
<1>11. ASSUME com = Nothing PROVE todo' = NewItem(flash, t, r, cl)
  <2>1. todo' = ((((<<>> \o w) \o m) \o s) \o <<>>) \o z
    BY <1>10, <1>11
  <2>2. todo' = w \o (m \o (s \o z))
    <3>1. Reordered(w, m, s, z)
      BY <1>9, AddPlan
    <3> QED
      BY <2>1, <3>1 DEF Reordered
  <2> QED
    BY <1>2, <1>6, <1>7, <1>11, <2>2 DEF NewItem, MarkAndData, Data, Ending
<1>12. ASSUME com # Nothing
       PROVE  todo' = Op("xfer", t) \o (Copies(t, 1, r, id) \o NewItem(flash, r, r, cl))
  <2>1. MakeRoom(t, id) = x \o c /\ Cleanup(t) = u \o e
    BY <1>0, <1>3, <1>6, RoomMade DEF Cleanup
  <2>2. todo' = (((((x \o c) \o w) \o m) \o s) \o (u \o e)) \o z
    BY <1>10, <1>12, <2>1
  <2>3. todo' = x \o (c \o (w \o (m \o (s \o (u \o (e \o z))))))
    <3>1. RoomReordered(x, c, w, m, s, u, e, z)
      BY <1>9, RoomPlan
    <3> QED
      BY <2>2, <3>1 DEF RoomReordered
  <2>4. com = t
    BY <1>3, <1>12
  <2>5. Ending(r, cl) = u \o (e \o z)
    BY <1>2, <1>6, <1>7, <1>12, <2>4 DEF Ending
  <2>6. NewItem(flash, r, r, cl) = w \o (m \o (s \o (u \o (e \o z))))
    BY <1>2, <1>6, <1>7, <1>12, <2>5 DEF NewItem, MarkAndData, Data
  <2> QED
    BY <1>6, <2>3, <2>6
<1>13. Calling(flash, todo', pgRes, cl)
  BY <1>0, <1>1, <1>2, <1>3, <1>5, <1>11, <1>12, PlanBegins
<1> QED
  BY <1>0, <1>1, <1>2, <1>13

LEMMA ItemInitBegins ==
  ASSUME NvInv, NvInv', NEW id \in Ids, NEW v \in Values, osal_nv_item_init(id, v),
         Settled(flash, pgRes), Target(id) # Nothing
  PROVE  /\ Calling(flash, todo', pgRes, call')
         /\ call'.id = id /\ call'.val = v /\ pc' = "call"
<1>0. PICK com, t, cl, r : com = Compacted(id) /\ t = Target(id) /\ cl = call' /\ r = pgRes
  OBVIOUS
<1>1. /\ pc = "idle" /\ findItem(id) = Nothing /\ Recount(id) /\ t # Nothing
      /\ flash' = flash /\ todo' = InitPlan(id, v, t, com) /\ pc' = "call"
      /\ cl = [id |-> id, val |-> v, src |-> Nothing, com |-> com, ok |-> TRUE]
  BY <1>0 DEF osal_nv_item_init
<1>2. cl.id = id /\ cl.val = v /\ cl.src = Nothing /\ cl.com = com /\ cl \in Calls
  BY <1>0, <1>1 DEF NvInv, Types
<1>3. /\ t \in Pages \ {pgRes} /\ com \in {t, Nothing} /\ Nothing \notin Pages
  BY <1>0, <1>1, TargetFits
<1>4. ~ SomeCopy(flash, id) /\ r \in Pages
  BY <1>0, <1>1, FoundCopy DEF Settled, AtRest, Spare
<1>5. SourceOK(flash, cl)
  BY <1>2, <1>4 DEF SourceOK
<1>6. PICK w, s, x, c, u, e :
        /\ x = Op("xfer", t) /\ c = Copies(t, 1, r, id)
        /\ u = Op("use", r) /\ e = Op("erase", t)
        /\ w = WriteItem(IF com = Nothing THEN t ELSE r, id, FALSE)
        /\ s = Seal(IF com = Nothing THEN t ELSE r, v, FALSE)
  OBVIOUS
<1>7. Marking(flash, cl) = <<>> /\ Zeroing(cl) = <<>>
  BY <1>2 DEF Marking, Zeroing
<1>8. (IF com = Nothing THEN t ELSE r) \in Pages
  BY <1>3, <1>4
<1>9. /\ w \in Seq(Ops) /\ s \in Seq(Ops) /\ <<>> \in Seq(Ops)
      /\ x \in Seq(Ops) /\ c \in Seq(Ops) /\ u \in Seq(Ops) /\ e \in Seq(Ops)
  BY <1>2, <1>3, <1>4, <1>6, <1>8, PartsTyped, OpsTyped
<1>10. ASSUME com = Nothing PROVE todo' = NewItem(flash, t, r, cl)
  <2>1. todo' = w \o s
    BY <1>1, <1>6, <1>10 DEF InitPlan
  <2>2. todo' = w \o (<<>> \o (s \o <<>>))
    BY <1>9, AddPlan, <2>1 DEF Reordered
  <2> QED
    BY <1>2, <1>6, <1>7, <1>10, <2>2 DEF NewItem, MarkAndData, Data, Ending
<1>11. ASSUME com # Nothing
       PROVE  todo' = Op("xfer", t) \o (Copies(t, 1, r, id) \o NewItem(flash, r, r, cl))
  <2>1. MakeRoom(t, id) = x \o c /\ Cleanup(t) = u \o e
    BY <1>0, <1>3, <1>6, RoomMade DEF Cleanup
  <2>2. todo' = (((x \o c) \o w) \o s) \o (u \o e)
    BY <1>0, <1>1, <1>6, <1>11, <2>1 DEF InitPlan
  <2>3. todo' = x \o (c \o (w \o (<<>> \o (s \o (u \o (e \o <<>>))))))
    <3>1. RoomReordered(x, c, w, w, s, u, e, e)
      BY <1>9, RoomPlan
    <3> QED
      BY <2>2, <3>1 DEF RoomReordered
  <2>4. com = t
    BY <1>3, <1>11
  <2>5. Ending(r, cl) = u \o (e \o <<>>)
    BY <1>2, <1>6, <1>7, <1>11, <2>4 DEF Ending
  <2>6. NewItem(flash, r, r, cl) = w \o (<<>> \o (s \o (u \o (e \o <<>>))))
    BY <1>2, <1>6, <1>7, <1>11, <2>5 DEF NewItem, MarkAndData, Data
  <2> QED
    BY <1>6, <2>3, <2>6
<1>12. Calling(flash, todo', pgRes, cl)
  BY <1>0, <1>1, <1>2, <1>3, <1>5, <1>10, <1>11, PlanBegins
<1> QED
  BY <1>0, <1>1, <1>2, <1>12

LEMMA DeleteBegins ==
  ASSUME NvInv, NEW id \in Ids, osal_nv_delete(id), Settled(flash, pgRes)
  PROVE  /\ Calling(flash, todo', pgRes, call')
         /\ call'.id = id /\ call'.val = Nothing /\ pc' = "call"
BY FoundCopy DEF osal_nv_delete, NoCall, CopyAt, Calling, Deleting

-----------------------------------------------------------------------------
(* The invariant of the contents of the flash, where no write reads back   *)
(* wrong.                                                                  *)

LEMMA RecoveryFlash ==
  ASSUME NEW fl \in Flashes, NEW td, NEW r, Recovering(fl, td, r)
  PROVE  FlashOK(fl)
BY CompactingIs, ModesOK DEF Recovering, Resumed, Recovered, Clearing, Dropping,
   Restarting, Repeating, Repeated

LEMMA CallFlash ==
  ASSUME NEW fl \in Flashes, NEW td, NEW r, NEW cl, Calling(fl, td, r, cl)
  PROVE  FlashOK(fl)
BY CompactingIs, ModesOK DEF Calling, Deleting, Done, Adding, Added, MakingRoom, Moving,
   Moved, MovedAndAdded, Replacing, OldOnPage, OldLeft, Settled, Transferring

LEMMA StoreFlash ==
  ASSUME NvInv, StoreOK
  PROVE  FlashOK(flash)
BY FlashTyped, RecoveryFlash, ModesOK, CallFlash DEF NvInv, Types, TypeOK, StoreOK, ReadUpTo,
   Sweeping, Settled

LEMMA Ups ==
  /\ Up("idle") /\ Up("call") /\ ~ Up("headers") /\ ~ Up("recover") /\ ~ Up("walk")
  /\ Up("idle") = Up("call") /\ Up("headers") = Up("recover") /\ Up("recover") = Up("walk")
BY DEF Up

-----------------------------------------------------------------------------
(* Every step keeps it.                                                    *)

LEMMA FlashStores ==
  ASSUME NvInv, NvInv', StoreOK, FlashFails = FALSE, Flash
  PROVE  StoreOK' /\ StoreStep
BY Carries, RecoverSteps, CallSteps, Ups DEF NvInv, Types, TypeOK, PhaseOK, StoreOK,
   Recovering, StoreStep, Stands, SameBusy, SameCall, Advances, Calling, Advancing

LEMMA BootStores ==
  ASSUME NvInv, NvInv', StoreOK, Boot
  PROVE  StoreOK' /\ StoreStep
<1>1. CASE ReadHeader
  BY <1>1, ReadHeaderKeepsFlash DEF ReadHeader, StoreOK, StoreStep, Stands, SameBusy
<1>2. CASE Recover
  BY <1>2, RecoverStarts, Ups DEF Recover, ramVars, StoreOK, StoreStep, Stands, SameBusy,
     SameValues
<1>3. CASE StartWalk
  BY <1>3, WalkStarts, Ups DEF StartWalk, StoreOK, NoCall, NotCalling, StoreStep, Resets
<1>4. ASSUME pc = "walk", pc' = pc, call' = call, Sweeping(flash', pgRes', boot'),
             SameValues(flash, flash')
      PROVE  StoreOK' /\ StoreStep
  BY <1>4 DEF StoreOK, StoreStep, Stands, SameBusy
<1>5. ASSUME pc = "walk" PROVE Sweeping(flash, pgRes, boot)
  BY <1>5 DEF StoreOK
<1>6. CASE WalkBad
  BY <1>6, <1>4, <1>5, WalkBadSweeps DEF WalkBad, AtItem, Walking
<1>7. CASE WalkTwin
  BY <1>7, <1>4, <1>5, WalkTwinSweeps DEF WalkTwin, AtItem, Walking
<1>8. CASE WalkStops
  BY <1>8, <1>4, <1>5, WalkStopsSweeps DEF WalkStops, AtItem, Walking
<1>9. CASE WalkPageEnd
  BY <1>9, <1>4, <1>5, WalkPageEndSweeps DEF WalkPageEnd, Walking
<1>10. CASE WalkAgain
  BY <1>10, <1>4, <1>5, WalkAgainSweeps DEF WalkAgain
<1>11. CASE Booted
  BY <1>11, <1>5, BootedSettles, Ups DEF Booted, StoreOK, StoreStep, ComesUp, SameBusy
<1>12. CASE BootedLast
  BY <1>12 DEF BootedLast, StoreOK
<1> QED
  BY <1>1, <1>2, <1>3, <1>6, <1>7, <1>8, <1>9, <1>10, <1>11, <1>12 DEF Boot

\* A step of a call that is quiet.
LEMMA QuietStores ==
  ASSUME NvInv, NvInv', StoreOK, pc = "idle", pc' = "idle", flash' = flash, pgRes' = pgRes,
         call' = call
  PROVE  StoreOK' /\ StoreStep
BY DEF StoreOK, StoreStep, Stands, SameBusy, SameValues

LEMMA BeginStores ==
  ASSUME StoreOK, pc = "idle", pc' = "call", flash' = flash, pgRes' = pgRes,
         Calling(flash, todo', pgRes, call'), NEW v \in Values \cup {Nothing},
         call'.val = v
  PROVE  StoreOK' /\ StoreStep
BY Ups DEF Calling, StoreOK, StoreStep, Begins, SameValues

LEMMA CallStores ==
  ASSUME NvInv, NvInv', StoreOK, NEW id \in Ids, NEW v \in Values,
         osal_nv_write(id, v) \/ osal_nv_item_init(id, v)
  PROVE  StoreOK' /\ StoreStep
BY QuietStores, WriteBegins, BeginStores, ItemInitBegins DEF osal_nv_write,
   osal_nv_item_init, StoreOK

LEMMA QuietOrDelete ==
  ASSUME NvInv, NvInv', StoreOK, NEW id \in Ids,
         ItemExists(id) \/ Lookup(id) \/ osal_nv_delete(id)
  PROVE  StoreOK' /\ StoreStep
BY DeleteBegins, BeginStores, QuietStores DEF osal_nv_delete, ItemExists, Lookup, StoreOK,
   codeVars

LEMMA ReturnStores ==
  ASSUME NvInv, StoreOK, Return
  PROVE  StoreOK' /\ StoreStep
BY CallDone, Ups DEF Return, StoreOK, Calling, NoCall, NotCalling, Done, StoreStep, Returns,
   SameValues

\* The start-up code looks at no header before a reset has left the flash to it.
LEMMA StartupStores ==
  ASSUME Startup, FlashOK(flash'), SameValues(flash, flash')
  PROVE  StoreOK' /\ StoreStep
BY PagesAssumption, Ups DEF Startup, Locals, Pages, ReadUpTo, NoCall, NotCalling, StoreOK,
   StoreStep, Resets

LEMMA TornStores ==
  ASSUME NvInv, NvInv', StoreOK, InUseGoesFirst, NEW parts \in TornErases, ResetInErase(parts)
  PROVE  StoreOK' /\ StoreStep
<1>1. PICK p : p = Step.pg
  OBVIOUS
<1>2. /\ todo # <<>> /\ Step.op = "erase" /\ Startup
      /\ flash' = [flash EXCEPT ![p] = Torn(flash[p], parts)]
  BY <1>1 DEF ResetInErase, Doing
<1>3. Erasing(todo, p)
  BY <1>1, <1>2 DEF Erasing, Step
<1>4. pc \in {"recover", "call"}
  BY <1>2 DEF NvInv, Types, TypeOK, PhaseOK, StoreOK
<1>5. Erasable(flash, p)
  BY <1>3, <1>4, CallErases, RecoveryErases DEF StoreOK
<1>6. flash \in Flashes /\ flash' \in Flashes /\ p \in Pages
  BY <1>5, FlashTypedNext DEF Erasable, Replaced, OnlyMarked, Spare
<1>7. CASE parts = {}
  <2>1. flash[p] \in PageType
    BY <1>6, SlotTyped
  <2>2. Torn(flash[p], parts) = flash[p]
    BY <1>7, <2>1 DEF Torn, PageType
  <2>3. flash' = flash
    BY <1>2, <1>6, <2>2 DEF Flashes
  <2>4. FlashOK(flash)
    BY <1>5 DEF Erasable
  <2> QED
    BY <1>2, <2>3, <2>4, StartupStores DEF SameValues
<1>8. CASE parts # {}
  <2>1. "inUse" \in parts
    BY <1>8 DEF InUseGoesFirst
  <2>2. flash'[p] = Torn(flash[p], parts) /\ Others(flash, flash', p)
    BY <1>2, <1>6 DEF Flashes, Others
  <2>3. ~ flash'[p].inUse /\ flash'[p].items \in {<<>>, flash[p].items}
    <3>1. ~ flash'[p].inUse
      <4>1. flash'[p].inUse = (flash[p].inUse /\ "inUse" \notin parts)
        BY <2>2 DEF Torn
      <4>2. (flash[p].inUse /\ "inUse" \notin parts) = FALSE
        BY <2>1
      <4> QED
        BY <4>1, <4>2
    <3>2. flash'[p].items = IF "items" \in parts THEN <<>> ELSE flash[p].items
      BY <2>2 DEF Torn
    <3> QED
      BY <3>1, <3>2
  <2>4. FlashOK(flash') /\ SameValues(flash, flash')
    BY <1>5, <1>6, <2>2, <2>3, TornKeeps
  <2> QED
    BY <1>2, <2>4, StartupStores
<1> QED
  BY <1>7, <1>8

-----------------------------------------------------------------------------
(* What the store sees.                                                    *)

LEMMA StoreSees ==
  ASSUME StoreStep
  PROVE  [Store!Next]_(Store!vars)
<1>1. \A id \in Ids : Recoverable(id) = Value(flash, id) /\ Recoverable(id)' = Value(flash', id)
  BY ValueIs
<1>2. Nothing \notin Ids
  BY ItemsAssumption
<1>3. ASSUME SameValues(flash, flash')
      PROVE  [id \in Ids |-> Recoverable(id)]' = [id \in Ids |-> Recoverable(id)]
  BY <1>1, <1>3 DEF SameValues
<1>4. /\ Up(pc) = (pc \in {"idle", "call"}) /\ Up(pc)' = (pc \in {"idle", "call"})'
      /\ Up(pc') = Up(pc)' /\ Up(pc) \in BOOLEAN
  BY DEF Up
<1>5. CASE Stands
  BY <1>3, <1>4, <1>5 DEF Stands, SameBusy, Store!vars
<1>6. CASE ComesUp
  BY <1>3, <1>4, <1>6 DEF ComesUp, SameBusy, Store!Next, Store!Boot
<1>7. CASE Resets
  <2>1. [id |-> call.id, val |-> call.val]' = [id |-> Nothing, val |-> Nothing]
    BY <1>7 DEF Resets, NotCalling
  <2>2. (pc \in {"idle", "call"})' = FALSE
    BY <1>7 DEF Resets, Up
  <2>3. [id \in Ids |-> Recoverable(id)]' = [id \in Ids |-> Recoverable(id)]
    BY <1>3, <1>7 DEF Resets
  <2>4. Store!Reset
    BY ONLY <2>1, <2>2, <2>3 DEF Store!Reset
  <2> QED
    BY ONLY <2>4 DEF Store!Next
<1>8. CASE Begins
  BY <1>3, <1>4, <1>8 DEF Begins, NotCalling, Store!Next, Store!Begin
<1>9. CASE Advancing
  <2>1. [id \in Ids |-> Recoverable(id)]'
          = [[id \in Ids |-> Recoverable(id)] EXCEPT ![call.id] = call.val]
    BY <1>1, <1>9 DEF Advancing, Commits
  <2>2. [id |-> call.id, val |-> call.val] # [id |-> Nothing, val |-> Nothing]
    BY <1>2, <1>9 DEF Advancing
  <2> QED
    BY <1>4, <1>9, <2>1, <2>2 DEF Advancing, SameBusy, Store!Next, Store!Commit
<1>10. CASE Returns
  BY <1>2, <1>10, <1>1, <1>3, <1>4 DEF Returns, NotCalling, Store!Next, Store!Return
<1> QED
  BY <1>5, <1>6, <1>7, <1>8, <1>9, <1>10 DEF StoreStep

LEMMA EmptyStore ==
  ASSUME Init
  PROVE  StoreOK /\ Store!Init
<1>1. /\ flash = [p \in Pages |-> Erased] /\ pgRes = Nothing /\ pc = "headers"
      /\ call = NoCall /\ boot = Locals
  BY DEF Init
<1>2. \A p \in Pages : ~ flash[p].inUse /\ flash[p].items = <<>> /\ flash[p] = Erased
  BY <1>1 DEF Erased
<1>3. \A p, k, id : ~ Copy(flash, p, k, id)
  BY <1>2 DEF Copy
<1>4. PICK p \in Pages : TRUE
  BY PagesAssumption DEF Pages
<1>5. FlashOK(flash)
  BY <1>3, <1>2, <1>4 DEF OneOfAKind, OneFor, Single, SingleFor, Sealed, AllUsed, FlashOK
<1>6. boot.old = Nothing /\ boot.pg = 1
  BY <1>1 DEF Locals
<1>7. \A q \in Pages : ~ (q < 1)
  BY PagesAssumption DEF Pages
<1>8. ReadUpTo(flash, pgRes, boot)
  BY <1>1, <1>5, <1>6, <1>7 DEF ReadUpTo
<1>9. NotCalling(call) /\ call.id = Nothing /\ call.val = Nothing
  BY <1>1 DEF NoCall, NotCalling
<1>10. \A id \in Ids : Recoverable(id) = Nothing
  <2>1. SUFFICES ASSUME NEW id \in Ids PROVE Recoverable(id) = Nothing
    OBVIOUS
  <2>2. CopiesOf(flash, id, "live") = {} /\ CopiesOf(flash, id, "xfer") = {}
    BY <1>2 DEF CopiesOf
  <2>3. Value(flash, id) = Nothing
    BY <2>2 DEF Value
  <2> QED
    BY <2>3, ValueIs
<1> QED
  BY <1>1, <1>8, <1>9, <1>10, Ups DEF StoreOK, Store!Init, Up

LEMMA StoreStutters ==
  ASSUME StoreOK, UNCHANGED vars
  PROVE  StoreOK' /\ StoreStep
BY DEF vars, ramVars, codeVars, StoreOK, StoreStep, Stands, SameBusy, SameValues

LEMMA NextStores ==
  ASSUME NvInv, NvInv', StoreOK, FlashFails = FALSE, InUseGoesFirst, [Next]_vars
  PROVE  StoreOK' /\ StoreStep
<1>2. CASE Flash
  BY <1>2, FlashStores, Zenon
<1>3. CASE Boot
  BY <1>3, BootStores
<1>4. CASE \E id \in Ids, v \in Values : osal_nv_write(id, v) \/ osal_nv_item_init(id, v)
  BY <1>4, CallStores
<1>5. CASE \E id \in Ids : ItemExists(id) \/ Lookup(id) \/ osal_nv_delete(id)
  <2>1. PICK id \in Ids : ItemExists(id) \/ Lookup(id) \/ osal_nv_delete(id)
    BY <1>5
  <2> QED
    BY <2>1, QuietOrDelete
<1>6. CASE Return
  BY <1>6, ReturnStores
<1>7. CASE Reset
  BY <1>7, StoreFlash, StartupStores DEF Reset, SameValues
<1>8. CASE \E parts \in TornErases : ResetInErase(parts)
  BY <1>8, TornStores
<1>9. CASE UNCHANGED vars
  BY <1>9, StoreStutters
<1> QED
  BY <1>2, <1>3, <1>4, <1>5, <1>6, <1>7, <1>8, <1>9 DEF Next

-----------------------------------------------------------------------------
(* The places kept of hot items: what the flash operations do to them.     *)

LEMMA PlaceIs ==
  \A place \in Pages \X (Nat \ {0}) :
    place = <<place[1], place[2]>> /\ place[1] \in Pages /\ place[2] \in Nat \ {0}
OBVIOUS

\* The same items, wherever they are.
LEMMA ItemsNewest ==
  ASSUME NEW fl, NEW new, \A p \in Pages : new[p].items = fl[p].items, NEW place, NEW id,
         Newest(fl, place, id)
  PROVE  Newest(new, place, id)
BY DEF Newest, SealedAt, Stat

LEMMA MarksNewest ==
  ASSUME NEW fl, NEW new, NEW p, NEW k \in DOMAIN fl[p].items, Marks(fl, new, p, k),
         OnlyAt(fl, p, k, fl[p].items[k].id),
         NEW place \in Pages \X (Nat \ {0}), NEW id, Newest(fl, place, id)
  PROVE  Newest(new, place, id)
<1>1. \A q, j : SealedAt(new, q, j, id) => SealedAt(fl, q, j, id)
  BY DEF SealedAt, Marks, Others, SameSlots
<1>2. SealedAt(fl, place[1], place[2], id) /\ SealedAt(new, place[1], place[2], id)
  BY DEF SealedAt, Marks, Others, SameSlots, Newest
<1>3. CASE place = <<p, k>>
  <2>1. id = fl[p].items[k].id
    BY <1>2, <1>3 DEF SealedAt
  <2> QED
    BY <1>1, <1>2, <1>3, <2>1 DEF OnlyAt, Newest
<1>4. CASE place # <<p, k>>
  <2>1. Stat(new, place) = Stat(fl, place)
    BY <1>2, <1>4, PlaceIs DEF Stat, Marks, Others, SealedAt
  <2> QED
    BY <1>1, <1>2, <2>1 DEF Newest, SealedAt
<1> QED
  BY <1>3, <1>4

LEMMA AddsNewest ==
  ASSUME NEW fl \in Flashes, NEW new \in Flashes, NEW p, NEW name, Adds(fl, new, p, name),
         NEW place \in Pages \X (Nat \ {0}), NEW id, Newest(fl, place, id)
  PROVE  Newest(new, place, id)
<1>1. \A q \in Pages : /\ DOMAIN fl[q].items = 1 .. Len(fl[q].items) /\ Len(fl[q].items) \in Nat
                       /\ DOMAIN new[q].items = 1 .. Len(new[q].items)
  BY SlotTyped
<1>2. \A q, j : SealedAt(new, q, j, id) => SealedAt(fl, q, j, id)
  <2>1. ASSUME NEW q, NEW j, SealedAt(new, q, j, id) PROVE SealedAt(fl, q, j, id)
    <3>1. CASE q # p
      BY <2>1, <3>1 DEF SealedAt, Adds, Others
    <3>2. CASE q = p
      <4>1. j \in 1 .. Len(fl[p].items) + 1 /\ p \in Pages
        BY <1>1, <2>1, <3>2 DEF SealedAt, Adds
      <4>2. j # Len(fl[p].items) + 1
        BY <2>1, <3>2 DEF SealedAt, Adds
      <4>3. j \in 1 .. Len(fl[p].items)
        BY <1>1, <4>1, <4>2
      <4> QED
        BY <1>1, <2>1, <3>2, <4>3 DEF SealedAt, Adds
    <3> QED
      BY <3>1, <3>2
  <2> QED
    BY <2>1
<1>3. \A q, j : SealedAt(fl, q, j, id) => /\ SealedAt(new, q, j, id)
                                          /\ new[q].items[j] = fl[q].items[j]
  <2>1. ASSUME NEW q, NEW j, SealedAt(fl, q, j, id)
        PROVE  SealedAt(new, q, j, id) /\ new[q].items[j] = fl[q].items[j]
    <3>1. CASE q # p
      BY <2>1, <3>1 DEF SealedAt, Adds, Others
    <3>2. CASE q = p
      <4>1. j \in 1 .. Len(fl[p].items) /\ p \in Pages
        BY <1>1, <2>1, <3>2 DEF SealedAt
      <4>2. j \in DOMAIN new[p].items
        BY <1>1, <4>1 DEF Adds
      <4> QED
        BY <2>1, <3>2, <4>1, <4>2 DEF SealedAt, Adds
    <3> QED
      BY <3>1, <3>2
  <2> QED
    BY <2>1
<1> QED
  BY <1>2, <1>3 DEF Newest, Stat, SealedAt

\* An item that gets its data is the newest of its id; the others keep their places.
LEMMA FillsNewest ==
  ASSUME NEW fl \in Flashes, NEW new \in Flashes, NEW p, NEW v, v # Blank, Fills(fl, new, p, v),
         NEW name, BlankLast(fl, p, name)
  PROVE  /\ Newest(new, <<p, Len(fl[p].items)>>, name)
         /\ \A place \in Pages \X (Nat \ {0}) : \A id :
              id # name /\ Newest(fl, place, id) => Newest(new, place, id)
<1> DEFINE n == Len(fl[p].items)
<1>1. p \in Pages /\ n \in DOMAIN fl[p].items /\ DOMAIN new[p].items = DOMAIN fl[p].items
  BY SlotTyped DEF Fills, Others, SameSlots, BlankLast
<1>2. Newest(new, <<p, n>>, name)
  <2>1. new[p].items[n].id = name /\ new[p].items[n].val = v /\ new[p].items[n].stat = "live"
    BY <1>1 DEF Fills, BlankLast
  <2> QED
    BY <1>1, <2>1 DEF Newest, SealedAt, Stat
<1>3. \A q, j, id : id # name =>
        /\ SealedAt(new, q, j, id) <=> SealedAt(fl, q, j, id)
        /\ SealedAt(fl, q, j, id) => new[q].items[j] = fl[q].items[j]
  BY <1>1 DEF SealedAt, Fills, Others, BlankLast
<1>4. ASSUME NEW place \in Pages \X (Nat \ {0}), NEW id, id # name, Newest(fl, place, id)
      PROVE  Newest(new, place, id)
  <2>1. \A q, j : SealedAt(new, q, j, id) => SealedAt(fl, q, j, id)
    BY <1>3, <1>4
  <2>2. SealedAt(new, place[1], place[2], id) /\ Stat(new, place) = Stat(fl, place)
    BY <1>3, <1>4 DEF Newest, Stat
  <2> QED
    BY <1>4, <2>1, <2>2 DEF Newest, SealedAt
<1> QED
  BY <1>2, <1>4

\* An item at another place is zeroed; a page without the item is erased.
LEMMA ClearsNewest ==
  ASSUME NEW fl, NEW new, NEW p, NEW k, Clears(fl, new, p, k),
         NEW place \in Pages \X (Nat \ {0}), NEW id \in Ids, Newest(fl, place, id),
         place # <<p, k>>
  PROVE  Newest(new, place, id)
<1>1. \A q, j : SealedAt(new, q, j, id) => SealedAt(fl, q, j, id)
  BY ItemsAssumption DEF SealedAt, Clears, Others, SameSlots
<1>2. SealedAt(new, place[1], place[2], id) /\ Stat(new, place) = Stat(fl, place)
  BY PlaceIs DEF SealedAt, Clears, Others, SameSlots, Newest, Stat
<1> QED
  BY <1>1, <1>2 DEF Newest, SealedAt

LEMMA ErasesNewest ==
  ASSUME NEW fl, NEW new, NEW p, Erases(fl, new, p),
         NEW place \in Pages \X (Nat \ {0}), NEW id, Newest(fl, place, id), place[1] # p
  PROVE  Newest(new, place, id)
<1>1. \A q, j : SealedAt(new, q, j, id) => SealedAt(fl, q, j, id)
  BY DEF SealedAt, Erases, Others, Erased
<1>2. SealedAt(new, place[1], place[2], id) /\ Stat(new, place) = Stat(fl, place)
  BY PlaceIs DEF SealedAt, Erases, Others, Newest, Stat
<1> QED
  BY <1>1, <1>2 DEF Newest, SealedAt

\* An item of which there is a live copy elsewhere is not the newest.
LEMMA OldIsNotNewest ==
  ASSUME NEW fl, NEW place, NEW id, Stat(fl, place) = "xfer", SomeLive(fl, id)
  PROVE  ~ Newest(fl, place, id)
<1>1. PICK p \in Pages : \E k \in DOMAIN fl[p].items : Live(fl, p, k, id)
  BY DEF SomeLive
<1>2. PICK k \in DOMAIN fl[p].items : Live(fl, p, k, id)
  BY <1>1
<1>3. SealedAt(fl, p, k, id) /\ fl[p].items[k].stat = "live"
  BY <1>2 DEF Live, Copy, SealedAt
<1>4. <<p, k>> # place
  BY <1>3 DEF Stat
<1> QED
  BY <1>3, <1>4 DEF Newest

LEMMA NoneReplaced ==
  ASSUME NEW fl, NEW c, Replaced(fl, c), NEW place \in Pages \X (Nat \ {0}), NEW id \in Ids,
         Newest(fl, place, id)
  PROVE  place[1] # c
<1>1. Copy(fl, place[1], place[2], id)
  BY PlaceIs DEF Newest, SealedAt, Copy, Replaced, AllUsed
<1>2. CASE place[1] = c
  BY <1>1, <1>2, OldIsNotNewest DEF Replaced, Superseded, Stat, Copy
<1> QED
  BY <1>2

\* A harmless operation keeps the places.
LEMMA HarmlessSteps ==
  ASSUME NvInv, NvInv', FlashFails = FALSE, Flash, Harmless(flash, Head(todo)), HotKept
  PROVE  HotKept'
<1>1. Step = Head(todo) /\ flash \in Flashes /\ flash' \in Flashes /\ HotIds \subseteq Ids
  BY FlashTypedNext, ItemsAssumption DEF Step
<1>2. ASSUME hot' = hot,
             \A place \in Pages \X (Nat \ {0}) : \A id \in Ids :
               Newest(flash, place, id) => Newest(flash', place, id)
      PROVE  HotKept'
  BY <1>1, <1>2 DEF HotKept
<1>3. CASE Step.op = "copy"
  <2>1. CopyItem
    BY <1>3, Carries
  <2> QED
    BY <1>2, <2>1 DEF CopyItem, ramVars
<1>4. CASE Step.op = "xfer"
  <2>1. MarkPage
    BY <1>4, Carries
  <2>2. \A p \in Pages : flash'[p].items = flash[p].items
    BY <2>1, PageEffects DEF MarksPage, Others
  <2>3. hot' = hot
    BY <2>1 DEF MarkPage, ramVars
  <2> QED
    BY <1>2, <2>2, <2>3, ItemsNewest
<1>5. CASE Step.op = "use"
  <2>1. UsePage
    BY <1>5, Carries
  <2>2. \A p \in Pages : flash'[p].items = flash[p].items
    BY <2>1, PageEffects DEF Uses, Others
  <2>3. hot' = hot
    BY <2>1 DEF UsePage, ramVars
  <2> QED
    BY <1>2, <2>2, <2>3, ItemsNewest
<1>6. CASE Step.op = "mark"
  <2>1. MarkItem
    BY <1>6, Carries
  <2>2. /\ Marks(flash, flash', Step.pg, Step.k) /\ Step.k \in DOMAIN flash[Step.pg].items
        /\ OnlyAt(flash, Step.pg, Step.k, flash[Step.pg].items[Step.k].id)
    BY <1>1, <1>6, <2>1, MarkEffect DEF Harmless
  <2> QED
    BY <1>2, <2>1, <2>2, MarksNewest DEF MarkItem, ramVars
<1>7. CASE Step.op = "head"
  <2>1. WriteHeader
    BY <1>7, Carries
  <2> QED
    BY <1>1, <1>2, <2>1, AddEffect, AddsNewest DEF WriteHeader
<1>8. CASE Step.op = "seal"
  <2>1. PICK id \in Ids : BlankLast(flash, Step.pg, id)
    BY <1>1, <1>8 DEF Harmless
  <2>2. SealItem /\ Step.val # Blank
    BY <1>1, <1>8, Carries DEF Harmless
  <2> DEFINE p == Step.pg
             n == Len(flash[p].items)
  <2>3. Fills(flash, flash', p, Step.val)
    BY <1>1, <2>1, <2>2, FillEffect DEF BlankLast
  <2>4. /\ Newest(flash', <<p, n>>, id)
        /\ \A place \in Pages \X (Nat \ {0}) : \A x :
             x # id /\ Newest(flash, place, x) => Newest(flash', place, x)
    BY <1>1, <2>1, <2>2, <2>3, FillsNewest
  <2>5. p \in Pages /\ n \in Nat \ {0}
    BY <1>1, <2>1, <2>3, SlotTyped DEF Fills, Others, BlankLast
  <2>6. hot' = [h \in HotIds |-> IF h = id THEN <<p, n>> ELSE hot[h]]
    BY <2>1, <2>2 DEF SealItem, BlankLast
  <2>7. hot' \in [HotIds -> (Pages \X (Nat \ {0})) \cup {Nothing}]
    BY <2>5, <2>6 DEF HotKept
  <2>8. ASSUME NEW h \in HotIds, hot'[h] # Nothing PROVE Newest(flash', hot'[h], h)
    <3>1. CASE h = id
      BY <2>4, <2>6, <3>1
    <3>2. CASE h # id
      BY <2>4, <2>6, <2>8, <3>2 DEF HotKept
    <3> QED
      BY <3>1, <3>2
  <2> QED
    BY <2>7, <2>8 DEF HotKept
<1>9. Step.op \in {"copy", "xfer", "use", "mark", "head", "seal"}
  BY <1>1 DEF Harmless, Flash, CopyItem, MarkPage, MarkItem, ZeroItem, WriteHeader, HeaderFails,
              SealItem, SealFails, UsePage, ErasePage, Doing
<1> QED
  BY <1>3, <1>4, <1>5, <1>6, <1>7, <1>8, <1>9

\* An erase takes no page with the newest of a hot item.
LEMMA EraseLeavesHot ==
  ASSUME NvInv, FlashFails = FALSE, Flash, HotKept, Step.op = "erase",
         \A place \in Pages \X (Nat \ {0}) : \A id \in HotIds :
           hot[id] # Nothing /\ Newest(flash, place, id) => place[1] # Step.pg
  PROVE  HotKept'
<1>1. Erases(flash, flash', Step.pg) /\ hot' = hot
  BY Carries, PageEffects DEF ErasePage
<1> QED
  BY <1>1, ErasesNewest DEF HotKept

\* Nor is the newest of a hot item zeroed.
LEMMA ZeroLeavesHot ==
  ASSUME NvInv, FlashFails = FALSE, Flash, HotKept, NEW p \in Pages, NEW k \in DOMAIN flash[p].items,
         todo = ItemOp("zero", <<p, k>>), HotIds \subseteq Ids,
         \A id \in HotIds : hot[id] # Nothing /\ Newest(flash, hot[id], id) => hot[id] # <<p, k>>
  PROVE  HotKept'
<1>1. ItemOp("zero", <<p, k>>) = ItemOp("zero", <<p, k>>) \o <<>> /\ <<>> \in Seq(Ops)
  BY FlashTyped, SlotTyped, OpsTyped, Assoc
<1>2. Clears(flash, flash', p, k)
  BY <1>1, DoesZero
<1>3. Step.op = "zero"
  BY Alone DEF Step, ItemOp
<1>4. hot' = hot
  BY <1>3, Carries DEF ZeroItem
<1> QED
  BY <1>2, <1>4, ClearsNewest DEF HotKept

LEMMA FlashHot ==
  ASSUME NvInv, NvInv', StoreOK, StoreOK', HotOK, FlashFails = FALSE, Flash
  PROVE  HotOK'
<1>1. /\ flash \in Flashes /\ flash' \in Flashes /\ HotIds \subseteq Ids /\ todo # <<>>
      /\ Step = Head(todo) /\ pc \in {"recover", "call"} /\ HotKept
  BY FlashTypedNext, ItemsAssumption, Carries
     DEF HotOK, StoreOK, NvInv, PhaseOK, Types, TypeOK, Step
<1>2. CASE pc = "recover"
  <2>1. Recovering(flash, todo, pgRes)
    BY <1>2 DEF StoreOK
  <2>2. pc' = pc /\ Resumed(flash', todo', pgRes')
    BY <2>1, RecoverSteps DEF SameCall
  <2>3. ASSUME Doing("erase")' PROVE AllUsed(flash')
    <3>1. Erasing(todo', Head(todo').pg)
      BY <2>3 DEF Doing, Step, Erasing
    <3> QED
      BY <1>1, <2>2, <3>1, ResumedErases
  <2>4. HotKept'
    <3>1. CASE Leads(flash, todo)
      BY <1>1, <3>1, HarmlessSteps DEF Leads
    <3>2. CASE Step.op = "erase"
      <4>1. Erasing(todo, Step.pg) /\ Doing("erase")
        BY <1>1, <3>2 DEF Erasing, Doing
      <4>2. Erasable(flash, Step.pg)
        BY <2>1, <4>1, RecoveryErases
      <4>3. CASE Spare(flash, Step.pg)
        <5>1. AllCold
          BY <1>2, <4>1, <4>3 DEF HotOK, Spare
        <5> QED
          BY <1>1, <3>2, <5>1, EraseLeavesHot DEF AllCold
      <4>4. CASE Replaced(flash, Step.pg)
        BY <1>1, <3>2, <4>4, NoneReplaced, EraseLeavesHot
      <4> QED
        BY <4>2, <4>3, <4>4 DEF Erasable
    <3>3. Leads(flash, todo) \/ Step.op = "erase"
      BY <1>1, <2>1, ResumedLeads, DroppingErases, StartingErases
         DEF Recovering, Recovered, Erasing
    <3> QED
      BY <3>1, <3>2, <3>3
  <2>5. ~ (Doing("erase")' /\ ~ flash'[Step'.pg].inUse)
    <3>1. ASSUME Doing("erase")' PROVE flash'[Step'.pg].inUse
      <4>1. AllUsed(flash')
        BY <2>3, <3>1
      <4>2. Head(todo').pg \in Pages
        BY <3>1 DEF NvInv, Types, Ops, Doing, Step
      <4> QED
        BY <4>1, <4>2 DEF AllUsed, Step
    <3> QED
      BY <3>1
  <2> QED
    BY <1>2, <2>2, <2>4, <2>5 DEF HotOK
<1>3. CASE pc = "call"
  <2>1. Calling(flash, todo, pgRes, call)
    BY <1>3 DEF StoreOK
  <2>2. pc' = pc /\ call' = call
    BY <2>1, CallSteps DEF Advances, SameCall
  <2>3. HotKept'
    <3>1. CASE Leads(flash, todo)
      BY <1>1, <3>1, HarmlessSteps DEF Leads
    <3>2. CASE call.val \in Values /\ OldOnPage(flash, todo, call)
      <4>1. Erasing(todo, call.com) /\ Replaced(flash, call.com)
        BY <2>1, <3>2, OldOnPageErases DEF Calling
      <4>2. Step.op = "erase" /\ Step.pg = call.com
        BY <1>1, <4>1 DEF Erasing
      <4> QED
        BY <1>1, <4>1, <4>2, NoneReplaced, EraseLeavesHot
    <3>3. CASE Deleting(flash, todo, pgRes, call)
      <4>1. PICK p \in Pages : \E k \in DOMAIN flash[p].items :
              todo = ItemOp("zero", <<p, k>>) /\ Copy(flash, p, k, call.id)
        BY <3>3 DEF Deleting
      <4>2. PICK k \in DOMAIN flash[p].items :
              todo = ItemOp("zero", <<p, k>>) /\ Copy(flash, p, k, call.id)
        BY <4>1
      <4>3. call.id \notin HotIds
        BY <1>3, <3>3 DEF Deleting, HotOK
      <4>4. ASSUME NEW id \in HotIds, Newest(flash, <<p, k>>, id) PROVE FALSE
        BY <4>2, <4>3, <4>4 DEF Newest, SealedAt, Copy
      <4> QED
        BY <1>1, <4>2, <4>4, ZeroLeavesHot
    <3>4. CASE OldLeft(flash, todo, pgRes, call)
      <4>1. /\ call.src = <<call.src[1], call.src[2]>> /\ CopyAt(flash, call.src, call.id)
            /\ Stat(flash, call.src) = "xfer"
        BY <3>4, CallIs DEF OldLeft, NvInv, Types
      <4>2. /\ call.src[1] \in Pages /\ call.src[2] \in DOMAIN flash[call.src[1]].items
            /\ flash[call.src[1]].items[call.src[2]].id = call.id
            /\ todo = ItemOp("zero", <<call.src[1], call.src[2]>>)
        BY <3>4, <4>1 DEF OldLeft, CopyAt, Copy
      <4>3. SomeLive(flash, call.id)
        BY <3>4 DEF OldLeft, NewThere, SomeLive
      <4>4. ASSUME NEW id \in HotIds, Newest(flash, call.src, id) PROVE FALSE
        <5>1. id = call.id
          BY <4>2, <4>4 DEF Newest, SealedAt
        <5> QED
          BY <4>1, <4>3, <4>4, <5>1, OldIsNotNewest
      <4> QED
        BY <1>1, <4>1, <4>2, <4>4, ZeroLeavesHot
    <3> QED
      BY <1>1, <1>3, <2>1, <3>1, <3>2, <3>3, <3>4, CallLeads DEF Done
  <2> QED
    BY <1>3, <2>2, <2>3 DEF HotOK
<1> QED
  BY <1>1, <1>2, <1>3

-----------------------------------------------------------------------------
(* initNV, the calls and resets leave hot places be.                       *)

LEMMA SameHot ==
  ASSUME HotOK, hot' = hot, \A p \in Pages : flash'[p].items = flash[p].items,
         pc' \in {"walk", "idle"}
  PROVE  HotOK'
BY ItemsNewest DEF HotOK, HotKept

LEMMA ColdKept ==
  ASSUME hot \in [HotIds -> (Pages \X (Nat \ {0})) \cup {Nothing}], AllCold, hot' = hot
  PROVE  HotKept' /\ AllCold'
BY DEF AllCold, HotKept

LEMMA BootHot ==
  ASSUME NvInv, NvInv', StoreOK, StoreOK', HotOK, Boot
  PROVE  HotOK'
<1>1. flash \in Flashes /\ flash' \in Flashes /\ HotIds \subseteq Ids /\ HotKept
  BY FlashTypedNext, ItemsAssumption DEF HotOK
<1>2. CASE ReadHeader
  BY <1>2, <1>1, ColdKept DEF ReadHeader, HotOK, HotKept
<1>3. CASE Recover
  BY <1>3, <1>1, ColdKept DEF Recover, ramVars, HotOK, HotKept
<1>4. CASE StartWalk
  BY <1>4, SameHot DEF StartWalk, ramVars
<1>5. ASSUME pc' = "walk", hot' = hot, NEW p, NEW k, Clears(flash, flash', p, k),
             \A id \in HotIds : ~ Newest(flash, <<p, k>>, id)
      PROVE  HotOK'
  <2>1. HotKept'
    BY <1>1, <1>5, ClearsNewest DEF HotKept
  <2> QED
    BY <1>5, <2>1 DEF HotOK
<1>6. CASE WalkBad
  <2>1. boot.pg \in Pages /\ Here \in DOMAIN flash[boot.pg].items /\ pc' = "walk" /\ hot' = hot
    BY <1>6, HereIs DEF WalkBad, AtItem, Walking, Items
  <2>2. Clears(flash, flash', boot.pg, Here)
    BY <1>6, <2>1, ZeroEffect DEF WalkBad, Zero
  <2>3. ASSUME NEW id \in HotIds PROVE ~ Newest(flash, <<boot.pg, Here>>, id)
    BY <1>6 DEF WalkBad, Items, Newest, SealedAt
  <2> QED
    BY <1>5, <2>1, <2>2, <2>3
<1>7. CASE WalkTwin
  <2> DEFINE id == Items[Here].id
             old == First(Places(id, "xfer"))
  <2>1. /\ boot.pg \in Pages /\ Here \in DOMAIN flash[boot.pg].items /\ pc' = "walk" /\ hot' = hot
        /\ Walking /\ Here <= Len(Items) /\ id \in Ids
    BY <1>1, <1>7, HereIs, SlotTyped DEF WalkTwin, AtItem, Walking, Items
  <2>2. /\ SealedAt(flash, boot.pg, Here, id)
        /\ flash[boot.pg].items[Here].stat = "live"
    BY <1>7, <2>1, HereMatters DEF WalkTwin, Matters, SealedAt, Items
  <2>3. CASE Places(id, "xfer") = {}
    BY <1>7, <2>1, <2>3, SameHot DEF WalkTwin
  <2>4. CASE Places(id, "xfer") # {}
    <3>1. /\ old = <<old[1], old[2]>> /\ old[1] \in Pages
          /\ old[2] \in DOMAIN flash[old[1]].items
          /\ flash[old[1]].items[old[2]].id = id /\ flash[old[1]].items[old[2]].stat = "xfer"
      BY <1>1, <2>4, PlacesAre, FirstIsOne, SlotTyped
    <3>2. Clears(flash, flash', old[1], old[2])
      BY <1>7, <2>4, <3>1, ZeroEffect DEF WalkTwin
    <3>3. ASSUME NEW h \in HotIds PROVE ~ Newest(flash, old, h)
      <4>1. old # <<boot.pg, Here>>
        BY <2>2, <3>1
      <4> QED
        BY <2>2, <3>1, <4>1 DEF Newest, SealedAt, Stat
    <3> QED
      BY <1>5, <2>1, <3>1, <3>2, <3>3
  <2> QED
    BY <2>3, <2>4
<1>8. CASE WalkStops
  BY <1>8, SameHot DEF WalkStops, ramVars, AtItem, Walking
<1>9. CASE WalkPageEnd
  BY <1>9, SameHot DEF WalkPageEnd, Walking
<1>10. CASE WalkAgain
  BY <1>10, SameHot DEF WalkAgain, ramVars
<1>11. CASE Booted
  BY <1>11, SameHot DEF Booted, ramVars, StoreOK
<1>12. CASE BootedLast
  BY <1>12 DEF BootedLast, StoreOK
<1> QED
  BY <1>2, <1>3, <1>4, <1>6, <1>7, <1>8, <1>9, <1>10, <1>11, <1>12 DEF Boot

\* A search finds the only copy of an item there is.
LEMMA FoundNewest ==
  ASSUME NvInv, pc = "idle", Settled(flash, pgRes), NEW id \in Ids, findItem(id) # Nothing
  PROVE  findItem(id) \in Pages \X (Nat \ {0}) /\ Newest(flash, findItem(id), id)
<1> DEFINE place == findItem(id)
<1>1. /\ CopyAt(flash, place, id) /\ place \in Pages \X (Nat \ {0}) /\ Single(flash)
  BY FoundCopy DEF Settled
<1>2. ASSUME NEW p \in Pages, NEW k \in DOMAIN flash[p].items, SealedAt(flash, p, k, id)
      PROVE  <<p, k>> = place
  <2>1. Copy(flash, p, k, id)
    BY <1>2, AllInUse DEF SealedAt, Copy, Settled, AtRest, NvInv, PhaseOK
  <2> QED
    BY <1>1, <2>1, PlaceIs DEF Single, SingleFor, CopyAt, Copy
<1> QED
  BY <1>1, <1>2 DEF Newest, SealedAt, CopyAt, Copy

LEMMA CallHot ==
  ASSUME NvInv, StoreOK, HotOK, NEW id \in Ids,
         \/ \E v \in Values : osal_nv_write(id, v) \/ osal_nv_item_init(id, v)
         \/ ItemExists(id) \/ Lookup(id) \/ osal_nv_delete(id)
  PROVE  HotOK'
<1>1. pc = "idle" /\ flash' = flash /\ Settled(flash, pgRes)
  BY DEF StoreOK, osal_nv_write, osal_nv_item_init, ItemExists, Lookup, osal_nv_delete
<1>2. ASSUME hot' = hot, pc' = "idle" \/ (pc' = "call" /\ (call'.val = Nothing => call'.id \notin HotIds))
      PROVE  HotOK'
  BY <1>1, <1>2 DEF HotOK, HotKept
<1>3. CASE \E v \in Values : osal_nv_write(id, v) \/ osal_nv_item_init(id, v)
  <2>1. PICK v \in Values : osal_nv_write(id, v) \/ osal_nv_item_init(id, v)
    BY <1>3
  <2>2. v # Nothing
    BY ItemsAssumption
  <2>3. hot' = hot /\ (pc' = "idle" \/ (pc' = "call" /\ call'.val = v))
    BY <1>1, <2>1 DEF osal_nv_write, osal_nv_item_init
  <2> QED
    BY <1>2, <2>2, <2>3
<1>4. CASE ItemExists(id)
  <2>1. /\ findItem(id) # Nothing /\ pc' = "idle"
        /\ hot' = [h \in HotIds |-> IF h = id THEN findItem(id) ELSE hot[h]]
    BY <1>1, <1>4 DEF ItemExists, codeVars
  <2>2. findItem(id) \in Pages \X (Nat \ {0}) /\ Newest(flash, findItem(id), id)
    BY <1>1, <2>1, FoundNewest
  <2>3. HotKept'
    BY <1>1, <2>1, <2>2 DEF HotOK, HotKept
  <2> QED
    BY <2>1, <2>3 DEF HotOK
<1>5. CASE Lookup(id)
  BY <1>1, <1>2, <1>5 DEF Lookup, codeVars
<1>6. CASE osal_nv_delete(id)
  BY <1>1, <1>2, <1>6 DEF osal_nv_delete, NoCall
<1> QED
  BY <1>3, <1>4, <1>5, <1>6

LEMMA StartupHot == Startup => HotOK'
BY DEF Startup, HotOK, HotKept, AllCold

LEMMA NextHot ==
  ASSUME NvInv, NvInv', StoreOK, StoreOK', HotOK, FlashFails = FALSE, [Next]_vars
  PROVE  HotOK'
<1>1. CASE Return
  BY <1>1, SameHot DEF Return
<1>2. CASE UNCHANGED vars
  BY <1>2 DEF vars, ramVars, codeVars, HotOK, HotKept, AllCold, Doing, Step
<1> QED
  BY <1>1, <1>2, FlashHot, BootHot, CallHot, StartupHot DEF Next, Reset, ResetInErase

\* Between calls the place kept of an item is where a search would find it.
LEMMA HotReads ==
  ASSUME NvInv, StoreOK, HotOK
  PROVE  ReadsKept
<1>1. SUFFICES ASSUME pc = "idle", NEW id \in Ids, CanRead(id)
               PROVE  osal_nv_read(id) = Recoverable(id)
  BY DEF ReadsKept
<1>2. flash \in Flashes /\ Settled(flash, pgRes) /\ SingleFor(flash, id) /\ OneFor(flash, id)
  BY <1>1, FlashTyped, SingleIsOne DEF StoreOK, Settled, Single
<1>3. ASSUME NEW v, Holds(flash, id, v) PROVE Recoverable(id) = v
  BY <1>2, <1>3, HoldsOne, ValueIs
<1> DEFINE place == IF id \in HotIds THEN hot[id] ELSE findItem(id)
<1>4. CASE place = Nothing
  <2>1. ~ SomeCopy(flash, id)
    BY <1>1, <1>2, <1>4, FoundCopy DEF CanRead
  <2>2. osal_nv_read(id) = Nothing
    BY <1>4 DEF osal_nv_read
  <2> QED
    BY <1>2, <1>3, <2>1, <2>2, HoldsBy
<1>5. CASE place # Nothing
  <2>1. Newest(flash, place, id)
    BY <1>1, <1>2, <1>5, FoundNewest DEF HotOK, HotKept
  <2>2. Copy(flash, place[1], place[2], id)
    BY <1>1, <1>2, <2>1, AllInUse DEF Newest, SealedAt, Copy, Settled, AtRest, NvInv, PhaseOK
  <2>3. Holds(flash, id, flash[place[1]].items[place[2]].val)
    BY <1>2, <2>2, HoldsBy
  <2>4. osal_nv_read(id) = flash[place[1]].items[place[2]].val
    BY <1>5, <2>2 DEF osal_nv_read, ItemAt, Copy
  <2> QED
    BY <1>3, <2>3, <2>4
<1> QED
  BY <1>4, <1>5

LEMMA InitHot == Init => HotOK
BY DEF Init, HotOK, HotKept, AllCold

-----------------------------------------------------------------------------
(* The theorems.                                                           *)

LEMMA InitOK == Init => NvInv
<1> SUFFICES ASSUME Init PROVE NvInv
  OBVIOUS
<1>1. /\ flash = [p \in Pages |-> Erased]
      /\ pgOff = [p \in Pages |-> 0] /\ pgLost = [p \in Pages |-> 0] /\ pgRes = Nothing
      /\ pc = "headers" /\ call = NoCall /\ boot = Locals /\ todo = <<>>
  BY DEF Init
<1>2. /\ boot \in Boots /\ boot.old = Nothing /\ boot.pg = 1 /\ boot.k = 1
      /\ boot.lost = 0 /\ call \in Calls /\ call.id = Nothing /\ call.ok = TRUE
  BY <1>1, LocalsTyped, NoCallTyped DEF Locals, NoCall
<1>3. flash \in Flashes /\ \A p \in Pages : flash[p].items = <<>>
  BY EmptySeq, <1>1 DEF Erased, Flashes
<1>4. TypeOK
  <2>1. pgOff \in [Pages -> Nat] /\ pgLost \in [Pages -> Nat]
    BY <1>1
  <2>2. boot.pg \in Nat /\ boot.k \in Nat \ {0} /\ boot.lost \in Nat
    BY <1>2
  <2>3. call.id \in Ids \cup {Nothing} /\ call.ok \in BOOLEAN
    BY <1>2
  <2> QED
    BY <1>1, <1>3, <2>1, <2>2, <2>3 DEF TypeOK, Flashes
<1>5. Types
  BY <1>3, LenProperties, <1>1, <1>2, <1>4, OpsTyped DEF ItemsSized, Types
<1>6. PagesFit
  BY <1>3, EmptyPage, ItemsAssumption DEF TotalOn, PagesFit
<1>7. CountsOK /\ WalkOK /\ HeadersOK /\ ReserveOK /\ PhaseOK
  BY <1>1, <1>2, OpsAre DEF CountsOK, WalkOK, HeadersOK, ReserveOK, PhaseOK
<1>8. RoomOK
  BY <1>1, <1>3, PlannedNone, ItemsAssumption DEF RoomOK
<1>9. TargetsOK /\ SourcesOK /\ ZeroesOK
  BY <1>1, OpsAre DEF TargetsOK, SourcesOK, ZeroesOK
<1> QED
  BY <1>5, <1>6, <1>7, <1>8, <1>9 DEF NvInv

LEMMA StutterKeeps == NvInv /\ UNCHANGED vars => NvInv'
BY DEF vars, ramVars, codeVars, NvInv, Types, TypeOK, ItemsSized, PagesFit, TotalOn, RoomOK,
   PhaseOK, CountsOK, Counted, LostOn, WalkOK, HeadersOK, TargetsOK, Clear, SourcesOK,
   ZeroesOK, ReserveOK, Ready

LEMMA NextKeeps == NvInv /\ [Next]_vars => NvInv'
<1> SUFFICES ASSUME NvInv, [Next]_vars PROVE NvInv'
  OBVIOUS
<1>1. CASE Flash
  BY <1>1, FlashKeeps
<1>2. ASSUME NEW id \in Ids, NEW v \in Values, osal_nv_write(id, v) PROVE NvInv'
  BY <1>2, WriteKeeps
<1>3. ASSUME NEW id \in Ids, NEW v \in Values, osal_nv_item_init(id, v) PROVE NvInv'
  BY <1>3, ItemInitKeeps
<1>4. ASSUME NEW id \in Ids, ItemExists(id) PROVE NvInv'
  BY <1>4, ItemExistsKeeps
<1>5. ASSUME NEW id \in Ids, Lookup(id) PROVE NvInv'
  BY <1>5, LookupKeeps
<1>6. ASSUME NEW id \in Ids, osal_nv_delete(id) PROVE NvInv'
  BY <1>6, DeleteKeeps
<1>7. CASE Return
  BY <1>7, ReturnKeeps
<1>8. CASE Boot
  BY <1>8, BootKeeps
<1>9. CASE Reset
  BY <1>9, ResetKeeps
<1>10. ASSUME NEW parts \in TornErases, ResetInErase(parts) PROVE NvInv'
  BY <1>10, ResetInEraseKeeps
<1>11. CASE UNCHANGED vars
  BY <1>11, StutterKeeps
<1> QED
  BY <1>1, <1>2, <1>3, <1>4, <1>5, <1>6, <1>7, <1>8, <1>9, <1>10, <1>11 DEF Next

\* The inductive invariant holds in every state.
THEOREM NvInvariant == Spec => []NvInv
<1>1. Init => NvInv
  BY InitOK
<1>2. NvInv /\ [Next]_vars => NvInv'
  BY NextKeeps
<1> QED
  BY <1>1, <1>2, PTL DEF Spec

\* The types, and that a call always finds a reserve page.
THEOREM NvTyped == Spec => []TypeOK
<1>1. NvInv => TypeOK
  BY DEF NvInv, Types
<1> QED
  BY <1>1, NvInvariant, PTL

\* No page is written beyond its end, however stale the counts of lost space, on which
\* initItem decides that a compaction will give the room (OSAL_Nv.c:709-720).
THEOREM NeverOverflows == Spec => []NoOverflow
<1>1. NvInv => NoOverflow
  BY DEF NvInv, PagesFit, NoOverflow, TotalOn
<1> QED
  BY <1>1, NvInvariant, PTL

\* No item is written over another one: the offsets that writeItem writes at
\* (OSAL_Nv.c:1085) are never short of what the pages hold, whatever has failed before.
THEOREM NeverOverlays == Spec => []NoOverlay
<1>1. NvInv => NoOverlay
  BY DEF NvInv, CountsOK, Counted, NoOverlay, TotalOn
<1> QED
  BY <1>1, NvInvariant, PTL

\* Between calls an erased reserve page is there for the next compaction, also after
\* compactions that failed and erases that were torn (OSAL_Nv.c:527-528).
THEOREM ReserveIsErased == Spec => []ReserveErased
<1>1. NvInv => ReserveErased
  BY Resting DEF NvInv, PhaseOK, ReserveErased
<1> QED
  BY <1>1, NvInvariant, PTL

\* A value changes at one moment of the call that changes it, and a reset before or after
\* any flash operation of compactPage, initItem, osal_nv_write or initNV
\* (OSAL_Nv.c:237-345, 530-634, 694-771, 1286-1412) leaves every item with the value from
\* before that moment or the one from after it; a call returns when it is done.
THEOREM Implements ==
  ASSUME FlashFails = FALSE, InUseGoesFirst
  PROVE  Spec => ImplementsStore
<1>1. Init => StoreOK /\ Store!Init
  BY EmptyStore
<1>2. NvInv /\ NvInv' /\ StoreOK /\ [Next]_vars => StoreOK' /\ [Store!Next]_(Store!vars)
  BY NextStores, StoreSees, Zenon
<1> QED
  BY <1>1, <1>2, NvInvariant, PTL DEF Spec, ImplementsStore, Store!Spec

\* initNV and the walks of initPage (OSAL_Nv.c:237-345, 390-484), themselves interrupted or
\* not, change the value of no item.
THEOREM BootLosesNothing ==
  ASSUME FlashFails = FALSE, InUseGoesFirst
  PROVE  Spec => BootKeepsValues
<1>1. Init => StoreOK
  BY EmptyStore
<1>2. NvInv /\ NvInv' /\ StoreOK /\ [Next]_vars => StoreOK' /\ StoreStep
  BY NextStores, Zenon
<1>3. ASSUME StoreStep
      PROVE  pc \notin {"idle", "call"} => \A id \in Ids : Recoverable(id)' = Recoverable(id)
  BY <1>3, ValueIs DEF Up, StoreStep, Stands, ComesUp, Resets, Begins, Advancing, Returns,
     SameValues
<1> QED
  BY <1>1, <1>2, <1>3, NvInvariant, PTL DEF Spec, BootKeepsValues

\* Where no write reads back wrong and a torn erase has taken the inUse word first,
\* between calls the read of an item returns the value that a reset would preserve.
THEOREM ReadsTrue ==
  ASSUME FlashFails = FALSE, InUseGoesFirst
  PROVE  Spec => []ReadsKept
<1>1. Init => StoreOK /\ HotOK
  BY EmptyStore, InitHot
<1>2. NvInv /\ NvInv' /\ StoreOK /\ HotOK /\ [Next]_vars => StoreOK' /\ HotOK'
  BY NextStores, NextHot
<1>3. NvInv /\ StoreOK /\ HotOK => ReadsKept
  BY HotReads
<1> QED
  BY <1>1, <1>2, <1>3, NvInvariant, PTL DEF Spec

=============================================================================
