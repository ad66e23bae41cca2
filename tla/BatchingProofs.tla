--------------------------- MODULE BatchingProofs ---------------------------
(***************************************************************************)
(* Lemmas about the operators of Batching: where AssignBucket sends a      *)
(* text, and what pushing, building and draining do to the three buffers.  *)
(* They are stated for any set of rows R, of ids I and of hashes H.  The    *)
(* last part is about SumFunction, by which finish() adds up its counters. *)
(***************************************************************************)
EXTENDS Batching, Functions, WellFoundedInduction, FiniteSetTheorems, SequenceTheorems,
        TLAPS

\* A non-empty set of natural numbers has a least element.
LEMMA MinInSet ==
    ASSUME NEW S \in SUBSET Nat, S # {}
    PROVE  Min(S) \in S /\ \A y \in S : Min(S) =< y
<1>1. PICK x \in S : \A y \in S : <<y, x>> \notin OpToRel(<, Nat)
  BY NatLessThanWellFounded, WFMin
<1>2. \A y, z \in Nat : y < z => <<y, z>> \in OpToRel(<, Nat)
  BY DEF OpToRel
<1>3. ASSUME NEW y \in S PROVE x =< y
  <2>1. x \in Nat /\ y \in Nat
    OBVIOUS
  <2>2. ~(y < x)
    BY <1>1, <1>2, <2>1
  <2> QED BY <2>1, <2>2
<1> QED BY <1>3 DEF Min

\* A non-empty set of natural numbers with an upper bound has a greatest one.
LEMMA MaxInSet ==
    ASSUME NEW n \in Nat, NEW S \in SUBSET (0..n), S # {}
    PROVE  Max(S) \in S /\ \A y \in S : y =< Max(S)
<1> DEFINE T == {n - i : i \in S}
<1>1. \A i \in S : i \in Nat /\ n - i \in Nat
  OBVIOUS
<1>2. T \in SUBSET Nat /\ T # {}
  BY <1>1
<1>3. Min(T) \in T /\ \A y \in T : Min(T) =< y
  BY <1>2, MinInSet
<1>4. PICK x \in S : Min(T) = n - x
  BY <1>3
<1>5. ASSUME NEW y \in S PROVE x >= y
  <2>1. n - x =< n - y
    BY <1>3, <1>4
  <2>2. x \in Nat /\ y \in Nat
    BY <1>1
  <2> HIDE DEF T
  <2> QED BY <2>1, <2>2
<1> QED BY <1>5 DEF Max

\* Every text has a bucket.
LEMMA AssignBucketType ==
    ASSUME NEW bl \in Seq(Nat \ {0}), Len(bl) > 0, NEW n \in Nat
    PROVE  AssignBucket(bl, n) \in DOMAIN bl
<1> DEFINE fits == {b \in DOMAIN bl : n <= bl[b]}
<1>1. DOMAIN bl = 1..Len(bl) /\ Len(bl) \in Nat
  BY LenProperties
<1>2. fits \in SUBSET Nat
  BY <1>1
<1>3. CASE fits = {}
  BY <1>1, <1>3 DEF AssignBucket
<1>4. CASE fits # {}
  <2>1. Min(fits) \in fits
    BY <1>2, <1>4, MinInSet
  <2> QED BY <2>1, <1>4 DEF AssignBucket
<1> QED BY <1>3, <1>4

\* The bucket of a text that fits any bucket at all is the first one it fits,
\* so no text is cut off to the length of a bucket that is too short for it.
LEMMA AssignBucketFits ==
    ASSUME NEW bl \in Seq(Nat \ {0}), Len(bl) > 0, NEW n \in Nat,
           n <= bl[Len(bl)]
    PROVE  LET b == AssignBucket(bl, n)
           IN  n <= bl[b] /\ \A c \in DOMAIN bl : n <= bl[c] => b <= c
<1> DEFINE fits == {b \in DOMAIN bl : n <= bl[b]}
<1>1. DOMAIN bl = 1..Len(bl) /\ Len(bl) \in Nat
  BY LenProperties
<1>2. fits \in SUBSET Nat /\ Len(bl) \in fits
  BY <1>1
<1>3. Min(fits) \in fits /\ \A c \in fits : Min(fits) =< c
  BY <1>2, MinInSet
<1>4. AssignBucket(bl, n) = Min(fits)
  BY <1>2 DEF AssignBucket
<1> QED BY <1>3, <1>4

-----------------------------------------------------------------------------
\* Append adds its element and keeps every other one ...
LEMMA AppendElements ==
    ASSUME NEW S, NEW s \in Seq(S), NEW e \in S
    PROVE  /\ \E j \in DOMAIN Append(s, e) : Append(s, e)[j] = e
           /\ \A i \in DOMAIN s : \E j \in DOMAIN Append(s, e) : Append(s, e)[j] = s[i]
<1> DEFINE t == Append(s, e)
<1>1. /\ t \in Seq(S) /\ Len(t) = Len(s) + 1
      /\ \A i \in 1..Len(s) : t[i] = s[i]
      /\ t[Len(s) + 1] = e
  BY AppendProperties
<1>2. Len(s) \in Nat /\ DOMAIN s = 1..Len(s) /\ DOMAIN t = 1..Len(t)
  BY <1>1, LenProperties
<1> HIDE DEF t
<1> QED BY <1>1, <1>2 DEF t

LEMMA AppendKeeps ==
    ASSUME NEW S, NEW s \in Seq(S), NEW e \in S, NEW i \in DOMAIN s
    PROVE  \E j \in DOMAIN Append(s, e) : Append(s, e)[j] = s[i]
<1>1. /\ Append(s, e) \in Seq(S) /\ Len(Append(s, e)) = Len(s) + 1
      /\ \A j \in 1..Len(s) : Append(s, e)[j] = s[j]
  BY AppendProperties
<1>2. /\ Len(s) \in Nat /\ DOMAIN s = 1..Len(s)
      /\ DOMAIN Append(s, e) = 1..Len(Append(s, e))
  BY <1>1, LenProperties
<1>3. i \in DOMAIN Append(s, e) /\ Append(s, e)[i] = s[i]
  BY <1>1, <1>2
<1> QED BY <1>3

LEMMA AppendOnly ==
    ASSUME NEW S, NEW s \in Seq(S), NEW e \in S
    PROVE  /\ Append(s, e) \in Seq(S)
           /\ \A j \in DOMAIN Append(s, e) :
                 Append(s, e)[j] = e \/ \E i \in DOMAIN s : Append(s, e)[j] = s[i]
<1> DEFINE t == Append(s, e)
<1>1. /\ t \in Seq(S) /\ Len(t) = Len(s) + 1
      /\ \A i \in 1..Len(s) : t[i] = s[i]
      /\ t[Len(s) + 1] = e
  BY AppendProperties
<1>2. Len(s) \in Nat /\ DOMAIN s = 1..Len(s) /\ DOMAIN t = 1..Len(t)
  BY <1>1, LenProperties
<1> HIDE DEF t
<1> QED BY <1>1, <1>2 DEF t

LEMMA AppendRange ==
    ASSUME NEW S, NEW s \in Seq(S), NEW e \in S
    PROVE  Range(Append(s, e)) = Range(s) \cup {e}
<1> DEFINE t == Append(s, e)
<1>1. /\ \E j \in DOMAIN t : t[j] = e
      /\ \A i \in DOMAIN s : \E j \in DOMAIN t : t[j] = s[i]
      /\ \A j \in DOMAIN t : t[j] = e \/ \E i \in DOMAIN s : t[j] = s[i]
  <2>1. /\ \E j \in DOMAIN Append(s, e) : Append(s, e)[j] = e
        /\ \A i \in DOMAIN s : \E j \in DOMAIN Append(s, e) : Append(s, e)[j] = s[i]
    BY AppendElements
  <2>2. \A j \in DOMAIN Append(s, e) :
          Append(s, e)[j] = e \/ \E i \in DOMAIN s : Append(s, e)[j] = s[i]
    BY AppendOnly
  <2> QED BY <2>1, <2>2
<1> HIDE DEF t
<1> QED BY <1>1 DEF Range, t

\* ... and Tail takes away the head only.
LEMMA TailElements ==
    ASSUME NEW S, NEW s \in Seq(S), s # <<>>
    PROVE  /\ \E i \in DOMAIN s : s[i] = Head(s)
           /\ \A i \in DOMAIN s :
                 s[i] = Head(s) \/ \E j \in DOMAIN Tail(s) : Tail(s)[j] = s[i]
           /\ \A j \in DOMAIN Tail(s) : \E i \in DOMAIN s : Tail(s)[j] = s[i]
<1> DEFINE t == Tail(s)
<1>1. /\ t \in Seq(S) /\ Len(t) = Len(s) - 1
      /\ \A i \in 1..Len(t) : t[i] = s[i + 1]
  BY HeadTailProperties
<1>2. /\ Len(s) \in Nat \ {0} /\ DOMAIN s = 1..Len(s)
      /\ DOMAIN t = 1..Len(t) /\ Head(s) = s[1]
  BY <1>1, LenProperties, EmptySeq
<1> HIDE DEF t
<1>3. \A i \in DOMAIN s : i = 1 \/ (i - 1 \in DOMAIN t /\ t[i - 1] = s[i])
  BY <1>1, <1>2
<1>4. \A j \in DOMAIN t : j + 1 \in DOMAIN s /\ t[j] = s[j + 1]
  BY <1>1, <1>2
<1>5. 1 \in DOMAIN s
  BY <1>2
<1> QED BY <1>2, <1>3, <1>4, <1>5 DEF t

-----------------------------------------------------------------------------
\* The three buffers, and the invariant that ties their lengths together.
AccOf(R, I, H) == [rows : Seq(R), ids : Seq(I), hashes : Seq(H)]
ItemOf(R, I, H) == [id : I, row : R, hash : H]
Aligned(acc) == Len(acc.ids) = Len(acc.rows) /\ Len(acc.hashes) = Len(acc.rows)

\* Empty buffers are aligned.
LEMMA EmptyAccType ==
    ASSUME NEW R, NEW I, NEW H
    PROVE  EmptyAcc \in AccOf(R, I, H) /\ Aligned(EmptyAcc)
BY EmptySeq DEF EmptyAcc, AccOf, Aligned

\* Pushing an item keeps the buffers aligned and adds it at the end of each.
LEMMA PushType ==
    ASSUME NEW R, NEW I, NEW H, NEW acc \in AccOf(R, I, H), Aligned(acc),
           NEW item \in ItemOf(R, I, H)
    PROVE  /\ Push(acc, item) \in AccOf(R, I, H)
           /\ Aligned(Push(acc, item))
           /\ Len(Push(acc, item).rows) = Len(acc.rows) + 1
<1>1. /\ acc.rows \in Seq(R) /\ acc.ids \in Seq(I) /\ acc.hashes \in Seq(H)
      /\ item.row \in R /\ item.id \in I /\ item.hash \in H
  BY DEF AccOf, ItemOf
<1>2. /\ Append(acc.rows, item.row) \in Seq(R)
      /\ Append(acc.ids, item.id) \in Seq(I)
      /\ Append(acc.hashes, item.hash) \in Seq(H)
      /\ Len(Append(acc.rows, item.row)) = Len(acc.rows) + 1
      /\ Len(Append(acc.ids, item.id)) = Len(acc.ids) + 1
      /\ Len(Append(acc.hashes, item.hash)) = Len(acc.hashes) + 1
  BY <1>1, AppendProperties
<1> QED BY <1>2 DEF Push, AccOf, Aligned

\* With aligned buffers a batch takes all of each buffer, in order ...
LEMMA BuildBatchTakesAll ==
    ASSUME NEW R, NEW I, NEW H, NEW acc \in AccOf(R, I, H), Aligned(acc), NEW b
    PROVE  BuildBatch(acc, b) = [shape |-> b, bucket |-> b, rows |-> acc.rows,
                                 ids |-> acc.ids, hashes |-> acc.hashes]
<1>1. acc.ids \in Seq(I) /\ acc.hashes \in Seq(H)
  BY DEF AccOf
<1>2. /\ SubSeq(acc.ids, 1, Len(acc.rows)) = acc.ids
      /\ SubSeq(acc.hashes, 1, Len(acc.rows)) = acc.hashes
  BY <1>1, SubSeqFull DEF Aligned
<1> QED BY <1>2 DEF BuildBatch

\* ... and leaves nothing behind.
LEMMA DrainLeavesNothing ==
    ASSUME NEW R, NEW I, NEW H, NEW acc \in AccOf(R, I, H), Aligned(acc)
    PROVE  Drain(acc) = EmptyAcc
<1>1. acc.ids \in Seq(I) /\ acc.hashes \in Seq(H) /\ acc.rows \in Seq(R)
  BY DEF AccOf
<1>2. Len(acc.rows) \in Nat /\ Len(acc.ids) \in Nat /\ Len(acc.hashes) \in Nat
  BY <1>1, LenProperties
<1>3. /\ SubSeq(acc.ids, Len(acc.rows) + 1, Len(acc.ids)) = <<>>
      /\ SubSeq(acc.hashes, Len(acc.rows) + 1, Len(acc.hashes)) = <<>>
  BY <1>2, SubSeqEmpty DEF Aligned
<1> QED BY <1>3 DEF Drain, EmptyAcc

-----------------------------------------------------------------------------
(* The i-th entries of the three buffers belong together: they form an     *)
(* item of S.                                                              *)

Holds(acc, S) ==
    \A i \in DOMAIN acc.rows :
        [id |-> acc.ids[i], row |-> acc.rows[i], hash |-> acc.hashes[i]] \in S

LEMMA EmptyHolds == ASSUME NEW S PROVE Holds(EmptyAcc, S)
BY DEF EmptyAcc, Holds

\* The three pushes put an item's parts at the same place.
LEMMA PushHolds ==
    ASSUME NEW R, NEW I, NEW H, NEW acc \in AccOf(R, I, H), Aligned(acc),
           NEW item \in ItemOf(R, I, H), NEW S, Holds(acc, S), item \in S
    PROVE  Holds(Push(acc, item), S)
<1>1. /\ acc.rows \in Seq(R) /\ acc.ids \in Seq(I) /\ acc.hashes \in Seq(H)
      /\ item.row \in R /\ item.id \in I /\ item.hash \in H
      /\ item = [id |-> item.id, row |-> item.row, hash |-> item.hash]
  BY DEF AccOf, ItemOf
<1> DEFINE rs == Append(acc.rows, item.row)
           is == Append(acc.ids, item.id)
           hs == Append(acc.hashes, item.hash)
           n == Len(acc.rows)
<1>2. /\ rs \in Seq(R) /\ Len(rs) = n + 1 /\ rs[n + 1] = item.row
      /\ \A i \in 1..n : rs[i] = acc.rows[i]
  BY <1>1, AppendProperties
<1>3. /\ is[n + 1] = item.id
      /\ \A i \in 1..n : is[i] = acc.ids[i]
  BY <1>1, AppendProperties DEF Aligned
<1>4. /\ hs[n + 1] = item.hash
      /\ \A i \in 1..n : hs[i] = acc.hashes[i]
  BY <1>1, AppendProperties DEF Aligned
<1>5. n \in Nat /\ DOMAIN acc.rows = 1..n /\ DOMAIN rs = 1..(n + 1)
  BY <1>1, <1>2, LenProperties
<1>6. Push(acc, item) = [rows |-> rs, ids |-> is, hashes |-> hs]
  BY DEF Push
<1> HIDE DEF rs, is, hs, n
<1>7. ASSUME NEW i \in DOMAIN rs
      PROVE  [id |-> is[i], row |-> rs[i], hash |-> hs[i]] \in S
  <2>1. CASE i = n + 1
    BY <1>1, <1>2, <1>3, <1>4, <2>1
  <2>2. CASE i \in 1..n
    BY <1>2, <1>3, <1>4, <1>5, <2>2 DEF Holds
  <2> QED BY <1>5, <1>7, <2>1, <2>2
<1> QED BY <1>6, <1>7 DEF Holds

\* build_batch takes the rows and the drains the ids and hashes of the same items.
LEMMA BuildBatchHolds ==
    ASSUME NEW R, NEW I, NEW H, NEW acc \in AccOf(R, I, H), Aligned(acc), NEW b,
           NEW S, Holds(acc, S)
    PROVE  Holds(BuildBatch(acc, b), S) /\ Holds(Drain(acc), S)
<1>1. /\ BuildBatch(acc, b).rows = acc.rows /\ BuildBatch(acc, b).ids = acc.ids
      /\ BuildBatch(acc, b).hashes = acc.hashes
  BY BuildBatchTakesAll
<1>2. Drain(acc) = EmptyAcc
  BY DrainLeavesNothing
<1> QED BY <1>1, <1>2, EmptyHolds DEF Holds

-----------------------------------------------------------------------------
(* Sums over finite sets.  SumFunction is a fold: a function defined by     *)
(* recursion on the subsets of its index set.  That such a function exists, *)
(* and every fact about it, is shown on a smallest set that contradicts it. *)

\* The index the fold takes next.
AnyOf(s) == CHOOSE x \in s : TRUE

\* h is the table of partial sums of f that the fold computes over U.
SumTable(f, h, U) ==
  h = [s \in SUBSET U |-> IF s = {} THEN 0 ELSE f[AnyOf(s)] + h[s \ {AnyOf(s)}]]

\* The fold is the entry of that table for the whole set.
LEMMA SumIsTableEntry ==
  ASSUME NEW f, NEW U
  PROVE  SumFunctionOnSet(f, U) = (CHOOSE h : SumTable(f, h, U))[U]
BY DEF SumFunctionOnSet, FoldFunctionOnSet, MapThenFoldSet, SumTable, AnyOf

\* Among subsets of a finite set there is one that contains no other.
LEMMA SmallestSet ==
  ASSUME NEW S, IsFiniteSet(S), NEW T, T \subseteq SUBSET S, T # {}
  PROVE  \E m \in T : \A u \in T : u \subseteq m => u = m
<1>1. T \subseteq FiniteSubsetsOf(S)
  BY FS_Subset DEF FiniteSubsetsOf
<1>2. PICK m \in T : \A u \in T : <<u, m>> \notin StrictSubsetOrdering(S)
  BY <1>1, FS_StrictSubsetOrderingWellFounded, WFMin
<1>3. ASSUME NEW u \in T, u \subseteq m, u # m PROVE FALSE
  BY <1>2, <1>3 DEF StrictSubsetOrdering
<1> QED BY <1>3

\* Tables of partial sums agree on the sets they share.
LEMMA TablesAgree ==
  ASSUME NEW f, NEW U, NEW W, NEW h, NEW g,
         SumTable(f, h, U), SumTable(f, g, W),
         NEW S, IsFiniteSet(S), S \subseteq U, S \subseteq W
  PROVE  h[S] = g[S]
<1> DEFINE Bad == {s \in SUBSET S : h[s] # g[s]}
<1>1. SUFFICES ASSUME Bad # {} PROVE FALSE
  BY DEF Bad
<1>2. PICK m \in Bad : \A u \in Bad : u \subseteq m => u = m
  <2>1. Bad \subseteq SUBSET S
    OBVIOUS
  <2> HIDE DEF Bad
  <2> QED BY <1>1, <2>1, SmallestSet
<1>3. m \subseteq S /\ h[m] # g[m]
  BY <1>2
<1>4. \A u \in SUBSET S : u \subseteq m /\ u # m => h[u] = g[u]
  BY <1>2
<1> HIDE DEF Bad
<1>5. /\ h[m] = IF m = {} THEN 0 ELSE f[AnyOf(m)] + h[m \ {AnyOf(m)}]
      /\ g[m] = IF m = {} THEN 0 ELSE f[AnyOf(m)] + g[m \ {AnyOf(m)}]
  <2>1. m \in SUBSET U /\ m \in SUBSET W
    BY <1>3
  <2>2. PICK n : n = m OBVIOUS
  <2> QED BY <2>1 DEF SumTable
<1>6. m # {} 
  BY <1>3, <1>5
<1>7. AnyOf(m) \in m
  BY <1>6 DEF AnyOf
<1>8. h[m \ {AnyOf(m)}] = g[m \ {AnyOf(m)}]
  BY <1>3, <1>4, <1>7
<1> QED BY <1>3, <1>5, <1>8

\* Every finite set has a table of partial sums.
LEMMA TableExists ==
  ASSUME NEW f, NEW S, IsFiniteSet(S)
  PROVE  \E h : SumTable(f, h, S)
<1> DEFINE Bad == {s \in SUBSET S : \A h : ~ SumTable(f, h, s)}
<1>1. SUFFICES ASSUME Bad # {} PROVE FALSE
  BY DEF Bad
<1>2. PICK m \in Bad : \A u \in Bad : u \subseteq m => u = m
  <2>1. Bad \subseteq SUBSET S
    OBVIOUS
  <2> HIDE DEF Bad
  <2> QED BY <1>1, <2>1, SmallestSet
<1>3. m \subseteq S /\ \A h : ~ SumTable(f, h, m)
  BY <1>2
<1>4. ASSUME NEW u, u \subseteq m, u # m
      PROVE  \E h : SumTable(f, h, u)
  BY <1>2, <1>3, <1>4
<1> HIDE DEF Bad
<1> DEFINE Tab(u) == CHOOSE h : SumTable(f, h, u)
           Entry(s) == IF s = {} THEN 0 ELSE f[AnyOf(s)] + Tab(s \ {AnyOf(s)})[s \ {AnyOf(s)}]
<1>5. ASSUME NEW u, u \subseteq m, u # m
      PROVE  SumTable(f, Tab(u), u)
  BY <1>4, <1>5
<1>6. ASSUME NEW u, u \subseteq m, u # m
      PROVE  Tab(u)[u] = Entry(u)
  <2>1. CASE u = {}
    BY <1>5, <1>6, <2>1 DEF SumTable
  <2>2. CASE u # {}
    <3> DEFINE v == u \ {AnyOf(u)}
    <3>0. AnyOf(u) \in u
      BY <2>2 DEF AnyOf
    <3>1. v \subseteq m /\ v # m /\ v \subseteq u
      BY <1>6, <3>0
    <3>2. SumTable(f, Tab(u), u) /\ SumTable(f, Tab(v), v)
      BY <1>5, <1>6, <3>1
    <3>3. IsFiniteSet(v)
      BY <3>1, <1>3, FS_Subset
    <3> HIDE DEF v, Tab
    <3>4. Tab(u)[v] = Tab(v)[v]
      BY <3>1, <3>2, <3>3, TablesAgree
    <3>5. Tab(u)[u] = f[AnyOf(u)] + Tab(u)[v]
      BY <3>2, <2>2 DEF SumTable, v
    <3> QED BY <3>4, <3>5, <2>2 DEF v
  <2> QED BY <2>1, <2>2
<1> HIDE DEF Tab
<1>7. PICK h : h = [s \in SUBSET m |-> Entry(s)]
  OBVIOUS
<1>8. ASSUME NEW s \in SUBSET m, s # {}
      PROVE  h[s \ {AnyOf(s)}] = Tab(s \ {AnyOf(s)})[s \ {AnyOf(s)}]
  <2>1. AnyOf(s) \in s
    BY <1>8 DEF AnyOf
  <2>2. PICK u : u = s \ {AnyOf(s)}
    OBVIOUS
  <2>3. u \subseteq m /\ u # m
    BY <2>1, <2>2
  <2>4. h[u] = Entry(u)
    BY <1>7, <2>3
  <2> QED BY <2>2, <2>3, <2>4, <1>6
<1>9. \A s \in SUBSET m : h[s] = IF s = {} THEN 0 ELSE f[AnyOf(s)] + h[s \ {AnyOf(s)}]
  BY <1>7, <1>8
<1>10. SumTable(f, h, m)
  <2>1. h = [s \in SUBSET m |-> h[s]]
    BY <1>7
  <2> HIDE DEF Entry
  <2> QED BY <1>9, <2>1 DEF SumTable
<1> QED BY <1>3, <1>10

\* The fold does what its definition says.
LEMMA SumStep ==
  ASSUME NEW f, NEW S, IsFiniteSet(S)
  PROVE  SumFunctionOnSet(f, S) =
            IF S = {} THEN 0 ELSE f[AnyOf(S)] + SumFunctionOnSet(f, S \ {AnyOf(S)})
<1> DEFINE Tab(u) == CHOOSE h : SumTable(f, h, u)
<1>1. SumTable(f, Tab(S), S)
  BY TableExists
<1>2. SumFunctionOnSet(f, S) = Tab(S)[S]
  BY SumIsTableEntry
<1>3. CASE S = {}
  <2> HIDE DEF Tab
  <2> QED BY <1>1, <1>2, <1>3 DEF SumTable
<1>4. CASE S # {}
  <2>1. PICK v : v = S \ {AnyOf(S)}
    OBVIOUS
  <2>2. AnyOf(S) \in S /\ v \subseteq S /\ IsFiniteSet(v)
    BY <1>4, <2>1, FS_Subset DEF AnyOf
  <2>3. SumTable(f, Tab(v), v)
    BY <2>2, TableExists
  <2>4. SumFunctionOnSet(f, v) = Tab(v)[v]
    BY SumIsTableEntry
  <2> HIDE DEF Tab
  <2>5. Tab(S)[v] = Tab(v)[v]
    BY <1>1, <2>2, <2>3, TablesAgree
  <2>6. Tab(S)[S] = f[AnyOf(S)] + Tab(S)[v]
    BY <1>1, <1>4, <2>1 DEF SumTable
  <2> QED BY <1>2, <1>4, <2>1, <2>4, <2>5, <2>6
<1> QED BY <1>3, <1>4

\* A sum of numbers is a number.
LEMMA SumOfNumbers ==
  ASSUME NEW f, NEW S, IsFiniteSet(S), \A x \in S : f[x] \in Int
  PROVE  SumFunctionOnSet(f, S) \in Int
<1> DEFINE Bad == {s \in SUBSET S : SumFunctionOnSet(f, s) \notin Int}
<1>1. SUFFICES ASSUME Bad # {} PROVE FALSE
  BY DEF Bad
<1>2. PICK m \in Bad : \A u \in Bad : u \subseteq m => u = m
  <2>1. Bad \subseteq SUBSET S
    OBVIOUS
  <2> HIDE DEF Bad
  <2> QED BY <1>1, <2>1, SmallestSet
<1>3. m \subseteq S /\ IsFiniteSet(m) /\ SumFunctionOnSet(f, m) \notin Int
  BY <1>2, FS_Subset
<1>4. ASSUME NEW u, u \subseteq m, u # m PROVE SumFunctionOnSet(f, u) \in Int
  BY <1>2, <1>3, <1>4
<1> HIDE DEF Bad
<1>5. SumFunctionOnSet(f, m) =
         IF m = {} THEN 0 ELSE f[AnyOf(m)] + SumFunctionOnSet(f, m \ {AnyOf(m)})
  BY <1>3, SumStep
<1>6. m # {}
  BY <1>3, <1>5
<1>7. AnyOf(m) \in m
  BY <1>6 DEF AnyOf
<1>8. SumFunctionOnSet(f, m \ {AnyOf(m)}) \in Int
  BY <1>4, <1>7
<1> QED BY <1>3, <1>5, <1>6, <1>7, <1>8

\* The order of summation does not matter: any index may come first.
LEMMA SumWithout ==
  ASSUME NEW f, NEW S, IsFiniteSet(S), \A x \in S : f[x] \in Int, NEW e \in S
  PROVE  SumFunctionOnSet(f, S) = f[e] + SumFunctionOnSet(f, S \ {e})
<1> DEFINE Splits(s) == \A x \in s : SumFunctionOnSet(f, s) = f[x] + SumFunctionOnSet(f, s \ {x})
           Bad == {s \in SUBSET S : ~ Splits(s)}
<1>1. SUFFICES ASSUME Bad # {} PROVE FALSE
  BY DEF Bad
<1>2. PICK m \in Bad : \A u \in Bad : u \subseteq m => u = m
  <2>1. Bad \subseteq SUBSET S
    OBVIOUS
  <2> HIDE DEF Bad
  <2> QED BY <1>1, <2>1, SmallestSet
<1>3. m \subseteq S /\ IsFiniteSet(m) /\ ~ Splits(m)
  BY <1>2, FS_Subset
<1>4. ASSUME NEW u, u \subseteq m, u # m PROVE Splits(u)
  BY <1>2, <1>3, <1>4
<1> HIDE DEF Bad
<1>5. PICK x \in m : SumFunctionOnSet(f, m) # f[x] + SumFunctionOnSet(f, m \ {x})
  BY <1>3
<1>6. PICK c \in m : c = AnyOf(m)
  BY <1>5 DEF AnyOf
<1>7. SumFunctionOnSet(f, m) = f[c] + SumFunctionOnSet(f, m \ {c})
  BY <1>3, <1>6, SumStep
<1>8. x # c
  BY <1>5, <1>7
<1>9. Splits(m \ {c}) /\ Splits(m \ {x})
  BY <1>4
<1>10. SumFunctionOnSet(f, m \ {c}) = f[x] + SumFunctionOnSet(f, m \ {c, x})
  <2>1. (m \ {c}) \ {x} = m \ {c, x}
    OBVIOUS
  <2> QED BY <1>8, <1>9, <2>1
<1>11. SumFunctionOnSet(f, m \ {x}) = f[c] + SumFunctionOnSet(f, m \ {c, x})
  <2>1. (m \ {x}) \ {c} = m \ {c, x}
    OBVIOUS
  <2> QED BY <1>8, <1>9, <2>1
<1>12. SumFunctionOnSet(f, m \ {c, x}) \in Int
  <2>1. m \ {c, x} \in SUBSET S
    BY <1>3
  <2>2. IsFiniteSet(m \ {c, x})
    BY <2>1, FS_Subset
  <2> QED BY <2>1, <2>2, SumOfNumbers
<1>13. f[c] \in Int /\ f[x] \in Int
  BY <1>3
<1> HIDE DEF Splits
<1> QED BY <1>5, <1>7, <1>10, <1>11, <1>12, <1>13

\* Only the values at the indices count.
LEMMA SumOfEqual ==
  ASSUME NEW f, NEW g, NEW S, IsFiniteSet(S), \A x \in S : f[x] = g[x]
  PROVE  SumFunctionOnSet(f, S) = SumFunctionOnSet(g, S)
<1> DEFINE Bad == {s \in SUBSET S : SumFunctionOnSet(f, s) # SumFunctionOnSet(g, s)}
<1>1. SUFFICES ASSUME Bad # {} PROVE FALSE
  BY DEF Bad
<1>2. PICK m \in Bad : \A u \in Bad : u \subseteq m => u = m
  <2>1. Bad \subseteq SUBSET S
    OBVIOUS
  <2> HIDE DEF Bad
  <2> QED BY <1>1, <2>1, SmallestSet
<1>3. m \subseteq S /\ IsFiniteSet(m) /\ SumFunctionOnSet(f, m) # SumFunctionOnSet(g, m)
  BY <1>2, FS_Subset
<1>4. ASSUME NEW u, u \subseteq m, u # m
      PROVE  SumFunctionOnSet(f, u) = SumFunctionOnSet(g, u)
  BY <1>2, <1>3, <1>4
<1> HIDE DEF Bad
<1>5. /\ SumFunctionOnSet(f, m) =
            IF m = {} THEN 0 ELSE f[AnyOf(m)] + SumFunctionOnSet(f, m \ {AnyOf(m)})
      /\ SumFunctionOnSet(g, m) =
            IF m = {} THEN 0 ELSE g[AnyOf(m)] + SumFunctionOnSet(g, m \ {AnyOf(m)})
  BY <1>3, SumStep
<1>6. m # {}
  BY <1>3, <1>5
<1>7. AnyOf(m) \in m
  BY <1>6 DEF AnyOf
<1>8. SumFunctionOnSet(f, m \ {AnyOf(m)}) = SumFunctionOnSet(g, m \ {AnyOf(m)})
  BY <1>4, <1>7
<1> QED BY <1>3, <1>5, <1>6, <1>7, <1>8

\* A sum of zeros is zero.
LEMMA SumOfZeros ==
  ASSUME NEW f, IsFiniteSet(DOMAIN f), \A x \in DOMAIN f : f[x] = 0
  PROVE  SumFunction(f) = 0
<1> DEFINE Bad == {s \in SUBSET DOMAIN f : SumFunctionOnSet(f, s) # 0}
<1>1. SUFFICES ASSUME Bad # {} PROVE FALSE
  BY DEF Bad, SumFunction
<1>2. PICK m \in Bad : \A u \in Bad : u \subseteq m => u = m
  <2>1. Bad \subseteq SUBSET DOMAIN f
    OBVIOUS
  <2> HIDE DEF Bad
  <2> QED BY <1>1, <2>1, SmallestSet
<1>3. m \subseteq DOMAIN f /\ IsFiniteSet(m) /\ SumFunctionOnSet(f, m) # 0
  BY <1>2, FS_Subset
<1>4. ASSUME NEW u, u \subseteq m, u # m PROVE SumFunctionOnSet(f, u) = 0
  BY <1>2, <1>3, <1>4
<1> HIDE DEF Bad
<1>5. SumFunctionOnSet(f, m) =
         IF m = {} THEN 0 ELSE f[AnyOf(m)] + SumFunctionOnSet(f, m \ {AnyOf(m)})
  BY <1>3, SumStep
<1>6. m # {}
  BY <1>3, <1>5
<1>7. AnyOf(m) \in m
  BY <1>6 DEF AnyOf
<1>8. SumFunctionOnSet(f, m \ {AnyOf(m)}) = 0
  BY <1>4, <1>7
<1> QED BY <1>3, <1>5, <1>6, <1>7, <1>8

\* g is f with n added to the entry at e.
Adds(f, g, e, n) ==
  /\ IsFiniteSet(DOMAIN f) /\ DOMAIN g = DOMAIN f /\ e \in DOMAIN f /\ n \in Int
  /\ g[e] = f[e] + n
  /\ \A x \in DOMAIN f : f[x] \in Int /\ (x # e => g[x] = f[x])

\* One entry of f grows by n: so does its sum.
LEMMA SumAdds ==
  ASSUME NEW f, NEW g, NEW e, NEW n, Adds(f, g, e, n)
  PROVE  SumFunction(g) = SumFunction(f) + n
<1>1. PICK D : D = DOMAIN f
  OBVIOUS
<1>2. /\ IsFiniteSet(D) /\ DOMAIN f = D /\ DOMAIN g = D /\ e \in D /\ n \in Int
      /\ g[e] = f[e] + n
      /\ \A x \in D : f[x] \in Int /\ g[x] \in Int
      /\ \A x \in D \ {e} : f[x] = g[x]
  <2>1. \A x \in D : g[x] = IF x = e THEN f[x] + n ELSE f[x]
    BY <1>1 DEF Adds
  <2> QED BY <1>1, <2>1 DEF Adds
<1>3. IsFiniteSet(D \ {e})
  BY <1>2, FS_Subset
<1>4. SumFunctionOnSet(f, D) = f[e] + SumFunctionOnSet(f, D \ {e})
  BY <1>2, SumWithout
<1>5. SumFunctionOnSet(g, D) = g[e] + SumFunctionOnSet(g, D \ {e})
  BY <1>2, SumWithout
<1>6. SumFunctionOnSet(f, D \ {e}) = SumFunctionOnSet(g, D \ {e})
  BY <1>2, <1>3, SumOfEqual
<1>7. SumFunctionOnSet(f, D \ {e}) \in Int
  BY <1>2, <1>3, SumOfNumbers
<1>8. f[e] \in Int
  BY <1>2
<1> QED BY <1>2, <1>4, <1>5, <1>6, <1>7, <1>8 DEF SumFunction

\* Renumbering the terms leaves a sum as it is.
LEMMA SumShifted ==
  ASSUME NEW n \in Nat, NEW f, NEW g,
         \A i \in 1..n : f[i] \in Int /\ g[i + 1] = f[i]
  PROVE  SumFunctionOnSet(g, 2..(n + 1)) = SumFunctionOnSet(f, 1..n)
<1> DEFINE Same(k) == SumFunctionOnSet(g, 2..(k + 1)) = SumFunctionOnSet(f, 1..k)
           Bad == {k \in 0..n : ~ Same(k)}
<1>1. SUFFICES ASSUME Bad # {} PROVE FALSE
  BY DEF Bad
<1>2. PICK m \in Bad : \A k \in Bad : m =< k
  <2>1. Bad \in SUBSET Nat
    OBVIOUS
  <2> HIDE DEF Bad
  <2> QED BY <1>1, <2>1, MinInSet
<1>3. m \in 0..n /\ ~ Same(m) /\ (m # 0 => Same(m - 1))
  BY <1>2
<1> HIDE DEF Bad
<1>4. m # 0
  <2>1. Same(0)
    <3>1. 2..(0 + 1) = {} /\ 1..0 = {}
      OBVIOUS
    <3> QED BY <3>1, FS_EmptySet, SumStep
  <2> QED BY <1>3, <2>1
<1>5. SumFunctionOnSet(f, 1..m) = f[m] + SumFunctionOnSet(f, 1..(m - 1))
  <2>1. (1..m) \ {m} = 1..(m - 1) /\ m \in 1..m /\ \A i \in 1..m : f[i] \in Int
    BY <1>3, <1>4
  <2>2. IsFiniteSet(1..m)
    BY <1>3, FS_Interval
  <2>3. PICK D : D = 1..m
    OBVIOUS
  <2>4. IsFiniteSet(D) /\ m \in D /\ \A i \in D : f[i] \in Int
    BY <2>1, <2>2, <2>3
  <2>5. SumFunctionOnSet(f, D) = f[m] + SumFunctionOnSet(f, D \ {m})
    BY <2>4, SumWithout
  <2> QED BY <2>1, <2>3, <2>5
<1>6. SumFunctionOnSet(g, 2..(m + 1)) = g[m + 1] + SumFunctionOnSet(g, 2..m)
  <2>1. /\ (2..(m + 1)) \ {m + 1} = 2..m /\ m + 1 \in 2..(m + 1)
        /\ \A i \in 2..(m + 1) : g[i] \in Int
    <3>1. ASSUME NEW i \in 2..(m + 1) PROVE g[i] \in Int
      <4>1. PICK j \in 1..n : i = j + 1
        <5>1. i - 1 \in 1..n /\ i = (i - 1) + 1
          BY <1>3
        <5> QED BY <5>1
      <4> QED BY <4>1
    <3>2. (2..(m + 1)) \ {m + 1} = 2..m /\ m + 1 \in 2..(m + 1)
      BY <1>3, <1>4
    <3> QED BY <3>1, <3>2
  <2>2. IsFiniteSet(2..(m + 1))
    BY <1>3, FS_Interval
  <2>3. SumFunctionOnSet(g, 2..(m + 1)) = g[m + 1] + SumFunctionOnSet(g, (2..(m + 1)) \ {m + 1})
    BY <2>1, <2>2, SumWithout
  <2> QED BY <2>1, <2>3
<1>7. SumFunctionOnSet(g, 2..m) = SumFunctionOnSet(f, 1..(m - 1))
  <2>1. (m - 1) + 1 = m
    BY <1>3
  <2> QED BY <1>3, <1>4, <2>1
<1>8. g[m + 1] = f[m]
  BY <1>3, <1>4
<1> QED BY <1>3, <1>5, <1>6, <1>7, <1>8
=============================================================================
