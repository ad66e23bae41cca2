--------------------------- MODULE RowPathProofs ---------------------------
(***************************************************************************)
(* Theorems about RowPath, for any encoder, texts, cache limits, row and   *)
(* batch sizes, timeout and number of device faults: how long a row waits, *)
(* what the tokenizer computes, the types, which messages are filtered     *)
(* out, what is in the arrays of a batch, and what a fault costs.          *)
(***************************************************************************)
EXTENDS RowPath, BatchingProofs

-----------------------------------------------------------------------------
(* Waiting.  However the messages trickle in, no row waits in the batcher   *)
(* longer than WaitIsBounded says.  The bound is not inductive: it must     *)
(* count the time recv_timeout has been waiting, too, which the next        *)
(* message forgives.                                                        *)

\* The clocks of the batcher: one per pending row, and the oldest row has seen
\* a full timeout at most for each row after it, and the current wait.
Clocks ==
    /\ \E S : acc.rows \in Seq(S)
    /\ ages \in Seq(Nat)
    /\ Len(ages) = Len(acc.rows)
    /\ Len(ages) < BatchSize
    /\ idle \in 0..Timeout
    /\ \A i \in DOMAIN ages : ages[i] <= (Len(ages) - i) * Timeout + idle

\* One more row multiplies out to one more timeout.
LEMMA OneMore == ASSUME NEW n \in Nat PROVE (n + 1) * Timeout = n * Timeout + Timeout
  BY PathAssumption

\* Nothing pending: nothing to bound.
LEMMA NonePending ==
    ASSUME acc'.rows = <<>>, ages' = <<>>, idle' \in 0..Timeout
    PROVE  Clocks'
<1>1. acc'.rows \in Seq({})
  OBVIOUS
<1>2. Len(<<>>) = 0 /\ DOMAIN <<>> = {}
  OBVIOUS
<1> QED BY <1>1, <1>2, ShapeAssumption DEF Clocks

LEMMA RecvClocks == ASSUME Clocks, BatcherRecv PROVE Clocks'
<1> DEFINE row == Fitted(Head(bucketQ)).row
           a == Push(acc, Fitted(Head(bucketQ)))
<1>1. PICK S : acc.rows \in Seq(S)
  BY DEF Clocks
<1>2. a.rows = Append(acc.rows, row)
  BY DEF Push
<1>3. a.rows \in Seq(S \cup {row}) /\ Len(a.rows) = Len(acc.rows) + 1
  <2>1. acc.rows \in Seq(S \cup {row}) /\ row \in S \cup {row}
    BY <1>1, SeqMonotonic
  <2> HIDE DEF row
  <2> QED BY <2>1, <1>2, AppendProperties
<1>4. idle' = 0 /\ 0 \in 0..Timeout
  BY PathAssumption DEF BatcherRecv
<1>5. CASE Filled(a, BatchSize)
  <2>1. ages' = <<>> /\ acc' = Drain(a)
    BY <1>5 DEF BatcherRecv, Emit
  <2>2. acc'.rows = <<>>
    BY <2>1 DEF Drain
  <2> QED BY <2>1, <2>2, <1>4, NonePending
<1>6. CASE ~Filled(a, BatchSize)
  <2>1. acc' = a /\ ages' = Append(ages, 0)
    BY <1>6 DEF BatcherRecv
  <2> HIDE DEF a
  <2>2. /\ ages' \in Seq(Nat) /\ Len(ages') = Len(ages) + 1
        /\ \A i \in 1..Len(ages) : ages'[i] = ages[i]
        /\ ages'[Len(ages) + 1] = 0
    BY <2>1, AppendProperties DEF Clocks
  <2>3. Len(ages') = Len(acc'.rows) /\ Len(ages') < BatchSize
    BY <1>3, <1>6, <2>1, <2>2, ShapeAssumption DEF Clocks, Filled
  <2>4. ASSUME NEW i \in DOMAIN ages'
        PROVE  ages'[i] <= (Len(ages') - i) * Timeout + idle'
    <3>1. DOMAIN ages' = 1..(Len(ages) + 1) /\ Len(ages) \in Nat /\ i \in Nat
      BY <2>2, LenProperties DEF Clocks
    <3>2. CASE i = Len(ages) + 1
      <4>1. (Len(ages') - i) * Timeout = 0
        BY <2>2, <3>1, <3>2, PathAssumption
      <4> QED BY <2>2, <3>2, <4>1, <1>4
    <3>3. CASE i \in 1..Len(ages)
      <4> DEFINE n == Len(ages) - i
      <4>1. n \in Nat /\ Len(ages') - i = n + 1
        BY <2>2, <3>1, <3>3
      <4>2. ages[i] <= n * Timeout + idle /\ idle \in 0..Timeout
        BY <3>3, LenProperties DEF Clocks
      <4>3. n * Timeout \in Nat /\ (n + 1) * Timeout = n * Timeout + Timeout
        BY <4>1, OneMore, PathAssumption
      <4>4. ages[i] \in Nat /\ ages'[i] = ages[i]
        BY <2>2, <3>3, LenProperties, ElementOfSeq DEF Clocks
      <4> HIDE DEF n
      <4> QED BY <4>1, <4>2, <4>3, <4>4, <1>4, PathAssumption
    <3> QED BY <3>1, <3>2, <3>3
  <2> QED BY <1>3, <1>4, <2>1, <2>2, <2>3, <2>4 DEF Clocks
<1> QED BY <1>5, <1>6

LEMMA TimeoutClocks == ASSUME Clocks, BatcherTimeout PROVE Clocks'
<1>1. idle' = 0 /\ 0 \in 0..Timeout
  BY PathAssumption DEF BatcherTimeout
<1>2. CASE acc.rows = <<>>
  <2>1. acc' = acc /\ ages' = ages
    BY <1>2 DEF BatcherTimeout
  <2>2. ages = <<>>
    BY <1>2, EmptySeq DEF Clocks
  <2> QED BY <1>1, <1>2, <2>1, <2>2, NonePending
<1>3. CASE acc.rows # <<>>
  <2>1. ages' = <<>> /\ acc' = Drain(acc)
    BY <1>3 DEF BatcherTimeout, Emit
  <2>2. acc'.rows = <<>>
    BY <2>1 DEF Drain
  <2> QED BY <1>1, <2>1, <2>2, NonePending
<1> QED BY <1>2, <1>3

LEMMA FlushClocks == ASSUME Clocks, BatcherFlush PROVE Clocks'
<1>1. ages' = <<>> /\ acc' = Drain(acc) /\ idle' = idle
  BY DEF BatcherFlush, Emit
<1>2. acc'.rows = <<>>
  BY <1>1 DEF Drain
<1> QED BY <1>1, <1>2, NonePending DEF Clocks

LEMMA TickClocks == ASSUME Clocks, Tick PROVE Clocks'
<1>1. /\ idle' = idle + 1 /\ idle' \in 0..Timeout
      /\ ages' = [i \in DOMAIN ages |-> ages[i] + 1] /\ acc' = acc
  BY PathAssumption DEF Clocks, Tick
<1>2. ages \in Seq(Nat) /\ DOMAIN ages = 1..Len(ages) /\ Len(ages) \in Nat
  BY LenProperties DEF Clocks
<1>3. \A i \in 1..Len(ages) : ages[i] \in Nat
  BY <1>2, ElementOfSeq
<1>4. ages' \in [1..Len(ages) -> Nat]
  BY <1>1, <1>2, <1>3
<1>5. ages' \in Seq(Nat) /\ Len(ages') = Len(ages)
  BY <1>2, <1>4, IsASeq, LenProperties
<1>6. ASSUME NEW i \in DOMAIN ages'
      PROVE  ages'[i] <= (Len(ages') - i) * Timeout + idle'
  <2> DEFINE n == Len(ages) - i
  <2>1. i \in 1..Len(ages) /\ n \in Nat
    BY <1>2, <1>4
  <2>2. n * Timeout \in Nat
    BY <2>1, PathAssumption
  <2>3. ages[i] <= n * Timeout + idle
    BY <1>2, <2>1 DEF Clocks
  <2>4. ages'[i] = ages[i] + 1
    BY <1>1, <1>2, <2>1
  <2> HIDE DEF n
  <2>5. ages'[i] <= n * Timeout + idle'
    BY <1>1, <1>3, <2>1, <2>2, <2>3, <2>4 DEF Clocks
  <2> QED BY <1>5, <2>5 DEF n
<1> QED BY <1>1, <1>5, <1>6 DEF Clocks

LEMMA StepClocks == ASSUME Clocks, [Next]_vars PROVE Clocks'
<1>1. ASSUME UNCHANGED <<acc, ages, idle>> PROVE Clocks'
  <2>1. acc' = acc /\ ages' = ages /\ idle' = idle
    BY <1>1
  <2> QED BY <2>1 DEF Clocks
<1>2. CASE BatcherRecv
  BY <1>2, RecvClocks
<1>3. CASE BatcherTimeout
  BY <1>3, TimeoutClocks
<1>4. CASE BatcherFlush
  BY <1>4, FlushClocks
<1>5. CASE Tick
  BY <1>5, TickClocks
<1>6. CASE BatcherSend \/ BatcherExit
  BY <1>6, <1>1 DEF BatcherSend, BatcherExit
<1>7. CASE TokSkip \/ TokSend \/ TokExit
  BY <1>7, <1>1 DEF TokSkip, TokSend, TokExit, batcherVars
<1>8. CASE GpuRecv \/ GpuInfer \/ GpuOutput \/ GpuExit
  BY <1>8, <1>1 DEF GpuRecv, GpuInfer, GpuOutput, GpuExit, batcherVars
<1>9. CASE Device(ComputeStep) \/ Device(CopyStep) \/ Device(Break)
  BY <1>9, <1>1 DEF Device, batcherVars
<1>10. CASE Stopped \/ UNCHANGED vars
  BY <1>10, <1>1 DEF Stopped, vars, batcherVars
<1> QED BY <1>2, <1>3, <1>4, <1>5, <1>6, <1>7, <1>8, <1>9, <1>10 DEF Next

\* The oldest row has waited one timeout per pending row: its own and those of
\* the rows after it.
LEMMA ClocksBound == ASSUME Clocks PROVE WaitIsBounded
<1> SUFFICES ASSUME NEW i \in DOMAIN ages
             PROVE  ages[i] <= (Len(acc.rows) + 1 - i) * Timeout /\ Len(acc.rows) < BatchSize
  BY DEF WaitIsBounded
<1> DEFINE n == Len(ages) - i
<1>1. n \in Nat /\ Len(acc.rows) + 1 - i = n + 1
  BY LenProperties DEF Clocks
<1>2. ages[i] <= n * Timeout + idle /\ idle \in 0..Timeout
  BY DEF Clocks
<1> HIDE DEF n
<1>3. n * Timeout \in Nat /\ (n + 1) * Timeout = n * Timeout + Timeout
  BY <1>1, OneMore, PathAssumption
<1>4. ages[i] \in Nat
  BY ElementOfSeq, LenProperties DEF Clocks
<1>5. ages[i] <= (n + 1) * Timeout
  BY <1>2, <1>3, <1>4, PathAssumption
<1> QED BY <1>1, <1>5 DEF Clocks

\* A row waits in the batcher for no more than one timeout for itself and one
\* for every row received after it, for every timeout and batch size, whatever
\* the tokenizer worker and the device do.
THEOREM WaitBound == Spec => []WaitIsBounded
<1>1. Init => Clocks
  <2> SUFFICES ASSUME Init PROVE Clocks
    OBVIOUS
  <2>1. acc.rows \in Seq({}) /\ acc.rows = <<>> /\ ages = <<>> /\ idle = 0
    BY DEF Init, EmptyAcc
  <2>2. Len(<<>>) = 0 /\ DOMAIN <<>> = {}
    OBVIOUS
  <2> QED BY <2>1, <2>2, ShapeAssumption, PathAssumption DEF Clocks
<1>2. Clocks /\ [Next]_vars => Clocks'
  BY StepClocks
<1> QED BY <1>1, <1>2, ClocksBound, PTL DEF Spec

-----------------------------------------------------------------------------
(* The folds over the words of a text.  FoldLeft is a function defined by   *)
(* recursion on the subsets of the positions, the last position first; that *)
(* such a function exists, and what it computes, is shown on a smallest set *)
(* that contradicts it.                                                     *)

\* A turn of the loop: of tokenize_one over its words ("tokens"), of putting
\* the ids of all words one after the other ("content"), of keeping what is
\* marked ("kept"), or of joining words with spaces between them ("joined").
Turn(kind, s, w) ==
    IF kind = "tokens" THEN AddWord(s, w)
    ELSE IF kind = "content" THEN s \o w
    ELSE IF kind = "kept" THEN IF w[2] = 1 THEN Append(s, w[1]) ELSE s
    ELSE s + Bytes[w] + (IF s = 0 THEN 0 ELSE 1)

\* h is the table of intermediate results the fold computes over U.
FoldTable(kind, base, q, h, U) ==
    h = [s \in SUBSET U |->
            IF s = {} THEN base ELSE Turn(kind, h[s \ {Max(s)}], q[Max(s)])]

\* The result after the first n words.
After(kind, base, q, n) == (CHOOSE h : FoldTable(kind, base, q, h, 1..n))[1..n]

LEMMA TokensAreAfter ==
    ASSUME NEW base, NEW q, NEW n, DOMAIN q = 1..n
    PROVE  FoldLeft(AddWord, base, q) = After("tokens", base, q, n)
BY DEF FoldLeft, MapThenFoldSet, After, FoldTable, Turn

\* Positions of some sequence.
Positions(s) == \E n \in Nat : s \in SUBSET (1..n)

LEMMA PositionsBelow ==
    ASSUME NEW S, Positions(S), NEW s, s \subseteq S
    PROVE  Positions(s) /\ IsFiniteSet(s) /\ (s # {} => Max(s) \in s)
<1>1. PICK n \in Nat : S \in SUBSET (1..n)
  BY DEF Positions
<1>2. s \in SUBSET (1..n) /\ s \in SUBSET (0..n)
  BY <1>1
<1>3. IsFiniteSet(1..n)
  BY <1>1, FS_Interval
<1>4. IsFiniteSet(s)
  BY <1>2, <1>3, FS_Subset
<1>5. s # {} => Max(s) \in s
  BY <1>2, MaxInSet
<1> QED BY <1>2, <1>4, <1>5 DEF Positions

LEMMA FoldTablesAgree ==
    ASSUME NEW kind, NEW base, NEW q, NEW U, NEW W, NEW h, NEW g,
           FoldTable(kind, base, q, h, U), FoldTable(kind, base, q, g, W),
           NEW S, Positions(S), S \subseteq U, S \subseteq W
    PROVE  h[S] = g[S]
<1> DEFINE Bad == {s \in SUBSET S : h[s] # g[s]}
<1>1. SUFFICES ASSUME Bad # {} PROVE FALSE
  BY DEF Bad
<1>2. PICK m \in Bad : \A u \in Bad : u \subseteq m => u = m
  <2>1. Bad \subseteq SUBSET S /\ IsFiniteSet(S)
    BY PositionsBelow
  <2> HIDE DEF Bad
  <2> QED BY <1>1, <2>1, SmallestSet
<1>3. m \subseteq S /\ h[m] # g[m]
  BY <1>2
<1>4. \A u \in SUBSET S : u \subseteq m /\ u # m => h[u] = g[u]
  BY <1>2
<1> HIDE DEF Bad
<1>5. /\ h[m] = IF m = {} THEN base ELSE Turn(kind, h[m \ {Max(m)}], q[Max(m)])
      /\ g[m] = IF m = {} THEN base ELSE Turn(kind, g[m \ {Max(m)}], q[Max(m)])
  <2>1. m \in SUBSET U /\ m \in SUBSET W
    BY <1>3
  <2> QED BY <2>1 DEF FoldTable
<1>6. m # {}
  BY <1>3, <1>5
<1>7. Max(m) \in m
  BY <1>3, <1>6, PositionsBelow
<1>8. h[m \ {Max(m)}] = g[m \ {Max(m)}]
  BY <1>3, <1>4, <1>7
<1> QED BY <1>3, <1>5, <1>8

LEMMA FoldTableExists ==
    ASSUME NEW kind, NEW base, NEW q, NEW S, Positions(S)
    PROVE  \E h : FoldTable(kind, base, q, h, S)
<1> DEFINE Bad == {s \in SUBSET S : \A h : ~ FoldTable(kind, base, q, h, s)}
<1>1. SUFFICES ASSUME Bad # {} PROVE FALSE
  BY DEF Bad
<1>2. PICK m \in Bad : \A u \in Bad : u \subseteq m => u = m
  <2>1. Bad \subseteq SUBSET S /\ IsFiniteSet(S)
    BY PositionsBelow
  <2> HIDE DEF Bad
  <2> QED BY <1>1, <2>1, SmallestSet
<1>3. m \subseteq S /\ Positions(m) /\ \A h : ~ FoldTable(kind, base, q, h, m)
  <2>1. m \subseteq S /\ \A h : ~ FoldTable(kind, base, q, h, m)
    BY <1>2
  <2> HIDE DEF Bad
  <2> QED BY <2>1, PositionsBelow
<1>4. ASSUME NEW u, u \subseteq m, u # m
      PROVE  \E h : FoldTable(kind, base, q, h, u)
  BY <1>2, <1>3, <1>4
<1> HIDE DEF Bad
<1> DEFINE Tab(u) == CHOOSE h : FoldTable(kind, base, q, h, u)
           Rest(s) == s \ {Max(s)}
           Entry(s) == IF s = {} THEN base ELSE Turn(kind, Tab(Rest(s))[Rest(s)], q[Max(s)])
<1>5. ASSUME NEW u, u \subseteq m, u # m
      PROVE  FoldTable(kind, base, q, Tab(u), u)
  BY <1>4, <1>5
<1>6. ASSUME NEW u, u \subseteq m, u # m
      PROVE  Tab(u)[u] = Entry(u)
  <2>1. CASE u = {}
    BY <1>5, <1>6, <2>1 DEF FoldTable
  <2>2. CASE u # {}
    <3> DEFINE v == Rest(u)
    <3>0. Max(u) \in u
      BY <1>3, <1>6, <2>2, PositionsBelow
    <3>1. v \subseteq m /\ v # m /\ v \subseteq u /\ Positions(v)
      <4>1. v \subseteq m /\ v # m /\ v \subseteq u
        BY <1>6, <3>0
      <4> HIDE DEF v
      <4> QED BY <1>3, <4>1, PositionsBelow
    <3>2. FoldTable(kind, base, q, Tab(u), u) /\ FoldTable(kind, base, q, Tab(v), v)
      BY <1>5, <1>6, <3>1
    <3> HIDE DEF v, Tab
    <3>4. Tab(u)[v] = Tab(v)[v]
      BY <3>1, <3>2, FoldTablesAgree
    <3>5. Tab(u)[u] = Turn(kind, Tab(u)[v], q[Max(u)])
      BY <3>2, <2>2 DEF FoldTable, v
    <3> QED BY <3>4, <3>5, <2>2 DEF v
  <2> QED BY <2>1, <2>2
<1> HIDE DEF Tab
<1>7. PICK h : h = [s \in SUBSET m |-> Entry(s)]
  OBVIOUS
<1>8. ASSUME NEW s \in SUBSET m, s # {}
      PROVE  h[Rest(s)] = Tab(Rest(s))[Rest(s)]
  <2>1. Max(s) \in s
    BY <1>3, <1>8, PositionsBelow
  <2>2. PICK u : u = Rest(s)
    OBVIOUS
  <2>3. u \subseteq m /\ u # m
    BY <2>1, <2>2
  <2>4. h[u] = Entry(u)
    BY <1>7, <2>3
  <2> QED BY <2>2, <2>3, <2>4, <1>6
<1>9. \A s \in SUBSET m : h[s] = IF s = {} THEN base ELSE Turn(kind, h[s \ {Max(s)}], q[Max(s)])
  BY <1>7, <1>8
<1>10. FoldTable(kind, base, q, h, m)
  <2>1. h = [s \in SUBSET m |-> h[s]]
    BY <1>7
  <2> HIDE DEF Entry
  <2> QED BY <1>9, <2>1 DEF FoldTable
<1> QED BY <1>3, <1>10

\* The fold takes the words in their order.
LEMMA AfterNone ==
    ASSUME NEW kind, NEW base, NEW q
    PROVE  After(kind, base, q, 0) = base
<1>1. PICK U : U = 1..0
  OBVIOUS
<1>2. U = {} /\ Positions(U)
  BY <1>1 DEF Positions
<1>3. PICK h : h = CHOOSE k : FoldTable(kind, base, q, k, U)
  OBVIOUS
<1>4. FoldTable(kind, base, q, h, U)
  <2>1. \E k : FoldTable(kind, base, q, k, U)
    BY <1>2, FoldTableExists
  <2> QED BY <1>3, <2>1
<1>5. h[U] = base
  BY <1>2, <1>4 DEF FoldTable
<1> QED BY <1>1, <1>3, <1>5 DEF After

LEMMA AfterNext ==
    ASSUME NEW kind, NEW base, NEW q, NEW n \in Nat
    PROVE  After(kind, base, q, n + 1) = Turn(kind, After(kind, base, q, n), q[n + 1])
<1>1. PICK U : U = 1..(n + 1)
  OBVIOUS
<1>2. PICK V : V = 1..n
  OBVIOUS
<1>3. /\ n + 1 \in Nat /\ Positions(U) /\ Positions(V)
      /\ V \subseteq U /\ n + 1 \in U /\ \A x \in U : x \in Nat /\ x <= n + 1
      /\ U \ {n + 1} = V
  <2>1. n + 1 \in Nat /\ U \in SUBSET (1..(n + 1)) /\ V \in SUBSET (1..(n + 1))
    BY <1>1, <1>2
  <2>2. Positions(U) /\ Positions(V)
    BY <2>1 DEF Positions
  <2>3. V \subseteq U /\ n + 1 \in U /\ \A x \in U : x \in Nat /\ x <= n + 1
    BY <1>1, <1>2
  <2>4. U \ {n + 1} = V
    BY <1>1, <1>2
  <2> QED BY <2>1, <2>2, <2>3, <2>4
<1>4. Max(U) = n + 1
  <2>1. U \in SUBSET (0..(n + 1)) /\ U # {}
    BY <1>1
  <2>2. Max(U) \in U /\ \A y \in U : y =< Max(U)
    BY <1>3, <2>1, MaxInSet
  <2> QED BY <1>3, <2>2
<1>5. PICK h : h = CHOOSE k : FoldTable(kind, base, q, k, U)
  OBVIOUS
<1>6. PICK g : g = CHOOSE k : FoldTable(kind, base, q, k, V)
  OBVIOUS
<1>7. FoldTable(kind, base, q, h, U) /\ FoldTable(kind, base, q, g, V)
  <2>1. (\E k : FoldTable(kind, base, q, k, U)) /\ (\E k : FoldTable(kind, base, q, k, V))
    BY <1>3, FoldTableExists
  <2> QED BY <1>5, <1>6, <2>1
<1>8. h[V] = g[V]
  BY <1>3, <1>7, FoldTablesAgree
<1>9. h[U] = Turn(kind, h[V], q[n + 1])
  <2>1. U # {} /\ U \in SUBSET U /\ U \ {Max(U)} = V
    BY <1>3, <1>4
  <2> QED BY <1>4, <1>7, <2>1 DEF FoldTable
<1> QED BY <1>1, <1>2, <1>5, <1>6, <1>8, <1>9 DEF After

\* A statement about the numbers up to n fails first at some number.
LEMMA FirstFailure ==
    ASSUME NEW n \in Nat, NEW T \in SUBSET (0..n), T # {}
    PROVE  \E k \in T : \A j \in T : k <= j
<1>1. T \in SUBSET Nat
  OBVIOUS
<1> QED BY <1>1, MinInSet

-----------------------------------------------------------------------------
(* What the tokenizer computes, whatever its caches hold. *)

\* The cache knows nothing but what the encoder has said.
CacheOk(c) ==
    /\ c = [runtime |-> c.runtime, hits |-> c.hits, misses |-> c.misses]
    /\ c.hits \in Nat /\ c.misses \in Nat
    /\ DOMAIN c.runtime \subseteq Word
    /\ \A w \in DOMAIN c.runtime : c.runtime[w] = Encode[w]

LEMMA WordIsEncoded == ASSUME NEW w \in Word PROVE Encode[w] \in Seq(Nat)
<1>1. w \in Stem \X Nat /\ w[2] \in 1..Bytes[w[1]]
  BY DEF Word
<1>2. w = <<w[1], w[2]>> /\ w[1] \in Stem
  BY <1>1
<1> QED BY <1>1, <1>2, EncoderAssumption

LEMMA StaticIsEncoded == ASSUME NEW w \in DOMAIN Static PROVE Static[w] = Encode[w]
<1> DEFINE D == {i \in DOMAIN VocabFile : VocabFile[i][1] = w}
<1>1. Static[w] = VocabFile[Max(D)][2]
  BY DEF Static
<1>2. D # {}
  BY DEF Static
<1>3. Len(VocabFile) \in Nat /\ DOMAIN VocabFile = 1..Len(VocabFile)
  BY EncoderAssumption, LenProperties
<1>4. D \in SUBSET (0..Len(VocabFile))
  BY <1>3
<1> HIDE DEF D
<1>5. Max(D) \in D
  BY <1>2, <1>3, <1>4, MaxInSet
<1> QED BY <1>1, <1>5, EncoderAssumption DEF D

\* A look-up returns what the encoder would, and leaves such a cache.
LEMMA LookUp ==
    ASSUME NEW c, CacheOk(c), NEW w \in Word
    PROVE  Found(c, w) = Encode[w] /\ CacheOk(LookedUp(c, w))
<1>1. Found(c, w) = Encode[w]
  BY StaticIsEncoded DEF Found, CacheOk
<1>2. CASE w \in DOMAIN Static \cup DOMAIN c.runtime
  <2>1. LookedUp(c, w) = [c EXCEPT !.hits = @ + 1]
    BY <1>2 DEF LookedUp
  <2>2. LookedUp(c, w) = [runtime |-> c.runtime, hits |-> c.hits + 1, misses |-> c.misses]
    BY <2>1 DEF CacheOk
  <2>3. PICK d : d = LookedUp(c, w)
    OBVIOUS
  <2>4. /\ d.runtime = c.runtime /\ d.hits = c.hits + 1 /\ d.misses = c.misses
        /\ d = [runtime |-> d.runtime, hits |-> d.hits, misses |-> d.misses]
    BY <2>2, <2>3
  <2>5. CacheOk(d)
    BY <2>4 DEF CacheOk
  <2> QED BY <1>1, <2>3, <2>5
<1>3. CASE w \notin DOMAIN Static \cup DOMAIN c.runtime
  <2>1. PICK r : r = Stored(c.runtime, w, Encode[w])
    OBVIOUS
  <2>2. LookedUp(c, w) = [c EXCEPT !.misses = @ + 1, !.runtime = Stored(@, w, Encode[w])]
    BY <1>3 DEF LookedUp
  <2>3. LookedUp(c, w) = [runtime |-> r, hits |-> c.hits, misses |-> c.misses + 1]
    BY <2>1, <2>2 DEF CacheOk
  <2>4. DOMAIN r \subseteq Word /\ \A v \in DOMAIN r : r[v] = Encode[v]
    BY <2>1 DEF Stored, CacheOk
  <2>5. PICK d : d = LookedUp(c, w)
    OBVIOUS
  <2>6. /\ d.runtime = r /\ d.hits = c.hits /\ d.misses = c.misses + 1
        /\ d = [runtime |-> d.runtime, hits |-> d.hits, misses |-> d.misses]
    BY <2>3, <2>5
  <2>7. CacheOk(d)
    BY <2>4, <2>6 DEF CacheOk
  <2> QED BY <1>1, <2>5, <2>7
<1> QED BY <1>1, <1>2, <1>3

\* `ids` are the ids of tokenize_one when the words so far have the ids f.
Follows(ids, f) ==
    /\ ids \in Seq(Nat) /\ f \in Seq(Nat)
    /\ Len(ids) > 0 /\ ids[1] = Cls
    /\ Len(ids) - 1 <= Len(f) /\ (Len(ids) - 1 = Len(f) \/ Len(ids) >= MaxLen - 1)
    /\ Len(ids) > 1 => Len(ids) <= MaxLen - 1
    /\ \A i \in 1..(Len(ids) - 1) : ids[i + 1] = f[i]

LEMMA FollowsNothing == Follows(<<Cls>>, <<>>)
<1>1. <<Cls>> \in Seq(Nat) /\ Len(<<Cls>>) = 1 /\ <<Cls>>[1] = Cls
  BY EncoderAssumption
<1>2. <<>> \in Seq(Nat) /\ Len(<<>>) = 0
  OBVIOUS
<1> QED BY <1>1, <1>2 DEF Follows

\* Another word is taken as far as there is room.
LEMMA FollowsWord ==
    ASSUME NEW ids, NEW f, Follows(ids, f), NEW e \in Seq(Nat)
    PROVE  Follows(IF Len(ids) >= MaxLen - 1 THEN ids
                   ELSE ids \o SubSeq(e, 1, Min({Len(e), MaxLen - 1 - Len(ids)})), f \o e)
<1>1. PICK n \in Nat : n = Len(ids)
  BY LenProperties DEF Follows
<1>2. PICK l \in Nat : l = Len(f)
  BY LenProperties DEF Follows
<1>3. PICK k \in Nat : k = Len(e)
  BY LenProperties
<1>4. PICK M \in Nat : M = MaxLen
  BY TextAssumption
<1>5. PICK g : g = f \o e
  OBVIOUS
<1>6. /\ g \in Seq(Nat) /\ Len(g) = l + k
      /\ \A i \in 1..(l + k) : g[i] = IF i <= l THEN f[i] ELSE e[i - l]
  BY <1>2, <1>3, <1>5, ConcatProperties DEF Follows
<1>7. /\ n > 0 /\ ids[1] = Cls /\ n - 1 <= l /\ (n - 1 = l \/ n >= M - 1)
      /\ n > 1 => n <= M - 1
      /\ ids \in Seq(Nat)
      /\ \A i \in 1..(n - 1) : ids[i + 1] = f[i]
  BY <1>1, <1>2, <1>4 DEF Follows
<1>8. CASE n >= M - 1
  <2>1. \A i \in 1..(n - 1) : i \in 1..(l + k) /\ i <= l
    BY <1>7
  <2>2. \A i \in 1..(n - 1) : ids[i + 1] = g[i]
    BY <1>6, <1>7, <2>1
  <2>3. Follows(ids, g)
    BY <1>1, <1>4, <1>6, <1>7, <1>8, <2>2 DEF Follows
  <2> QED BY <1>1, <1>4, <1>5, <1>8, <2>3
<1>9. CASE ~(n >= M - 1)
  <2>1. n - 1 = l /\ M - 1 - n \in Nat
    BY <1>7, <1>9
  <2>2. PICK t \in Nat : t = Min({k, M - 1 - n})
    <3>1. {k, M - 1 - n} \in SUBSET Nat /\ {k, M - 1 - n} # {}
      BY <2>1
    <3> QED BY <3>1, MinInSet
  <2>3. t <= k /\ t <= M - 1 - n /\ (t = k \/ t = M - 1 - n)
    <3>1. PICK T : T = {k, M - 1 - n}
      OBVIOUS
    <3>2. T \in SUBSET Nat /\ T # {}
      BY <2>1, <3>1
    <3>3. Min(T) \in T /\ \A y \in T : Min(T) =< y
      BY <3>2, MinInSet
    <3> QED BY <2>2, <3>1, <3>3
  <2>4. PICK s : s = SubSeq(e, 1, t)
    OBVIOUS
  <2>5. s \in Seq(Nat) /\ Len(s) = t /\ \A i \in 1..t : s[i] = e[i]
    <3>1. \A i \in 1..t : e[i] \in Nat
      BY <1>3, <2>3, ElementOfSeq
    <3>2. /\ SubSeq(e, 1, t) \in Seq(Nat)
          /\ Len(SubSeq(e, 1, t)) = IF 1 <= t THEN t - 1 + 1 ELSE 0
          /\ \A i \in 1..(t - 1 + 1) : SubSeq(e, 1, t)[i] = e[1 + i - 1]
      BY <3>1, SubSeqProperties
    <3>3. t - 1 + 1 = t /\ (1 <= t \/ t = 0) /\ \A i \in 1..t : 1 + i - 1 = i
      OBVIOUS
    <3> QED BY <2>4, <3>2, <3>3
  <2>6. PICK p : p = ids \o s
    OBVIOUS
  <2>7. /\ p \in Seq(Nat) /\ Len(p) = n + t
        /\ \A i \in 1..(n + t) : p[i] = IF i <= n THEN ids[i] ELSE s[i - n]
    <3>1. /\ ids \o s \in Seq(Nat) /\ Len(ids \o s) = Len(ids) + Len(s)
          /\ \A i \in 1..(Len(ids) + Len(s)) :
                (ids \o s)[i] = IF i <= Len(ids) THEN ids[i] ELSE s[i - Len(ids)]
      BY <1>7, <2>5, ConcatProperties
    <3>2. Len(ids) = n /\ Len(s) = t
      BY <1>1, <2>5
    <3> QED BY <2>6, <3>1, <3>2
  <2>8. ASSUME NEW i \in 1..(n + t - 1) PROVE p[i + 1] = g[i]
    <3>1. CASE i <= n - 1
      <4>1. i \in 1..(n - 1) /\ i + 1 \in 1..(n + t) /\ i + 1 <= n /\ i \in 1..(l + k) /\ i <= l
        BY <2>1, <3>1
      <4> QED BY <1>6, <1>7, <2>7, <4>1
    <3>2. CASE ~(i <= n - 1)
      <4>1. PICK j \in 1..t : j = i - l
        BY <2>1, <3>2
      <4>2. /\ i + 1 \in 1..(n + t) /\ ~(i + 1 <= n) /\ (i + 1) - n = j
            /\ i \in 1..(l + k) /\ ~(i <= l)
        BY <2>1, <2>3, <3>2, <4>1
      <4> QED BY <1>6, <2>5, <2>7, <4>1, <4>2
    <3> QED BY <3>1, <3>2
  <2>9. p[1] = Cls
    <3>1. 1 \in 1..(n + t) /\ 1 <= n
      BY <1>7
    <3> QED BY <1>7, <2>7, <3>1
  <2>10. Follows(p, g)
    <3>1. /\ n + t > 0 /\ (n + t) - 1 <= l + k /\ ((n + t) - 1 = l + k \/ n + t >= M - 1)
          /\ n + t <= M - 1
      <4>1. CASE t = k
        BY <1>7, <1>9, <2>1, <2>3, <4>1
      <4>2. CASE t = M - 1 - n
        BY <1>7, <1>9, <2>1, <2>3, <4>2
      <4> QED BY <2>3, <4>1, <4>2
    <3>2. \A i \in 1..((n + t) - 1) : p[i + 1] = g[i]
      BY <2>8
    <3>3. p \in Seq(Nat) /\ g \in Seq(Nat) /\ Len(p) = n + t /\ Len(g) = l + k
      BY <1>6, <2>7
    <3> QED BY <1>4, <2>9, <3>1, <3>2, <3>3 DEF Follows
  <2> QED BY <1>1, <1>3, <1>4, <1>5, <1>9, <2>2, <2>4, <2>6, <2>10
<1> QED BY <1>8, <1>9

\* With the end marker after them, they are the ids of the reference.
LEMMA FollowsAll ==
    ASSUME NEW ids, NEW f, Follows(ids, f)
    PROVE  Append(ids, Sep) = <<Cls>> \o SubSeq(f, 1, Min({Len(f), MaxLen - 2})) \o <<Sep>>
<1>1. PICK n \in Nat : n = Len(ids)
  BY LenProperties DEF Follows
<1>2. PICK l \in Nat : l = Len(f)
  BY LenProperties DEF Follows
<1>3. PICK M \in Nat : M = MaxLen /\ M > 0
  BY TextAssumption
<1>4. /\ n > 0 /\ ids[1] = Cls /\ n - 1 <= l /\ (n - 1 = l \/ n >= M - 1)
      /\ n > 1 => n <= M - 1
      /\ ids \in Seq(Nat) /\ f \in Seq(Nat)
      /\ \A i \in 1..(n - 1) : ids[i + 1] = f[i]
  BY <1>1, <1>2, <1>3 DEF Follows
<1>5. PICK s : s = SubSeq(f, 1, Min({l, M - 2}))
  OBVIOUS
<1>6. s \in Seq(Nat) /\ Len(s) = n - 1 /\ \A i \in 1..(n - 1) : s[i] = f[i]
  <2>1. CASE M >= 2
    <3>1. PICK T : T = {l, M - 2}
      OBVIOUS
    <3>2. T \in SUBSET Nat /\ T # {}
      BY <2>1, <3>1
    <3>3. Min(T) \in T /\ \A y \in T : Min(T) =< y
      BY <3>2, MinInSet
    <3>4. Min(T) = n - 1
      BY <1>4, <2>1, <3>1, <3>3
    <3>5. s = SubSeq(f, 1, n - 1)
      BY <1>5, <3>1, <3>4
    <3>6. \A i \in 1..(n - 1) : f[i] \in Nat
      BY <1>2, <1>4, ElementOfSeq
    <3>7. /\ SubSeq(f, 1, n - 1) \in Seq(Nat)
          /\ Len(SubSeq(f, 1, n - 1)) = IF 1 <= n - 1 THEN n - 1 - 1 + 1 ELSE 0
          /\ \A i \in 1..(n - 1 - 1 + 1) : SubSeq(f, 1, n - 1)[i] = f[1 + i - 1]
      <4>1. n - 1 \in Int
        OBVIOUS
      <4> QED BY <3>6, <4>1, SubSeqProperties
    <3>8. n - 1 - 1 + 1 = n - 1 /\ (1 <= n - 1 \/ n - 1 = 0) /\ \A i \in 1..(n - 1) : 1 + i - 1 = i
      BY <1>4
    <3> QED BY <3>5, <3>7, <3>8
  <2>2. CASE M = 1
    <3>1. n = 1
      BY <1>4, <2>2
    <3>2. PICK T : T = {l, M - 2}
      OBVIOUS
    <3>3. T = {l, -1}
      BY <2>2, <3>2
    <3>4. \E x \in T : \A y \in T : x =< y
      <4>1. -1 \in T /\ \A y \in T : -1 =< y
        BY <3>3
      <4> QED BY <4>1
    <3>5. Min(T) \in T /\ \A y \in T : Min(T) =< y
      BY <3>4 DEF Min
    <3>6. Min(T) = -1
      BY <3>3, <3>5
    <3>7. s = <<>>
      <4>1. -1 < 1 /\ -1 \in Int /\ 1 \in Int
        OBVIOUS
      <4>2. SubSeq(f, 1, -1) = <<>>
        BY <4>1, SubSeqEmpty
      <4> QED BY <1>5, <3>2, <3>6, <4>2
    <3> QED BY <3>1, <3>7
  <2> QED BY <1>3, <2>1, <2>2
<1>7. PICK p : p = Append(ids, Sep)
  OBVIOUS
<1>8. p \in Seq(Nat) /\ Len(p) = n + 1 /\ p[n + 1] = Sep /\ \A i \in 1..n : p[i] = ids[i]
  <2>1. Sep \in Nat
    BY EncoderAssumption
  <2> QED BY <1>1, <1>4, <1>7, <2>1, AppendProperties
<1>9. PICK q : q = <<Cls>> \o s
  OBVIOUS
<1>10. /\ q \in Seq(Nat) /\ Len(q) = n /\ q[1] = Cls
       /\ \A i \in 1..n : i > 1 => q[i] = s[i - 1]
  <2>1. <<Cls>> \in Seq(Nat) /\ Len(<<Cls>>) = 1 /\ <<Cls>>[1] = Cls
    BY EncoderAssumption
  <2>2. /\ <<Cls>> \o s \in Seq(Nat) /\ Len(<<Cls>> \o s) = Len(<<Cls>>) + Len(s)
        /\ \A i \in 1..(Len(<<Cls>>) + Len(s)) : (<<Cls>> \o s)[i] =
              IF i <= Len(<<Cls>>) THEN <<Cls>>[i] ELSE s[i - Len(<<Cls>>)]
    BY <1>6, <2>1, ConcatProperties
  <2>3. /\ q \in Seq(Nat) /\ Len(q) = 1 + (n - 1)
        /\ \A i \in 1..(1 + (n - 1)) : q[i] = IF i <= 1 THEN <<Cls>>[i] ELSE s[i - 1]
    BY <1>6, <1>9, <2>1, <2>2
  <2>4. 1 + (n - 1) = n /\ 1 \in 1..n
    BY <1>4
  <2> QED BY <2>1, <2>3, <2>4
<1>11. PICK r : r = q \o <<Sep>>
  OBVIOUS
<1>12. /\ r \in Seq(Nat) /\ Len(r) = n + 1 /\ r[n + 1] = Sep
       /\ \A i \in 1..n : r[i] = q[i]
  <2>1. <<Sep>> \in Seq(Nat) /\ Len(<<Sep>>) = 1 /\ <<Sep>>[1] = Sep
    BY EncoderAssumption
  <2>2. /\ q \o <<Sep>> \in Seq(Nat) /\ Len(q \o <<Sep>>) = Len(q) + Len(<<Sep>>)
        /\ \A i \in 1..(Len(q) + Len(<<Sep>>)) : (q \o <<Sep>>)[i] =
              IF i <= Len(q) THEN q[i] ELSE <<Sep>>[i - Len(q)]
    BY <1>10, <2>1, ConcatProperties
  <2>3. /\ r \in Seq(Nat) /\ Len(r) = n + 1
        /\ \A i \in 1..(n + 1) : r[i] = IF i <= n THEN q[i] ELSE <<Sep>>[i - n]
    BY <1>10, <1>11, <2>1, <2>2
  <2>4. n + 1 \in 1..(n + 1) /\ ~(n + 1 <= n) /\ (n + 1) - n = 1
        /\ \A i \in 1..n : i \in 1..(n + 1) /\ i <= n
    OBVIOUS
  <2> QED BY <2>1, <2>3, <2>4
<1>13. ASSUME NEW i \in 1..(n + 1) PROVE p[i] = r[i]
  <2>1. CASE i = n + 1
    BY <1>8, <1>12, <2>1
  <2>2. CASE i = 1
    BY <1>4, <1>8, <1>10, <1>12, <2>2
  <2>3. CASE i \in 1..n /\ i > 1
    <3>1. PICK j \in 1..(n - 1) : i = j + 1
      <4>1. i - 1 \in 1..(n - 1) /\ i = (i - 1) + 1
        BY <2>3
      <4> QED BY <4>1
    <3>2. i - 1 = j
      BY <3>1
    <3>3. p[i] = f[j] /\ q[i] = s[j]
      BY <1>4, <1>8, <1>10, <2>3, <3>1, <3>2
    <3>4. r[i] = q[i] /\ s[j] = f[j]
      BY <1>6, <1>12, <2>3, <3>1
    <3> QED BY <3>3, <3>4
  <2> QED BY <2>1, <2>2, <2>3
<1>14. p = r
  BY <1>8, <1>12, <1>13, SeqEqual
<1> QED BY <1>2, <1>3, <1>5, <1>7, <1>9, <1>11, <1>14

\* All ids of all words, as the reference has them, are a fold as well.
FlatTable(q, f) ==
    f = [i \in 1..Len(q) |-> IF i = 1 THEN q[i] ELSE f[i - 1] \o q[i]]

LEMMA FlattenIsTable ==
    ASSUME NEW q
    PROVE  FlattenSeq(q) = IF Len(q) = 0 THEN q ELSE (CHOOSE f : FlatTable(q, f))[Len(q)]
BY DEF FlattenSeq, FlatTable

LEMMA ContentType ==
    ASSUME NEW q \in Seq(Seq(Nat)), NEW n \in 0..Len(q)
    PROVE  After("content", <<>>, q, n) \in Seq(Nat)
<1> DEFINE Bad == {k \in 0..n : After("content", <<>>, q, k) \notin Seq(Nat)}
<1>0. n \in Nat /\ Len(q) \in Nat
  BY LenProperties
<1>1. SUFFICES ASSUME Bad # {} PROVE FALSE
  BY <1>0
<1>2. PICK k \in Bad : \A j \in Bad : k <= j
  <2>1. Bad \in SUBSET (0..n)
    OBVIOUS
  <2> HIDE DEF Bad
  <2> QED BY <1>0, <1>1, <2>1, FirstFailure
<1>3. k \in 0..n /\ After("content", <<>>, q, k) \notin Seq(Nat)
  BY <1>2
<1>4. k # 0
  <2>1. <<>> \in Seq(Nat)
    OBVIOUS
  <2> QED BY <1>3, <2>1, AfterNone
<1>5. PICK j \in 0..n : k = j + 1
  <2>1. k - 1 \in 0..n /\ k = (k - 1) + 1
    BY <1>0, <1>3, <1>4
  <2> QED BY <2>1
<1>6. After("content", <<>>, q, j) \in Seq(Nat)
  BY <1>0, <1>2, <1>5
<1>7. After("content", <<>>, q, k) = After("content", <<>>, q, j) \o q[k]
  <2>1. j \in Nat
    BY <1>0
  <2> QED BY <1>5, <2>1, AfterNext DEF Turn
<1>8. q[k] \in Seq(Nat)
  BY <1>0, <1>3, <1>4, ElementOfSeq
<1>9. After("content", <<>>, q, j) \o q[k] \in Seq(Nat)
  BY <1>6, <1>8, ConcatProperties
<1> QED BY <1>3, <1>7, <1>9

LEMMA FlattenIsAfter ==
    ASSUME NEW q \in Seq(Seq(Nat))
    PROVE  FlattenSeq(q) = After("content", <<>>, q, Len(q))
<1>1. PICK n \in Nat : n = Len(q)
  BY LenProperties
<1>2. CASE n = 0
  BY <1>1, <1>2, FlattenIsTable, AfterNone, EmptySeq
<1>3. CASE n # 0
  <2>1. PICK g : g = [i \in 1..n |-> After("content", <<>>, q, i)]
    OBVIOUS
  <2>2. ASSUME NEW i \in 1..n
        PROVE  g[i] = IF i = 1 THEN q[i] ELSE g[i - 1] \o q[i]
    <3>1. PICK j \in 0..n : i = j + 1 /\ i - 1 = j
      <4>1. i - 1 \in 0..n /\ i = (i - 1) + 1
        OBVIOUS
      <4> QED BY <4>1
    <3>2. g[i] = After("content", <<>>, q, j) \o q[i]
      <4>1. j \in Nat
        BY <1>1
      <4>2. After("content", <<>>, q, j + 1) = After("content", <<>>, q, j) \o q[j + 1]
        BY <4>1, AfterNext DEF Turn
      <4> QED BY <2>1, <3>1, <4>2
    <3>3. CASE j = 0
      <4>1. q[i] \in Seq(Nat)
        BY <1>1, ElementOfSeq
      <4>2. <<>> \o q[i] = q[i]
        BY <4>1, ConcatEmptySeq
      <4>3. After("content", <<>>, q, j) = <<>> /\ i = 1
        BY <3>1, <3>3, AfterNone
      <4> QED BY <3>2, <4>2, <4>3
    <3>4. CASE j # 0
      <4>1. j \in 1..n /\ i # 1
        BY <1>1, <3>1, <3>4
      <4>2. g[j] = After("content", <<>>, q, j)
        BY <2>1, <4>1
      <4> QED BY <3>1, <3>2, <4>1, <4>2
    <3> QED BY <3>3, <3>4
  <2>3. FlatTable(q, g)
    <3>1. g = [i \in 1..n |-> g[i]]
      BY <2>1
    <3>2. g = [i \in 1..n |-> IF i = 1 THEN q[i] ELSE g[i - 1] \o q[i]]
      BY <2>2, <3>1
    <3> QED BY <1>1, <3>2 DEF FlatTable
  <2>4. PICK f : f = CHOOSE h : FlatTable(q, h)
    OBVIOUS
  <2>5. FlatTable(q, f)
    BY <2>3, <2>4
  <2> DEFINE Bad == {i \in 0..n : i # 0 /\ f[i] # g[i]}
  <2>6. Bad = {}
    <3>1. SUFFICES ASSUME Bad # {} PROVE FALSE
      OBVIOUS
    <3>2. PICK k \in Bad : \A j \in Bad : k <= j
      <4>1. Bad \in SUBSET (0..n)
        OBVIOUS
      <4> HIDE DEF Bad
      <4> QED BY <3>1, <4>1, FirstFailure
    <3>3. k \in 1..n /\ f[k] # g[k]
      BY <3>2
    <3>4. f[k] = IF k = 1 THEN q[k] ELSE f[k - 1] \o q[k]
      BY <1>1, <2>5, <3>3 DEF FlatTable
    <3>5. k # 1
      BY <2>2, <3>3, <3>4
    <3>6. k - 1 \in 0..n /\ k - 1 # 0 /\ ~(k <= k - 1)
      BY <3>3, <3>5
    <3>7. f[k - 1] = g[k - 1]
      BY <3>2, <3>6
    <3> QED BY <2>2, <3>3, <3>4, <3>5, <3>7
  <2>7. n \in 0..n /\ n \in 1..n
    BY <1>3
  <2>8. f[n] = g[n]
    BY <1>3, <2>6, <2>7
  <2> QED BY <1>1, <1>3, <2>1, <2>4, <2>7, <2>8, FlattenIsTable
<1> QED BY <1>2, <1>3

\* tokenize_one after k words: the ids are those the reference has so far.
TokensSoFar(s, f) ==
    s = [cache |-> s.cache, ids |-> s.ids] /\ CacheOk(s.cache) /\ Follows(s.ids, f)

LEMMA TurnIsFaithful ==
    ASSUME NEW s, NEW f, TokensSoFar(s, f), NEW w \in Word
    PROVE  TokensSoFar(AddWord(s, w), f \o Encode[w])
<1>1. PICK e \in Seq(Nat) : e = Encode[w]
  BY WordIsEncoded
<1>2. Found(s.cache, w) = e /\ CacheOk(LookedUp(s.cache, w))
  BY <1>1, LookUp DEF TokensSoFar
<1>3. PICK t : t = IF Len(s.ids) >= MaxLen - 1 THEN s.ids
                   ELSE s.ids \o SubSeq(e, 1, Min({Len(e), MaxLen - 1 - Len(s.ids)}))
  OBVIOUS
<1>4. Follows(t, f \o e)
  BY <1>3, FollowsWord DEF TokensSoFar
<1>5. PICK u : u = AddWord(s, w)
  OBVIOUS
<1>6. CASE Len(s.ids) >= MaxLen - 1
  BY <1>1, <1>3, <1>4, <1>6 DEF AddWord, TokensSoFar
<1>7. CASE ~(Len(s.ids) >= MaxLen - 1)
  <2>1. u = [cache |-> LookedUp(s.cache, w), ids |-> t]
    BY <1>2, <1>3, <1>5, <1>7 DEF AddWord
  <2>2. u.cache = LookedUp(s.cache, w) /\ u.ids = t /\ u = [cache |-> u.cache, ids |-> u.ids]
    BY <2>1
  <2>3. TokensSoFar(u, f \o e)
    BY <1>2, <1>4, <2>2 DEF TokensSoFar
  <2> QED BY <1>1, <1>5, <2>3
<1> QED BY <1>6, <1>7

LEMMA TurnsAreFaithful ==
    ASSUME NEW c, CacheOk(c), NEW words \in Seq(Word), NEW q,
           q = [i \in DOMAIN words |-> Encode[words[i]]], NEW n \in 0..Len(words)
    PROVE  TokensSoFar(After("tokens", [cache |-> c, ids |-> <<Cls>>], words, n),
                       After("content", <<>>, q, n))
<1>0. n \in Nat /\ Len(words) \in Nat /\ DOMAIN words = 1..Len(words)
  BY LenProperties
<1>1. PICK b : b = [cache |-> c, ids |-> <<Cls>>]
  OBVIOUS
<1> DEFINE Good(k) == TokensSoFar(After("tokens", b, words, k), After("content", <<>>, q, k))
           Bad == {k \in 0..n : ~Good(k)}
<1>2. SUFFICES ASSUME Bad # {} PROVE FALSE
  <2>1. Bad = {} => Good(n)
    <3>1. n \in 0..n
      BY <1>0
    <3> HIDE DEF Good
    <3> QED BY <3>1
  <2> QED BY <1>1, <2>1
<1>3. PICK k \in Bad : \A j \in Bad : k <= j
  <2>1. Bad \in SUBSET (0..n)
    OBVIOUS
  <2> HIDE DEF Bad
  <2> QED BY <1>0, <1>2, <2>1, FirstFailure
<1>4. k \in 0..n /\ ~Good(k)
  BY <1>3
<1>5. k # 0
  <2>1. TokensSoFar(b, <<>>)
    BY <1>1, FollowsNothing DEF TokensSoFar
  <2> QED BY <1>4, <2>1, AfterNone
<1>6. PICK j \in 0..n : k = j + 1
  <2>1. k - 1 \in 0..n /\ k = (k - 1) + 1
    BY <1>0, <1>4, <1>5
  <2> QED BY <2>1
<1>7. Good(j)
  <2>1. ~(k <= j)
    BY <1>0, <1>6
  <2> HIDE DEF Good
  <2> QED BY <1>3, <2>1
<1>8. PICK w \in Word : w = words[k] /\ q[k] = Encode[w]
  <2>1. k \in 1..Len(words)
    BY <1>0, <1>4, <1>5
  <2>2. words[k] \in Word
    BY <2>1, ElementOfSeq
  <2>3. q[k] = Encode[words[k]]
    BY <1>0, <2>1
  <2> QED BY <2>2, <2>3
<1>9. After("tokens", b, words, k) = AddWord(After("tokens", b, words, j), w)
  <2>1. j \in Nat
    BY <1>0
  <2> QED BY <1>6, <1>8, <2>1, AfterNext DEF Turn
<1>10. After("content", <<>>, q, k) = After("content", <<>>, q, j) \o Encode[w]
  <2>1. j \in Nat
    BY <1>0
  <2>2. After("content", <<>>, q, j + 1) = After("content", <<>>, q, j) \o q[j + 1]
    BY <2>1, AfterNext DEF Turn
  <2>3. q[j + 1] = Encode[w]
    BY <1>6, <1>8
  <2> QED BY <1>6, <2>2, <2>3
<1>11. PICK s : s = After("tokens", b, words, j)
  OBVIOUS
<1>12. PICK f : f = After("content", <<>>, q, j)
  OBVIOUS
<1>13. TokensSoFar(AddWord(s, w), f \o Encode[w])
  BY <1>7, <1>11, <1>12, TurnIsFaithful
<1> QED BY <1>4, <1>9, <1>10, <1>11, <1>12, <1>13

\* What the tokenizer makes of a text depends on the text alone and is what the
\* encoder says, whatever its caches have learned and however little they take.
THEOREM TokensAreTheEncoders ==
    ASSUME NEW c, CacheOk(c), NEW words \in Seq(Word)
    PROVE  /\ TokenizeOne(c, words).ids = RefTokens(words)
           /\ TokenizeOne(c, words).ids \in Seq(Nat)
           /\ MaxLen > 1 => Len(TokenizeOne(c, words).ids) <= MaxLen
           /\ CacheOk(TokenizeOne(c, words).cache)
<1>1. PICK n \in Nat : n = Len(words) /\ DOMAIN words = 1..n
  BY LenProperties
<1>2. PICK q : q = [i \in DOMAIN words |-> Encode[words[i]]]
  OBVIOUS
<1>3. q \in Seq(Seq(Nat)) /\ Len(q) = n
  <2>1. \A i \in 1..n : Encode[words[i]] \in Seq(Nat)
    BY <1>1, ElementOfSeq, WordIsEncoded
  <2>2. q \in [1..n -> Seq(Nat)]
    BY <1>1, <1>2, <2>1
  <2> QED BY <2>2, IsASeq, LenProperties
<1>4. PICK s : s = After("tokens", [cache |-> c, ids |-> <<Cls>>], words, n)
  OBVIOUS
<1>5. PICK f : f = After("content", <<>>, q, n)
  OBVIOUS
<1>6. TokensSoFar(s, f)
  <2>1. n \in 0..Len(words)
    BY <1>1
  <2> QED BY <1>2, <1>4, <1>5, <2>1, TurnsAreFaithful
<1>7. f = FlattenSeq(q)
  BY <1>3, <1>5, FlattenIsAfter
<1>8. TokenizeOne(c, words) = [s EXCEPT !.ids = Append(@, Sep)]
  BY <1>1, <1>4, TokensAreAfter DEF TokenizeOne
<1>9. PICK t : t = TokenizeOne(c, words)
  OBVIOUS
<1>10. t.ids = Append(s.ids, Sep) /\ t.cache = s.cache
  BY <1>6, <1>8, <1>9 DEF TokensSoFar
<1>11. t.ids \in Seq(Nat)
  BY <1>6, <1>10, AppendProperties, EncoderAssumption DEF TokensSoFar, Follows
<1>12. t.ids = <<Cls>> \o SubSeq(f, 1, Min({Len(f), MaxLen - 2})) \o <<Sep>>
  BY <1>6, <1>10, FollowsAll DEF TokensSoFar
<1>13. t.ids = RefTokens(words)
  BY <1>2, <1>7, <1>12 DEF RefTokens
<1>14. CacheOk(t.cache)
  BY <1>6, <1>10 DEF TokensSoFar
<1>15. MaxLen > 1 => Len(t.ids) <= MaxLen
  <2>1. PICK M \in Nat : M = MaxLen
    BY TextAssumption
  <2>2. PICK k \in Nat : k = Len(s.ids)
    BY <1>6, LenProperties DEF TokensSoFar, Follows
  <2>3. k > 1 => k <= M - 1
    BY <1>6, <2>1, <2>2 DEF TokensSoFar, Follows
  <2>4. Len(t.ids) = k + 1
    BY <1>6, <1>10, <2>2, AppendProperties, EncoderAssumption DEF TokensSoFar, Follows
  <2> QED BY <2>1, <2>3, <2>4
<1> QED BY <1>9, <1>11, <1>13, <1>14, <1>15

-----------------------------------------------------------------------------
(* Part of a sequence: what Kept returns. *)
Marks(q, S) == [i \in 1..Len(q) |-> <<q[i], IF q[i] \in S THEN 1 ELSE 0>>]

\* What is kept of the first n elements.
KeptOf(q, S, n) == After("kept", <<>>, Marks(q, S), n)

KeptTable(q, S, f) ==
    f = [n \in 0..Len(q) |->
            IF n = 0 THEN <<>>
            ELSE IF q[n] \in S THEN Append(f[n - 1], q[n]) ELSE f[n - 1]]

LEMMA KeptIsTable ==
    ASSUME NEW q, NEW S
    PROVE  Kept(q, S) = (CHOOSE f : KeptTable(q, S, f))[Len(q)]
BY DEF Kept, KeptTable

LEMMA KeptOfNone == ASSUME NEW q, NEW S PROVE KeptOf(q, S, 0) = <<>>
BY AfterNone DEF KeptOf

LEMMA KeptOfNext ==
    ASSUME NEW q, NEW S, NEW n \in Nat, n + 1 \in 1..Len(q)
    PROVE  KeptOf(q, S, n + 1) = IF q[n + 1] \in S THEN Append(KeptOf(q, S, n), q[n + 1])
                                 ELSE KeptOf(q, S, n)
<1>1. PICK m : m = Marks(q, S)
  OBVIOUS
<1>2. PICK x : x = q[n + 1]
  OBVIOUS
<1>3. m[n + 1] = <<x, IF x \in S THEN 1 ELSE 0>>
  BY <1>1, <1>2 DEF Marks
<1>4. After("kept", <<>>, m, n + 1) =
        IF m[n + 1][2] = 1 THEN Append(After("kept", <<>>, m, n), m[n + 1][1])
        ELSE After("kept", <<>>, m, n)
  BY AfterNext DEF Turn
<1>5. CASE x \in S
  <2>1. m[n + 1][1] = x /\ m[n + 1][2] = 1
    BY <1>3, <1>5
  <2> QED BY <1>1, <1>2, <1>4, <1>5, <2>1 DEF KeptOf
<1>6. CASE x \notin S
  <2>1. m[n + 1][2] = 0
    BY <1>3, <1>6
  <2> QED BY <1>1, <1>2, <1>4, <1>6, <2>1 DEF KeptOf
<1> QED BY <1>5, <1>6

LEMMA KeptIsAll ==
    ASSUME NEW q, NEW S, Len(q) \in Nat
    PROVE  Kept(q, S) = KeptOf(q, S, Len(q))
<1>1. PICK n \in Nat : n = Len(q)
  OBVIOUS
<1>2. PICK g : g = [i \in 0..n |-> KeptOf(q, S, i)]
  OBVIOUS
<1>3. ASSUME NEW i \in 0..n
      PROVE  g[i] = IF i = 0 THEN <<>>
                    ELSE IF q[i] \in S THEN Append(g[i - 1], q[i]) ELSE g[i - 1]
  <2>1. CASE i = 0
    BY <1>2, <2>1, KeptOfNone
  <2>2. CASE i # 0
    <3>1. PICK j \in 0..n : i = j + 1 /\ i - 1 = j
      <4>1. i - 1 \in 0..n /\ i = (i - 1) + 1
        BY <2>2
      <4> QED BY <4>1
    <3>2. j \in Nat /\ j + 1 \in 1..Len(q)
      BY <1>1, <2>2, <3>1
    <3>3. KeptOf(q, S, j + 1) = IF q[j + 1] \in S THEN Append(KeptOf(q, S, j), q[j + 1])
                                ELSE KeptOf(q, S, j)
      BY <3>2, KeptOfNext
    <3>4. g[i] = KeptOf(q, S, j + 1) /\ g[j] = KeptOf(q, S, j)
      BY <1>2, <3>1
    <3> QED BY <2>2, <3>1, <3>3, <3>4
  <2> QED BY <2>1, <2>2
<1>4. KeptTable(q, S, g)
  <2>1. g = [i \in 0..n |-> g[i]]
    BY <1>2
  <2>2. g = [i \in 0..n |-> IF i = 0 THEN <<>>
                            ELSE IF q[i] \in S THEN Append(g[i - 1], q[i]) ELSE g[i - 1]]
    BY <1>3, <2>1
  <2> QED BY <1>1, <2>2 DEF KeptTable
<1>5. PICK f : f = CHOOSE h : KeptTable(q, S, h)
  OBVIOUS
<1>6. KeptTable(q, S, f)
  BY <1>4, <1>5
<1>7. ASSUME NEW i \in 0..n
      PROVE  f[i] = IF i = 0 THEN <<>>
                    ELSE IF q[i] \in S THEN Append(f[i - 1], q[i]) ELSE f[i - 1]
  BY <1>1, <1>6 DEF KeptTable
<1> DEFINE Bad == {i \in 0..n : f[i] # g[i]}
<1>8. Bad = {}
  <2>1. SUFFICES ASSUME Bad # {} PROVE FALSE
    OBVIOUS
  <2>2. PICK k \in Bad : \A j \in Bad : k <= j
    <3>1. Bad \in SUBSET (0..n)
      OBVIOUS
    <3> HIDE DEF Bad
    <3> QED BY <1>1, <2>1, <3>1, FirstFailure
  <2>3. k \in 0..n /\ f[k] # g[k]
    BY <2>2
  <2>4. k # 0
    BY <1>3, <1>7, <2>3
  <2>5. k - 1 \in 0..n /\ ~(k <= k - 1)
    BY <2>3, <2>4
  <2>6. f[k - 1] = g[k - 1]
    BY <2>2, <2>5
  <2> QED BY <1>3, <1>7, <2>3, <2>4, <2>6
<1>9. f[n] = g[n]
  <2>1. n \in 0..n
    OBVIOUS
  <2> QED BY <1>8, <2>1
<1>10. g[n] = KeptOf(q, S, n)
  BY <1>2
<1> QED BY <1>1, <1>5, <1>9, <1>10, KeptIsTable

\* What is kept comes from the sequence and is in S.
LEMMA KeptType ==
    ASSUME NEW q, NEW S, NEW T, Len(q) \in Nat,
           \A i \in 1..Len(q) : q[i] \in S => q[i] \in T
    PROVE  Kept(q, S) \in Seq(T)
<1>1. PICK n \in Nat : n = Len(q)
  OBVIOUS
<1> DEFINE Bad == {i \in 0..n : KeptOf(q, S, i) \notin Seq(T)}
<1>2. SUFFICES ASSUME Bad # {} PROVE FALSE
  <2>1. Bad = {} => KeptOf(q, S, n) \in Seq(T)
    OBVIOUS
  <2> QED BY <1>1, <2>1, KeptIsAll
<1>3. PICK k \in Bad : \A j \in Bad : k <= j
  <2>1. Bad \in SUBSET (0..n)
    OBVIOUS
  <2> HIDE DEF Bad
  <2> QED BY <1>2, <2>1, FirstFailure
<1>4. k \in 0..n /\ KeptOf(q, S, k) \notin Seq(T)
  BY <1>3
<1>5. k # 0
  <2>1. <<>> \in Seq(T)
    OBVIOUS
  <2> QED BY <1>4, <2>1, KeptOfNone
<1>6. PICK j \in 0..n : k = j + 1
  <2>1. k - 1 \in 0..n /\ k = (k - 1) + 1
    BY <1>4, <1>5
  <2> QED BY <2>1
<1>7. KeptOf(q, S, j) \in Seq(T)
  BY <1>3, <1>6
<1>8. j \in Nat /\ j + 1 \in 1..Len(q)
  BY <1>1, <1>4, <1>6
<1>9. KeptOf(q, S, j + 1) = IF q[j + 1] \in S THEN Append(KeptOf(q, S, j), q[j + 1])
                            ELSE KeptOf(q, S, j)
  BY <1>8, KeptOfNext
<1>10. KeptOf(q, S, j + 1) \in Seq(T)
  <2>1. CASE q[j + 1] \in S
    <3>1. q[j + 1] \in T
      BY <1>8, <2>1
    <3> QED BY <1>7, <1>9, <2>1, <3>1, AppendProperties
  <2>2. CASE q[j + 1] \notin S
    BY <1>7, <1>9, <2>2
  <2> QED BY <2>1, <2>2
<1> QED BY <1>4, <1>6, <1>10

\* If exactly the first l elements are in S, they are what is kept.
LEMMA KeptPrefix ==
    ASSUME NEW T, NEW q \in Seq(T), NEW S, NEW l \in 0..Len(q),
           \A i \in 1..Len(q) : q[i] \in S <=> i <= l
    PROVE  /\ Kept(q, S) \in Seq(T) /\ Len(Kept(q, S)) = l
           /\ \A i \in 1..l : Kept(q, S)[i] = q[i]
<1>1. PICK n \in Nat : n = Len(q)
  BY LenProperties
<1>2. l \in Nat /\ l <= n /\ \A i \in 1..n : q[i] \in T
  BY <1>1, ElementOfSeq
<1> DEFINE Good(p, k) == /\ p \in Seq(T) /\ Len(p) = (IF k <= l THEN k ELSE l)
                         /\ \A i \in 1..Len(p) : p[i] = q[i]
           Bad == {k \in 0..n : ~Good(KeptOf(q, S, k), k)}
<1>3. Bad = {}
  <2>1. SUFFICES ASSUME Bad # {} PROVE FALSE
    OBVIOUS
  <2>2. PICK k \in Bad : \A j \in Bad : k <= j
    <3>1. Bad \in SUBSET (0..n)
      OBVIOUS
    <3> HIDE DEF Bad
    <3> QED BY <1>1, <2>1, <3>1, FirstFailure
  <2>3. k \in 0..n /\ ~Good(KeptOf(q, S, k), k)
    BY <2>2
  <2>4. Good(<<>>, 0)
    BY <1>2
  <2>5. k # 0
    <3> HIDE DEF Good
    <3> QED BY <2>3, <2>4, KeptOfNone
  <2>6. PICK j \in 0..n : k = j + 1
    <3>1. k - 1 \in 0..n /\ k = (k - 1) + 1
      BY <2>3, <2>5
    <3> QED BY <3>1
  <2>7. PICK p : p = KeptOf(q, S, j)
    OBVIOUS
  <2>8. Good(p, j)
    <3>1. ~(k <= j)
      BY <2>6
    <3> HIDE DEF Good
    <3> QED BY <2>2, <2>7, <3>1
  <2>9. j \in Nat /\ j + 1 \in 1..Len(q)
    BY <1>1, <2>3, <2>6
  <2>10. KeptOf(q, S, j + 1) = IF q[j + 1] \in S THEN Append(p, q[j + 1]) ELSE p
    BY <2>7, <2>9, KeptOfNext
  <2>11. CASE j + 1 <= l
    <3>1. q[j + 1] \in S /\ q[j + 1] \in T
      BY <1>1, <1>2, <2>9, <2>11
    <3>2. PICK r : r = Append(p, q[j + 1])
      OBVIOUS
    <3>3. Len(p) = j
      BY <2>8, <2>11
    <3>4. /\ r \in Seq(T) /\ Len(r) = j + 1 /\ r[j + 1] = q[j + 1]
          /\ \A i \in 1..j : r[i] = p[i]
      BY <2>8, <3>1, <3>2, <3>3, AppendProperties
    <3>5. \A i \in 1..(j + 1) : r[i] = q[i]
      <4> SUFFICES ASSUME NEW i \in 1..(j + 1) PROVE r[i] = q[i]
        OBVIOUS
      <4>1. i = j + 1 \/ i \in 1..j
        OBVIOUS
      <4> QED BY <2>8, <3>3, <3>4, <4>1
    <3>6. Good(r, j + 1)
      BY <2>11, <3>4, <3>5
    <3>7. KeptOf(q, S, k) = r
      BY <2>6, <2>10, <3>1, <3>2
    <3> HIDE DEF Good
    <3> QED BY <2>3, <2>6, <3>6, <3>7
  <2>12. CASE ~(j + 1 <= l)
    <3>1. q[j + 1] \notin S
      BY <2>9, <2>12
    <3>2. KeptOf(q, S, k) = p
      BY <2>6, <2>10, <3>1
    <3>3. (IF j <= l THEN j ELSE l) = l /\ (IF j + 1 <= l THEN j + 1 ELSE l) = l
      BY <1>2, <2>12
    <3>4. Good(p, j + 1)
      BY <2>8, <3>3
    <3> HIDE DEF Good
    <3> QED BY <2>3, <2>6, <3>2, <3>4
  <2> QED BY <2>11, <2>12
<1>4. Good(KeptOf(q, S, n), n)
  <2>1. n \in 0..n
    OBVIOUS
  <2> HIDE DEF Good
  <2> QED BY <1>3, <2>1
<1>5. Kept(q, S) = KeptOf(q, S, n)
  BY <1>1, KeptIsAll
<1>6. PICK p : p = KeptOf(q, S, n)
  OBVIOUS
<1>7. (IF n <= l THEN n ELSE l) = l
  BY <1>2
<1>8. p \in Seq(T) /\ Len(p) = l /\ \A i \in 1..l : p[i] = q[i]
  BY <1>4, <1>6, <1>7
<1> QED BY <1>5, <1>6, <1>8

-----------------------------------------------------------------------------
(* The flat arrays of a batch: where a row's tokens are, and what the model *)
(* makes of a row.                                                          *)

LEMMA ColumnOf ==
    ASSUME NEW c \in Nat \ {0}
    PROVE  ColAt(c) \in 1..SeqLen /\ RowAt(c) \in Nat \ {0}
<1>1. PICK L \in Nat \ {0} : L = SeqLen
  BY ShapeAssumption
<1>2. PICK n \in Nat : n = c - 1
  OBVIOUS
<1>3. n % L \in 0..(L - 1) /\ n \div L \in Nat
  OBVIOUS
<1> QED BY <1>1, <1>2, <1>3 DEF ColAt, RowAt

\* Cell(r, j) is column j of row r.
LEMMA CellPlace ==
    ASSUME NEW r \in Slots, NEW j \in 1..SeqLen
    PROVE  Cell(r, j) \in Cells /\ RowAt(Cell(r, j)) = r /\ ColAt(Cell(r, j)) = j
<1>1. PICK L \in Nat \ {0} : L = SeqLen
  BY ShapeAssumption
<1>2. PICK B \in Nat \ {0} : B = BatchSize
  BY ShapeAssumption
<1>3. PICK p \in Nat : r = p + 1 /\ p < B
  <2>1. r - 1 \in Nat /\ r = (r - 1) + 1 /\ r - 1 < B
    BY <1>2 DEF Slots
  <2> QED BY <2>1
<1>4. PICK i \in Nat : j = i + 1 /\ i < L
  <2>1. j - 1 \in Nat /\ j = (j - 1) + 1 /\ j - 1 < L
    BY <1>1
  <2> QED BY <2>1
<1>5. Cell(r, j) = p * L + i + 1
  BY <1>1, <1>3, <1>4 DEF Cell
<1>6. p * L \in Nat /\ p * L + L <= B * L
  <2>1. PICK d \in Nat : B = p + 1 + d
    <3>1. B - p - 1 \in Nat /\ B = p + 1 + (B - p - 1)
      BY <1>3
    <3> QED BY <3>1
  <2>2. B * L = p * L + L + d * L /\ d * L \in Nat /\ p * L \in Nat
    BY <2>1
  <2> QED BY <2>2
<1>7. PICK n \in Nat : n = p * L + i
  BY <1>6
<1>8. n % L = i /\ n \div L = p
  BY <1>4, <1>7
<1>9. Cell(r, j) - 1 = n /\ Cell(r, j) = n + 1 /\ n + 1 <= B * L
  BY <1>4, <1>5, <1>6, <1>7
<1> QED BY <1>1, <1>2, <1>3, <1>4, <1>8, <1>9 DEF Cells, RowAt, ColAt

\* The mask of a row selects its first l cells: the model sees their ids.
LEMMA VectorOfRow ==
    ASSUME NEW ids, NEW mask, NEW r, NEW l \in 0..SeqLen,
           \A j \in 1..SeqLen : mask[Cell(r, j)] = 1 <=> j <= l
    PROVE  Vector(ids, mask, r) = [k \in 1..l |-> ids[Cell(r, k)]]
<1>1. PICK L \in Nat : L = SeqLen
  BY ShapeAssumption
<1>2. PICK q : q = [j \in 1..L |-> j]
  OBVIOUS
<1>3. PICK S : S = {j \in 1..L : mask[Cell(r, j)] = 1}
  OBVIOUS
<1>4. q \in Seq(Nat) /\ Len(q) = L
  <2>1. q \in [1..L -> Nat]
    BY <1>2
  <2> QED BY <2>1, IsASeq, LenProperties
<1>5. PICK used : used = Kept(q, S)
  OBVIOUS
<1>6. used \in Seq(Nat) /\ Len(used) = l /\ \A i \in 1..l : used[i] = q[i]
  <2>1. l \in 0..Len(q)
    BY <1>1, <1>4
  <2>2. \A i \in 1..Len(q) : q[i] \in S <=> i <= l
    BY <1>1, <1>2, <1>3, <1>4
  <2>3. q \in Seq(Nat)
    BY <1>4
  <2>4. Kept(q, S) \in Seq(Nat) /\ Len(Kept(q, S)) = l /\ \A i \in 1..l : Kept(q, S)[i] = q[i]
    BY <2>1, <2>2, <2>3, KeptPrefix
  <2> QED BY <1>5, <2>4
<1>7. DOMAIN used = 1..l /\ \A i \in 1..l : used[i] = i
  <2>1. \A i \in 1..l : i \in 1..L
    BY <1>1
  <2> QED BY <1>2, <1>6, <2>1, LenProperties
<1>8. Vector(ids, mask, r) = [k \in DOMAIN used |-> ids[Cell(r, used[k])]]
  BY <1>1, <1>2, <1>3, <1>5 DEF Vector
<1> QED BY <1>7, <1>8

\* Whatever is on the device, the model makes a vector of it.
LEMMA VectorType ==
    ASSUME NEW ids \in [Cells -> Nat], NEW mask, NEW r \in Slots
    PROVE  Vector(ids, mask, r) \in Seq(Nat)
<1>1. PICK L \in Nat : L = SeqLen
  BY ShapeAssumption
<1>2. PICK q : q = [j \in 1..L |-> j]
  OBVIOUS
<1>3. PICK S : S = {j \in 1..L : mask[Cell(r, j)] = 1}
  OBVIOUS
<1>4. Len(q) = L
  <2>1. q \in [1..L -> Nat]
    BY <1>2
  <2> QED BY <2>1, IsASeq, LenProperties
<1>5. PICK used : used = Kept(q, S)
  OBVIOUS
<1>6. used \in Seq(1..L)
  <2>1. \A i \in 1..Len(q) : q[i] \in S => q[i] \in 1..L
    BY <1>3
  <2> QED BY <1>4, <1>5, <2>1, KeptType
<1>7. PICK n \in Nat : n = Len(used) /\ DOMAIN used = 1..n
  BY <1>6, LenProperties
<1>8. \A k \in 1..n : used[k] \in 1..L
  BY <1>6, <1>7, ElementOfSeq
<1>9. \A k \in 1..n : ids[Cell(r, used[k])] \in Nat
  BY <1>1, <1>8, CellPlace
<1>10. Vector(ids, mask, r) = [k \in DOMAIN used |-> ids[Cell(r, used[k])]]
  BY <1>1, <1>2, <1>3, <1>5 DEF Vector
<1>11. [k \in 1..n |-> ids[Cell(r, used[k])]] \in [1..n -> Nat]
  BY <1>9
<1> QED BY <1>7, <1>10, <1>11, IsASeq

\* A batch that fits the session.
FineBatch == {b \in Batch : Len(b.ids) <= BatchSize}
Rows == AccOf(Seq(Nat), Nat, {0})

\* Bucketizer::push leaves a row that is short enough as it is.
LEMMA FittedRow ==
    ASSUME NEW item \in ItemOf(Seq(Nat), Nat, {0})
    PROVE  /\ Fitted(item) \in ItemOf(Seq(Nat), Nat, {0})
           /\ Len(Fitted(item).row) <= SeqLen
           /\ Len(item.row) <= SeqLen => Fitted(item) = item
<1>1. PICK q \in Seq(Nat) : q = item.row
  BY DEF ItemOf
<1>2. PICK n \in Nat : n = Len(q)
  BY LenProperties
<1>3. PICK L \in Nat : L = SeqLen
  BY ShapeAssumption
<1>4. PICK m \in Nat : m = Min({n, L}) /\ m <= n /\ m <= L /\ (m = n \/ m = L)
  <2>1. PICK T : T = {n, L}
    OBVIOUS
  <2>2. T \in SUBSET Nat /\ T # {}
    BY <2>1
  <2>3. Min(T) \in T /\ \A y \in T : Min(T) =< y
    BY <2>2, MinInSet
  <2> QED BY <2>1, <2>3
<1>5. PICK s : s = SubSeq(q, 1, m)
  OBVIOUS
<1>6. s \in Seq(Nat) /\ Len(s) <= L
  <2>1. \A i \in 1..m : q[i] \in Nat
    BY <1>2, <1>4, ElementOfSeq
  <2>2. /\ SubSeq(q, 1, m) \in Seq(Nat)
        /\ Len(SubSeq(q, 1, m)) = IF 1 <= m THEN m - 1 + 1 ELSE 0
    BY <2>1, SubSeqProperties
  <2>3. s \in Seq(Nat) /\ Len(s) = IF 1 <= m THEN m - 1 + 1 ELSE 0
    BY <1>5, <2>2
  <2>4. (1 <= m => m - 1 + 1 = m) /\ m <= L /\ 0 <= L
    BY <1>4
  <2> QED BY <2>3, <2>4
<1>7. Fitted(item) = [item EXCEPT !.row = s]
  BY <1>1, <1>2, <1>3, <1>4, <1>5 DEF Fitted
<1>8. /\ item = [id |-> item.id, row |-> item.row, hash |-> item.hash]
      /\ item.id \in Nat /\ item.hash \in {0}
  BY DEF ItemOf
<1>9. PICK f : f = Fitted(item)
  OBVIOUS
<1>10. f = [id |-> item.id, row |-> s, hash |-> item.hash] /\ f.row = s
  BY <1>7, <1>8, <1>9
<1>11. f \in ItemOf(Seq(Nat), Nat, {0})
  BY <1>6, <1>8, <1>10 DEF ItemOf
<1>12. n <= L => s = q
  <2>1. n <= L => m = n
    BY <1>4
  <2>2. SubSeq(q, 1, Len(q)) = q
    BY SubSeqFull
  <2> QED BY <1>2, <1>5, <2>1, <2>2
<1> QED BY <1>1, <1>2, <1>3, <1>6, <1>8, <1>9, <1>10, <1>11, <1>12

\* A cell is covered if its row has a token there.
LEMMA CoveredCell ==
    ASSUME NEW rows \in Seq(Seq(Nat)), NEW c \in Cells, Covered(rows, c)
    PROVE  rows[RowAt(c)][ColAt(c)] \in Nat
<1>1. c \in Nat \ {0}
  BY ShapeAssumption DEF Cells
<1>2. PICK r : r = RowAt(c)
  OBVIOUS
<1>3. PICK j \in 1..SeqLen : j = ColAt(c)
  BY <1>1, ColumnOf
<1>4. r \in DOMAIN rows /\ j <= Len(rows[r])
  BY <1>2, <1>3 DEF Covered
<1>5. PICK q \in Seq(Nat) : q = rows[r]
  <2>1. r \in 1..Len(rows)
    BY <1>4, LenProperties
  <2> QED BY <2>1, ElementOfSeq
<1>6. j \in 1..Len(q)
  BY <1>3, <1>4, <1>5, ShapeAssumption, LenProperties
<1> QED BY <1>2, <1>3, <1>5, <1>6, ElementOfSeq

LEMMA ArraysType ==
    ASSUME NEW a \in Rows, Aligned(a), Len(a.rows) <= BatchSize
    PROVE  Arrays(a) \in FineBatch /\ Arrays(a).ids = a.ids
<1>1. a.rows \in Seq(Seq(Nat)) /\ a.ids \in Seq(Nat)
  BY DEF Rows, AccOf
<1>2. BuildBatch(a, 1).rows = a.rows /\ BuildBatch(a, 1).ids = a.ids
  BY BuildBatchTakesAll DEF Rows
<1>3. PICK ii : ii = [c \in Cells |-> IF Covered(a.rows, c) THEN a.rows[RowAt(c)][ColAt(c)] ELSE 0]
  OBVIOUS
<1>4. PICK am : am = [c \in Cells |-> IF Covered(a.rows, c) THEN 1 ELSE 0]
  OBVIOUS
<1>5. Arrays(a) = [ids |-> a.ids, input_ids |-> ii, attention_mask |-> am]
  BY <1>2, <1>3, <1>4 DEF Arrays
<1>6. ii \in [Cells -> Nat]
  <2>1. \A c \in Cells : Covered(a.rows, c) => a.rows[RowAt(c)][ColAt(c)] \in Nat
    BY <1>1, CoveredCell
  <2> QED BY <1>3, <2>1
<1>7. am \in [Cells -> {0, 1}]
  BY <1>4
<1>8. Arrays(a) \in Batch /\ Arrays(a).ids = a.ids
  BY <1>1, <1>5, <1>6, <1>7 DEF Batch
<1> QED BY <1>8 DEF FineBatch, Aligned

\* The arrays of a batch spell out its rows, and nothing else.
LEMMA ArraysSpell ==
    ASSUME NEW a \in Rows, Aligned(a),
           \A i \in DOMAIN a.rows : Len(a.rows[i]) <= SeqLen, NEW r \in Slots
    PROVE  Vector(Arrays(a).input_ids, Arrays(a).attention_mask, r) =
              IF r \in DOMAIN a.rows THEN a.rows[r] ELSE <<>>
<1>1. PICK rows \in Seq(Seq(Nat)) : rows = a.rows
  BY DEF Rows, AccOf
<1>2. BuildBatch(a, 1).rows = rows
  BY <1>1, BuildBatchTakesAll DEF Rows
<1>3. PICK ii : ii = [c \in Cells |-> IF Covered(rows, c) THEN rows[RowAt(c)][ColAt(c)] ELSE 0]
  OBVIOUS
<1>4. PICK am : am = [c \in Cells |-> IF Covered(rows, c) THEN 1 ELSE 0]
  OBVIOUS
<1>5. Arrays(a).input_ids = ii /\ Arrays(a).attention_mask = am
  BY <1>2, <1>3, <1>4 DEF Arrays
<1>6. ASSUME NEW j \in 1..SeqLen
      PROVE  /\ am[Cell(r, j)] = IF r \in DOMAIN rows /\ j <= Len(rows[r]) THEN 1 ELSE 0
             /\ r \in DOMAIN rows /\ j <= Len(rows[r]) => ii[Cell(r, j)] = rows[r][j]
  <2>1. PICK c \in Cells : c = Cell(r, j) /\ RowAt(c) = r /\ ColAt(c) = j
    BY CellPlace
  <2>2. Covered(rows, c) <=> (r \in DOMAIN rows /\ j <= Len(rows[r]))
    BY <2>1 DEF Covered
  <2>3. /\ am[c] = IF Covered(rows, c) THEN 1 ELSE 0
        /\ ii[c] = IF Covered(rows, c) THEN rows[RowAt(c)][ColAt(c)] ELSE 0
    BY <1>3, <1>4
  <2>4. CASE Covered(rows, c)
    BY <2>1, <2>2, <2>3, <2>4
  <2>5. CASE ~Covered(rows, c)
    BY <2>1, <2>2, <2>3, <2>5
  <2> QED BY <2>4, <2>5
<1>7. CASE r \in DOMAIN rows
  <2>1. PICK q \in Seq(Nat) : q = rows[r]
    <3>1. r \in 1..Len(rows)
      BY <1>7, LenProperties
    <3> QED BY <3>1, ElementOfSeq
  <2>2. PICK l \in 0..SeqLen : l = Len(q)
    BY <1>1, <1>7, <2>1, LenProperties, ShapeAssumption
  <2>3. \A j \in 1..SeqLen : am[Cell(r, j)] = 1 <=> j <= l
    <3> SUFFICES ASSUME NEW j \in 1..SeqLen PROVE am[Cell(r, j)] = 1 <=> j <= l
      OBVIOUS
    <3>1. am[Cell(r, j)] = IF j <= l THEN 1 ELSE 0
      BY <1>6, <1>7, <2>1, <2>2
    <3> QED BY <3>1
  <2>4. Vector(ii, am, r) = [k \in 1..l |-> ii[Cell(r, k)]]
    BY <2>3, VectorOfRow
  <2>5. \A k \in 1..l : ii[Cell(r, k)] = q[k]
    <3> SUFFICES ASSUME NEW k \in 1..l PROVE ii[Cell(r, k)] = q[k]
      OBVIOUS
    <3>1. k \in 1..SeqLen /\ k <= Len(rows[r])
      BY <2>1, <2>2, ShapeAssumption
    <3> QED BY <1>6, <1>7, <2>1, <3>1
  <2>6. q = [k \in 1..l |-> q[k]]
    BY <2>2, LenProperties
  <2>7. Vector(ii, am, r) = [k \in 1..l |-> q[k]]
    BY <2>4, <2>5
  <2> QED BY <1>1, <1>5, <1>7, <2>1, <2>6, <2>7
<1>8. CASE r \notin DOMAIN rows
  <2>1. \A j \in 1..SeqLen : am[Cell(r, j)] = 1 <=> j <= 0
    <3> SUFFICES ASSUME NEW j \in 1..SeqLen PROVE am[Cell(r, j)] = 1 <=> j <= 0
      OBVIOUS
    <3>1. am[Cell(r, j)] = 0 /\ ~(j <= 0)
      BY <1>6, <1>8
    <3> QED BY <3>1
  <2>2. 0 \in 0..SeqLen
    BY ShapeAssumption
  <2>3. Vector(ii, am, r) = [k \in 1..0 |-> ii[Cell(r, k)]]
    BY <2>1, <2>2, VectorOfRow
  <2>4. Vector(ii, am, r) = <<>>
    BY <2>3
  <2> QED BY <1>1, <1>5, <1>8, <2>4
<1> QED BY <1>7, <1>8

-----------------------------------------------------------------------------
(* What the normalizer hands over. *)

LEMMA CleanWordsType ==
    ASSUME NEW t \in Seq(Stem)
    PROVE  CleanWords(t) \in Seq(Stem)
<1>1. PICK n \in Nat : n = Len(t) /\ DOMAIN t = 1..n
  BY LenProperties
<1>2. PICK q : q = [i \in DOMAIN t |-> Clean[t[i]]]
  OBVIOUS
<1>3. Len(q) \in Nat
  <2>1. \A i \in 1..n : t[i] \in Stem
    BY <1>1, ElementOfSeq
  <2>2. q \in [1..n -> Stem \cup {None}]
    BY <1>1, <1>2, <2>1, TextAssumption
  <2> QED BY <2>2, IsASeq, LenProperties
<1>4. Kept(q, Stem) \in Seq(Stem)
  <2>1. \A i \in 1..Len(q) : q[i] \in Stem => q[i] \in Stem
    OBVIOUS
  <2> QED BY <1>3, <2>1, KeptType
<1> QED BY <1>2, <1>4 DEF CleanWords

LEMMA CutType ==
    ASSUME NEW ws \in Seq(Stem)
    PROVE  Cut(ws).words \in Seq(Word)
<1> DEFINE start(i) == IF i = 1 THEN 0 ELSE Joined(SubSeq(ws, 1, i - 1)) + 1
           room(i)  == IF start(i) < MaxBytes THEN MaxBytes - start(i) ELSE 0
           kept(i)  == IF room(i) >= Bytes[ws[i]] THEN Bytes[ws[i]]
                       ELSE room(i) - (room(i) % Width[ws[i]])
<1>1. PICK n \in Nat : n = Len(ws) /\ DOMAIN ws = 1..n
  BY LenProperties
<1>2. PICK q : q = [i \in DOMAIN ws |-> <<ws[i], kept(i)>>]
  OBVIOUS
<1>3. Cut(ws).words = Kept(q, Word)
  BY <1>2 DEF Cut
<1> HIDE DEF start, room, kept
<1>4. Len(q) \in Nat
  <2>1. PICK T : T = {q[i] : i \in 1..n}
    OBVIOUS
  <2>2. q \in [1..n -> T]
    BY <1>1, <1>2, <2>1
  <2> QED BY <2>2, IsASeq, LenProperties
<1>5. \A i \in 1..Len(q) : q[i] \in Word => q[i] \in Word
  OBVIOUS
<1> QED BY <1>3, <1>4, <1>5, KeptType

LEMMA NormalizedType ==
    ASSUME NEW t \in Seq(Stem)
    PROVE  Normalized(t) \in Seq(Word)
<1>1. Normalize(t).words \in Seq(Word)
  BY CleanWordsType, CutType DEF Normalize
<1> QED BY <1>1, ConcatProperties, TextAssumption DEF Normalized

\* The words joined by spaces, the first n of them.
LEMMA JoinedIsAfter ==
    ASSUME NEW ws \in Seq(Stem)
    PROVE  Joined(ws) = After("joined", 0, ws, Len(ws))
<1>1. PICK n : n = Len(ws) /\ DOMAIN ws = 1..n
  BY LenProperties
<1> QED BY <1>1 DEF Joined, FoldLeft, MapThenFoldSet, After, FoldTable, Turn

\* Their length is a number.
LEMMA JoinedType ==
    ASSUME NEW ws \in Seq(Stem)
    PROVE  Joined(ws) \in Nat
<1>1. PICK n \in Nat : n = Len(ws) /\ DOMAIN ws = 1..n
  BY LenProperties
<1> DEFINE Bad == {k \in 0..n : After("joined", 0, ws, k) \notin Nat}
<1>2. SUFFICES ASSUME Bad # {} PROVE FALSE
  <2>1. Bad = {} => After("joined", 0, ws, n) \in Nat
    OBVIOUS
  <2> QED BY <1>1, <2>1, JoinedIsAfter
<1>3. PICK k \in Bad : \A j \in Bad : k <= j
  <2>1. Bad \in SUBSET (0..n)
    OBVIOUS
  <2> HIDE DEF Bad
  <2> QED BY <1>2, <2>1, FirstFailure
<1>4. k \in 0..n /\ After("joined", 0, ws, k) \notin Nat
  BY <1>3
<1>5. k # 0
  BY <1>4, AfterNone
<1>6. PICK j \in 0..n : k = j + 1
  <2>1. k - 1 \in 0..n /\ k = (k - 1) + 1
    BY <1>4, <1>5
  <2> QED BY <2>1
<1>7. PICK s \in Nat : s = After("joined", 0, ws, j)
  BY <1>3, <1>6
<1>8. PICK w \in Stem : w = ws[j + 1]
  <2>1. j + 1 \in 1..Len(ws)
    BY <1>1, <1>4, <1>6
  <2> QED BY <2>1, ElementOfSeq
<1>9. j \in Nat /\ Bytes[w] \in Nat
  BY TextAssumption
<1>10. After("joined", 0, ws, j + 1) = Turn("joined", s, w)
  BY <1>7, <1>8, <1>9, AfterNext
<1>11. Turn("joined", s, w) = s + Bytes[w] + (IF s = 0 THEN 0 ELSE 1)
  BY DEF Turn
<1> QED BY <1>4, <1>6, <1>9, <1>10, <1>11

-----------------------------------------------------------------------------
(* The types of all variables, with the facts that keep them: the cache is  *)
(* as above, the buffers of the batcher are aligned and hold less than a    *)
(* batch, batches fit the session, and only recorded events complete.       *)
Item == ItemOf(Seq(Nat), Nat, {0})
Answer == [ids : Seq(Nat), vecs : Seq(Seq(Nat)), failed : BOOLEAN]

TokInv ==
    /\ texts \in Seq(Seq(Stem)) /\ taken \in 0..Len(texts) /\ tokpc \in {"run", "done"}
    /\ CacheOk(cache)
    /\ reported \in Counters /\ live \in Counters /\ flush_ctr \in 0..(FlushEvery - 1)
    /\ live = reported
    /\ tokpc = "done" => live = Counts(cache)

BatcherInv ==
    /\ bpc \in {"recv", "send", "done"}
    /\ acc \in Rows /\ Aligned(acc)
    /\ ready \in FineBatch

ChannelInv ==
    /\ bucketQ \in Seq(Item) /\ Len(bucketQ) <= BucketCap
    /\ batchQ \in Seq(FineBatch) /\ Len(batchQ) <= BatchCap

GpuInv ==
    /\ gpu \in [pc : {"recv", "infer", "wait", "done", "crashed"}, batch : FineBatch]
    /\ stream \in Seq(Answer)

\* What may be queued on the compute stream after m events.
ComputeOp(m) ==
    [op : {"ids"}, data : [Cells -> Nat]] \cup [op : {"mask"}, data : [Cells -> {0, 1}]]
    \cup [op : {"run"}, data : {0}] \cup [op : {"record"}, data : 0..m]
CopyOp == [op : {"wait", "out"}, data : Nat]

DeviceInv ==
    /\ alloc \subseteq Buffer
    /\ compute \in Seq(ComputeOp(event.made)) /\ copy \in Seq(CopyOp)
    /\ dev \in [ids : [Cells -> Nat], mask : [Cells -> {0, 1}], out : [Slots -> Seq(Nat)]]
    /\ pinned \in [Slots -> Seq(Nat)]
    /\ event \in [made : Nat, done : Nat] /\ event.done <= event.made
    /\ broken \in BOOLEAN /\ faults \in 0..MaxFaults

TypeInv == TokInv /\ BatcherInv /\ ChannelInv /\ GpuInv /\ DeviceInv /\ Clocks

LEMMA NoBatchFine == NoBatch \in FineBatch
<1>1. Zeros \in [Cells -> Nat] /\ Zeros \in [Cells -> {0, 1}]
  BY DEF Zeros
<1>2. <<>> \in Seq(Nat) /\ Len(<<>>) = 0
  OBVIOUS
<1> QED BY <1>1, <1>2, ShapeAssumption DEF NoBatch, FineBatch, Batch

LEMMA CountsType == ASSUME NEW c, CacheOk(c) PROVE Counts(c) \in Counters
BY DEF CacheOk, Counts, Counters

LEMMA EmptyCacheOk == CacheOk(EmptyCache)
<1>1. PICK r : r = [w \in {} |-> <<>>]
  OBVIOUS
<1>2. PICK d : d = EmptyCache
  OBVIOUS
<1>3. d = [runtime |-> r, hits |-> 0, misses |-> 0] /\ d.runtime = r /\ d.hits = 0 /\ d.misses = 0
  BY <1>1, <1>2 DEF EmptyCache
<1>4. DOMAIN r = {}
  BY <1>1
<1> QED BY <1>2, <1>3, <1>4 DEF CacheOk

LEMMA TypeInit == Init => TypeInv
<1> SUFFICES ASSUME Init PROVE TypeInv
  OBVIOUS
<1>1. TokInv
  <2>1. texts \in Seq(Seq(Stem)) /\ Len(texts) \in Nat
    BY PathAssumption, LenProperties DEF Init
  <2>2. Counts(EmptyCache) \in Counters
    BY EmptyCacheOk, CountsType
  <2> QED BY <2>1, <2>2, EmptyCacheOk, PathAssumption DEF Init, TokInv
<1>2. BatcherInv
  <2>1. EmptyAcc \in Rows /\ Aligned(EmptyAcc)
    BY EmptyAccType DEF Rows
  <2> QED BY <2>1, NoBatchFine DEF Init, BatcherInv
<1>3. ChannelInv
  <2>1. bucketQ = <<>> /\ batchQ = <<>> /\ Len(<<>>) = 0
    BY DEF Init
  <2> QED BY <2>1, PathAssumption DEF ChannelInv
<1>4. GpuInv
  BY NoBatchFine DEF Init, GpuInv
<1>5. DeviceInv
  <2>1. Zeros \in [Cells -> Nat] /\ Zeros \in [Cells -> {0, 1}] /\ NoRows \in [Slots -> Seq(Nat)]
    BY DEF Zeros, NoRows
  <2>2. /\ alloc \in Allocs /\ compute = <<>> /\ copy = <<>>
        /\ dev = [ids |-> Zeros, mask |-> Zeros, out |-> NoRows]
        /\ pinned = NoRows /\ event = [made |-> 0, done |-> 0] /\ broken = FALSE /\ faults = 0
    BY DEF Init, Create
  <2>3. alloc \subseteq Buffer /\ MaxFaults \in Nat
    BY <2>2, ShapeAssumption
  <2>4. compute \in Seq(ComputeOp(event.made)) /\ copy \in Seq(CopyOp)
    BY <2>2
  <2>5. dev \in [ids : [Cells -> Nat], mask : [Cells -> {0, 1}], out : [Slots -> Seq(Nat)]]
    BY <2>1, <2>2
  <2>6. event \in [made : Nat, done : Nat] /\ event.done <= event.made
    BY <2>2
  <2>7. pinned \in [Slots -> Seq(Nat)] /\ faults \in 0..MaxFaults
    BY <2>1, <2>2, <2>3
  <2>9. broken \in BOOLEAN
    BY <2>2
  <2>8. alloc \subseteq Buffer
    BY <2>3
  <2> QED BY <2>4, <2>5, <2>6, <2>7, <2>8, <2>9 DEF DeviceInv
<1>6. Clocks
  <2>1. acc.rows \in Seq({}) /\ acc.rows = <<>> /\ ages = <<>> /\ idle = 0
    BY DEF Init, EmptyAcc
  <2>2. Len(<<>>) = 0 /\ DOMAIN <<>> = {}
    OBVIOUS
  <2> QED BY <2>1, <2>2, ShapeAssumption, PathAssumption DEF Clocks
<1> QED BY <1>1, <1>2, <1>3, <1>4, <1>5, <1>6 DEF TypeInv

-----------------------------------------------------------------------------
LEMMA TokKept == ASSUME TokInv, UNCHANGED tokVars PROVE TokInv'
BY DEF TokInv, tokVars

LEMMA BatcherKept == ASSUME BatcherInv, UNCHANGED <<bpc, acc, ready>> PROVE BatcherInv'
BY DEF BatcherInv

LEMMA ChannelKept == ASSUME ChannelInv, UNCHANGED <<bucketQ, batchQ>> PROVE ChannelInv'
BY DEF ChannelInv

LEMMA GpuKept == ASSUME GpuInv, UNCHANGED <<gpu, stream>> PROVE GpuInv'
BY DEF GpuInv

LEMMA DeviceKept == ASSUME DeviceInv, UNCHANGED runnerVars PROVE DeviceInv'
BY DEF DeviceInv, runnerVars

\* The reports of the tokenizer worker.
LEMMA ReportIsExact ==
    ASSUME TokInv, NEW c, CacheOk(c), Report(c)
    PROVE  live' = Counts(c) /\ reported' = Counts(c) /\ Counts(c) \in Counters
<1>1. /\ live \in Counters /\ live = reported /\ c.hits \in Nat /\ c.misses \in Nat
      /\ live.hits \in Nat /\ live.misses \in Nat
  BY DEF TokInv, CacheOk, Counters
<1>2. live' = [hits |-> live.hits + c.hits - live.hits, misses |-> live.misses + c.misses - live.misses]
  BY <1>1 DEF Report
<1>3. live.hits + c.hits - live.hits = c.hits /\ live.misses + c.misses - live.misses = c.misses
  BY <1>1
<1>4. live' = Counts(c)
  BY <1>2, <1>3 DEF Counts
<1> QED BY <1>4, CountsType DEF Report

LEMMA TokSendTypes == ASSUME TypeInv, TokSend PROVE TypeInv'
<1>1. PICK w \in Seq(Word) : w = Normalized(NextText)
  <2>1. NextText \in Seq(Stem)
    <3>1. texts \in Seq(Seq(Stem)) /\ taken + 1 \in 1..Len(texts)
      BY LenProperties DEF TypeInv, TokInv, TokSend, More
    <3> QED BY <3>1, ElementOfSeq DEF NextText
  <2> QED BY <2>1, NormalizedType
<1>2. PICK t : t = TokenizeOne(cache, w)
  OBVIOUS
<1>3. CacheOk(cache) /\ CacheOk(t.cache) /\ t.ids \in Seq(Nat)
  BY <1>2, TokensAreTheEncoders DEF TypeInv, TokInv
<1>4. /\ taken' = taken + 1 /\ cache' = t.cache /\ Len(bucketQ) < BucketCap
      /\ bucketQ' = Append(bucketQ, [id |-> taken + 1, row |-> t.ids, hash |-> 0])
      /\ flush_ctr' = (flush_ctr + 1) % FlushEvery
      /\ IF flush_ctr + 1 >= FlushEvery THEN Report(t.cache) ELSE UNCHANGED <<live, reported>>
      /\ UNCHANGED <<texts, tokpc, batcherVars, batchQ, gpuVars>>
      /\ tokpc = "run" /\ taken < Len(texts)
  BY <1>1, <1>2 DEF TokSend, More
<1>5. taken \in Nat /\ taken + 1 \in 0..Len(texts)
  BY <1>4, LenProperties DEF TypeInv, TokInv
<1>6. TokInv'
  <2>1. live' \in Counters /\ live' = reported'
    <3>1. CASE flush_ctr + 1 >= FlushEvery
      BY <1>3, <1>4, <3>1, ReportIsExact DEF TypeInv
    <3>2. CASE ~(flush_ctr + 1 >= FlushEvery)
      BY <1>4, <3>2 DEF TypeInv, TokInv
    <3> QED BY <3>1, <3>2
  <2>2. flush_ctr' \in 0..(FlushEvery - 1)
    <3>1. PICK F \in Nat \ {0} : F = FlushEvery
      BY PathAssumption
    <3>2. flush_ctr + 1 \in Nat
      BY <3>1 DEF TypeInv, TokInv
    <3> QED BY <1>4, <3>1, <3>2
  <2>3. texts' = texts /\ tokpc' = "run" /\ taken' \in 0..Len(texts') /\ CacheOk(cache')
    BY <1>3, <1>4, <1>5
  <2> QED BY <2>1, <2>2, <2>3 DEF TypeInv, TokInv
<1>7. ChannelInv'
  <2>1. [id |-> taken + 1, row |-> t.ids, hash |-> 0] \in Item
    BY <1>3, <1>5 DEF Item, ItemOf
  <2>2. bucketQ \in Seq(Item) /\ batchQ' = batchQ
    BY <1>4 DEF TypeInv, ChannelInv
  <2>3. bucketQ' \in Seq(Item) /\ Len(bucketQ') = Len(bucketQ) + 1 /\ Len(bucketQ) \in Nat
    BY <1>4, <2>1, <2>2, AppendProperties, LenProperties
  <2> QED BY <1>4, <2>2, <2>3, PathAssumption DEF TypeInv, ChannelInv
<1>8. BatcherInv'
  BY <1>4, BatcherKept DEF TypeInv, batcherVars
<1>9. GpuInv' /\ DeviceInv'
  BY <1>4, GpuKept, DeviceKept DEF TypeInv, gpuVars
<1>10. Clocks'
  BY StepClocks DEF TypeInv, Next, TokSend, batcherVars, Clocks
<1> QED BY <1>6, <1>7, <1>8, <1>9, <1>10 DEF TypeInv

LEMMA TokSkipTypes == ASSUME TypeInv, TokSkip PROVE TypeInv'
<1>1. /\ taken' = taken + 1 /\ tokpc = "run" /\ taken < Len(texts)
      /\ stream' = Append(stream, [ids |-> <<taken + 1>>, vecs |-> <<>>, failed |-> FALSE])
      /\ UNCHANGED <<texts, tokpc, cache, reported, flush_ctr, live, bucketQ,
                     batcherVars, batchQ, gpu, runnerVars>>
  BY DEF TokSkip, More
<1>2. taken \in Nat /\ taken + 1 \in 0..Len(texts)
  BY <1>1, LenProperties DEF TypeInv, TokInv
<1>3. TokInv'
  BY <1>1, <1>2 DEF TypeInv, TokInv
<1>4. GpuInv'
  <2>1. [ids |-> <<taken + 1>>, vecs |-> <<>>, failed |-> FALSE] \in Answer
    BY <1>2 DEF Answer
  <2>2. stream' \in Seq(Answer)
    BY <1>1, <2>1, AppendProperties DEF TypeInv, GpuInv
  <2> QED BY <1>1, <2>2 DEF TypeInv, GpuInv
<1>5. BatcherInv' /\ ChannelInv' /\ DeviceInv'
  BY <1>1, BatcherKept, ChannelKept, DeviceKept DEF TypeInv, batcherVars
<1>6. Clocks'
  BY <1>1 DEF TypeInv, batcherVars, Clocks
<1> QED BY <1>3, <1>4, <1>5, <1>6 DEF TypeInv

LEMMA TokExitTypes == ASSUME TypeInv, TokExit PROVE TypeInv'
<1>1. /\ tokpc' = "done" /\ Report(cache)
      /\ UNCHANGED <<texts, taken, cache, flush_ctr, bucketQ, batcherVars, batchQ, gpuVars>>
  BY DEF TokExit
<1>2. TokInv'
  <2>1. live' = Counts(cache) /\ reported' = Counts(cache) /\ Counts(cache) \in Counters
    BY <1>1, ReportIsExact DEF TypeInv, TokInv
  <2> QED BY <1>1, <2>1 DEF TypeInv, TokInv
<1>3. BatcherInv' /\ ChannelInv' /\ GpuInv' /\ DeviceInv'
  BY <1>1, BatcherKept, ChannelKept, GpuKept, DeviceKept DEF TypeInv, batcherVars, gpuVars
<1>4. Clocks'
  BY <1>1 DEF TypeInv, batcherVars, Clocks
<1> QED BY <1>2, <1>3, <1>4 DEF TypeInv

-----------------------------------------------------------------------------
LEMMA EmitTypes ==
    ASSUME NEW a \in Rows, Aligned(a), Len(a.rows) <= BatchSize, Emit(a)
    PROVE  BatcherInv'
<1>1. Arrays(a) \in FineBatch
  BY ArraysType
<1>2. Drain(a) = EmptyAcc
  BY DrainLeavesNothing DEF Rows
<1>3. EmptyAcc \in Rows /\ Aligned(EmptyAcc)
  BY EmptyAccType DEF Rows
<1>4. ready' = Arrays(a) /\ acc' = EmptyAcc /\ bpc' = "send"
  BY <1>2 DEF Emit
<1> QED BY <1>1, <1>3, <1>4 DEF BatcherInv

LEMMA BatcherRecvTypes == ASSUME TypeInv, BatcherRecv PROVE TypeInv'
<1>1. PICK item \in Item : item = Head(bucketQ)
  BY HeadTailProperties DEF TypeInv, ChannelInv, BatcherRecv
<1>2. PICK f \in Item : f = Fitted(item)
  BY FittedRow DEF Item
<1>3. PICK a : a = Push(acc, f)
  OBVIOUS
<1>4. /\ bucketQ # <<>> /\ bucketQ' = Tail(bucketQ) /\ bpc = "recv"
      /\ IF Filled(a, BatchSize) THEN Emit(a)
         ELSE acc' = a /\ UNCHANGED <<bpc, ready>>
      /\ UNCHANGED <<tokVars, batchQ, gpuVars>>
  BY <1>1, <1>2, <1>3 DEF BatcherRecv
<1>5. a \in Rows /\ Aligned(a) /\ Len(a.rows) = Len(acc.rows) + 1
  BY <1>3, PushType DEF TypeInv, BatcherInv, Rows, Item
<1>6. Len(a.rows) <= BatchSize
  <2>1. Len(acc.rows) < BatchSize /\ Len(acc.rows) \in Nat
    BY LenProperties DEF TypeInv, Clocks
  <2> QED BY <1>5, <2>1, ShapeAssumption
<1>7. BatcherInv'
  <2>1. CASE Filled(a, BatchSize)
    BY <1>4, <1>5, <1>6, <2>1, EmitTypes
  <2>2. CASE ~Filled(a, BatchSize)
    BY <1>4, <1>5, <2>2 DEF TypeInv, BatcherInv
  <2> QED BY <2>1, <2>2
<1>8. ChannelInv'
  <2>1. bucketQ' \in Seq(Item) /\ Len(bucketQ') = Len(bucketQ) - 1 /\ Len(bucketQ) \in Nat
    BY <1>4, HeadTailProperties, LenProperties DEF TypeInv, ChannelInv
  <2> QED BY <1>4, <2>1, PathAssumption DEF TypeInv, ChannelInv
<1>9. TokInv' /\ GpuInv' /\ DeviceInv'
  BY <1>4, TokKept, GpuKept, DeviceKept DEF TypeInv, gpuVars
<1>10. Clocks'
  BY RecvClocks DEF TypeInv
<1> QED BY <1>7, <1>8, <1>9, <1>10 DEF TypeInv

LEMMA PendingFits == ASSUME TypeInv PROVE Len(acc.rows) <= BatchSize
<1>1. Len(acc.rows) < BatchSize /\ Len(acc.rows) \in Nat
  BY LenProperties DEF TypeInv, Clocks
<1> QED BY <1>1, ShapeAssumption

LEMMA BatcherTimeoutTypes == ASSUME TypeInv, BatcherTimeout PROVE TypeInv'
<1>1. UNCHANGED <<tokVars, bucketQ, batchQ, gpuVars>>
  BY DEF BatcherTimeout
<1>2. BatcherInv'
  <2>1. CASE acc.rows = <<>>
    BY <2>1, BatcherKept DEF TypeInv, BatcherTimeout
  <2>2. CASE acc.rows # <<>>
    BY <2>2, EmitTypes, PendingFits DEF TypeInv, BatcherInv, BatcherTimeout
  <2> QED BY <2>1, <2>2
<1>3. TokInv' /\ ChannelInv' /\ GpuInv' /\ DeviceInv'
  BY <1>1, TokKept, ChannelKept, GpuKept, DeviceKept DEF TypeInv, gpuVars
<1>4. Clocks'
  BY TimeoutClocks DEF TypeInv
<1> QED BY <1>2, <1>3, <1>4 DEF TypeInv

LEMMA BatcherFlushTypes == ASSUME TypeInv, BatcherFlush PROVE TypeInv'
<1>1. Emit(acc) /\ UNCHANGED <<tokVars, bucketQ, batchQ, gpuVars>>
  BY DEF BatcherFlush
<1>2. BatcherInv'
  BY <1>1, EmitTypes, PendingFits DEF TypeInv, BatcherInv
<1>3. TokInv' /\ ChannelInv' /\ GpuInv' /\ DeviceInv'
  BY <1>1, TokKept, ChannelKept, GpuKept, DeviceKept DEF TypeInv, gpuVars
<1>4. Clocks'
  BY FlushClocks DEF TypeInv
<1> QED BY <1>2, <1>3, <1>4 DEF TypeInv

LEMMA BatcherSendTypes == ASSUME TypeInv, BatcherSend PROVE TypeInv'
<1>1. /\ Len(batchQ) < BatchCap /\ batchQ' = Append(batchQ, ready)
      /\ bpc' = "recv" /\ ready' = NoBatch
      /\ UNCHANGED <<tokVars, bucketQ, acc, ages, idle, gpuVars>>
  BY DEF BatcherSend
<1>2. BatcherInv'
  BY <1>1, NoBatchFine DEF TypeInv, BatcherInv
<1>3. ChannelInv'
  <2>1. /\ batchQ' \in Seq(FineBatch) /\ Len(batchQ') = Len(batchQ) + 1 /\ Len(batchQ) \in Nat
    BY <1>1, AppendProperties, LenProperties DEF TypeInv, ChannelInv, BatcherInv
  <2> QED BY <1>1, <2>1, PathAssumption DEF TypeInv, ChannelInv
<1>4. TokInv' /\ GpuInv' /\ DeviceInv'
  BY <1>1, TokKept, GpuKept, DeviceKept DEF TypeInv, gpuVars
<1>5. Clocks'
  BY <1>1 DEF TypeInv, Clocks
<1> QED BY <1>2, <1>3, <1>4, <1>5 DEF TypeInv

LEMMA BatcherExitTypes == ASSUME TypeInv, BatcherExit PROVE TypeInv'
<1>1. bpc' = "done" /\ UNCHANGED <<tokVars, bucketQ, acc, ages, idle, ready, batchQ, gpuVars>>
  BY DEF BatcherExit
<1>2. BatcherInv'
  BY <1>1 DEF TypeInv, BatcherInv
<1>3. TokInv' /\ ChannelInv' /\ GpuInv' /\ DeviceInv'
  BY <1>1, TokKept, ChannelKept, GpuKept, DeviceKept DEF TypeInv, gpuVars
<1>4. Clocks'
  BY <1>1 DEF TypeInv, Clocks
<1> QED BY <1>2, <1>3, <1>4 DEF TypeInv

LEMMA TickTypes == ASSUME TypeInv, Tick PROVE TypeInv'
<1>1. UNCHANGED <<tokVars, bucketQ, bpc, acc, ready, batchQ, gpuVars>>
  BY DEF Tick
<1>2. TokInv' /\ BatcherInv' /\ ChannelInv' /\ GpuInv' /\ DeviceInv'
  BY <1>1, TokKept, BatcherKept, ChannelKept, GpuKept, DeviceKept DEF TypeInv, gpuVars
<1>3. Clocks'
  BY TickClocks DEF TypeInv
<1> QED BY <1>2, <1>3 DEF TypeInv

-----------------------------------------------------------------------------
LEMMA GpuRecvTypes == ASSUME TypeInv, GpuRecv PROVE TypeInv'
<1>1. /\ batchQ # <<>> /\ gpu' = [pc |-> "infer", batch |-> Head(batchQ)] /\ batchQ' = Tail(batchQ)
      /\ UNCHANGED <<tokVars, bucketQ, batcherVars, stream, runnerVars>>
  BY DEF GpuRecv
<1>2. Head(batchQ) \in FineBatch /\ batchQ' \in Seq(FineBatch)
      /\ Len(batchQ') = Len(batchQ) - 1 /\ Len(batchQ) \in Nat
  BY <1>1, HeadTailProperties, LenProperties DEF TypeInv, ChannelInv
<1>3. ChannelInv'
  BY <1>1, <1>2, PathAssumption DEF TypeInv, ChannelInv
<1>4. GpuInv'
  BY <1>1, <1>2 DEF TypeInv, GpuInv
<1>5. TokInv' /\ BatcherInv' /\ DeviceInv'
  BY <1>1, TokKept, BatcherKept, DeviceKept DEF TypeInv, batcherVars
<1>6. Clocks'
  BY <1>1 DEF TypeInv, batcherVars, Clocks
<1> QED BY <1>3, <1>4, <1>5, <1>6 DEF TypeInv

LEMMA SentTypes ==
    ASSUME GpuInv, NEW v \in Seq(Seq(Nat)), Sent(v)
    PROVE  stream' \in Seq(Answer)
<1>1. gpu.batch.ids \in Seq(Nat)
  BY DEF GpuInv, FineBatch, Batch
<1>2. [ids |-> gpu.batch.ids, vecs |-> v, failed |-> v = <<>>] \in Answer
  BY <1>1 DEF Answer
<1> QED BY <1>2, AppendProperties DEF GpuInv, Sent

\* The rows of a batch are copied out of the pinned memory.
LEMMA OutputType ==
    ASSUME TypeInv
    PROVE  [i \in DOMAIN gpu.batch.ids |-> pinned[i]] \in Seq(Seq(Nat))
<1>1. gpu.batch.ids \in Seq(Nat) /\ Len(gpu.batch.ids) <= BatchSize
  BY DEF TypeInv, GpuInv, FineBatch, Batch
<1>2. PICK n \in Nat : n = Len(gpu.batch.ids) /\ DOMAIN gpu.batch.ids = 1..n
  BY <1>1, LenProperties
<1>3. \A i \in 1..n : i \in Slots
  BY <1>1, <1>2, ShapeAssumption DEF Slots
<1>4. [i \in 1..n |-> pinned[i]] \in [1..n -> Seq(Nat)]
  BY <1>3 DEF TypeInv, DeviceInv
<1> QED BY <1>2, <1>4, IsASeq

LEMMA GpuOutputTypes == ASSUME TypeInv, GpuOutput PROVE TypeInv'
<1>1. UNCHANGED <<tokVars, bucketQ, batcherVars, batchQ, runnerVars>>
  BY DEF GpuOutput
<1>2. GpuInv'
  <2>1. CASE "pinned" \in alloc
    <3>1. gpu' = [pc |-> "recv", batch |-> NoBatch] /\ Sent([i \in DOMAIN gpu.batch.ids |-> pinned[i]])
      BY <2>1 DEF GpuOutput
    <3>2. stream' \in Seq(Answer)
      BY <3>1, OutputType, SentTypes DEF TypeInv
    <3> QED BY <3>1, <3>2, NoBatchFine DEF GpuInv
  <2>2. CASE "pinned" \notin alloc
    BY <2>2 DEF GpuOutput, TypeInv, GpuInv
  <2> QED BY <2>1, <2>2
<1>3. TokInv' /\ BatcherInv' /\ ChannelInv' /\ DeviceInv'
  BY <1>1, TokKept, BatcherKept, ChannelKept, DeviceKept DEF TypeInv, batcherVars
<1>4. Clocks'
  BY <1>1 DEF TypeInv, batcherVars, Clocks
<1> QED BY <1>2, <1>3, <1>4 DEF TypeInv

LEMMA GpuExitTypes == ASSUME TypeInv, GpuExit PROVE TypeInv'
<1>1. /\ gpu' = [gpu EXCEPT !.pc = "done"] /\ Destroy
      /\ UNCHANGED <<tokVars, bucketQ, batcherVars, batchQ, stream>>
  BY DEF GpuExit
<1>2. GpuInv'
  BY <1>1 DEF TypeInv, GpuInv
<1>3. DeviceInv'
  <2>1. <<>> \in Seq(ComputeOp(event'.made)) /\ <<>> \in Seq(CopyOp)
    OBVIOUS
  <2> QED BY <1>1, <2>1 DEF Destroy, TypeInv, DeviceInv
<1>4. TokInv' /\ BatcherInv' /\ ChannelInv'
  BY <1>1, TokKept, BatcherKept, ChannelKept DEF TypeInv, batcherVars
<1>5. Clocks'
  BY <1>1 DEF TypeInv, batcherVars, Clocks
<1> QED BY <1>2, <1>3, <1>4, <1>5 DEF TypeInv

\* What infer may lose is finite.
LEMMA LostIsFinite ==
    ASSUME NEW lost \in SUBSET {"ids", "mask", "record", "wait", "out"}
    PROVE  IsFiniteSet(lost) /\ Cardinality(lost) \in Nat
<1>1. IsFiniteSet({"ids"})
  BY FS_Singleton
<1>2. IsFiniteSet({"ids", "mask"})
  <2>1. {"ids", "mask"} = {"ids"} \cup {"mask"}
    OBVIOUS
  <2> QED BY <1>1, <2>1, FS_AddElement
<1>3. IsFiniteSet({"ids", "mask", "record"})
  <2>1. {"ids", "mask", "record"} = {"ids", "mask"} \cup {"record"}
    OBVIOUS
  <2> QED BY <1>2, <2>1, FS_AddElement
<1>4. IsFiniteSet({"ids", "mask", "record", "wait"})
  <2>1. {"ids", "mask", "record", "wait"} = {"ids", "mask", "record"} \cup {"wait"}
    OBVIOUS
  <2> QED BY <1>3, <2>1, FS_AddElement
<1>5. IsFiniteSet({"ids", "mask", "record", "wait", "out"})
  <2>1. {"ids", "mask", "record", "wait", "out"} = {"ids", "mask", "record", "wait"} \cup {"out"}
    OBVIOUS
  <2> QED BY <1>4, <2>1, FS_AddElement
<1> QED BY <1>5, FS_Subset, FS_CardinalityType

\* infer, with what it queues and what of that is lost.
Queued(ids, mask) ==
    IF broken \/ ~HasShape(ids, mask) THEN {}
    ELSE ({"ids", "mask"} \cap alloc) \cup
         (IF EnqueueOk THEN {"run", "record", "wait"} ELSE {}) \cup
         (IF EnqueueOk /\ "pinned" \in alloc THEN {"out"} ELSE {})
InferWith(ids, mask, lost) ==
    LET Given(o) == IF o.op \in Queued(ids, mask) \ lost THEN <<o>> ELSE <<>>
    IN  /\ lost \subseteq Queued(ids, mask)
        /\ faults + Cardinality(lost) <= MaxFaults
        /\ faults' = faults + Cardinality(lost)
        /\ event' = [event EXCEPT !.made = IF "record" \in Queued(ids, mask) \ lost THEN @ + 1 ELSE @]
        /\ compute' = compute \o Given(Op("ids", ids)) \o Given(Op("mask", mask))
                              \o Given(Op("run", 0)) \o Given(Op("record", event'.made))
        /\ copy' = copy \o Given(Op("wait", event'.made)) \o Given(Op("out", 0))
        /\ UNCHANGED <<alloc, dev, pinned, broken>>

LEMMA InferTypes ==
    ASSUME DeviceInv, NEW ids \in [Cells -> Nat], NEW mask \in [Cells -> {0, 1}], Infer(ids, mask)
    PROVE  DeviceInv'
<1>1. PICK lost \in SUBSET {"ids", "mask", "record", "wait", "out"} : InferWith(ids, mask, lost)
  BY DEF Infer, InferWith, Queued
<1> DEFINE Given(o) == IF o.op \in Queued(ids, mask) \ lost THEN <<o>> ELSE <<>>
<1>2. PICK m \in Nat : m = event.made
  BY DEF DeviceInv
<1>3. PICK k \in Nat : k = event'.made /\ m <= k /\ event'.done = event.done
                       /\ event' \in [made : Nat, done : Nat]
  <2>1. PICK k : k = IF "record" \in Queued(ids, mask) \ lost THEN m + 1 ELSE m
    OBVIOUS
  <2>2. event' = [event EXCEPT !.made = k]
    BY <1>1, <1>2, <2>1 DEF InferWith
  <2>3. k \in Nat /\ m <= k
    BY <1>2, <2>1
  <2> QED BY <2>2, <2>3 DEF DeviceInv
<1>4. compute \in Seq(ComputeOp(k))
  <2>1. ComputeOp(m) \subseteq ComputeOp(k)
    BY <1>3 DEF ComputeOp
  <2> QED BY <1>2, <2>1, SeqMonotonic DEF DeviceInv
<1>5. ASSUME NEW o, NEW S, o \in S PROVE Given(o) \in Seq(S)
  BY <1>5
<1>6. /\ Op("ids", ids) \in ComputeOp(k) /\ Op("mask", mask) \in ComputeOp(k)
      /\ Op("run", 0) \in ComputeOp(k) /\ Op("record", k) \in ComputeOp(k)
      /\ Op("wait", k) \in CopyOp /\ Op("out", 0) \in CopyOp
  <2>1. k \in 0..k
    OBVIOUS
  <2> QED BY <2>1 DEF Op, ComputeOp, CopyOp
<1>7. PICK g1, g2, g3, g4 \in Seq(ComputeOp(k)) :
        compute' = compute \o g1 \o g2 \o g3 \o g4
  <2>1. /\ Given(Op("ids", ids)) \in Seq(ComputeOp(k)) /\ Given(Op("mask", mask)) \in Seq(ComputeOp(k))
        /\ Given(Op("run", 0)) \in Seq(ComputeOp(k)) /\ Given(Op("record", k)) \in Seq(ComputeOp(k))
    <3> HIDE DEF Given
    <3> QED BY <1>5, <1>6
  <2>2. compute' = compute \o Given(Op("ids", ids)) \o Given(Op("mask", mask))
                           \o Given(Op("run", 0)) \o Given(Op("record", k))
    BY <1>1, <1>3 DEF InferWith
  <2> HIDE DEF Given
  <2> QED BY <2>1, <2>2
<1>8. compute' \in Seq(ComputeOp(k))
  BY <1>4, <1>7, ConcatProperties
<1>9. PICK h1, h2 \in Seq(CopyOp) : copy' = copy \o h1 \o h2
  <2>1. Given(Op("wait", k)) \in Seq(CopyOp) /\ Given(Op("out", 0)) \in Seq(CopyOp)
    <3> HIDE DEF Given
    <3> QED BY <1>5, <1>6
  <2>2. copy' = copy \o Given(Op("wait", k)) \o Given(Op("out", 0))
    BY <1>1, <1>3 DEF InferWith
  <2> HIDE DEF Given
  <2> QED BY <2>1, <2>2
<1>10. copy' \in Seq(CopyOp)
  BY <1>9, ConcatProperties DEF DeviceInv
<1>11. faults' \in 0..MaxFaults
  <2>1. Cardinality(lost) \in Nat
    BY LostIsFinite
  <2> QED BY <1>1, <2>1, ShapeAssumption DEF DeviceInv, InferWith
<1>12. event'.done <= event'.made
  BY <1>2, <1>3 DEF DeviceInv
<1>13. UNCHANGED <<alloc, dev, pinned, broken>>
  BY <1>1 DEF InferWith
<1> HIDE DEF Given
<1> QED BY <1>3, <1>8, <1>10, <1>11, <1>12, <1>13 DEF DeviceInv

LEMMA GpuInferTypes == ASSUME TypeInv, GpuInfer PROVE TypeInv'
<1>1. PICK ids \in [Cells -> Nat], mask \in [Cells -> {0, 1}] :
        ids = gpu.batch.input_ids /\ mask = gpu.batch.attention_mask
  BY DEF TypeInv, GpuInv, FineBatch, Batch
<1>2. /\ Infer(ids, mask)
      /\ IF InferOk(ids, mask) THEN gpu' = [gpu EXCEPT !.pc = "wait"] /\ UNCHANGED stream
         ELSE gpu' = [pc |-> "recv", batch |-> NoBatch] /\ Sent(<<>>)
      /\ UNCHANGED <<tokVars, bucketQ, batcherVars, batchQ>>
  BY <1>1 DEF GpuInfer
<1>3. DeviceInv'
  BY <1>2, InferTypes DEF TypeInv
<1>4. GpuInv'
  <2>1. CASE InferOk(ids, mask)
    BY <1>2, <2>1 DEF TypeInv, GpuInv
  <2>2. CASE ~InferOk(ids, mask)
    <3>1. <<>> \in Seq(Seq(Nat))
      OBVIOUS
    <3>2. stream' \in Seq(Answer)
      BY <1>2, <2>2, <3>1, SentTypes DEF TypeInv
    <3> QED BY <1>2, <2>2, <3>2, NoBatchFine DEF GpuInv
  <2> QED BY <2>1, <2>2
<1>5. TokInv' /\ BatcherInv' /\ ChannelInv'
  BY <1>2, TokKept, BatcherKept, ChannelKept DEF TypeInv, batcherVars
<1>6. Clocks'
  BY <1>2 DEF TypeInv, batcherVars, Clocks
<1> QED BY <1>3, <1>4, <1>5, <1>6 DEF TypeInv

LEMMA ComputeTypes == ASSUME DeviceInv, ComputeStep PROVE DeviceInv'
<1>1. PICK o : o = Head(compute)
  OBVIOUS
<1>2. /\ compute # <<>>
      /\ dev' = CASE o.op = "ids"  -> [dev EXCEPT !.ids = o.data]
                  [] o.op = "mask" -> [dev EXCEPT !.mask = o.data]
                  [] o.op = "run"  -> [dev EXCEPT !.out =
                                          [r \in Slots |-> Vector(dev.ids, dev.mask, r)]]
                  [] OTHER         -> dev
      /\ event' = IF o.op = "record" THEN [event EXCEPT !.done = o.data] ELSE event
      /\ compute' = Tail(compute)
      /\ UNCHANGED <<alloc, copy, pinned, broken, faults>>
  BY <1>1 DEF ComputeStep
<1>3. o \in ComputeOp(event.made) /\ compute' \in Seq(ComputeOp(event.made))
  BY <1>1, <1>2, HeadTailProperties DEF DeviceInv
<1>4. PICK out \in [Slots -> Seq(Nat)] : out = [r \in Slots |-> Vector(dev.ids, dev.mask, r)]
  BY VectorType DEF DeviceInv
<1>5. dev' \in [ids : [Cells -> Nat], mask : [Cells -> {0, 1}], out : [Slots -> Seq(Nat)]]
  <2>1. CASE o \in [op : {"ids"}, data : [Cells -> Nat]]
    <3>1. o.op = "ids" /\ o.data \in [Cells -> Nat]
      BY <2>1
    <3>2. dev' = [dev EXCEPT !.ids = o.data]
      BY <1>2, <3>1
    <3> QED BY <3>1, <3>2 DEF DeviceInv
  <2>2. CASE o \in [op : {"mask"}, data : [Cells -> {0, 1}]]
    <3>1. o.op = "mask" /\ o.data \in [Cells -> {0, 1}]
      BY <2>2
    <3>2. dev' = [dev EXCEPT !.mask = o.data]
      BY <1>2, <3>1
    <3> QED BY <3>1, <3>2 DEF DeviceInv
  <2>3. CASE o \in [op : {"run"}, data : {0}]
    <3>1. o.op = "run"
      BY <2>3
    <3>2. dev' = [dev EXCEPT !.out = out]
      BY <1>2, <1>4, <3>1
    <3> QED BY <3>2 DEF DeviceInv
  <2>4. CASE o \in [op : {"record"}, data : 0..event.made]
    <3>1. o.op = "record"
      BY <2>4
    <3>2. dev' = dev
      BY <1>2, <3>1
    <3> QED BY <3>2 DEF DeviceInv
  <2> QED BY <1>3, <2>1, <2>2, <2>3, <2>4 DEF ComputeOp
<1>6. event' \in [made : Nat, done : Nat] /\ event'.done <= event'.made /\ event'.made = event.made
  <2>1. CASE o.op = "record"
    <3>1. o.data \in 0..event.made
      BY <1>3, <2>1 DEF ComputeOp
    <3>2. event' = [event EXCEPT !.done = o.data]
      BY <1>2, <2>1
    <3>3. event = [made |-> event.made, done |-> event.done] /\ event.made \in Nat
      BY DEF DeviceInv
    <3>4. event' = [made |-> event.made, done |-> o.data]
      BY <3>2, <3>3
    <3>5. o.data \in Nat /\ o.data <= event.made
      BY <3>1, <3>3
    <3>6. event'.made = event.made /\ event'.done = o.data
      BY <3>4
    <3> QED BY <3>3, <3>4, <3>5, <3>6
  <2>2. CASE o.op # "record"
    BY <1>2, <2>2 DEF DeviceInv
  <2> QED BY <2>1, <2>2
<1> QED BY <1>2, <1>3, <1>5, <1>6 DEF DeviceInv

LEMMA CopyTypes == ASSUME DeviceInv, CopyStep PROVE DeviceInv'
<1>1. copy' \in Seq(CopyOp)
  BY HeadTailProperties DEF DeviceInv, CopyStep
<1>2. pinned' \in [Slots -> Seq(Nat)]
  BY DEF DeviceInv, CopyStep
<1> QED BY <1>1, <1>2 DEF DeviceInv, CopyStep

LEMMA BreakTypes == ASSUME DeviceInv, Break PROVE DeviceInv'
<1>1. PICK R \in SUBSET Slots :
        pinned' = [r \in Slots |-> IF r \in R THEN dev.out[r] ELSE pinned[r]]
  BY DEF Break
<1>2. pinned' \in [Slots -> Seq(Nat)]
  BY <1>1 DEF DeviceInv
<1>3. faults' \in 0..MaxFaults
  BY ShapeAssumption DEF DeviceInv, Break
<1> QED BY <1>2, <1>3 DEF DeviceInv, Break

LEMMA DeviceTypes ==
    ASSUME TypeInv, Device(ComputeStep) \/ Device(CopyStep) \/ Device(Break)
    PROVE  TypeInv'
<1>1. UNCHANGED <<tokVars, bucketQ, batcherVars, batchQ, gpu, stream>>
  BY DEF Device
<1>2. DeviceInv'
  BY ComputeTypes, CopyTypes, BreakTypes DEF TypeInv, Device
<1>3. TokInv' /\ BatcherInv' /\ ChannelInv' /\ GpuInv'
  BY <1>1, TokKept, BatcherKept, ChannelKept, GpuKept DEF TypeInv, batcherVars
<1>4. Clocks'
  BY <1>1 DEF TypeInv, batcherVars, Clocks
<1> QED BY <1>2, <1>3, <1>4 DEF TypeInv

LEMMA TypeStep == ASSUME TypeInv, [Next]_vars PROVE TypeInv'
<1>1. CASE TokSkip \/ TokSend \/ TokExit
  BY <1>1, TokSkipTypes, TokSendTypes, TokExitTypes
<1>2. CASE BatcherRecv \/ BatcherTimeout \/ BatcherFlush \/ BatcherSend \/ BatcherExit \/ Tick
  BY <1>2, BatcherRecvTypes, BatcherTimeoutTypes, BatcherFlushTypes, BatcherSendTypes,
     BatcherExitTypes, TickTypes
<1>3. CASE GpuRecv \/ GpuInfer \/ GpuOutput \/ GpuExit
  BY <1>3, GpuRecvTypes, GpuInferTypes, GpuOutputTypes, GpuExitTypes
<1>4. CASE Device(ComputeStep) \/ Device(CopyStep) \/ Device(Break)
  BY <1>4, DeviceTypes
<1>5. CASE Stopped \/ UNCHANGED vars
  <2>1. UNCHANGED <<tokVars, bucketQ, batcherVars, batchQ, gpuVars>>
    BY <1>5 DEF Stopped, vars
  <2>2. TokInv' /\ BatcherInv' /\ ChannelInv' /\ GpuInv' /\ DeviceInv'
    BY <2>1, TokKept, BatcherKept, ChannelKept, GpuKept, DeviceKept DEF TypeInv, batcherVars, gpuVars
  <2>3. Clocks'
    BY <2>1 DEF TypeInv, batcherVars, Clocks
  <2> QED BY <2>2, <2>3 DEF TypeInv
<1> QED BY <1>1, <1>2, <1>3, <1>4, <1>5 DEF Next

\* The invariant gives each variable its type.
LEMMA TypesImply == ASSUME TypeInv PROVE TypeOK
<1>1. RunnerTypeOK
  <2>1. PICK m \in Nat : m = event.made
    BY DEF TypeInv, DeviceInv
  <2>2. compute \in Seq([op : {"ids", "mask"}, data : [Cells -> Nat]]
                        \cup [op : {"run", "record"}, data : Nat])
    <3>1. ComputeOp(m) \subseteq [op : {"ids", "mask"}, data : [Cells -> Nat]]
                                 \cup [op : {"run", "record"}, data : Nat]
      <4>1. [Cells -> {0, 1}] \subseteq [Cells -> Nat]
        OBVIOUS
      <4>2. 0..m \subseteq Nat /\ {0} \subseteq Nat
        OBVIOUS
      <4> QED BY <4>1, <4>2 DEF ComputeOp
    <3> QED BY <2>1, <3>1, SeqMonotonic DEF TypeInv, DeviceInv
  <2>3. copy \in Seq([op : {"wait", "out"}, data : Nat])
    BY DEF TypeInv, DeviceInv, CopyOp
  <2>4. event.made \in Nat /\ event.done \in 0..event.made
    BY DEF TypeInv, DeviceInv
  <2> QED BY <2>2, <2>3, <2>4 DEF TypeInv, DeviceInv, RunnerTypeOK
<1>2. /\ taken \in 0..Len(texts) /\ tokpc \in {"run", "done"}
      /\ DOMAIN cache.runtime \subseteq Word /\ Counts(cache) \in Counters
      /\ reported \in Counters /\ live \in Counters /\ flush_ctr \in 0..(FlushEvery - 1)
  BY CountsType DEF TypeInv, TokInv, CacheOk
<1>3. bucketQ \in Seq([id : Nat, row : Seq(Nat), hash : {0}]) /\ Len(bucketQ) <= BucketCap
  BY DEF TypeInv, ChannelInv, Item, ItemOf
<1>4. FineBatch \subseteq Batch
  BY DEF FineBatch
<1>5. bpc \in {"recv", "send", "done"} /\ ready \in Batch
  BY <1>4 DEF TypeInv, BatcherInv
<1>6. acc.rows \in Seq(Seq(Nat)) /\ acc.ids \in Seq(Nat) /\ acc.hashes \in Seq({0})
  BY DEF TypeInv, BatcherInv, Rows, AccOf
<1>7. ages \in Seq(Nat) /\ idle \in 0..Timeout
  BY DEF TypeInv, Clocks
<1>8. batchQ \in Seq(Batch) /\ Len(batchQ) <= BatchCap
  BY <1>4, SeqMonotonic DEF TypeInv, ChannelInv
<1>9. /\ gpu.pc \in {"recv", "infer", "wait", "done", "crashed"} /\ gpu.batch \in Batch
      /\ stream \in Seq([ids : Seq(Nat), vecs : Seq(Seq(Nat)), failed : BOOLEAN])
  BY <1>4 DEF TypeInv, GpuInv, Answer
<1> QED BY <1>1, <1>2, <1>3, <1>5, <1>6, <1>7, <1>8, <1>9 DEF TypeOK

LEMMA CountersImply == ASSUME TypeInv PROVE CountersAddUp
BY DEF TypeInv, TokInv, CountersAddUp

\* Every variable keeps its type and every channel its bound: the cache's
\* words are words, the arrays have the shape of the session, and the device
\* has completed no event that was not recorded.
THEOREM TypeCorrect == Spec => []TypeOK
<1>1. TypeInv /\ [Next]_vars => TypeInv'
  BY TypeStep
<1> QED BY <1>1, TypeInit, TypesImply, PTL DEF Spec

\* However often the worker reports to the live counters along the way, at
\* the end they have counted each of its look-ups once.
THEOREM CountersCorrect == Spec => []CountersAddUp
<1>1. TypeInv /\ [Next]_vars => TypeInv'
  BY TypeStep
<1> QED BY <1>1, TypeInit, CountersImply, PTL DEF Spec

-----------------------------------------------------------------------------
(* Which messages are filtered out.  A cut takes at most one character more *)
(* than it must, so a long text stays long enough if the shortest text that *)
(* is taken is shorter than the longest by a character.                     *)
RoomForShortest == \A s \in Stem : MinBytes + Width[s] <= MaxBytes + 1

LEMMA RejectedIsShort ==
    ASSUME RoomForShortest, NEW t \in Seq(Stem), Rejected(t)
    PROVE  CleanBytes(t) < MinBytes
<1>1. PICK ws \in Seq(Stem) : ws = CleanWords(t)
  BY CleanWordsType
<1>2. PICK J \in Nat : J = Joined(ws)
  BY JoinedType
<1>3. PICK n \in Nat : n = Len(ws) /\ DOMAIN ws = 1..n
  BY LenProperties
<1> DEFINE start(i) == IF i = 1 THEN 0 ELSE Joined(SubSeq(ws, 1, i - 1)) + 1
           room(i)  == IF start(i) < MaxBytes THEN MaxBytes - start(i) ELSE 0
           kept(i)  == IF room(i) >= Bytes[ws[i]] THEN Bytes[ws[i]]
                       ELSE room(i) - (room(i) % Width[ws[i]])
           split    == {i \in DOMAIN ws : room(i) \in 1..(Bytes[ws[i]] - 1)}
<1>4. Cut(ws).bytes = IF J <= MaxBytes THEN J ELSE IF split = {} THEN MaxBytes
                      ELSE LET i == CHOOSE j \in split : TRUE IN start(i) + kept(i)
  BY <1>2 DEF Cut
<1>5. Cut(ws).bytes < MinBytes
  BY <1>1 DEF Rejected, Normalize
<1>6. PICK M \in Nat : M = MaxBytes
  BY TextAssumption
<1>7. MinBytes \in Nat
  BY TextAssumption
<1>8. CASE J <= MaxBytes
  BY <1>1, <1>2, <1>4, <1>5, <1>8 DEF CleanBytes
<1>9. CASE ~(J <= MaxBytes)
  <2>1. ASSUME NEW i \in split PROVE start(i) + kept(i) \in Int /\ start(i) + kept(i) >= MinBytes
    <3>1. i \in 1..n /\ room(i) \in 1..(Bytes[ws[i]] - 1)
      BY <1>3
    <3>2. PICK s \in Stem : s = ws[i]
      BY <1>3, <3>1, ElementOfSeq
    <3>3. PICK b \in Nat, c \in Nat \ {0} : b = Bytes[s] /\ c = Width[s]
      BY TextAssumption
    <3>4. PICK st \in Nat : st = start(i)
      <4>1. CASE i = 1
        BY <4>1
      <4>2. CASE i # 1
        <5>1. \A j \in 1..(i - 1) : ws[j] \in Stem
          BY <1>3, <3>1, ElementOfSeq
        <5>2. SubSeq(ws, 1, i - 1) \in Seq(Stem)
          <6>1. i - 1 \in Int
            BY <3>1
          <6> QED BY <5>1, <6>1, SubSeqProperties
        <5>3. Joined(SubSeq(ws, 1, i - 1)) \in Nat
          BY <5>2, JoinedType
        <5> QED BY <4>2, <5>3
      <4> QED BY <4>1, <4>2
    <3>5. PICK ro : ro = room(i)
      OBVIOUS
    <3>6. PICK k : k = kept(i)
      OBVIOUS
    <3>7. ro = (IF st < M THEN M - st ELSE 0) /\ ro \in 1..(b - 1)
      BY <1>6, <3>1, <3>2, <3>3, <3>4, <3>5
    <3>8. k = IF ro >= b THEN b ELSE ro - (ro % c)
      BY <3>2, <3>3, <3>5, <3>6
    <3>9. MinBytes + c <= M + 1
      BY <1>6, <3>3 DEF RoomForShortest
    <3> HIDE DEF start, room, kept, split
    <3>10. ro \in Nat /\ ro = M - st /\ ~(ro >= b)
      BY <1>6, <3>3, <3>4, <3>7
    <3>11. PICK m \in 0..(c - 1) : m = ro % c
      BY <3>3, <3>10
    <3>12. k = ro - m
      BY <3>8, <3>10, <3>11
    <3>13. st + k = M - m
      BY <1>6, <3>3, <3>4, <3>10, <3>11, <3>12
    <3>14. st + k \in Int /\ st + k >= MinBytes
      BY <1>6, <1>7, <3>3, <3>9, <3>11, <3>13
    <3> QED BY <3>4, <3>6, <3>14
  <2>2. CASE split = {}
    <3>1. Cut(ws).bytes = MaxBytes
      BY <1>2, <1>4, <1>9, <2>2
    <3>2. n # 0
      <4>1. SUFFICES ASSUME n = 0 PROVE FALSE
        OBVIOUS
      <4>2. Joined(ws) = After("joined", 0, ws, 0)
        BY <1>3, <4>1, JoinedIsAfter
      <4>3. J = 0
        BY <1>2, <4>2, AfterNone
      <4> QED BY <1>6, <1>9, <4>3
    <3>3. ws[1] \in Stem
      BY <1>3, <3>2, ElementOfSeq
    <3>4. PICK c \in Nat \ {0} : c = Width[ws[1]]
      BY <3>3, TextAssumption
    <3>5. MinBytes + c <= M + 1
      BY <1>6, <3>3, <3>4 DEF RoomForShortest
    <3> HIDE DEF split
    <3> QED BY <1>5, <1>6, <1>7, <3>1, <3>4, <3>5
  <2>3. CASE split # {}
    <3>1. PICK i \in split : i = CHOOSE j \in split : TRUE
      BY <2>3
    <3>2. Cut(ws).bytes = start(i) + kept(i)
      BY <1>2, <1>4, <1>9, <2>3, <3>1
    <3>3. start(i) + kept(i) \in Int /\ start(i) + kept(i) >= MinBytes
      BY <2>1
    <3> HIDE DEF start, room, kept, split
    <3> QED BY <1>5, <1>7, <3>2, <3>3
  <2> QED BY <2>2, <2>3
<1> QED BY <1>8, <1>9

\* What is sent for a batch is failed when it is empty.
LEMMA SentIsNoSkip ==
    ASSUME GpuInv, NEW v \in Seq(Seq(Nat)), Sent(v), UNCHANGED texts, SkippedAreShort
    PROVE  SkippedAreShort'
<1>1. PICK e : e = [ids |-> gpu.batch.ids, vecs |-> v, failed |-> v = <<>>]
  OBVIOUS
<1>2. e.vecs = v /\ (v = <<>> => e.failed) /\ stream' = Append(stream, e)
  BY <1>1 DEF Sent
<1>3. e \in Answer
  BY <1>1 DEF Answer, GpuInv, FineBatch, Batch
<1>4. \A i \in DOMAIN stream' : stream'[i] = e \/ \E j \in DOMAIN stream : stream'[i] = stream[j]
  <2>1. stream \in Seq(Answer)
    BY DEF GpuInv
  <2> QED BY <1>2, <1>3, <2>1, AppendOnly
<1> QED BY <1>2, <1>4 DEF SkippedAreShort

LEMMA StepSkipped ==
    ASSUME RoomForShortest, TypeInv, SkippedAreShort, [Next]_vars
    PROVE  SkippedAreShort'
<1>1. CASE UNCHANGED <<texts, stream>>
  <2>1. texts' = texts /\ stream' = stream
    BY <1>1
  <2> QED BY <2>1 DEF SkippedAreShort
<1>2. CASE TokSkip
  <2>1. PICK e : e = [ids |-> <<taken + 1>>, vecs |-> <<>>, failed |-> FALSE]
    OBVIOUS
  <2>2. stream' = Append(stream, e) /\ texts' = texts /\ Rejected(texts[taken + 1])
        /\ tokpc = "run" /\ taken < Len(texts)
    BY <1>2, <2>1 DEF TokSkip, More, NextText
  <2>3. taken \in Nat /\ taken + 1 \in 1..Len(texts)
    BY <2>2, LenProperties DEF TypeInv, TokInv
  <2>4. texts[taken + 1] \in Seq(Stem)
    BY <2>3, ElementOfSeq DEF TypeInv, TokInv
  <2>5. CleanBytes(texts[taken + 1]) < MinBytes
    BY <2>2, <2>4, RejectedIsShort
  <2>6. e.ids[1] = taken + 1
    BY <2>1
  <2>7. e \in Answer
    BY <2>1, <2>3 DEF Answer
  <2>8. \A i \in DOMAIN stream' : stream'[i] = e \/ \E j \in DOMAIN stream : stream'[i] = stream[j]
    <3>1. stream \in Seq(Answer)
      BY DEF TypeInv, GpuInv
    <3> QED BY <2>2, <2>7, <3>1, AppendOnly
  <2> QED BY <2>2, <2>5, <2>6, <2>8 DEF SkippedAreShort
<1>3. CASE GpuInfer
  <2>1. UNCHANGED stream \/ Sent(<<>>)
    BY <1>3 DEF GpuInfer
  <2>2. <<>> \in Seq(Seq(Nat)) /\ UNCHANGED texts
    BY <1>3 DEF GpuInfer, tokVars
  <2> QED BY <1>1, <2>1, <2>2, SentIsNoSkip DEF TypeInv
<1>4. CASE GpuOutput
  <2>1. UNCHANGED stream \/ Sent([i \in DOMAIN gpu.batch.ids |-> pinned[i]])
    BY <1>4 DEF GpuOutput
  <2>2. UNCHANGED texts
    BY <1>4 DEF GpuOutput, tokVars
  <2> QED BY <1>1, <2>1, <2>2, OutputType, SentIsNoSkip DEF TypeInv
<1>5. CASE TokSend \/ TokExit
  BY <1>1, <1>5 DEF TokSend, TokExit, gpuVars
<1>6. CASE BatcherRecv \/ BatcherTimeout \/ BatcherFlush \/ BatcherSend \/ BatcherExit \/ Tick
  BY <1>1, <1>6 DEF BatcherRecv, BatcherTimeout, BatcherFlush, BatcherSend, BatcherExit, Tick,
                    gpuVars, tokVars
<1>7. CASE GpuRecv \/ GpuExit \/ Device(ComputeStep) \/ Device(CopyStep) \/ Device(Break)
  BY <1>1, <1>7 DEF GpuRecv, GpuExit, Device, tokVars
<1>8. CASE Stopped \/ UNCHANGED vars
  BY <1>1, <1>8 DEF Stopped, vars, tokVars, gpuVars
<1> QED BY <1>2, <1>3, <1>4, <1>5, <1>6, <1>7, <1>8 DEF Next

\* Only a text with too few bytes of real words is filtered out, if the limits
\* leave room for a character between the shortest text taken and the longest:
\* neither noise before the words nor the cut after them costs a message its
\* vector.
THEOREM SkippedCorrect == RoomForShortest => (Spec => []SkippedAreShort)
<1> SUFFICES ASSUME RoomForShortest PROVE Spec => []SkippedAreShort
  OBVIOUS
<1>1. Init => SkippedAreShort
  BY DEF Init, SkippedAreShort
<1>2. TypeInv /\ SkippedAreShort /\ [Next]_vars => TypeInv' /\ SkippedAreShort'
  BY TypeStep, StepSkipped
<1> QED BY <1>1, <1>2, TypeInit, PTL DEF Spec

-----------------------------------------------------------------------------
(* From the text to the arrays.  With buckets for at least the two special  *)
(* tokens, every row on its way to a batch is that of the message whose id  *)
(* it travels with, and fits the bucket, so that nothing is cut off it.     *)
RightItems ==
    {item \in Item : item.row = RightRow(item.id) /\ Len(item.row) <= SeqLen}

\* The arrays of b give the model the rows of its messages.
Spelled(b) ==
    \A r \in Slots : Vector(b.input_ids, b.attention_mask, r) =
        IF r \in DOMAIN b.ids THEN RightRow(b.ids[r]) ELSE <<>>

RowsInv ==
    /\ \A i \in DOMAIN bucketQ : bucketQ[i] \in RightItems
    /\ Holds(acc, RightItems)
    /\ Spelled(ready) /\ Spelled(gpu.batch)
    /\ \A i \in DOMAIN batchQ : Spelled(batchQ[i])

\* The texts do not change, so what is right stays right.
LEMMA SameRight ==
    ASSUME texts' = texts
    PROVE  /\ \A m : RightRow(m)' = RightRow(m)
           /\ RightItems' = RightItems
           /\ \A b : Spelled(b)' <=> Spelled(b)
<1>1. \A m : RightRow(m)' = RightRow(m)
  BY DEF RightRow
<1>2. RightItems' = RightItems
  BY <1>1 DEF RightItems
<1> QED BY <1>1, <1>2 DEF Spelled

LEMMA NoBatchSpelled == Spelled(NoBatch)
<1> SUFFICES ASSUME NEW r \in Slots
             PROVE  Vector(NoBatch.input_ids, NoBatch.attention_mask, r) = <<>> /\ r \notin DOMAIN NoBatch.ids
  BY DEF Spelled
<1>1. NoBatch.input_ids = Zeros /\ NoBatch.attention_mask = Zeros /\ DOMAIN NoBatch.ids = {}
  BY DEF NoBatch
<1>2. \A j \in 1..SeqLen : Zeros[Cell(r, j)] = 1 <=> j <= 0
  <2> SUFFICES ASSUME NEW j \in 1..SeqLen PROVE Zeros[Cell(r, j)] = 1 <=> j <= 0
    OBVIOUS
  <2>1. Cell(r, j) \in Cells
    BY CellPlace
  <2> QED BY <2>1 DEF Zeros
<1>3. 0 \in 0..SeqLen
  BY ShapeAssumption
<1>4. Vector(Zeros, Zeros, r) = [k \in 1..0 |-> Zeros[Cell(r, k)]]
  BY <1>2, <1>3, VectorOfRow
<1>5. [k \in 1..0 |-> Zeros[Cell(r, k)]] = <<>>
  OBVIOUS
<1> QED BY <1>1, <1>4, <1>5

LEMMA EmitSpells ==
    ASSUME NEW a \in Rows, Aligned(a), Len(a.rows) <= BatchSize, Holds(a, RightItems)
    PROVE  Spelled(Arrays(a)) /\ Holds(Drain(a), RightItems)
<1>1. \A i \in DOMAIN a.rows : a.rows[i] = RightRow(a.ids[i]) /\ Len(a.rows[i]) <= SeqLen
  <2> SUFFICES ASSUME NEW i \in DOMAIN a.rows
               PROVE  a.rows[i] = RightRow(a.ids[i]) /\ Len(a.rows[i]) <= SeqLen
    OBVIOUS
  <2>1. PICK e : e = [id |-> a.ids[i], row |-> a.rows[i], hash |-> a.hashes[i]]
    OBVIOUS
  <2>2. e \in RightItems /\ e.id = a.ids[i] /\ e.row = a.rows[i]
    BY <2>1 DEF Holds
  <2> QED BY <2>2 DEF RightItems
<1>2. DOMAIN a.ids = DOMAIN a.rows
  BY LenProperties DEF Aligned, Rows, AccOf
<1>3. Arrays(a).ids = a.ids
  BY ArraysType
<1>4. Spelled(Arrays(a))
  <2> SUFFICES ASSUME NEW r \in Slots
               PROVE  Vector(Arrays(a).input_ids, Arrays(a).attention_mask, r) =
                        IF r \in DOMAIN Arrays(a).ids THEN RightRow(Arrays(a).ids[r]) ELSE <<>>
    BY DEF Spelled
  <2>1. Vector(Arrays(a).input_ids, Arrays(a).attention_mask, r) =
           IF r \in DOMAIN a.rows THEN a.rows[r] ELSE <<>>
    BY <1>1, ArraysSpell
  <2> QED BY <1>1, <1>2, <1>3, <2>1
<1>5. Holds(Drain(a), RightItems)
  BY BuildBatchHolds DEF Rows
<1> QED BY <1>4, <1>5

LEMMA RowsInit == Init => RowsInv
<1> SUFFICES ASSUME Init PROVE RowsInv
  OBVIOUS
<1>1. bucketQ = <<>> /\ batchQ = <<>> /\ acc = EmptyAcc /\ ready = NoBatch /\ gpu.batch = NoBatch
  BY DEF Init
<1> QED BY <1>1, NoBatchSpelled, EmptyHolds DEF RowsInv

LEMMA TokSendRows == ASSUME TypeInv, RowsInv, MaxLen > 1, TokSend PROVE RowsInv'
<1>1. taken \in Nat /\ taken + 1 \in 1..Len(texts)
  BY LenProperties DEF TypeInv, TokInv, TokSend, More
<1>2. PICK w \in Seq(Word) : w = Normalized(texts[taken + 1])
  BY <1>1, ElementOfSeq, NormalizedType DEF TypeInv, TokInv
<1>3. PICK t : t = TokenizeOne(cache, w)
  OBVIOUS
<1>4. t.ids = RightRow(taken + 1) /\ t.ids \in Seq(Nat) /\ Len(t.ids) <= SeqLen
  BY <1>2, <1>3, TokensAreTheEncoders, PathAssumption DEF TypeInv, TokInv, RightRow
<1>5. PICK e : e = [id |-> taken + 1, row |-> t.ids, hash |-> 0]
  OBVIOUS
<1>6. e \in Item /\ e.id = taken + 1 /\ e.row = t.ids
  BY <1>1, <1>4, <1>5 DEF Item, ItemOf
<1>7. e \in RightItems
  BY <1>4, <1>6 DEF RightItems
<1>8. /\ bucketQ' = Append(bucketQ, e)
      /\ texts' = texts /\ acc' = acc /\ ready' = ready /\ batchQ' = batchQ /\ gpu' = gpu
  BY <1>2, <1>3, <1>5 DEF TokSend, NextText, batcherVars, gpuVars
<1>9. \A i \in DOMAIN bucketQ' : bucketQ'[i] \in RightItems
  <2>1. bucketQ \in Seq(Item)
    BY DEF TypeInv, ChannelInv
  <2>2. \A i \in DOMAIN bucketQ' : bucketQ'[i] = e \/ \E j \in DOMAIN bucketQ : bucketQ'[i] = bucketQ[j]
    BY <1>6, <1>8, <2>1, AppendOnly
  <2> QED BY <1>7, <2>2 DEF RowsInv
<1>10. /\ Holds(acc', RightItems) /\ Spelled(ready') /\ Spelled(gpu'.batch)
       /\ \A i \in DOMAIN batchQ' : Spelled(batchQ'[i])
  BY <1>8 DEF RowsInv
<1> QED BY <1>8, <1>9, <1>10, SameRight DEF RowsInv

LEMMA BatcherRecvRows == ASSUME TypeInv, RowsInv, BatcherRecv PROVE RowsInv'
<1>1. bucketQ \in Seq(Item) /\ bucketQ # <<>>
  BY DEF TypeInv, ChannelInv, BatcherRecv
<1>2. PICK e \in RightItems : e = Head(bucketQ)
  BY <1>1, TailElements DEF RowsInv
<1>3. e \in Item /\ e \in ItemOf(Seq(Nat), Nat, {0}) /\ Fitted(e) = e
  BY FittedRow DEF RightItems, Item
<1>4. PICK a : a = Push(acc, e)
  OBVIOUS
<1>5. /\ bucketQ' = Tail(bucketQ)
      /\ IF Filled(a, BatchSize) THEN Emit(a) ELSE acc' = a /\ ready' = ready
      /\ texts' = texts /\ batchQ' = batchQ /\ gpu' = gpu
  BY <1>2, <1>3, <1>4 DEF BatcherRecv, tokVars, gpuVars
<1>6. a \in Rows /\ Aligned(a) /\ Len(a.rows) <= BatchSize
  <2>1. a \in Rows /\ Aligned(a) /\ Len(a.rows) = Len(acc.rows) + 1
    BY <1>3, <1>4, PushType DEF TypeInv, BatcherInv, Rows
  <2>2. Len(acc.rows) < BatchSize /\ Len(acc.rows) \in Nat
    BY LenProperties DEF TypeInv, Clocks
  <2> QED BY <2>1, <2>2, ShapeAssumption
<1>7. Holds(a, RightItems)
  BY <1>3, <1>4, PushHolds DEF TypeInv, BatcherInv, Rows, RowsInv
<1>8. Holds(acc', RightItems) /\ Spelled(ready')
  <2>1. CASE Filled(a, BatchSize)
    <3>1. acc' = Drain(a) /\ ready' = Arrays(a)
      BY <1>5, <2>1 DEF Emit
    <3> QED BY <1>6, <1>7, <3>1, EmitSpells
  <2>2. CASE ~Filled(a, BatchSize)
    BY <1>5, <1>7, <2>2 DEF RowsInv
  <2> QED BY <2>1, <2>2
<1>9. \A i \in DOMAIN bucketQ' : bucketQ'[i] \in RightItems
  BY <1>1, <1>5, TailElements DEF RowsInv
<1>10. Spelled(gpu'.batch) /\ \A i \in DOMAIN batchQ' : Spelled(batchQ'[i])
  BY <1>5 DEF RowsInv
<1> QED BY <1>5, <1>8, <1>9, <1>10, SameRight DEF RowsInv

LEMMA BatcherEmitRows ==
    ASSUME TypeInv, RowsInv, Emit(acc), UNCHANGED <<texts, bucketQ, batchQ, gpu>>
    PROVE  RowsInv'
<1>1. acc' = Drain(acc) /\ ready' = Arrays(acc)
  BY DEF Emit
<1>2. Holds(acc', RightItems) /\ Spelled(ready')
  BY <1>1, EmitSpells, PendingFits DEF TypeInv, BatcherInv, RowsInv
<1>3. /\ \A i \in DOMAIN bucketQ' : bucketQ'[i] \in RightItems
      /\ Spelled(gpu'.batch) /\ \A i \in DOMAIN batchQ' : Spelled(batchQ'[i])
  BY DEF RowsInv
<1> QED BY <1>2, <1>3, SameRight DEF RowsInv

LEMMA SameRows ==
    ASSUME RowsInv, UNCHANGED <<texts, bucketQ, acc, ready, batchQ, gpu>>
    PROVE  RowsInv'
<1>1. /\ \A i \in DOMAIN bucketQ' : bucketQ'[i] \in RightItems
      /\ Holds(acc', RightItems) /\ Spelled(ready') /\ Spelled(gpu'.batch)
      /\ \A i \in DOMAIN batchQ' : Spelled(batchQ'[i])
  BY DEF RowsInv
<1> QED BY <1>1, SameRight DEF RowsInv

LEMMA BatcherSendRows == ASSUME TypeInv, RowsInv, BatcherSend PROVE RowsInv'
<1>1. /\ batchQ' = Append(batchQ, ready) /\ ready' = NoBatch
      /\ texts' = texts /\ bucketQ' = bucketQ /\ acc' = acc /\ gpu' = gpu
  BY DEF BatcherSend, tokVars, gpuVars
<1>2. batchQ \in Seq(FineBatch) /\ ready \in FineBatch
  BY DEF TypeInv, ChannelInv, BatcherInv
<1>3. \A i \in DOMAIN batchQ' : batchQ'[i] = ready \/ \E j \in DOMAIN batchQ : batchQ'[i] = batchQ[j]
  BY <1>1, <1>2, AppendOnly
<1>4. /\ \A i \in DOMAIN batchQ' : Spelled(batchQ'[i])
      /\ Spelled(ready') /\ Spelled(gpu'.batch) /\ Holds(acc', RightItems)
      /\ \A i \in DOMAIN bucketQ' : bucketQ'[i] \in RightItems
  BY <1>1, <1>3, NoBatchSpelled DEF RowsInv
<1> QED BY <1>1, <1>4, SameRight DEF RowsInv

LEMMA GpuRows ==
    ASSUME TypeInv, RowsInv, GpuRecv \/ GpuInfer \/ GpuOutput \/ GpuExit
    PROVE  RowsInv'
<1>1. texts' = texts /\ bucketQ' = bucketQ /\ acc' = acc /\ ready' = ready
  BY DEF GpuRecv, GpuInfer, GpuOutput, GpuExit, tokVars, batcherVars
<1>2. Spelled(gpu'.batch) /\ \A i \in DOMAIN batchQ' : Spelled(batchQ'[i])
  <2>1. CASE GpuRecv
    <3>1. /\ batchQ \in Seq(FineBatch) /\ batchQ # <<>>
          /\ gpu'.batch = Head(batchQ) /\ batchQ' = Tail(batchQ)
      BY <2>1 DEF GpuRecv, TypeInv, ChannelInv
    <3> QED BY <3>1, TailElements DEF RowsInv
  <2>2. CASE GpuInfer \/ GpuOutput \/ GpuExit
    <3>1. gpu'.batch = gpu.batch \/ gpu'.batch = NoBatch
      <4>1. gpu = [pc |-> gpu.pc, batch |-> gpu.batch]
        BY DEF TypeInv, GpuInv
      <4> QED BY <2>2, <4>1 DEF GpuInfer, GpuOutput, GpuExit
    <3>2. batchQ' = batchQ
      BY <2>2 DEF GpuInfer, GpuOutput, GpuExit
    <3> QED BY <3>1, <3>2, NoBatchSpelled DEF RowsInv
  <2> QED BY <2>1, <2>2
<1>3. Holds(acc', RightItems) /\ Spelled(ready') /\ \A i \in DOMAIN bucketQ' : bucketQ'[i] \in RightItems
  BY <1>1 DEF RowsInv
<1> QED BY <1>1, <1>2, <1>3, SameRight DEF RowsInv

LEMMA RowsStep == ASSUME MaxLen > 1, TypeInv, RowsInv, [Next]_vars PROVE RowsInv'
<1>1. CASE TokSend
  BY <1>1, TokSendRows
<1>2. CASE BatcherRecv
  BY <1>2, BatcherRecvRows
<1>3. CASE BatcherTimeout
  <2>1. UNCHANGED <<texts, bucketQ, batchQ, gpu>> /\ (Emit(acc) \/ UNCHANGED <<acc, ready>>)
    BY <1>3 DEF BatcherTimeout, tokVars, gpuVars
  <2> QED BY <2>1, BatcherEmitRows, SameRows
<1>4. CASE BatcherFlush
  BY <1>4, BatcherEmitRows DEF BatcherFlush, tokVars, gpuVars
<1>5. CASE BatcherSend
  BY <1>5, BatcherSendRows
<1>6. CASE GpuRecv \/ GpuInfer \/ GpuOutput \/ GpuExit
  BY <1>6, GpuRows
<1>7. CASE TokSkip \/ TokExit \/ BatcherExit \/ Tick
  BY <1>7, SameRows DEF TokSkip, TokExit, BatcherExit, Tick, tokVars, batcherVars, gpuVars
<1>8. CASE Device(ComputeStep) \/ Device(CopyStep) \/ Device(Break)
  BY <1>8, SameRows DEF Device, tokVars, batcherVars
<1>9. CASE Stopped \/ UNCHANGED vars
  BY <1>9, SameRows DEF Stopped, vars, tokVars, batcherVars, gpuVars
<1> QED BY <1>1, <1>2, <1>3, <1>4, <1>5, <1>6, <1>7, <1>8, <1>9 DEF Next

LEMMA RowsImply == ASSUME RowsInv PROVE ArraysAreTheText
<1> SUFFICES ASSUME NEW b \in {ready, gpu.batch} \cup Range(batchQ) PROVE Spelled(b)
  BY DEF ArraysAreTheText, Spelled
<1>1. b = ready \/ b = gpu.batch \/ \E i \in DOMAIN batchQ : b = batchQ[i]
  BY DEF Range
<1> QED BY <1>1 DEF RowsInv

\* The arrays of every batch spell out, row by row, the encoder's tokens of
\* the messages whose ids travel with it and nothing else, for every text,
\* encoder, cache limit, bucket and batch size; a bucket must only have room
\* for the two special tokens.
THEOREM ArraysCorrect == MaxLen > 1 => (Spec => []ArraysAreTheText)
<1> SUFFICES ASSUME MaxLen > 1 PROVE Spec => []ArraysAreTheText
  OBVIOUS
<1>1. TypeInv /\ RowsInv /\ [Next]_vars => TypeInv' /\ RowsInv'
  BY TypeStep, RowsStep
<1> QED BY <1>1, TypeInit, RowsInit, RowsImply, PTL DEF Spec

-----------------------------------------------------------------------------
(* A device that works later than it is told, and may lose what it is told. *)
(* A batch is on track if what is queued for it, behind whatever is left of *)
(* earlier batches, must end in its results: then only a fault, which is    *)
(* counted, can spoil it.  That a fault spoils no second batch rests on the *)
(* copy stream: it is idle, or broken, when the next batch is enqueued.     *)

\* The results of the batch on the device.
Out(b) == [r \in Slots |-> Vector(b.input_ids, b.attention_mask, r)]

\* The compute stream works towards the results of b: behind older operations
\* stand the uploads, the run and the record that was made last.
InOrder(b) ==
    /\ Len(compute) >= 1 => compute[Len(compute)] = Op("record", event.made) /\ event.done < event.made
    /\ \A i \in 1..(Len(compute) - 1) : compute[i].op = "record" => compute[i].data < event.made
    /\ Len(compute) >= 2 => compute[Len(compute) - 1] = Op("run", 0)
    /\ Len(compute) >= 3 => compute[Len(compute) - 2] = Op("mask", b.attention_mask)
    /\ Len(compute) >= 4 => compute[Len(compute) - 3] = Op("ids", b.input_ids)
    /\ Len(compute) <= 3 => dev.ids = b.input_ids
    /\ Len(compute) <= 2 => dev.mask = b.attention_mask
    /\ Len(compute) <= 1 => dev.out = Out(b)

OnTrack(b) ==
    /\ ~broken
    /\ \/ InOrder(b) /\ copy = <<Op("wait", event.made), Op("out", 0)>>
       \/ InOrder(b) /\ compute = <<>> /\ copy = <<Op("out", 0)>>
       \/ copy = <<>> /\ pinned = Out(b)

\* The GPU worker waits for results that may be wrong.
Risky == gpu.pc = "wait" /\ "pinned" \in alloc /\ ~OnTrack(gpu.batch)

FaultInv ==
    /\ Cardinality(Spoilt) + (IF Risky THEN 1 ELSE 0) <= faults
    /\ gpu.pc \in {"recv", "infer"} /\ ~broken => copy = <<>>

Appended(S, s, n, e, t) == s \in Seq(S) /\ e \in S /\ n \in Nat /\ n = Len(s) /\ t = s \o <<e>>

LEMMA Single == ASSUME NEW S, NEW e \in S PROVE <<e>> \in Seq(S) /\ Len(<<e>>) = 1 /\ <<e>>[1] = e
  OBVIOUS

LEMMA LongerByOne ==
    ASSUME NEW S, NEW s, NEW n, NEW e, NEW t, Appended(S, s, n, e, t)
    PROVE  /\ t \in Seq(S) /\ Len(t) = n + 1
           /\ \A i \in 1..n : t[i] = s[i]
           /\ t[n + 1] = e
<1>1. s \in Seq(S) /\ e \in S /\ n \in Nat /\ n = Len(s) /\ t = s \o <<e>>
  BY DEF Appended
<1>2. PICK u : u = <<e>>
  OBVIOUS
<1>3. u \in Seq(S) /\ Len(u) = 1 /\ u[1] = e
  BY <1>1, <1>2, Single
<1>4. /\ s \o u \in Seq(S) /\ Len(s \o u) = n + 1
      /\ \A i \in 1..(n + 1) : (s \o u)[i] = IF i <= n THEN s[i] ELSE u[i - n]
  <2>1. /\ s \o u \in Seq(S) /\ Len(s \o u) = Len(s) + Len(u)
        /\ \A i \in 1..(Len(s) + Len(u)) : (s \o u)[i] = IF i <= Len(s) THEN s[i] ELSE u[i - Len(s)]
    BY <1>1, <1>3, ConcatProperties, Zenon
  <2> QED BY <1>1, <1>3, <2>1, Zenon
<1>5. n + 1 \in 1..(n + 1) /\ ~(n + 1 <= n) /\ (n + 1) - n = 1
  BY <1>1
<1>6. \A i \in 1..n : i \in 1..(n + 1) /\ i <= n
  BY <1>1
<1> QED BY <1>1, <1>2, <1>3, <1>4, <1>5, <1>6

LEMMA Pair == ASSUME NEW w, NEW o PROVE <<>> \o <<w>> \o <<o>> = <<w, o>>
<1>1. <<>> \o <<w>> = <<w>>
  OBVIOUS
<1>2. PICK u : u = <<w>>
  OBVIOUS
<1>3. PICK v : v = <<o>>
  OBVIOUS
<1>4. PICK p : p = <<w, o>>
  OBVIOUS
<1>5. /\ u \in Seq({w, o}) /\ Len(u) = 1 /\ u[1] = w
      /\ v \in Seq({w, o}) /\ Len(v) = 1 /\ v[1] = o
  BY <1>2, <1>3, Single
<1>6. p \in Seq({w, o}) /\ Len(p) = 2 /\ p[1] = w /\ p[2] = o
  BY <1>4
<1>7. /\ u \o v \in Seq({w, o}) /\ Len(u \o v) = 2
      /\ \A i \in 1..2 : (u \o v)[i] = IF i <= 1 THEN u[i] ELSE v[i - 1]
  BY <1>5, ConcatProperties
<1>8. \A i \in 1..2 : (u \o v)[i] = p[i]
  BY <1>5, <1>6, <1>7
<1>9. u \o v = p
  BY <1>6, <1>7, <1>8, SeqEqual
<1> QED BY <1>1, <1>2, <1>3, <1>4, <1>9, Zenon

\* One operation of the compute stream keeps it in order.
LEMMA ComputeInOrder ==
    ASSUME DeviceInv, NEW b, InOrder(b), ComputeStep
    PROVE  InOrder(b)'
<1>1. PICK m \in Nat : m = event.made
  BY DEF DeviceInv
<1>2. PICK n \in Nat : n = Len(compute) /\ n # 0
  BY LenProperties, EmptySeq DEF DeviceInv, ComputeStep
<1>3. PICK o : o = compute[1]
  OBVIOUS
<1>4. compute \in Seq(ComputeOp(m)) /\ o \in ComputeOp(m)
  BY <1>1, <1>2, <1>3, ElementOfSeq DEF DeviceInv
<1>5. PICK t : t = compute'
  OBVIOUS
<1>6. Len(t) = n - 1 /\ \A i \in 1..(n - 1) : t[i] = compute[i + 1]
  BY <1>2, <1>4, <1>5, HeadTailProperties DEF ComputeStep
<1>7. /\ dev' = CASE o.op = "ids"  -> [dev EXCEPT !.ids = o.data]
                  [] o.op = "mask" -> [dev EXCEPT !.mask = o.data]
                  [] o.op = "run"  -> [dev EXCEPT !.out =
                                          [r \in Slots |-> Vector(dev.ids, dev.mask, r)]]
                  [] OTHER         -> dev
      /\ event' = IF o.op = "record" THEN [event EXCEPT !.done = o.data] ELSE event
  <2>1. Head(compute) = o
    BY <1>2, <1>3, <1>4, HeadTailProperties
  <2> QED BY <2>1 DEF ComputeStep
<1>8. event'.made = m /\ event'.done = IF o.op = "record" THEN o.data ELSE event.done
  <2>1. event = [made |-> m, done |-> event.done]
    BY <1>1 DEF DeviceInv
  <2> QED BY <1>7, <2>1
<1>9. PICK d : d = dev /\ d = [ids |-> d.ids, mask |-> d.mask, out |-> d.out]
  BY DEF DeviceInv
<1>10. /\ compute[n] = Op("record", m) /\ event.done < m
       /\ \A i \in 1..(n - 1) : compute[i].op = "record" => compute[i].data < m
       /\ n >= 2 => compute[n - 1] = Op("run", 0)
       /\ n >= 3 => compute[n - 2] = Op("mask", b.attention_mask)
       /\ n >= 4 => compute[n - 3] = Op("ids", b.input_ids)
       /\ n <= 3 => d.ids = b.input_ids
       /\ n <= 2 => d.mask = b.attention_mask
       /\ n <= 1 => d.out = Out(b)
  BY <1>1, <1>2, <1>9 DEF InOrder
<1>11. \A i \in 1..(n - 2) : t[i].op = "record" => t[i].data < m
  <2> SUFFICES ASSUME NEW i \in 1..(n - 2), t[i].op = "record" PROVE t[i].data < m
    OBVIOUS
  <2>1. i \in 1..(n - 1) /\ i + 1 \in 1..(n - 1) /\ t[i] = compute[i + 1]
    BY <1>6
  <2> QED BY <1>10, <2>1
<1>12. /\ n - 1 >= 1 => t[n - 1] = Op("record", m)
       /\ n - 1 >= 2 => t[n - 2] = Op("run", 0)
       /\ n - 1 >= 3 => t[n - 3] = Op("mask", b.attention_mask)
       /\ n - 1 >= 4 => t[n - 4] = Op("ids", b.input_ids)
  <2>1. n - 1 >= 1 => t[n - 1] = compute[n]
    BY <1>6
  <2>2. n - 1 >= 2 => t[n - 2] = compute[n - 1]
    BY <1>6
  <2>3. n - 1 >= 3 => t[n - 3] = compute[n - 2]
    BY <1>6
  <2>4. n - 1 >= 4 => t[n - 4] = compute[n - 3]
    BY <1>6
  <2>5. n - 1 >= 2 => n >= 3 /\ n >= 2
    OBVIOUS
  <2>6. n - 1 >= 3 => n >= 3
    OBVIOUS
  <2>7. n - 1 >= 4 => n >= 4
    OBVIOUS
  <2> QED BY <1>10, <2>1, <2>2, <2>3, <2>4, <2>5, <2>6, <2>7
<1>13. n - 1 >= 1 => event'.done < m
  <2>1. SUFFICES ASSUME n - 1 >= 1, o.op = "record" PROVE o.data < m
    BY <1>8, <1>10
  <2>2. 1 \in 1..(n - 1)
    BY <2>1
  <2> QED BY <1>3, <1>10, <2>1, <2>2
<1>14. /\ n - 1 <= 3 => dev'.ids = b.input_ids
       /\ n - 1 <= 2 => dev'.mask = b.attention_mask
       /\ n - 1 <= 1 => dev'.out = Out(b)
  <2>1. CASE n >= 5
    BY <2>1
  <2>2. CASE n = 4
    <3>1. o = Op("ids", b.input_ids)
      BY <1>3, <1>10, <2>2
    <3>2. o.op = "ids" /\ o.data = b.input_ids
      BY <3>1 DEF Op
    <3>3. dev' = [d EXCEPT !.ids = b.input_ids]
      BY <1>7, <1>9, <3>2
    <3>4. dev'.ids = b.input_ids
      BY <1>9, <3>3
    <3> QED BY <2>2, <3>4
  <2>3. CASE n = 3
    <3>1. o = Op("mask", b.attention_mask) /\ d.ids = b.input_ids
      BY <1>3, <1>10, <2>3
    <3>2. o.op = "mask" /\ o.data = b.attention_mask
      BY <3>1 DEF Op
    <3>3. dev' = [d EXCEPT !.mask = b.attention_mask]
      BY <1>7, <1>9, <3>2
    <3>4. dev'.ids = b.input_ids /\ dev'.mask = b.attention_mask
      BY <1>9, <3>1, <3>3
    <3> QED BY <2>3, <3>4
  <2>4. CASE n = 2
    <3>1. o = Op("run", 0) /\ d.ids = b.input_ids /\ d.mask = b.attention_mask
      BY <1>3, <1>10, <2>4
    <3>2. o.op = "run"
      BY <3>1 DEF Op
    <3>3. dev' = [d EXCEPT !.out = Out(b)]
      BY <1>7, <1>9, <3>1, <3>2 DEF Out
    <3>4. dev'.ids = b.input_ids /\ dev'.mask = b.attention_mask /\ dev'.out = Out(b)
      BY <1>9, <3>1, <3>3
    <3> QED BY <3>4
  <2>5. CASE n = 1
    <3>1. o = Op("record", m) /\ d.ids = b.input_ids /\ d.mask = b.attention_mask /\ d.out = Out(b)
      BY <1>3, <1>10, <2>5
    <3>2. o.op = "record"
      BY <3>1 DEF Op
    <3>3. dev' = d
      BY <1>7, <1>9, <3>2
    <3> QED BY <3>1, <3>3
  <2> QED BY <1>2, <2>1, <2>2, <2>3, <2>4, <2>5
<1>15. PICK k : k = n - 1
  OBVIOUS
<1>16. /\ Len(t) = k /\ k - 1 = n - 2 /\ k - 2 = n - 3 /\ k - 3 = n - 4
  BY <1>2, <1>6, <1>15
<1>17. Out(b)' = Out(b)
  BY DEF Out
<1> QED BY <1>5, <1>8, <1>11, <1>12, <1>13, <1>14, <1>15, <1>16, <1>17 DEF InOrder

LEMMA ComputeOnTrack ==
    ASSUME DeviceInv, NEW b, OnTrack(b), ComputeStep
    PROVE  OnTrack(b)'
<1>1. broken' = broken /\ copy' = copy /\ pinned' = pinned /\ compute # <<>>
  BY DEF ComputeStep
<1>2. event'.made = event.made
  <2>1. event = [made |-> event.made, done |-> event.done]
    BY DEF DeviceInv
  <2>2. event' = event \/ \E x : event' = [event EXCEPT !.done = x]
    BY DEF ComputeStep
  <2> QED BY <2>1, <2>2
<1>3. Out(b)' = Out(b)
  BY DEF Out
<1>4. CASE InOrder(b) /\ copy = <<Op("wait", event.made), Op("out", 0)>>
  <2>1. InOrder(b)'
    BY <1>4, ComputeInOrder
  <2> QED BY <1>1, <1>2, <1>4, <2>1 DEF OnTrack
<1>5. CASE copy = <<>> /\ pinned = Out(b)
  BY <1>1, <1>3, <1>5 DEF OnTrack
<1> QED BY <1>1, <1>4, <1>5 DEF OnTrack

LEMMA CopyOnTrack ==
    ASSUME DeviceInv, NEW b, OnTrack(b), CopyStep
    PROVE  OnTrack(b)'
<1>1. /\ copy # <<>> /\ copy' = Tail(copy) /\ (Head(copy).op = "wait" => event.done >= Head(copy).data)
      /\ pinned' = IF Head(copy).op = "out" THEN dev.out ELSE pinned
      /\ UNCHANGED <<alloc, compute, dev, event, broken, faults>>
  BY DEF CopyStep
<1>2. Out(b)' = Out(b)
  BY DEF Out
<1>3. InOrder(b) => InOrder(b)'
  BY <1>1, <1>2 DEF InOrder
<1>4. PICK n \in Nat : n = Len(compute) /\ (n = 0 => compute = <<>>)
  BY LenProperties, EmptySeq DEF DeviceInv
<1>5. CASE InOrder(b) /\ copy = <<Op("wait", event.made), Op("out", 0)>>
  <2>1. Head(copy) = Op("wait", event.made) /\ copy' = <<Op("out", 0)>>
    BY <1>1, <1>5
  <2>2. event.done >= event.made
    BY <1>1, <2>1 DEF Op
  <2>3. event.done \in Nat /\ event.made \in Nat
    BY DEF DeviceInv
  <2>4. n = 0
    BY <1>4, <1>5, <2>2, <2>3 DEF InOrder
  <2>5. compute' = <<>>
    BY <1>1, <1>4, <2>4
  <2> QED BY <1>1, <1>3, <1>5, <2>1, <2>5 DEF OnTrack
<1>6. CASE InOrder(b) /\ compute = <<>> /\ copy = <<Op("out", 0)>>
  <2>1. Head(copy) = Op("out", 0) /\ copy' = <<>>
    BY <1>1, <1>6
  <2>2. dev.out = Out(b)
    <3>1. Len(<<>>) = 0 /\ 0 <= 1
      OBVIOUS
    <3> QED BY <1>6, <3>1 DEF InOrder
  <2>3. pinned' = Out(b)
    BY <1>1, <2>1, <2>2 DEF Op
  <2> QED BY <1>1, <1>2, <2>1, <2>3 DEF OnTrack
<1> QED BY <1>1, <1>5, <1>6 DEF OnTrack

\* If nothing of a batch is lost, it is on track.
LEMMA InferOnTrack ==
    ASSUME DeviceInv, copy = <<>>, NEW b \in FineBatch, "pinned" \in alloc,
           InferOk(b.input_ids, b.attention_mask),
           InferWith(b.input_ids, b.attention_mask, {})
    PROVE  OnTrack(b)'
<1>1. PICK ids \in [Cells -> Nat], mask \in [Cells -> {0, 1}] :
        ids = b.input_ids /\ mask = b.attention_mask
  BY DEF FineBatch, Batch
<1>2. ~broken /\ EnqueueOk /\ HasShape(ids, mask)
  BY <1>1 DEF InferOk, EnqueueOk
<1>3. {"ids", "mask", "run", "record", "wait", "out"} \subseteq Queued(ids, mask)
  BY <1>2 DEF Queued, EnqueueOk
<1>4. PICK m \in Nat : m = event.made
  BY DEF DeviceInv
<1>5. PICK k \in Nat : k = m + 1
  BY <1>4
<1>6. /\ event' = [event EXCEPT !.made = IF "record" \in Queued(ids, mask) \ {} THEN @ + 1 ELSE @]
      /\ compute' = compute \o (IF Op("ids", ids).op \in Queued(ids, mask) \ {} THEN <<Op("ids", ids)>> ELSE <<>>)
                            \o (IF Op("mask", mask).op \in Queued(ids, mask) \ {} THEN <<Op("mask", mask)>> ELSE <<>>)
                            \o (IF Op("run", 0).op \in Queued(ids, mask) \ {} THEN <<Op("run", 0)>> ELSE <<>>)
                            \o (IF Op("record", event'.made).op \in Queued(ids, mask) \ {} THEN <<Op("record", event'.made)>> ELSE <<>>)
      /\ copy' = copy \o (IF Op("wait", event'.made).op \in Queued(ids, mask) \ {} THEN <<Op("wait", event'.made)>> ELSE <<>>)
                      \o (IF Op("out", 0).op \in Queued(ids, mask) \ {} THEN <<Op("out", 0)>> ELSE <<>>)
      /\ UNCHANGED <<alloc, dev, pinned, broken>>
  BY <1>1 DEF InferWith
<1>7. event'.made = k /\ event'.done = event.done
  <2>1. event = [made |-> m, done |-> event.done]
    BY <1>4 DEF DeviceInv
  <2>2. event' = [event EXCEPT !.made = @ + 1]
    BY <1>3, <1>6
  <2> QED BY <1>5, <2>1, <2>2
<1>8. /\ \A x, y : Op(x, y).op = x
      /\ Op("ids", ids).op \in Queued(ids, mask) \ {} /\ Op("mask", mask).op \in Queued(ids, mask) \ {}
      /\ Op("run", 0).op \in Queued(ids, mask) \ {} /\ Op("record", k).op \in Queued(ids, mask) \ {}
      /\ Op("wait", k).op \in Queued(ids, mask) \ {} /\ Op("out", 0).op \in Queued(ids, mask) \ {}
  <2>1. \A x, y : Op(x, y).op = x
    BY DEF Op
  <2>2. \A x \in {"ids", "mask", "run", "record", "wait", "out"} : x \in Queued(ids, mask) \ {}
    BY <1>3
  <2> QED BY <2>1, <2>2
<1>9. compute' = compute \o <<Op("ids", ids)>> \o <<Op("mask", mask)>> \o <<Op("run", 0)>> \o <<Op("record", k)>>
  BY <1>6, <1>7, <1>8
<1>10. copy' = <<Op("wait", k), Op("out", 0)>>
  <2>1. copy' = <<>> \o <<Op("wait", k)>> \o <<Op("out", 0)>>
    BY <1>6, <1>7, <1>8
  <2> QED BY <2>1, Pair, Zenon
<1>11. compute \in Seq(ComputeOp(k)) /\ \A i \in 1..Len(compute) : compute[i].op = "record" => compute[i].data < k
  <2>1. compute \in Seq(ComputeOp(m)) /\ ComputeOp(m) \subseteq ComputeOp(k)
    BY <1>4, <1>5 DEF DeviceInv, ComputeOp
  <2>2. ASSUME NEW o \in ComputeOp(m), o.op = "record" PROVE o.data < k
    BY <1>5, <2>2 DEF ComputeOp
  <2>3. \A i \in 1..Len(compute) : compute[i] \in ComputeOp(m)
    BY <2>1, ElementOfSeq
  <2> QED BY <2>1, <2>2, <2>3, SeqMonotonic
<1>12. /\ Op("ids", ids) \in ComputeOp(k) /\ Op("mask", mask) \in ComputeOp(k)
       /\ Op("run", 0) \in ComputeOp(k) /\ Op("record", k) \in ComputeOp(k)
  <2>1. k \in 0..k
    OBVIOUS
  <2> QED BY <2>1 DEF Op, ComputeOp
<1>13. PICK n \in Nat : n = Len(compute)
  BY <1>11, LenProperties
<1>14. PICK S : S = ComputeOp(k)
  OBVIOUS
<1>15. PICK a1, a2, a3, a4 \in S :
          a1 = Op("ids", ids) /\ a2 = Op("mask", mask) /\ a3 = Op("run", 0) /\ a4 = Op("record", k)
  BY <1>12, <1>14
<1>16. PICK s0 \in Seq(S) : s0 = compute /\ n = Len(s0)
  BY <1>11, <1>13, <1>14
<1>17. PICK s1 : s1 = s0 \o <<a1>>
  OBVIOUS
<1>18. /\ s1 \in Seq(S) /\ Len(s1) = n + 1 /\ s1[n + 1] = a1
       /\ \A i \in 1..n : s1[i] = s0[i]
  <2>1. Appended(S, s0, n, a1, s1)
    BY <1>13, <1>15, <1>16, <1>17 DEF Appended
  <2> QED BY <2>1, LongerByOne
<1>19. PICK s2 : s2 = s1 \o <<a2>>
  OBVIOUS
<1>20. /\ s2 \in Seq(S) /\ Len(s2) = n + 2 /\ s2[n + 2] = a2
       /\ \A i \in 1..(n + 1) : s2[i] = s1[i]
  <2>1. PICK j \in Nat : j = n + 1 /\ j + 1 = n + 2
    OBVIOUS
  <2>2. /\ s2 \in Seq(S) /\ Len(s2) = j + 1 /\ s2[j + 1] = a2
        /\ \A i \in 1..j : s2[i] = s1[i]
    <3>1. Appended(S, s1, j, a2, s2)
      BY <1>15, <1>18, <1>19, <2>1 DEF Appended
    <3> QED BY <3>1, LongerByOne
  <2> QED BY <2>1, <2>2
<1>21. PICK s3 : s3 = s2 \o <<a3>>
  OBVIOUS
<1>22. /\ s3 \in Seq(S) /\ Len(s3) = n + 3 /\ s3[n + 3] = a3
       /\ \A i \in 1..(n + 2) : s3[i] = s2[i]
  <2>1. PICK j \in Nat : j = n + 2 /\ j + 1 = n + 3
    OBVIOUS
  <2>2. /\ s3 \in Seq(S) /\ Len(s3) = j + 1 /\ s3[j + 1] = a3
        /\ \A i \in 1..j : s3[i] = s2[i]
    <3>1. Appended(S, s2, j, a3, s3)
      BY <1>15, <1>20, <1>21, <2>1 DEF Appended
    <3> QED BY <3>1, LongerByOne
  <2> QED BY <2>1, <2>2
<1>23. PICK s4 : s4 = s3 \o <<a4>>
  OBVIOUS
<1>24. /\ s4 \in Seq(S) /\ Len(s4) = n + 4 /\ s4[n + 4] = a4
       /\ \A i \in 1..(n + 3) : s4[i] = s3[i]
  <2>1. PICK j \in Nat : j = n + 3 /\ j + 1 = n + 4
    OBVIOUS
  <2>2. /\ s4 \in Seq(S) /\ Len(s4) = j + 1 /\ s4[j + 1] = a4
        /\ \A i \in 1..j : s4[i] = s3[i]
    <3>1. Appended(S, s3, j, a4, s4)
      BY <1>15, <1>22, <1>23, <2>1 DEF Appended
    <3> QED BY <3>1, LongerByOne
  <2> QED BY <2>1, <2>2
<1>25. s4[n + 3] = a3 /\ s4[n + 2] = a2 /\ s4[n + 1] = a1
  <2>1. n + 3 \in 1..(n + 3) /\ n + 2 \in 1..(n + 3) /\ n + 1 \in 1..(n + 3)
        /\ n + 2 \in 1..(n + 2) /\ n + 1 \in 1..(n + 2) /\ n + 1 \in 1..(n + 1)
    OBVIOUS
  <2> QED BY <1>18, <1>20, <1>22, <1>24, <2>1
<1>26. \A i \in 1..(n + 3) : s4[i].op = "record" => s4[i].data < k
  <2> SUFFICES ASSUME NEW i \in 1..(n + 3), s4[i].op = "record" PROVE s4[i].data < k
    OBVIOUS
  <2>1. CASE i \in 1..n
    <3>1. i \in 1..(n + 1) /\ i \in 1..(n + 2)
      BY <2>1
    <3>2. s4[i] = compute[i]
      BY <1>16, <1>18, <1>20, <1>22, <1>24, <2>1, <3>1
    <3> QED BY <1>11, <1>13, <2>1, <3>2
  <2>2. CASE i = n + 1 \/ i = n + 2 \/ i = n + 3
    BY <1>8, <1>15, <1>25, <2>2
  <2> QED BY <2>1, <2>2
<1>27. compute' = s4 /\ event'.done < k
  <2>1. event.done \in Nat /\ event.done <= m
    BY <1>4 DEF DeviceInv
  <2>2. compute' = s4
    BY <1>9, <1>15, <1>16, <1>17, <1>19, <1>21, <1>23
  <2> QED BY <1>5, <1>7, <2>1, <2>2
<1>28. /\ (n + 4) - 1 = n + 3 /\ (n + 4) - 2 = n + 2 /\ (n + 4) - 3 = n + 1
       /\ ~(n + 4 <= 3) /\ ~(n + 4 <= 2) /\ ~(n + 4 <= 1)
  OBVIOUS
<1>29. InOrder(b)'
  BY <1>1, <1>7, <1>15, <1>24, <1>25, <1>26, <1>27, <1>28 DEF InOrder
<1> QED BY <1>2, <1>6, <1>7, <1>10, <1>29 DEF OnTrack

-----------------------------------------------------------------------------
(* How many batches are spoilt. *)
Bad(e) == \E k \in DOMAIN e.vecs : e.vecs[k] # RightRow(e.ids[k])

LEMMA SpoiltFinite ==
    ASSUME TypeInv
    PROVE  IsFiniteSet(Spoilt) /\ Cardinality(Spoilt) \in Nat
<1>1. PICK n \in Nat : n = Len(stream) /\ DOMAIN stream = 1..n
  BY LenProperties DEF TypeInv, GpuInv
<1>2. Spoilt \in SUBSET (1..n) /\ IsFiniteSet(1..n)
  BY <1>1, FS_Interval DEF Spoilt
<1> QED BY <1>2, FS_Subset, FS_CardinalityType

LEMMA SpoiltSame == ASSUME UNCHANGED <<texts, stream>> PROVE Spoilt' = Spoilt
<1>1. texts' = texts /\ stream' = stream
  OBVIOUS
<1> QED BY <1>1, SameRight DEF Spoilt

\* Another answer spoils at most itself.
LEMMA SpoiltNext ==
    ASSUME TypeInv, texts' = texts, NEW e \in Answer, stream' = Append(stream, e)
    PROVE  /\ ~Bad(e) => Cardinality(Spoilt') = Cardinality(Spoilt)
           /\ Cardinality(Spoilt') \in Nat /\ Cardinality(Spoilt') <= Cardinality(Spoilt) + 1
<1>1. PICK n \in Nat : n = Len(stream) /\ DOMAIN stream = 1..n
  BY LenProperties DEF TypeInv, GpuInv
<1>2. PICK s : s = stream'
  OBVIOUS
<1>3. DOMAIN s = 1..(n + 1) /\ s[n + 1] = e /\ \A i \in 1..n : s[i] = stream[i]
  BY <1>1, <1>2, AppendProperties, LenProperties DEF TypeInv, GpuInv
<1>4. Spoilt = {i \in 1..n : Bad(stream[i])}
  BY <1>1 DEF Spoilt, Bad
<1>5. Spoilt' = {i \in 1..(n + 1) : Bad(s[i])}
  BY <1>2, <1>3, SameRight DEF Spoilt, Bad
<1>6. CASE Bad(e)
  <2>1. Spoilt' = Spoilt \cup {n + 1}
    <3>1. \A i : i \in 1..(n + 1) <=> (i \in 1..n \/ i = n + 1)
      OBVIOUS
    <3> QED BY <1>3, <1>4, <1>5, <1>6, <3>1
  <2>2. n + 1 \notin Spoilt
    BY <1>4
  <2>3. Cardinality(Spoilt \cup {n + 1}) = Cardinality(Spoilt) + 1
    BY <2>2, SpoiltFinite, FS_AddElement
  <2> QED BY <1>6, <2>1, <2>3, SpoiltFinite
<1>7. CASE ~Bad(e)
  <2>1. Spoilt' = Spoilt
    <3>1. \A i : i \in 1..(n + 1) <=> (i \in 1..n \/ i = n + 1)
      OBVIOUS
    <3>2. n + 1 \notin 1..n
      OBVIOUS
    <3> QED BY <1>3, <1>4, <1>5, <1>7, <3>1, <3>2
  <2> QED BY <2>1, SpoiltFinite
<1> QED BY <1>6, <1>7

LEMMA FaultInit == Init => FaultInv
<1> SUFFICES ASSUME Init PROVE FaultInv
  OBVIOUS
<1>1. gpu.pc = "recv" /\ stream = <<>> /\ copy = <<>> /\ faults = 0
  BY DEF Init, Create
<1>2. Spoilt = {}
  BY <1>1 DEF Spoilt
<1>3. Cardinality({}) = 0
  BY FS_EmptySet
<1> QED BY <1>1, <1>2, <1>3 DEF FaultInv, Risky

\* Steps that leave the GPU worker and its device alone.
LEMMA OthersFault ==
    ASSUME TypeInv, FaultInv, UNCHANGED <<texts, gpu, runnerVars>>,
           \/ UNCHANGED stream
           \/ \E e \in Answer : ~Bad(e) /\ stream' = Append(stream, e)
    PROVE  FaultInv'
<1>1. Cardinality(Spoilt') = Cardinality(Spoilt)
  BY SpoiltSame, SpoiltNext
<1>2. Out(gpu.batch)' = Out(gpu.batch) /\ gpu' = gpu
  BY DEF Out
<1>3. InOrder(gpu.batch)' <=> InOrder(gpu.batch)
  BY <1>2 DEF InOrder, runnerVars
<1>4. OnTrack(gpu.batch)' <=> OnTrack(gpu.batch)
  BY <1>2, <1>3 DEF OnTrack, runnerVars
<1>5. Risky' <=> Risky
  BY <1>4 DEF Risky, runnerVars
<1> QED BY <1>1, <1>5 DEF FaultInv, runnerVars

LEMMA TokSkipFault == ASSUME TypeInv, FaultInv, TokSkip PROVE FaultInv'
<1>1. PICK e : e = [ids |-> <<taken + 1>>, vecs |-> <<>>, failed |-> FALSE]
  OBVIOUS
<1>2. taken \in Nat
  BY DEF TypeInv, TokInv
<1>3. e \in Answer /\ ~Bad(e)
  BY <1>1, <1>2 DEF Answer, Bad
<1>4. stream' = Append(stream, e) /\ UNCHANGED <<texts, gpu, runnerVars>>
  BY <1>1 DEF TokSkip
<1> QED BY <1>3, <1>4, OthersFault

LEMMA GpuInferFault == ASSUME TypeInv, FaultInv, GpuInfer PROVE FaultInv'
<1>1. PICK b \in FineBatch : b = gpu.batch
  BY DEF TypeInv, GpuInv
<1>2. /\ gpu.pc = "infer" /\ Infer(b.input_ids, b.attention_mask)
      /\ IF InferOk(b.input_ids, b.attention_mask) THEN gpu' = [gpu EXCEPT !.pc = "wait"] /\ UNCHANGED stream
         ELSE gpu' = [pc |-> "recv", batch |-> NoBatch] /\ Sent(<<>>)
      /\ texts' = texts
  BY <1>1 DEF GpuInfer, tokVars
<1>3. PICK lost \in SUBSET {"ids", "mask", "record", "wait", "out"} :
        InferWith(b.input_ids, b.attention_mask, lost)
  BY <1>2 DEF Infer, InferWith, Queued
<1>4. IsFiniteSet(lost) /\ Cardinality(lost) \in Nat /\ (Cardinality(lost) = 0 <=> lost = {})
  BY LostIsFinite, FS_EmptySet
<1>5. faults' = faults + Cardinality(lost) /\ broken' = broken /\ alloc' = alloc
  BY <1>3 DEF InferWith
<1>6. Cardinality(Spoilt) <= faults /\ Cardinality(Spoilt) \in Nat /\ faults \in Nat
  <2>1. ~Risky
    BY <1>2 DEF Risky
  <2> QED BY <2>1, SpoiltFinite DEF FaultInv, TypeInv, DeviceInv
<1>7. ~broken => copy = <<>>
  BY <1>2 DEF FaultInv
<1>8. CASE InferOk(b.input_ids, b.attention_mask)
  <2>1. gpu = [pc |-> gpu.pc, batch |-> gpu.batch]
    BY DEF TypeInv, GpuInv
  <2>2. gpu'.pc = "wait" /\ gpu'.batch = b /\ stream' = stream
    BY <1>1, <1>2, <1>8, <2>1
  <2>3. ~broken
    BY <1>8 DEF InferOk, EnqueueOk
  <2>4. Risky' => lost # {}
    <3>1. SUFFICES ASSUME lost = {}, "pinned" \in alloc PROVE OnTrack(b)'
      BY <1>5, <2>2 DEF Risky
    <3> QED BY <1>3, <1>7, <1>8, <2>3, <3>1, InferOnTrack DEF TypeInv
  <2>5. Cardinality(Spoilt') = Cardinality(Spoilt)
    BY <1>2, <2>2, SpoiltSame
  <2>6. Cardinality(Spoilt') + (IF Risky' THEN 1 ELSE 0) <= faults'
    <3>1. CASE Risky'
      <4>1. Cardinality(lost) >= 1
        <5>1. Cardinality(lost) # 0
          BY <1>4, <2>4, <3>1
        <5> QED BY <1>4, <5>1
      <4> QED BY <1>4, <1>5, <1>6, <2>5, <3>1, <4>1
    <3>2. CASE ~Risky'
      BY <1>4, <1>5, <1>6, <2>5, <3>2
    <3> QED BY <3>1, <3>2
  <2> QED BY <2>2, <2>6 DEF FaultInv
<1>9. CASE ~InferOk(b.input_ids, b.attention_mask)
  <2>1. gpu'.pc = "recv" /\ Sent(<<>>)
    BY <1>2, <1>9
  <2>2. PICK e : e = [ids |-> gpu.batch.ids, vecs |-> <<>>, failed |-> <<>> = <<>>]
    OBVIOUS
  <2>3. stream' = Append(stream, e) /\ e \in Answer /\ ~Bad(e)
    BY <2>1, <2>2 DEF Sent, Answer, Bad, TypeInv, GpuInv, FineBatch, Batch
  <2>4. Cardinality(Spoilt') = Cardinality(Spoilt)
    BY <1>2, <2>3, SpoiltNext
  <2>5. ~broken' => copy' = <<>>
    <3>1. SUFFICES ASSUME ~broken PROVE copy' = <<>>
      BY <1>5
    <3>2. ~EnqueueOk \/ ~HasShape(b.input_ids, b.attention_mask)
      BY <1>9 DEF InferOk
    <3>3. "wait" \notin Queued(b.input_ids, b.attention_mask) /\ "out" \notin Queued(b.input_ids, b.attention_mask)
      BY <3>2 DEF Queued
    <3>4. \A x, y : Op(x, y).op = x
      BY DEF Op
    <3>5. copy' = <<>> \o <<>> \o <<>>
      BY <1>3, <1>7, <3>1, <3>3, <3>4 DEF InferWith
    <3> QED BY <3>5
  <2>6. ~Risky'
    BY <2>1 DEF Risky
  <2> QED BY <1>4, <1>5, <1>6, <2>4, <2>5, <2>6 DEF FaultInv
<1> QED BY <1>8, <1>9

\* A batch that was on track comes out right.
LEMMA OutputIsRight ==
    ASSUME TypeInv, RowsInv, Synced, OnTrack(gpu.batch),
           NEW e, e.ids = gpu.batch.ids, e.vecs = [i \in DOMAIN gpu.batch.ids |-> pinned[i]]
    PROVE  ~Bad(e)
<1>1. pinned = Out(gpu.batch)
  <2>1. copy = <<>>
    BY DEF Synced, OnTrack
  <2> QED BY <2>1 DEF OnTrack
<1>2. gpu.batch.ids \in Seq(Nat) /\ Len(gpu.batch.ids) <= BatchSize
  BY DEF TypeInv, GpuInv, FineBatch, Batch
<1>3. \A k \in DOMAIN gpu.batch.ids : k \in Slots
  BY <1>2, LenProperties, ShapeAssumption DEF Slots
<1>4. \A k \in DOMAIN gpu.batch.ids : pinned[k] = RightRow(gpu.batch.ids[k])
  BY <1>1, <1>3 DEF Out, RowsInv, Spelled
<1> QED BY <1>4 DEF Bad

LEMMA GpuOutputFault == ASSUME TypeInv, RowsInv, FaultInv, GpuOutput PROVE FaultInv'
<1>1. gpu.pc = "wait" /\ Synced /\ texts' = texts /\ UNCHANGED runnerVars
  BY DEF GpuOutput, tokVars
<1>2. Cardinality(Spoilt) \in Nat /\ faults \in Nat /\ Cardinality(Spoilt) + (IF Risky THEN 1 ELSE 0) <= faults
  BY SpoiltFinite DEF TypeInv, DeviceInv, FaultInv
<1>3. faults' = faults /\ broken' = broken /\ copy' = copy
  BY <1>1 DEF runnerVars
<1>4. CASE "pinned" \in alloc
  <2>1. gpu'.pc = "recv" /\ Sent([i \in DOMAIN gpu.batch.ids |-> pinned[i]])
    BY <1>4 DEF GpuOutput
  <2>2. PICK v \in Seq(Seq(Nat)) : v = [i \in DOMAIN gpu.batch.ids |-> pinned[i]]
    BY OutputType
  <2>3. PICK e : e = [ids |-> gpu.batch.ids, vecs |-> v, failed |-> v = <<>>]
    OBVIOUS
  <2>4. stream' = Append(stream, e) /\ e \in Answer /\ e.ids = gpu.batch.ids /\ e.vecs = v
    BY <2>1, <2>2, <2>3 DEF Sent, Answer, TypeInv, GpuInv, FineBatch, Batch
  <2>5. ~Risky => ~Bad(e)
    BY <1>1, <1>4, <2>2, <2>4, OutputIsRight DEF Risky
  <2>6. /\ ~Bad(e) => Cardinality(Spoilt') = Cardinality(Spoilt)
        /\ Cardinality(Spoilt') \in Nat /\ Cardinality(Spoilt') <= Cardinality(Spoilt) + 1
    BY <1>1, <2>4, SpoiltNext
  <2>8. Cardinality(Spoilt') <= faults'
    BY <1>2, <1>3, <2>5, <2>6
  <2>9. ~Risky' /\ (~broken' => copy' = <<>>)
    BY <1>1, <1>3, <2>1 DEF Risky, Synced
  <2> QED BY <2>6, <2>8, <2>9, <1>2, <1>3 DEF FaultInv
<1>5. CASE "pinned" \notin alloc
  <2>1. gpu' = [gpu EXCEPT !.pc = "crashed"] /\ stream' = stream
    BY <1>5 DEF GpuOutput
  <2>2. gpu'.pc = "crashed"
    BY <2>1 DEF TypeInv, GpuInv
  <2>3. Cardinality(Spoilt') = Cardinality(Spoilt)
    BY <1>1, <2>1, SpoiltSame
  <2>4. ~Risky'
    BY <2>2 DEF Risky
  <2> QED BY <1>2, <1>3, <2>2, <2>3, <2>4 DEF FaultInv
<1> QED BY <1>4, <1>5

LEMMA DeviceFault ==
    ASSUME TypeInv, FaultInv, Device(ComputeStep) \/ Device(CopyStep) \/ Device(Break)
    PROVE  FaultInv'
<1>1. texts' = texts /\ stream' = stream /\ gpu' = gpu
  BY DEF Device, tokVars
<1>2. Cardinality(Spoilt') = Cardinality(Spoilt)
  BY <1>1, SpoiltSame
<1>3. Cardinality(Spoilt) \in Nat /\ faults \in Nat /\ Cardinality(Spoilt) + (IF Risky THEN 1 ELSE 0) <= faults
  BY SpoiltFinite DEF TypeInv, DeviceInv, FaultInv
<1>4. CASE ComputeStep
  <2>1. /\ faults' = faults /\ broken' = broken /\ copy' = copy /\ alloc' = alloc
    BY <1>4 DEF ComputeStep
  <2>2. Risky' => Risky
    <3>1. OnTrack(gpu.batch) => OnTrack(gpu.batch)'
      <4>1. PICK b : b = gpu.batch
        OBVIOUS
      <4>2. OnTrack(b) => OnTrack(b)'
        BY <1>4, ComputeOnTrack DEF TypeInv
      <4>3. gpu'.batch = b
        BY <1>1, <4>1
      <4> QED BY <4>1, <4>2, <4>3 DEF OnTrack, InOrder, Out
    <3> QED BY <1>1, <2>1, <3>1 DEF Risky
  <2> QED BY <1>1, <1>2, <1>3, <2>1, <2>2 DEF FaultInv
<1>5. CASE CopyStep
  <2>1. /\ faults' = faults /\ broken' = broken /\ copy # <<>> /\ ~broken /\ alloc' = alloc
    BY <1>5 DEF CopyStep
  <2>2. Risky' => Risky
    <3>1. OnTrack(gpu.batch) => OnTrack(gpu.batch)'
      <4>1. PICK b : b = gpu.batch
        OBVIOUS
      <4>2. OnTrack(b) => OnTrack(b)'
        BY <1>5, CopyOnTrack DEF TypeInv
      <4>3. gpu'.batch = b
        BY <1>1, <4>1
      <4> QED BY <4>1, <4>2, <4>3 DEF OnTrack, InOrder, Out
    <3> QED BY <1>1, <2>1, <3>1 DEF Risky
  <2>3. gpu'.pc \notin {"recv", "infer"}
    BY <1>1, <2>1 DEF FaultInv
  <2> QED BY <1>2, <1>3, <2>1, <2>2, <2>3 DEF FaultInv
<1>6. CASE Break
  <2>1. faults' = faults + 1 /\ broken'
    BY <1>6 DEF Break
  <2> QED BY <1>2, <1>3, <2>1 DEF FaultInv
<1> QED BY <1>4, <1>5, <1>6 DEF Device

LEMMA FaultStep == ASSUME TypeInv, RowsInv, FaultInv, [Next]_vars PROVE FaultInv'
<1>1. CASE TokSkip
  BY <1>1, TokSkipFault
<1>2. CASE TokSend \/ TokExit
  BY <1>2, OthersFault DEF TokSend, TokExit, gpuVars
<1>3. CASE BatcherRecv \/ BatcherTimeout \/ BatcherFlush \/ BatcherSend \/ BatcherExit \/ Tick
  BY <1>3, OthersFault DEF BatcherRecv, BatcherTimeout, BatcherFlush, BatcherSend, BatcherExit,
                           Tick, gpuVars, tokVars
<1>4. CASE GpuRecv
  <2>1. gpu.pc = "recv" /\ gpu'.pc = "infer" /\ UNCHANGED <<texts, stream, runnerVars>>
    BY <1>4 DEF GpuRecv, tokVars
  <2>2. Cardinality(Spoilt') = Cardinality(Spoilt) /\ ~Risky /\ ~Risky'
    BY <2>1, SpoiltSame DEF Risky
  <2> QED BY <2>1, <2>2 DEF FaultInv, runnerVars
<1>5. CASE GpuInfer
  BY <1>5, GpuInferFault
<1>6. CASE GpuOutput
  BY <1>6, GpuOutputFault
<1>7. CASE GpuExit
  <2>1. gpu.pc = "recv" /\ gpu' = [gpu EXCEPT !.pc = "done"] /\ UNCHANGED <<texts, stream, faults>>
    BY <1>7 DEF GpuExit, Destroy, tokVars
  <2>2. gpu'.pc = "done"
    BY <2>1 DEF TypeInv, GpuInv
  <2>3. Cardinality(Spoilt') = Cardinality(Spoilt) /\ ~Risky /\ ~Risky'
    BY <2>1, <2>2, SpoiltSame DEF Risky
  <2> QED BY <2>1, <2>2, <2>3 DEF FaultInv
<1>8. CASE Device(ComputeStep) \/ Device(CopyStep) \/ Device(Break)
  BY <1>8, DeviceFault
<1>9. CASE Stopped \/ UNCHANGED vars
  BY <1>9, OthersFault DEF Stopped, vars, tokVars, gpuVars
<1> QED BY <1>1, <1>2, <1>3, <1>4, <1>5, <1>6, <1>7, <1>8, <1>9 DEF Next

LEMMA FaultImplies == ASSUME TypeInv, FaultInv PROVE FaultCostsOneBatch
<1>1. Cardinality(Spoilt) \in Nat /\ faults \in Nat
  BY SpoiltFinite DEF TypeInv, DeviceInv
<1> QED BY <1>1 DEF FaultInv, FaultCostsOneBatch

\* A device fault, which get_output cannot report, passes for the results of
\* one batch at most, whatever the fault was and however far the device lags
\* behind the host; without faults all vectors are those of their messages.
THEOREM FaultsContained == MaxLen > 1 => (Spec => []FaultCostsOneBatch)
<1> SUFFICES ASSUME MaxLen > 1 PROVE Spec => []FaultCostsOneBatch
  OBVIOUS
<1>1. TypeInv /\ RowsInv /\ FaultInv /\ [Next]_vars => TypeInv' /\ RowsInv' /\ FaultInv'
  BY TypeStep, RowsStep, FaultStep
<1> QED BY <1>1, TypeInit, RowsInit, FaultInit, FaultImplies, PTL DEF Spec
=============================================================================
