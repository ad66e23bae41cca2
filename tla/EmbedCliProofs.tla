--------------------------- MODULE EmbedCliProofs ---------------------------
(***************************************************************************)
(* Proofs about EmbedCli, for every input, every number of messages and    *)
(* every behaviour of the engine that EmbedContract allows.  The inductive *)
(* invariant has one part for each stage: what was read, what the engine   *)
(* has answered, what the reorder buffer holds, and what the file holds.   *)
(***************************************************************************)
EXTENDS EmbedCli, FiniteSetTheorems, WellFoundedInduction, SequenceTheorems, TLAPS

LineRec == [kind : {"text", "short", "nothing"}, text : Text, id : STRING]
MessageRec == [id : Nat, text : Text]
AnswerRec == [kind : {"none", "skipped", "failed", "row"}, vec : SUBSET Text]
FileRec == [disk : Seq(OutRow), buf : Seq(OutRow), shape : Nat, closed : BOOLEAN]

\* The number of texts before line l is the number of its message.
Before(l) == {k \in TextLines(input) : k < l}

\* Message m and its id are those of line l.
ReadFrom(m, l) ==
    /\ l \in TextLines(input) /\ l <= at
    /\ Cardinality(Before(l)) = m - 1
    /\ messages[m].text = Lines(input)[l].text
    /\ reading = "jsonl" => user_ids[m] = Lines(input)[l].id

\* What read_sequential has made of the lines read so far.
Reading ==
    /\ input \in Inputs /\ reading \in ReadAs
    /\ at \in 0..Len(Lines(input))
    /\ messages \in Seq(MessageRec) /\ user_ids \in Seq(STRING)
    /\ Len(messages) = Cardinality(Before(at + 1)) /\ Len(user_ids) = Len(messages)
    /\ \A m \in DOMAIN messages : messages[m].id = m - 1 /\ \E l \in Nat : ReadFrom(m, l)

\* All of it is handed to the engine, and nothing happens before.
Handed ==
    /\ pc \in {"read", "open", "recv", "pop", "flush", "close", "done"}
    /\ pc # "read" => /\ at = Len(Lines(input))
                      /\ text = [m \in Msg |-> messages[m].text]

\* The engine's side.
Answering ==
    /\ answers \in [Msg -> {0, 1}] /\ answer \in [Msg -> AnswerRec]
    /\ \A m \in Msg : answers[m] = 0 <=> answer[m].kind = "none"
    /\ \A m \in Msg : answer[m].kind = "row" => answer[m].vec \subseteq Mates[text[m]]
    /\ stream \in {"none", "open", "ended", "dropped"}
    /\ stream = "ended" => \A m \in Msg : answers[m] = 1
    /\ pc = "read" => \A m \in Msg : answers[m] = 0

\* The message of sequence number s has the answer k.
Got(s, k) == answer[s + 1].kind = k

\* The buffer holds what has been answered from next_seq on, and between two
\* batches next_seq itself has not.
Buffer ==
    /\ next_seq \in 0..NMsg
    /\ DOMAIN pending = {s \in next_seq..(NMsg - 1) : Got(s, "row")}
    /\ \A s \in DOMAIN pending : pending[s] = answer[s + 1].vec
    /\ skipped = {s \in next_seq..(NMsg - 1) : Got(s, "skipped") \/ Got(s, "failed")}
    /\ \A s \in 0..(next_seq - 1) : answers[s + 1] = 1
    /\ pc \in {"read", "open", "recv"} /\ next_seq < NMsg => answers[next_seq + 1] = 0

\* The loop is only left when the stream has ended; then nothing is missing.
Ending ==
    /\ stream = "ended" => next_seq = NMsg
    /\ pc \in {"flush", "close"} => stream = "ended"
    /\ n_errors = Cardinality({m \in Msg : answer[m].kind = "failed"})

\* The file holds the rows of all messages below next_seq that have one.
Filing ==
    /\ format \in Formats /\ file \in FileRec
    /\ n_written = Len(Rows) /\ n_written <= next_seq
    /\ \A i \in DOMAIN Rows :
         LET s == Rows[i].seq
         IN  /\ s \in 0..(next_seq - 1) /\ Got(s, "row")
             /\ Rows[i].vec = answer[s + 1].vec /\ Rows[i].id = RowId(s)
    /\ \A i, j \in DOMAIN Rows : i < j => Rows[i].seq < Rows[j].seq
    /\ \A s \in 0..(next_seq - 1) : Got(s, "row") => \E i \in DOMAIN Rows : Rows[i].seq = s
    /\ format = "npy" => file.buf = <<>> /\ ~file.closed
    /\ format # "npy" => file.shape = 0
    /\ file.shape \in {0, n_written}
    /\ file.closed => file.buf = <<>>

\* Only Close marks the file as complete, and only Close reports success.
Verdict ==
    /\ result \in {"none", "ok", "err"}
    /\ file.closed \/ file.shape # 0 => pc = "done" /\ stream = "ended"
    /\ result = "ok" => /\ pc = "done" /\ stream = "ended" /\ n_errors = 0
                        /\ IF format = "npy" THEN file.shape = n_written ELSE file.closed

Inv == Reading /\ Handed /\ Answering /\ Buffer /\ Ending /\ Filing /\ Verdict

-----------------------------------------------------------------------------
(* Operators. *)

LEMMA MsgIsFinite == IsFiniteSet(Msg) /\ Cardinality(Msg) = NMsg
BY FS_Interval, CliAssumption DEF Msg

\* A non-empty set of natural numbers has a least element.
LEMMA MinInSet ==
    ASSUME NEW S \in SUBSET Nat, S # {}
    PROVE  Min(S) \in S /\ \A y \in S : Min(S) =< y
<1>1. PICK x \in S : \A y \in S : <<y, x>> \notin OpToRel(<, Nat)
  BY NatLessThanWellFounded, WFMin
<1>2. \A y, z \in Nat : y < z => <<y, z>> \in OpToRel(<, Nat)
  BY DEF OpToRel
<1>3. ASSUME NEW y \in S PROVE x =< y
  <2>1. ~(y < x)
    BY <1>1, <1>2
  <2> QED BY <2>1
<1> QED BY <1>3 DEF Min

\* pop_next stops at the first number from next_seq on that is not skipped.
LEMMA AdvancedStops ==
    ASSUME NMsg \in Nat, next_seq \in 0..NMsg, skipped \subseteq Seqs
    PROVE  /\ Advanced \in next_seq..NMsg
           /\ Advanced \notin skipped
           /\ \A s \in next_seq..(Advanced - 1) : s \in skipped
<1> DEFINE S == {s \in next_seq..NMsg : s \notin skipped}
<1>1. S \in SUBSET Nat /\ NMsg \in S
  BY DEF Seqs
<1>2. Min(S) \in S /\ \A y \in S : Min(S) =< y
  BY <1>1, MinInSet
<1>3. Advanced = Min(S)
  BY DEF Advanced
<1> HIDE DEF S
<1>4. Advanced \in S /\ \A y \in S : Advanced =< y
  BY <1>2, <1>3
<1>5. Advanced \in next_seq..NMsg /\ Advanced \notin skipped
  BY <1>4 DEF S
<1>6. ASSUME NEW s \in next_seq..(Advanced - 1) PROVE s \in skipped
  <2>1. s \in next_seq..NMsg /\ ~(Advanced =< s)
    BY <1>5
  <2> QED BY <2>1, <1>4 DEF S
<1> QED BY <1>5, <1>6

\* Appending to the second of two sequences appends to both.
LEMMA AppendToSecond ==
    ASSUME NEW S, NEW s \in Seq(S), NEW t \in Seq(S), NEW e \in S
    PROVE  s \o Append(t, e) = Append(s \o t, e)
<1>1. Append(t, e) = t \o <<e>> /\ <<e>> \in Seq(S)
  BY AppendIsConcat
<1>2. s \o (t \o <<e>>) = (s \o t) \o <<e>>
  BY <1>1, ConcatAssociative
<1>3. s \o t \in Seq(S)
  BY ConcatProperties
<1> QED BY <1>1, <1>2, <1>3, AppendIsConcat

\* Whatever the format, a row written becomes the last of the rows.
LEMMA WrittenAppends ==
    ASSUME NEW f \in FileRec, NEW row \in OutRow, format = "npy" => f.buf = <<>>
    PROVE  /\ Written(f, row) \in FileRec
           /\ Written(f, row).disk \o Written(f, row).buf = Append(f.disk \o f.buf, row)
           /\ Written(f, row).shape = f.shape /\ Written(f, row).closed = f.closed
           /\ format = "npy" => Written(f, row).buf = <<>>
<1> DEFINE disk == f.disk  buf == f.buf
<1>1. disk \in Seq(OutRow) /\ buf \in Seq(OutRow) /\ f.shape \in Nat /\ f.closed \in BOOLEAN
  BY DEF FileRec
<1>2. f = [disk |-> disk, buf |-> buf, shape |-> f.shape, closed |-> f.closed]
  BY DEF FileRec
<1> HIDE DEF disk, buf
<1>3. /\ Append(disk, row) \in Seq(OutRow) /\ Append(buf, row) \in Seq(OutRow)
      /\ disk \o Append(buf, row) \in Seq(OutRow) /\ <<>> \in Seq(OutRow)
  BY <1>1, AppendProperties, ConcatProperties, EmptySeq
<1>4. disk \o Append(buf, row) = Append(disk \o buf, row)
  BY <1>1, AppendToSecond
<1>5. \A s \in Seq(OutRow) : s \o <<>> = s
  BY ConcatEmptySeq
<1> USE DEF disk, buf
<1>6. CASE format = "npy"
  <2>1. Written(f, row) = [disk |-> Append(disk, row), buf |-> buf, shape |-> f.shape,
                           closed |-> f.closed]
    BY <1>6, <1>2 DEF Written
  <2>2. buf = <<>>
    BY <1>6
  <2> HIDE DEF disk, buf
  <2>3. Append(disk, row) \o <<>> = Append(disk \o <<>>, row)
    BY <1>1, <1>3, <1>5
  <2> QED BY <2>1, <2>2, <2>3, <1>1, <1>3 DEF FileRec, disk, buf
<1>7. CASE format # "npy" /\ Len(f.buf) + 1 >= RowGroup
  <2>1. Written(f, row) = [disk |-> disk \o Append(buf, row), buf |-> <<>>, shape |-> f.shape,
                           closed |-> f.closed]
    BY <1>7, <1>2 DEF Written
  <2> QED BY <2>1, <1>1, <1>3, <1>4, <1>5, <1>7 DEF FileRec
<1>8. CASE format # "npy" /\ ~(Len(f.buf) + 1 >= RowGroup)
  <2>1. Written(f, row) = [disk |-> disk, buf |-> Append(buf, row), shape |-> f.shape,
                           closed |-> f.closed]
    BY <1>8, <1>2 DEF Written
  <2> QED BY <2>1, <1>1, <1>3, <1>4, <1>8 DEF FileRec
<1> QED BY <1>6, <1>7, <1>8

\* The id column is a string.
LEMMA RowIdIsText ==
    ASSUME user_ids \in Seq(STRING), NEW s \in 0..NMsg
    PROVE  RowId(s) \in STRING
<1>1. s + 1 \in DOMAIN user_ids => user_ids[s + 1] \in STRING
  OBVIOUS
<1>2. ToString(s) \in STRING
  BY CliAssumption, Zenon
<1> QED BY <1>1, <1>2, Zenon DEF RowId

-----------------------------------------------------------------------------
(* Reading. *)

LEMMA LinesOfInput ==
    ASSUME input \in Inputs
    PROVE  /\ Lines(input) \in Seq(LineRec)
           /\ TextLines(input) \subseteq 1..Len(Lines(input)) /\ Len(Lines(input)) \in Nat
           /\ IsFiniteSet(TextLines(input)) /\ Cardinality(TextLines(input)) = NMsg
<1>1. Lines(input) \in Seq(LineRec) /\ Cardinality(TextLines(input)) = NMsg
  BY InputAssumption DEF LineRec
<1> DEFINE lines == Lines(input)
<1>2. TextLines(input) = {l \in DOMAIN lines : lines[l].kind = "text"}
  BY DEF TextLines
<1> HIDE DEF lines
<1>3. Len(lines) \in Nat /\ DOMAIN lines = 1..Len(lines)
  BY <1>1 DEF lines
<1>4. TextLines(input) \in SUBSET (1..Len(lines))
  BY <1>2, <1>3
<1>5. IsFiniteSet(TextLines(input))
  <2>1. IsFiniteSet(1..Len(lines))
    BY <1>3, FS_Interval
  <2> QED BY <1>4, <2>1, FS_Subset
<1> QED BY <1>1, <1>3, <1>4, <1>5 DEF lines

\* How the rank of a line grows with the line.
LEMMA BeforeGrows ==
    ASSUME input \in Inputs, NEW l \in Nat
    PROVE  /\ IsFiniteSet(Before(l)) /\ Cardinality(Before(l)) \in 0..NMsg
           /\ Cardinality(Before(l + 1)) =
                Cardinality(Before(l)) + IF l \in TextLines(input) THEN 1 ELSE 0
<1>1. IsFiniteSet(TextLines(input)) /\ Cardinality(TextLines(input)) = NMsg
      /\ TextLines(input) \subseteq Nat
  BY LinesOfInput
<1>2. Before(l) \in SUBSET TextLines(input)
  BY DEF Before
<1>3. IsFiniteSet(Before(l)) /\ Cardinality(Before(l)) =< NMsg
  BY <1>1, <1>2, FS_Subset
<1>4. Cardinality(Before(l)) \in Nat
  BY <1>3, FS_CardinalityType
<1>5. Before(l + 1) = IF l \in TextLines(input) THEN Before(l) \cup {l} ELSE Before(l)
  BY <1>1 DEF Before
<1>6. l \notin Before(l)
  BY DEF Before
<1>7. Cardinality(Before(l) \cup {l}) = Cardinality(Before(l)) + 1
  BY <1>3, <1>6, FS_AddElement
<1> QED BY <1>3, <1>4, <1>5, <1>7, CliAssumption

\* Two texts of the same rank are the same line.
LEMMA RankIsUnique ==
    ASSUME input \in Inputs, NEW k \in TextLines(input), NEW l \in TextLines(input),
           Cardinality(Before(k)) = Cardinality(Before(l))
    PROVE  k = l
<1>1. TextLines(input) \subseteq Nat
  BY LinesOfInput
<1>2. ASSUME NEW i \in TextLines(input), NEW j \in TextLines(input), i < j
      PROVE  Cardinality(Before(i)) < Cardinality(Before(j))
  <2>1. i \in Nat /\ j \in Nat
    BY <1>1
  <2>2. Before(i + 1) \in SUBSET Before(j)
    BY <1>1, <1>2, <2>1 DEF Before
  <2>3. IsFiniteSet(Before(j)) /\ Cardinality(Before(j)) \in Nat
    BY <2>1, BeforeGrows
  <2>4. Cardinality(Before(i + 1)) =< Cardinality(Before(j))
    BY <2>2, <2>3, FS_Subset
  <2>5. Cardinality(Before(i + 1)) = Cardinality(Before(i)) + 1 /\ Cardinality(Before(i)) \in Nat
    BY <2>1, BeforeGrows
  <2> QED BY <2>3, <2>4, <2>5
<1>3. ~(k < l) /\ ~(l < k)
  <2>1. Cardinality(Before(k)) \in Nat
    BY <1>1, BeforeGrows
  <2> QED BY <1>2, <2>1
<1> QED BY <1>1, <1>3

\* Every line read adds at most one message, with the line's rank as number.
LEMMA ReadKeeps ==
    ASSUME Reading, Read
    PROVE  Reading'
<1>a. PICK l \in Nat : l = at + 1
  BY DEF Reading
<1>b. PICK n \in Nat : n = Len(messages)
  BY DEF Reading
<1> DEFINE line == Lines(input)[l]
           id == IF reading = "plain" THEN ToString(n) ELSE line.id
<1>1. /\ input' = input /\ reading' = reading /\ at' = l /\ l \in Nat \ {0} /\ at < Len(Lines(input))
      /\ input \in Inputs /\ reading \in ReadAs /\ at \in Nat
      /\ Lines(input) \in Seq(LineRec) /\ Len(Lines(input)) \in Nat
  BY <1>a, LinesOfInput DEF Reading, Read
<1>2. line \in LineRec /\ (l \in TextLines(input) <=> line.kind = "text")
  BY <1>1, <1>a DEF TextLines
<1>3. /\ messages \in Seq(MessageRec) /\ user_ids \in Seq(STRING)
      /\ n \in Nat /\ n = Cardinality(Before(l)) /\ Len(user_ids) = n
      /\ DOMAIN messages = 1..n /\ n =< NMsg
  <2>1. messages \in Seq(MessageRec) /\ user_ids \in Seq(STRING)
        /\ n = Cardinality(Before(l)) /\ Len(user_ids) = n
    BY <1>a, <1>b DEF Reading
  <2>2. n \in Nat /\ DOMAIN messages = 1..n
    BY <2>1, <1>b
  <2>3. n \in 0..NMsg
    BY <1>1, <2>1, BeforeGrows
  <2> QED BY <2>1, <2>2, <2>3, CliAssumption
<1> HIDE DEF line, id
<1>4. at' \in 0..Len(Lines(input)') /\ \A k : Before(k)' = Before(k)
  BY <1>1, <1>a DEF Before
<1>5. Cardinality(Before(at + 1)') = n + IF line.kind = "text" THEN 1 ELSE 0
  <2>1. Cardinality(Before(l + 1)) = n + IF line.kind = "text" THEN 1 ELSE 0
    BY <1>1, <1>2, <1>3, BeforeGrows
  <2>2. Before(at + 1)' = Before(l + 1)
    BY <1>1 DEF Before
  <2> QED BY <2>1, <2>2
<1>6. CASE line.kind # "text"
  <2>1. messages' = messages /\ user_ids' = user_ids
    BY <1>6, <1>a DEF Read, ReadLine, line
  <2>2. Cardinality(Before(at + 1)') = n
    BY <1>3, <1>6, <1>5
  <2>3. ASSUME NEW m \in 1..n
        PROVE  messages[m].id = m - 1 /\ \E k \in Nat : ReadFrom(m, k)'
    <3>1. PICK k \in Nat : ReadFrom(m, k)
      BY <1>3 DEF Reading
    <3>2. ReadFrom(m, k)'
      BY <1>1, <1>4, <1>a, <2>1, <3>1 DEF ReadFrom
    <3> QED BY <1>3, <3>2 DEF Reading
  <2> QED BY <1>1, <1>3, <1>4, <1>b, <2>1, <2>2, <2>3 DEF Reading
<1>7. CASE line.kind = "text"
  <2> DEFINE new == [id |-> n, text |-> line.text]
  <2>1. messages' = Append(messages, new) /\ user_ids' = Append(user_ids, id)
    BY <1>7, <1>a, <1>b DEF Read, ReadLine, line, id
  <2>2. new \in MessageRec
    BY <1>2, <1>3 DEF MessageRec, LineRec
  <2>3. id \in STRING
    <3>1. line.id \in STRING
      BY <1>2 DEF LineRec
    <3>2. ToString(n) \in STRING
      <4>1. n \in 0..NMsg
        BY <1>3, CliAssumption
      <4> QED BY <4>1, CliAssumption, Zenon
    <3> QED BY <3>1, <3>2 DEF id
  <2> HIDE DEF new
  <2>4. /\ messages' \in Seq(MessageRec) /\ user_ids' \in Seq(STRING)
        /\ Len(messages') = n + 1 /\ Len(user_ids') = n + 1 /\ DOMAIN messages' = 1..(n + 1)
        /\ messages'[n + 1] = new /\ user_ids'[n + 1] = id
        /\ \A m \in 1..n : messages'[m] = messages[m] /\ user_ids'[m] = user_ids[m]
    <3>1. Len(messages) = n
      BY <1>b
    <3>2. /\ Append(messages, new) \in Seq(MessageRec)
          /\ Len(Append(messages, new)) = n + 1 /\ Append(messages, new)[n + 1] = new
          /\ \A m \in 1..n : Append(messages, new)[m] = messages[m]
      BY <1>3, <2>2, <3>1, AppendProperties
    <3>3. /\ Append(user_ids, id) \in Seq(STRING)
          /\ Len(Append(user_ids, id)) = n + 1 /\ Append(user_ids, id)[n + 1] = id
          /\ \A m \in 1..n : Append(user_ids, id)[m] = user_ids[m]
      <4>1. PICK S : S = STRING
        OBVIOUS
      <4>2. user_ids \in Seq(S) /\ id \in S /\ Len(user_ids) = n
        BY <1>3, <2>3, <4>1
      <4>3. /\ Append(user_ids, id) \in Seq(S)
            /\ Len(Append(user_ids, id)) = n + 1 /\ Append(user_ids, id)[n + 1] = id
            /\ \A m \in 1..n : Append(user_ids, id)[m] = user_ids[m]
        BY <4>2, AppendProperties
      <4> QED BY <4>1, <4>3, Zenon
    <3>4. DOMAIN messages' = 1..(n + 1)
      BY <2>1, <3>2
    <3> QED BY <2>1, <3>2, <3>3, <3>4
  <2>5. Cardinality(Before(at + 1)') = n + 1
    BY <1>3, <1>7, <1>5
  <2>6. ASSUME NEW m \in 1..n
        PROVE  messages'[m].id = m - 1 /\ \E k \in Nat : ReadFrom(m, k)'
    <3>1. PICK k \in Nat : ReadFrom(m, k)
      BY <1>3 DEF Reading
    <3>2. ReadFrom(m, k)'
      BY <1>1, <1>4, <1>a, <2>4, <3>1 DEF ReadFrom
    <3> QED BY <1>3, <2>4, <3>2 DEF Reading
  <2>7. messages'[n + 1].id = n /\ ReadFrom(n + 1, l)'
    <3>1. messages'[n + 1].id = n /\ messages'[n + 1].text = line.text
      BY <2>4 DEF new
    <3>2. reading = "jsonl" => user_ids'[n + 1] = line.id
      BY <2>4 DEF id
    <3>3. Cardinality(Before(l)') = (n + 1) - 1
      BY <1>3, <1>4
    <3>4. l \in TextLines(input)' /\ l =< at'
      BY <1>1, <1>2, <1>7
    <3> QED BY <1>1, <3>1, <3>2, <3>3, <3>4 DEF ReadFrom, line
  <2>8. ASSUME NEW m \in 1..(n + 1)
        PROVE  messages'[m].id = m - 1 /\ \E k \in Nat : ReadFrom(m, k)'
    <3>1. CASE m \in 1..n
      BY <2>6, <3>1
    <3>2. CASE m = n + 1
      <4>1. m - 1 = n
        BY <1>3, <3>2
      <4> QED BY <2>7, <3>2, <4>1
    <3> QED BY <1>3, <3>1, <3>2
  <2> QED BY <1>1, <1>3, <1>4, <2>4, <2>5, <2>8 DEF Reading
<1> QED BY <1>6, <1>7

-----------------------------------------------------------------------------
(* What follows from the parts of the invariant. *)

\* Once everything is read, message m has number m - 1, and all have a text.
LEMMA AllRead ==
    ASSUME Reading, Handed, pc # "read"
    PROVE  /\ Len(messages) = NMsg /\ Len(user_ids) = NMsg /\ DOMAIN messages = Msg
           /\ text \in [Msg -> Text]
           /\ \A m \in Msg : SeqNo(m) = m - 1
           /\ \A s \in Seqs : Numbered(s) = s + 1
<1>1. Before(at + 1) = TextLines(input)
  BY LinesOfInput DEF Reading, Handed, Before
<1>2. Len(messages) = NMsg /\ Len(user_ids) = NMsg
  BY <1>1, LinesOfInput DEF Reading
<1>3. DOMAIN messages = Msg
  BY <1>2 DEF Reading, Msg
<1>4. \A m \in Msg : messages[m].text \in Text
  <2>1. \A m \in Msg : messages[m] \in MessageRec
    BY <1>3 DEF Reading
  <2> QED BY <2>1 DEF MessageRec
<1>5. text \in [Msg -> Text]
  BY <1>4 DEF Handed
<1>6. \A m \in Msg : SeqNo(m) = m - 1
  BY <1>3 DEF Reading, SeqNo
<1>7. ASSUME NEW s \in Seqs PROVE Numbered(s) = s + 1
  <2>1. s + 1 \in Msg /\ SeqNo(s + 1) = s
    BY <1>6, CliAssumption DEF Seqs, Msg
  <2>2. \A m \in Msg : SeqNo(m) = s => m = s + 1
    BY <1>6, CliAssumption DEF Seqs, Msg
  <2> QED BY <2>1, <2>2 DEF Numbered
<1> QED BY <1>2, <1>3, <1>5, <1>6, <1>7

\* What a batch does to the answers.
LEMMA DeliverAnswers ==
    ASSUME Answering, text \in [Msg -> Text], NEW S \in SUBSET Msg, Stream!Deliver(S),
           pc # "read", pc' # "read"
    PROVE  /\ Answering'
           /\ \A m \in Msg \ S : answer'[m] = answer[m] /\ answers'[m] = answers[m]
           /\ \A m \in S : /\ answers[m] = 0 /\ answers'[m] = 1
                           /\ answer'[m].kind \in {"skipped", "failed", "row"}
           /\ text' = text /\ stream' = stream /\ stream = "open" /\ S # {}
<1>1. PICK a \in [S -> UNION {Stream!Rightful(m) : m \in S}] :
        /\ \A m \in S : a[m] \in Stream!Rightful(m)
        /\ answer' = [m \in Msg |-> IF m \in S THEN a[m] ELSE answer[m]]
  BY DEF Stream!Deliver, Stream!Msg, Msg
<1>2. /\ answers' = [m \in Msg |-> IF m \in S THEN 1 ELSE answers[m]]
      /\ text' = text /\ stream' = stream /\ stream = "open" /\ S # {}
      /\ \A m \in S : answers[m] = 0
  BY DEF Stream!Deliver, Stream!Msg, Msg
<1>3. ASSUME NEW m \in S
      PROVE  /\ a[m] \in AnswerRec /\ a[m].kind \in {"skipped", "failed", "row"}
             /\ a[m].kind = "row" => a[m].vec \subseteq Mates[text[m]]
  <2>1. Mates[text[m]] \subseteq Text
    BY CliAssumption
  <2>2. CASE a[m] = [kind |-> "skipped", vec |-> {}]
    BY <2>2 DEF AnswerRec
  <2>3. CASE a[m] = [kind |-> "failed", vec |-> {}]
    BY <2>3 DEF AnswerRec
  <2>4. ASSUME NEW v \in SUBSET Mates[text[m]], a[m] = [kind |-> "row", vec |-> v]
        PROVE  /\ a[m] \in AnswerRec /\ a[m].kind \in {"skipped", "failed", "row"}
               /\ a[m].vec \subseteq Mates[text[m]]
    BY <2>1, <2>4 DEF AnswerRec
  <2> QED BY <1>1, <2>2, <2>3, <2>4 DEF Stream!Rightful
<1>4. \A m \in S : answer'[m] = a[m] /\ answers'[m] = 1
  BY <1>1, <1>2
<1>5. \A m \in Msg \ S : answer'[m] = answer[m] /\ answers'[m] = answers[m]
  BY <1>1, <1>2
<1>6. answers' \in [Msg -> {0, 1}]
  BY <1>2 DEF Answering
<1>7. answer' \in [Msg -> AnswerRec]
  BY <1>1, <1>3 DEF Answering
<1>8. ASSUME NEW m \in Msg
      PROVE  /\ answers'[m] = 0 <=> answer'[m].kind = "none"
             /\ answer'[m].kind = "row" => answer'[m].vec \subseteq Mates[text[m]]
  BY <1>3, <1>4, <1>5 DEF Answering
<1>9. Answering'
  BY <1>2, <1>6, <1>7, <1>8 DEF Answering
<1> QED BY <1>2, <1>3, <1>4, <1>5, <1>9

\* A message has no answer, or exactly one of three.
LEMMA FourKinds ==
    ASSUME Answering, NEW m \in Msg
    PROVE  /\ answer[m].kind \in {"none", "skipped", "failed", "row"}
           /\ answers[m] = 1 <=> answer[m].kind # "none"
           /\ answers[m] \in {0, 1}
BY DEF Answering, AnswerRec

-----------------------------------------------------------------------------
(* The invariant. *)

\* What Written, Closed and pop_next need to know of the rows.
LEMMA RowsAreTyped ==
    ASSUME Filing, Ending, Buffer
    PROVE  /\ Rows \in Seq(OutRow) /\ Len(Rows) = n_written /\ DOMAIN Rows = 1..n_written
           /\ n_written \in Nat /\ n_written =< NMsg /\ next_seq \in 0..NMsg
           /\ file.disk \in Seq(OutRow) /\ file.buf \in Seq(OutRow)
<1>1. file.disk \in Seq(OutRow) /\ file.buf \in Seq(OutRow)
  BY DEF Filing, FileRec
<1>2. Rows \in Seq(OutRow)
  BY <1>1, ConcatProperties DEF Rows
<1>3. Len(Rows) \in Nat /\ DOMAIN Rows = 1..Len(Rows)
  BY <1>2
<1>4. next_seq \in 0..NMsg
  BY DEF Buffer
<1> QED BY <1>1, <1>2, <1>3, <1>4, CliAssumption DEF Filing

\* The program has read nothing and written nothing.
LEMMA InitInv == Init => Inv
<1> SUFFICES ASSUME Init PROVE Inv
  OBVIOUS
<1>1. Reading
  <2>1. at + 1 = 1 /\ Before(1) = {}
    <3>1. TextLines(input) \subseteq 1..Len(Lines(input))
      BY LinesOfInput DEF Init
    <3> QED BY <3>1, LinesOfInput DEF Init, Before
  <2>2. Cardinality(Before(at + 1)) = 0
    BY <2>1, FS_EmptySet
  <2>3. /\ messages \in Seq(MessageRec) /\ user_ids \in Seq(STRING)
        /\ Len(messages) = 0 /\ Len(user_ids) = 0 /\ DOMAIN messages = {}
    BY DEF Init
  <2>4. at \in 0..Len(Lines(input))
    BY LinesOfInput DEF Init
  <2> QED BY <2>2, <2>3, <2>4 DEF Init, Reading
<1>2. Handed
  BY DEF Init, Handed
<1>3. Answering
  <2>1. [kind |-> "none", vec |-> {}] \in AnswerRec
    BY DEF AnswerRec
  <2> QED BY <2>1 DEF Init, Answering
<1>4. \A s \in Seqs : ~Got(s, "row") /\ ~Got(s, "skipped") /\ ~Got(s, "failed")
  <2>1. \A s \in Seqs : s + 1 \in Msg
    BY CliAssumption DEF Seqs, Msg
  <2> QED BY <2>1 DEF Init, Got
<1>5. Buffer
  <2>1. \A s \in 0..(NMsg - 1) : s \in Seqs
    BY DEF Seqs
  <2>2. next_seq < NMsg => answers[next_seq + 1] = 0
    BY CliAssumption DEF Init, Msg
  <2> QED BY <1>4, <2>1, <2>2, CliAssumption DEF Init, Buffer, NoneYet
<1>6. Ending
  <2>1. {m \in Msg : answer[m].kind = "failed"} = {}
    BY DEF Init
  <2>2. Cardinality({m \in Msg : answer[m].kind = "failed"}) = 0
    BY <2>1, FS_EmptySet
  <2> QED BY <2>2 DEF Init, Ending
<1>7. Filing
  <2>1. file.disk = <<>> /\ file.buf = <<>> /\ file.shape = 0 /\ file.closed = FALSE
    BY DEF Init, NoFile
  <2>2. Rows = <<>> /\ Len(Rows) = 0 /\ DOMAIN Rows = {}
    BY <2>1 DEF Rows
  <2>3. file \in FileRec
    <3>1. <<>> \in Seq(OutRow)
      BY EmptySeq
    <3> QED BY <3>1 DEF Init, NoFile, FileRec
  <2> QED BY <2>1, <2>2, <2>3 DEF Init, Filing
<1>8. Verdict
  BY DEF Init, Verdict, NoFile
<1> QED BY <1>1, <1>2, <1>3, <1>5, <1>6, <1>7, <1>8 DEF Inv

LEMMA ReadInv ==
    ASSUME Inv, Read
    PROVE  Inv'
<1>1. UNCHANGED <<text, answers, answer, stream, pc, next_seq, pending, skipped, n_written,
                  n_errors, format, file, result>> /\ pc = "read"
  BY DEF Read, streamVars, cliVars
<1>2. Reading'
  BY ReadKeeps DEF Inv
<1>3. Handed' /\ Answering' /\ Buffer' /\ Ending' /\ Verdict'
  BY <1>1 DEF Inv, Handed, Answering, Buffer, Ending, Verdict, Got
<1>4. DOMAIN Rows = {}
  <2>1. DOMAIN Rows = 1..n_written /\ next_seq \in 0..NMsg
    BY RowsAreTyped DEF Inv
  <2>2. ASSUME NEW i \in DOMAIN Rows PROVE FALSE
    <3>1. Rows[i].seq \in 0..(next_seq - 1) /\ Got(Rows[i].seq, "row")
      BY DEF Inv, Filing
    <3>2. Rows[i].seq + 1 \in Msg
      BY <2>1, <3>1, CliAssumption DEF Msg
    <3> QED BY <1>1, <3>1, <3>2 DEF Inv, Answering, Got
  <2> QED BY <2>2
<1>5. Filing'
  <2>1. Rows' = Rows
    BY <1>1 DEF Rows
  <2> QED BY <1>1, <1>4, <2>1 DEF Inv, Filing, Got
<1> QED BY <1>2, <1>3, <1>5 DEF Inv

\* Nothing but Read touches the input.
LEMMA ReadingStays ==
    ASSUME Reading, UNCHANGED inputVars
    PROVE  Reading'
BY DEF Reading, ReadFrom, Before, inputVars

LEMMA EmbedInv ==
    ASSUME Inv, Embed
    PROVE  Inv'
<1>1. UNCHANGED <<input, reading, at, messages, user_ids, answers, answer, next_seq, pending,
                  skipped, n_written, n_errors, format, file, result>>
      /\ pc = "read" /\ pc' = "open" /\ stream' = "open" /\ at = Len(Lines(input))
      /\ text' = [m \in Msg |-> messages[m].text]
  BY DEF Embed, inputVars
<1>2. Reading'
  BY <1>1, ReadingStays DEF Inv, inputVars
<1>3. Handed' /\ Buffer' /\ Verdict'
  BY <1>1 DEF Inv, Handed, Buffer, Verdict, Got
<1>4. Answering'
  BY <1>1 DEF Inv, Answering
<1>5. Ending'
  BY <1>1 DEF Inv, Ending
<1>6. Filing'
  BY <1>1 DEF Inv, Filing, Got, Rows, RowId
<1> QED BY <1>2, <1>3, <1>4, <1>5, <1>6 DEF Inv

LEMMA OpenInv ==
    ASSUME Inv, Open
    PROVE  Inv'
<1>1. UNCHANGED <<streamVars, inputVars, next_seq, pending, skipped, n_written, n_errors,
                  format, file, result>> /\ pc = "open" /\ pc' = "recv"
  BY DEF Open
<1> USE DEF streamVars, inputVars
<1>2. Reading'
  BY <1>1, ReadingStays DEF Inv, inputVars
<1>3. Handed' /\ Answering' /\ Buffer' /\ Ending' /\ Verdict'
  BY <1>1 DEF Inv, Handed, Answering, Buffer, Ending, Verdict, Got
<1>4. Filing'
  BY <1>1 DEF Inv, Filing, Got, Rows, RowId
<1> QED BY <1>2, <1>3, <1>4 DEF Inv

\* A batch: the buffer takes its rows or passes over its numbers.
LEMMA RecvInv ==
    ASSUME Inv, Recv
    PROVE  Inv'
<1>1. /\ UNCHANGED <<inputVars, next_seq, n_written, format, file, result>>
      /\ pc = "recv" /\ pc' = "pop"
  BY DEF Recv
<1>2. PICK S \in SUBSET Msg :
        /\ Stream!Deliver(S)
        /\ \A m, n \in S : answer'[m].kind = answer'[n].kind
        /\ LET seqs == {SeqNo(m) : m \in S}
               kind == answer'[CHOOSE m \in S : TRUE].kind
           IN  /\ n_errors' = n_errors + (IF kind = "failed" THEN Cardinality(S) ELSE 0)
               /\ skipped' = IF kind = "row" THEN skipped ELSE skipped \cup seqs
               /\ pending' = IF kind # "row" THEN pending
                             ELSE [s \in DOMAIN pending \cup seqs |->
                                     IF s \in seqs THEN answer'[Numbered(s)].vec
                                     ELSE pending[s]]
  BY DEF Recv
<1> DEFINE seqs == {SeqNo(m) : m \in S}
           kind == answer'[CHOOSE m \in S : TRUE].kind
<1>3. /\ text \in [Msg -> Text] /\ \A m \in Msg : SeqNo(m) = m - 1
      /\ \A s \in Seqs : Numbered(s) = s + 1
  BY <1>1, AllRead DEF Inv
<1>4. /\ Answering'
      /\ \A m \in Msg \ S : answer'[m] = answer[m] /\ answers'[m] = answers[m]
      /\ \A m \in S : /\ answers[m] = 0 /\ answers'[m] = 1
                      /\ answer'[m].kind \in {"skipped", "failed", "row"}
      /\ text' = text /\ stream' = stream /\ stream = "open" /\ S # {}
  BY <1>1, <1>2, <1>3, DeliverAnswers DEF Inv
<1>5. \A m \in S : answer'[m].kind = kind
  BY <1>2, <1>4
<1>6. kind \in {"skipped", "failed", "row"}
  BY <1>4, <1>5
<1>7. /\ n_errors' = n_errors + (IF kind = "failed" THEN Cardinality(S) ELSE 0)
      /\ skipped' = IF kind = "row" THEN skipped ELSE skipped \cup seqs
      /\ kind # "row" => pending' = pending
      /\ kind = "row" => pending' = [s \in DOMAIN pending \cup seqs |->
                                       IF s \in seqs THEN answer'[Numbered(s)].vec
                                       ELSE pending[s]]
  BY <1>2
<1>8. /\ seqs \subseteq next_seq..(NMsg - 1) /\ next_seq \in 0..NMsg
      /\ \A s \in Seqs : s \in seqs <=> s + 1 \in S
      /\ \A s \in Seqs : s + 1 \in Msg
      /\ next_seq..(NMsg - 1) \subseteq Seqs /\ 0..(next_seq - 1) \subseteq Seqs
  <2>1. next_seq \in 0..NMsg /\ \A s \in 0..(next_seq - 1) : answers[s + 1] = 1
    BY DEF Inv, Buffer
  <2>2. ASSUME NEW m \in S PROVE SeqNo(m) = m - 1 /\ m - 1 \in next_seq..(NMsg - 1)
    <3>1. m \in 1..NMsg /\ answers[m] = 0 /\ SeqNo(m) = m - 1
      BY <1>3, <1>4 DEF Msg
    <3>2. ~(m - 1 \in 0..(next_seq - 1))
      <4>1. (m - 1) + 1 = m
        BY <3>1, CliAssumption
      <4> QED BY <2>1, <3>1, <4>1
    <3> QED BY <2>1, <3>1, <3>2, CliAssumption
  <2>3. \A s \in Seqs : s + 1 \in Msg
    BY CliAssumption DEF Seqs, Msg
  <2>4. ASSUME NEW s \in Seqs PROVE s \in seqs <=> s + 1 \in S
    <3>1. s + 1 \in S => SeqNo(s + 1) = s
      BY <2>2, CliAssumption DEF Seqs
    <3>2. \A m \in S : SeqNo(m) = s => m = s + 1
      BY <2>2, CliAssumption DEF Seqs, Msg
    <3> QED BY <3>1, <3>2
  <2> QED BY <2>1, <2>2, <2>3, <2>4, CliAssumption DEF Seqs
<1> HIDE DEF seqs, kind
<1>9. ASSUME NEW s \in Seqs
      PROVE  /\ s \in seqs => /\ answer'[s + 1].kind = kind
                              /\ answer[s + 1].kind = "none"
             /\ s \notin seqs => answer'[s + 1] = answer[s + 1]
  BY <1>4, <1>5, <1>8 DEF Inv, Answering
<1>10. Buffer'
  <2>1. \A s \in DOMAIN pending : s \in next_seq..(NMsg - 1) /\ pending[s] = answer[s + 1].vec
    BY DEF Inv, Buffer
  <2>2. DOMAIN pending = {s \in next_seq..(NMsg - 1) : Got(s, "row")}
        /\ skipped = {s \in next_seq..(NMsg - 1) : Got(s, "skipped") \/ Got(s, "failed")}
    BY DEF Inv, Buffer
  <2>3. \A s \in DOMAIN pending : s \notin seqs
    BY <1>8, <1>9, <2>1, <2>2 DEF Got
  <2>4. DOMAIN pending' = {s \in next_seq..(NMsg - 1) : Got(s, "row")'}
    <3>1. CASE kind = "row"
      <4>1. DOMAIN pending' = DOMAIN pending \cup seqs
        BY <1>7, <3>1
      <4> QED BY <1>8, <1>9, <2>2, <3>1, <4>1 DEF Got
    <3>2. CASE kind # "row"
      BY <1>7, <1>8, <1>9, <2>2, <3>2 DEF Got
    <3> QED BY <3>1, <3>2
  <2>5. ASSUME NEW s \in DOMAIN pending' PROVE pending'[s] = answer'[s + 1].vec
    <3>1. s \in Seqs
      BY <1>8, <2>4
    <3>2. CASE kind = "row" /\ s \in seqs
      BY <1>3, <1>7, <3>1, <3>2
    <3>3. CASE kind = "row" /\ s \notin seqs
      BY <1>7, <1>9, <2>1, <3>1, <3>3
    <3>4. CASE kind # "row"
      BY <1>7, <1>9, <2>1, <2>3, <3>1, <3>4
    <3> QED BY <3>2, <3>3, <3>4
  <2>6. skipped' = {s \in next_seq..(NMsg - 1) : Got(s, "skipped")' \/ Got(s, "failed")'}
    <3>1. CASE kind = "row"
      BY <1>7, <1>8, <1>9, <2>2, <3>1 DEF Got
    <3>2. CASE kind # "row"
      BY <1>6, <1>7, <1>8, <1>9, <2>2, <3>2 DEF Got
    <3> QED BY <3>1, <3>2
  <2>7. ASSUME NEW s \in 0..(next_seq - 1) PROVE answers'[s + 1] = 1
    <3>1. answers[s + 1] = 1 /\ s + 1 \in Msg
      BY <1>8 DEF Inv, Buffer
    <3> QED BY <1>4, <3>1
  <2> QED BY <1>1, <1>8, <2>4, <2>5, <2>6, <2>7 DEF Buffer, Got
<1>11. Ending'
  <2> DEFINE failed == {m \in Msg : answer[m].kind = "failed"}
  <2>1. IsFiniteSet(Msg) /\ IsFiniteSet(failed) /\ IsFiniteSet(S)
    <3>1. IsFiniteSet(Msg)
      BY MsgIsFinite
    <3> QED BY <3>1, FS_Subset
  <2>2. {m \in Msg : answer'[m].kind = "failed"} = IF kind = "failed" THEN failed \cup S ELSE failed
    BY <1>4, <1>5 DEF Inv, Answering
  <2>3. failed \cap S = {}
    BY <1>4 DEF Inv, Answering
  <2>4. Cardinality(failed \cup S) = Cardinality(failed) + Cardinality(S)
    <3>1. Cardinality(failed \cap S) = 0
      BY <2>3, FS_EmptySet
    <3>2. Cardinality(failed) \in Nat /\ Cardinality(S) \in Nat
      BY <2>1, FS_CardinalityType
    <3>3. Cardinality(failed \cup S) =
            Cardinality(failed) + Cardinality(S) - Cardinality(failed \cap S)
      BY <2>1, FS_Union
    <3> HIDE DEF failed
    <3> QED BY <3>1, <3>2, <3>3
  <2>5. n_errors = Cardinality(failed) /\ Cardinality(failed) \in Nat
    BY <2>1, FS_CardinalityType DEF Inv, Ending
  <2>6. n_errors' = Cardinality({m \in Msg : answer'[m].kind = "failed"})
    <3> HIDE DEF failed
    <3>1. CASE kind = "failed"
      BY <1>7, <2>2, <2>4, <2>5, <3>1
    <3>2. CASE kind # "failed"
      <4>1. n_errors' = n_errors
        BY <1>7, <2>5, <3>2
      <4>2. {m \in Msg : answer'[m].kind = "failed"} = failed
        BY <2>2, <3>2
      <4> QED BY <2>5, <4>1, <4>2
    <3> QED BY <3>1, <3>2
  <2> QED BY <1>1, <1>4, <2>6 DEF Ending
<1>12. Filing'
  <2>1. Rows' = Rows /\ file' = file /\ format' = format /\ n_written' = n_written
        /\ next_seq' = next_seq /\ \A s : RowId(s)' = RowId(s)
    BY <1>1 DEF Rows, RowId, inputVars
  <2>2. ASSUME NEW s \in 0..(next_seq - 1) PROVE answer'[s + 1] = answer[s + 1]
    <3>1. s \in Seqs
      BY <1>8
    <3>2. s \notin next_seq..(NMsg - 1)
      BY <1>8
    <3>3. s \notin seqs
      BY <1>8, <3>2
    <3> QED BY <1>9, <3>1, <3>3
  <2>3. \A s \in 0..(next_seq - 1) : Got(s, "row")' <=> Got(s, "row")
    BY <2>2 DEF Got
  <2>4. ASSUME NEW i \in DOMAIN Rows, NEW s, s = Rows[i].seq
        PROVE  /\ s \in 0..(next_seq - 1) /\ Got(s, "row")'
               /\ Rows[i].vec = answer'[s + 1].vec /\ Rows[i].id = RowId(s)
    <3>1. /\ s \in 0..(next_seq - 1) /\ Got(s, "row")
          /\ Rows[i].vec = answer[s + 1].vec /\ Rows[i].id = RowId(s)
      BY <2>4 DEF Inv, Filing
    <3> QED BY <2>2, <2>3, <3>1
  <2> QED BY <2>1, <2>3, <2>4 DEF Inv, Filing
<1>13. Reading' /\ Handed' /\ Verdict'
  <2>1. Reading'
    BY <1>1, ReadingStays DEF Inv
  <2> QED BY <1>1, <1>4, <2>1 DEF Inv, Handed, Verdict, inputVars
<1> QED BY <1>4, <1>10, <1>11, <1>12, <1>13 DEF Inv

\* The numbers pop_next moves past have no row, and it stops before the first
\* that is not skipped.
LEMMA PastSkipped ==
    ASSUME Inv
    PROVE  /\ Advanced \in next_seq..NMsg /\ next_seq \in 0..NMsg
           /\ \A s \in next_seq..(Advanced - 1) :
                s \notin DOMAIN pending /\ ~Got(s, "row") /\ answers[s + 1] = 1
           /\ Advanced < NMsg /\ Advanced \notin DOMAIN pending => answers[Advanced + 1] = 0
<1>1. /\ next_seq \in 0..NMsg /\ skipped \subseteq Seqs
      /\ skipped = {s \in next_seq..(NMsg - 1) : Got(s, "skipped") \/ Got(s, "failed")}
      /\ DOMAIN pending = {s \in next_seq..(NMsg - 1) : Got(s, "row")}
  BY CliAssumption DEF Inv, Buffer, Seqs
<1>2. /\ Advanced \in next_seq..NMsg /\ Advanced \notin skipped
      /\ \A s \in next_seq..(Advanced - 1) : s \in skipped
  BY <1>1, AdvancedStops, CliAssumption
<1>3. ASSUME NEW s \in next_seq..(Advanced - 1)
      PROVE  s \notin DOMAIN pending /\ ~Got(s, "row") /\ answers[s + 1] = 1
  <2>1. s \in skipped /\ s + 1 \in Msg
    BY <1>1, <1>2, CliAssumption DEF Msg
  <2> QED BY <1>1, <2>1, FourKinds DEF Inv, Got
<1>4. ASSUME Advanced < NMsg, Advanced \notin DOMAIN pending
      PROVE  answers[Advanced + 1] = 0
  <2>1. Advanced \in next_seq..(NMsg - 1) /\ Advanced + 1 \in Msg
    BY <1>1, <1>2, <1>4, CliAssumption DEF Msg
  <2>2. ~Got(Advanced, "row") /\ ~Got(Advanced, "skipped") /\ ~Got(Advanced, "failed")
    BY <1>1, <1>2, <1>4, <2>1
  <2> QED BY <2>1, <2>2, FourKinds DEF Inv, Got
<1> QED BY <1>1, <1>2, <1>3, <1>4

\* One row is written: the next one in line.
LEMMA PopInv ==
    ASSUME Inv, Pop
    PROVE  Inv'
<1>a. PICK r : r = Ready
  OBVIOUS
<1>1. /\ pc \in {"pop", "flush"} /\ r \in DOMAIN pending
      /\ next_seq' = r + 1 /\ skipped' = skipped \ (next_seq..r)
      /\ pending' = [s \in DOMAIN pending \ {r} |-> pending[s]]
      /\ file' = Written(file, Row(r)) /\ n_written' = n_written + 1
      /\ UNCHANGED <<text, answers, answer, stream, inputVars, pc, n_errors, format, result>>
  BY <1>a DEF Pop, streamVars
<1>2. /\ DOMAIN pending = {s \in next_seq..(NMsg - 1) : Got(s, "row")}
      /\ \A s \in DOMAIN pending : pending[s] = answer[s + 1].vec
      /\ skipped = {s \in next_seq..(NMsg - 1) : Got(s, "skipped") \/ Got(s, "failed")}
      /\ \A s \in 0..(next_seq - 1) : answers[s + 1] = 1
  BY DEF Inv, Buffer
<1>3. /\ r \in next_seq..(NMsg - 1) /\ next_seq \in 0..NMsg /\ r \in Nat /\ Got(r, "row")
      /\ \A s \in next_seq..(r - 1) :
           s \notin DOMAIN pending /\ ~Got(s, "row") /\ answers[s + 1] = 1
  BY <1>1, <1>2, <1>a, PastSkipped DEF Ready
<1>4. r + 1 \in Msg /\ answers[r + 1] = 1
  BY <1>3, FourKinds, CliAssumption DEF Inv, Got, Msg
<1>5. /\ Reading' /\ Handed' /\ Answering' /\ Ending'
  <2>1. Reading'
    BY <1>1, ReadingStays DEF Inv
  <2>2. stream # "ended"  \/ next_seq = NMsg
    BY DEF Inv, Ending
  <2>3. stream # "ended"
    BY <1>3, <2>2, CliAssumption
  <2> QED BY <1>1, <2>1, <2>3 DEF Inv, Handed, Answering, Ending, inputVars
<1>6. Buffer'
  <2>1. next_seq' \in 0..NMsg
    BY <1>1, <1>3, CliAssumption
  <2>2. DOMAIN pending' = {s \in (r + 1)..(NMsg - 1) : Got(s, "row")}
    <3>1. DOMAIN pending' = DOMAIN pending \ {r}
      BY <1>1
    <3>2. \A s \in DOMAIN pending : ~(s \in next_seq..(r - 1))
      BY <1>3
    <3> QED BY <1>2, <1>3, <3>1, <3>2, CliAssumption
  <2>3. \A s \in DOMAIN pending' : pending'[s] = answer[s + 1].vec
    BY <1>1, <1>2
  <2>4. skipped' = {s \in (r + 1)..(NMsg - 1) : Got(s, "skipped") \/ Got(s, "failed")}
    BY <1>1, <1>2, <1>3, CliAssumption
  <2>5. ASSUME NEW s \in 0..r PROVE answers[s + 1] = 1
    <3>1. s \in 0..(next_seq - 1) \/ s \in next_seq..(r - 1) \/ s = r
      BY <1>3
    <3> QED BY <1>2, <1>3, <1>4, <3>1
  <2>6. next_seq' = r + 1 /\ next_seq' - 1 = r /\ pc' \notin {"read", "open", "recv"}
    BY <1>1, <1>3
  <2>7. answer' = answer /\ answers' = answers
    BY <1>1
  <2>8. \A s, k : Got(s, k)' <=> Got(s, k)
    BY <2>7 DEF Got
  <2> QED BY <2>1, <2>2, <2>3, <2>4, <2>5, <2>6, <2>7, <2>8 DEF Buffer
<1>7. /\ Row(r) = [seq |-> r, vec |-> answer[r + 1].vec, id |-> RowId(r)]
      /\ Row(r) \in OutRow
  <2>1. Row(r) = [seq |-> r, vec |-> answer[r + 1].vec, id |-> RowId(r)]
    BY <1>1, <1>2 DEF Row
  <2>2. r \in Seqs /\ r \in 0..NMsg
    BY <1>3, CliAssumption DEF Seqs
  <2>3. answer[r + 1].vec \in SUBSET Text
    BY <1>4 DEF Inv, Answering, AnswerRec
  <2>4. RowId(r) \in STRING
    BY <2>2, RowIdIsText DEF Inv, Reading
  <2> QED BY <2>1, <2>2, <2>3, <2>4 DEF OutRow
<1>8. /\ file' \in FileRec /\ Rows' = Append(Rows, Row(r))
      /\ file'.shape = file.shape /\ file'.closed = file.closed
      /\ format = "npy" => file'.buf = <<>>
  BY <1>1, <1>7, WrittenAppends DEF Inv, Filing, Rows
<1>9. file.shape = 0 /\ ~file.closed
  BY <1>1 DEF Inv, Verdict
<1>10. Verdict'
  BY <1>1, <1>8, <1>9 DEF Inv, Verdict
<1>11. Filing'
  <2>1. /\ Rows \in Seq(OutRow) /\ Len(Rows) = n_written /\ DOMAIN Rows = 1..n_written
        /\ n_written \in Nat /\ n_written =< next_seq
    BY RowsAreTyped DEF Inv, Filing
  <2>2. /\ Len(Rows') = n_written + 1 /\ DOMAIN Rows' = 1..(n_written + 1)
        /\ Rows'[n_written + 1] = Row(r)
        /\ \A i \in 1..n_written : Rows'[i] = Rows[i]
    <3>1. /\ Append(Rows, Row(r)) \in Seq(OutRow) /\ Len(Append(Rows, Row(r))) = n_written + 1
          /\ Append(Rows, Row(r))[n_written + 1] = Row(r)
          /\ \A i \in 1..n_written : Append(Rows, Row(r))[i] = Rows[i]
      BY <1>7, <2>1, AppendProperties
    <3>2. DOMAIN Append(Rows, Row(r)) = 1..(n_written + 1)
      BY <3>1
    <3> QED BY <1>8, <3>1, <3>2
  <2>3. /\ Row(r).seq = r /\ Row(r).vec = answer[r + 1].vec /\ Row(r).id = RowId(r)
    BY <1>7
  <2>4. \A s : RowId(s)' = RowId(s)
    BY <1>1 DEF RowId, inputVars
  <2>5. ASSUME NEW i \in 1..(n_written + 1), NEW s, s = Rows'[i].seq
        PROVE  /\ s \in 0..r /\ Got(s, "row")
               /\ Rows'[i].vec = answer[s + 1].vec /\ Rows'[i].id = RowId(s)
    <3>1. CASE i = n_written + 1
      BY <1>3, <2>2, <2>3, <2>5, <3>1
    <3>2. CASE i \in 1..n_written
      <4>1. Rows'[i] = Rows[i] /\ i \in DOMAIN Rows
        BY <2>1, <2>2, <3>2
      <4>2. /\ s \in 0..(next_seq - 1) /\ Got(s, "row")
            /\ Rows[i].vec = answer[s + 1].vec /\ Rows[i].id = RowId(s)
        BY <2>5, <4>1 DEF Inv, Filing
      <4> QED BY <1>3, <4>1, <4>2
    <3> QED BY <2>1, <3>1, <3>2
  <2>6. ASSUME NEW i \in 1..(n_written + 1), NEW j \in 1..(n_written + 1), i < j
        PROVE  Rows'[i].seq < Rows'[j].seq
    <3>1. i \in 1..n_written /\ Rows'[i] = Rows[i] /\ i \in DOMAIN Rows
      BY <2>1, <2>2, <2>6
    <3>2. CASE j = n_written + 1
      <4>1. Rows[i].seq \in 0..(next_seq - 1)
        BY <3>1 DEF Inv, Filing
      <4> QED BY <1>3, <2>2, <2>3, <3>1, <3>2, <4>1
    <3>3. CASE j \in 1..n_written
      BY <2>1, <2>2, <2>6, <3>1, <3>3 DEF Inv, Filing
    <3> QED BY <2>1, <3>2, <3>3
  <2>7. ASSUME NEW s \in 0..r, Got(s, "row")
        PROVE  \E i \in 1..(n_written + 1) : Rows'[i].seq = s
    <3>1. CASE s \in 0..(next_seq - 1)
      <4>1. PICK i \in DOMAIN Rows : Rows[i].seq = s
        BY <2>7, <3>1 DEF Inv, Filing
      <4> QED BY <2>1, <2>2, <4>1
    <3>2. CASE s = r
      BY <2>1, <2>2, <2>3, <3>2
    <3> QED BY <1>3, <2>7, <3>1, <3>2
  <2>8. /\ n_written' = n_written + 1 /\ next_seq' = r + 1 /\ next_seq' - 1 = r
        /\ n_written' =< next_seq' /\ file'.shape = 0 /\ ~file'.closed
    <3>1. n_written' = n_written + 1 /\ next_seq' = r + 1 /\ next_seq' - 1 = r
      BY <1>1, <1>3
    <3>2. n_written' =< next_seq'
      BY <1>3, <2>1, <3>1
    <3>3. file'.shape = 0 /\ ~file'.closed
      BY <1>8, <1>9
    <3> QED BY <3>1, <3>2, <3>3
  <2>9. format' = format /\ format \in Formats /\ answer' = answer
    BY <1>1 DEF Inv, Filing
  <2>10. \A s : Got(s, "row")' <=> Got(s, "row")
    BY <2>9 DEF Got
  <2>11. (\A i \in DOMAIN Rows :
            LET s == Rows[i].seq
            IN  /\ s \in 0..(next_seq - 1) /\ Got(s, "row")
                /\ Rows[i].vec = answer[s + 1].vec /\ Rows[i].id = RowId(s))'
    <3>1. user_ids' = user_ids /\ answer' = answer /\ DOMAIN Rows' = 1..(n_written + 1)
          /\ next_seq' - 1 = r
      BY <1>1, <2>2, <2>8 DEF inputVars
    <3>2. ASSUME NEW i \in DOMAIN Rows'
          PROVE  LET s == Rows'[i].seq
                 IN  /\ s \in 0..(next_seq' - 1) /\ Got(s, "row")
                     /\ Rows'[i].vec = answer'[s + 1].vec /\ Rows'[i].id = RowId(s)
      BY <2>5, <3>1
    <3> QED BY <3>1, <3>2 DEF Got, RowId
  <2>12. (\A i, j \in DOMAIN Rows : i < j => Rows[i].seq < Rows[j].seq)'
    BY <2>2, <2>6
  <2>13. (\A s \in 0..(next_seq - 1) : Got(s, "row") => \E i \in DOMAIN Rows : Rows[i].seq = s)'
    BY <2>2, <2>7, <2>8, <2>10
  <2>14. (format \in Formats /\ file \in FileRec /\ n_written = Len(Rows) /\ n_written <= next_seq)'
    BY <1>8, <2>2, <2>8, <2>9
  <2>15. (/\ format = "npy" => file.buf = <<>> /\ ~file.closed
          /\ format # "npy" => file.shape = 0
          /\ file.shape \in {0, n_written} /\ (file.closed => file.buf = <<>>))'
    BY <1>8, <2>8, <2>9
  <2> QED BY <2>11, <2>12, <2>13, <2>14, <2>15 DEF Filing
<1> QED BY <1>5, <1>6, <1>10, <1>11 DEF Inv

\* pop_next finds nothing to return: the next number is not answered yet.
LEMMA PopNoneInv ==
    ASSUME Inv, PopNone
    PROVE  Inv'
<1>a. PICK r : r = Advanced
  OBVIOUS
<1>1. /\ pc \in {"pop", "flush"} /\ pc' = (IF pc = "pop" THEN "recv" ELSE "close")
      /\ r \notin DOMAIN pending /\ next_seq' = r /\ skipped' = skipped \ (next_seq..r)
      /\ UNCHANGED <<text, answers, answer, stream, inputVars, pending, n_written, n_errors,
                     format, file, result>>
  BY <1>a DEF PopNone, Ready, streamVars
<1>2. /\ DOMAIN pending = {s \in next_seq..(NMsg - 1) : Got(s, "row")}
      /\ \A s \in DOMAIN pending : pending[s] = answer[s + 1].vec
      /\ skipped = {s \in next_seq..(NMsg - 1) : Got(s, "skipped") \/ Got(s, "failed")}
      /\ \A s \in 0..(next_seq - 1) : answers[s + 1] = 1
  BY DEF Inv, Buffer
<1>3. /\ r \in next_seq..NMsg /\ next_seq \in 0..NMsg /\ r \in 0..NMsg
      /\ \A s \in next_seq..(r - 1) :
           s \notin DOMAIN pending /\ ~Got(s, "row") /\ answers[s + 1] = 1
      /\ r < NMsg => answers[r + 1] = 0
      /\ r \notin skipped
  <2>1. Advanced \notin skipped
    <3>1. skipped \subseteq Seqs /\ next_seq \in 0..NMsg
      BY CliAssumption DEF Inv, Buffer, Seqs
    <3> QED BY <3>1, AdvancedStops, CliAssumption
  <2> QED BY <1>1, <1>a, <2>1, PastSkipped, CliAssumption
<1>4. \A s, k : Got(s, k)' <=> Got(s, k)
  BY <1>1 DEF Got
<1>5. Reading' /\ Handed' /\ Answering' /\ Ending' /\ Verdict'
  <2>1. Reading'
    BY <1>1, ReadingStays DEF Inv
  <2>2. Ending'
    <3>1. stream = "ended" => r = NMsg
      BY <1>3, CliAssumption DEF Inv, Ending
    <3>2. pc' = "close" => stream = "ended"
      BY <1>1 DEF Inv, Ending
    <3> QED BY <1>1, <3>1, <3>2 DEF Inv, Ending
  <2> QED BY <1>1, <2>1, <2>2 DEF Inv, Handed, Answering, Verdict, inputVars
<1>6. Buffer'
  <2>1. DOMAIN pending = {s \in r..(NMsg - 1) : Got(s, "row")}
    <3>1. \A s \in DOMAIN pending : ~(s \in next_seq..(r - 1))
      BY <1>3
    <3> QED BY <1>2, <1>3, <3>1, CliAssumption
  <2>2. skipped' = {s \in r..(NMsg - 1) : Got(s, "skipped") \/ Got(s, "failed")}
    BY <1>1, <1>2, <1>3, CliAssumption
  <2>3. ASSUME NEW s \in 0..(r - 1) PROVE answers[s + 1] = 1
    <3>1. s \in 0..(next_seq - 1) \/ s \in next_seq..(r - 1)
      BY <1>3
    <3> QED BY <1>2, <1>3, <3>1
  <2> QED BY <1>1, <1>2, <1>3, <1>4, <2>1, <2>2, <2>3 DEF Buffer
<1>7. Filing'
  <2>1. Rows' = Rows /\ \A s : RowId(s)' = RowId(s)
    BY <1>1 DEF Rows, RowId, inputVars
  <2>2. n_written =< next_seq /\ n_written \in Nat
    BY RowsAreTyped DEF Inv, Filing
  <2>3. n_written' =< next_seq'
    BY <1>1, <1>3, <2>2
  <2>4. \A i \in DOMAIN Rows :
          LET s == Rows[i].seq
          IN  /\ s \in 0..(r - 1) /\ Got(s, "row")
              /\ Rows[i].vec = answer[s + 1].vec /\ Rows[i].id = RowId(s)
    BY <1>3 DEF Inv, Filing
  <2>5. ASSUME NEW s \in 0..(r - 1), Got(s, "row") PROVE \E i \in DOMAIN Rows : Rows[i].seq = s
    <3>1. s \in 0..(next_seq - 1)
      BY <1>3, <2>5
    <3> QED BY <2>5, <3>1 DEF Inv, Filing
  <2>6. (\A i \in DOMAIN Rows :
           LET s == Rows[i].seq
           IN  /\ s \in 0..(next_seq - 1) /\ Got(s, "row")
               /\ Rows[i].vec = answer[s + 1].vec /\ Rows[i].id = RowId(s))'
    BY <1>1, <2>1, <2>4 DEF Got, RowId, inputVars
  <2> QED BY <1>1, <1>4, <2>1, <2>3, <2>5, <2>6 DEF Inv, Filing
<1> QED BY <1>5, <1>6, <1>7 DEF Inv

\* The stream ends: every message is answered, so there are no gaps to mark.
LEMMA StreamEndsInv ==
    ASSUME Inv, StreamEnds
    PROVE  Inv'
<1>1. /\ UNCHANGED <<text, answers, answer, inputVars, next_seq, pending, n_written, n_errors,
                     format, file, result>>
      /\ pc = "recv" /\ pc' = "flush" /\ stream' = "ended"
      /\ \A m \in Msg : answers[m] = 1
      /\ skipped' = skipped \cup {s \in next_seq..(Len(user_ids) - 1) : s \notin DOMAIN pending}
  BY DEF StreamEnds, Stream!End, Stream!Msg, Msg
<1>2. next_seq = NMsg
  <2>1. next_seq \in 0..NMsg /\ (next_seq < NMsg => answers[next_seq + 1] = 0)
    BY <1>1 DEF Inv, Buffer
  <2>2. next_seq < NMsg => next_seq + 1 \in Msg
    BY <2>1, CliAssumption DEF Msg
  <2> QED BY <1>1, <2>1, <2>2, CliAssumption
<1>3. skipped' = skipped
  <2>1. Len(user_ids) = NMsg
    BY <1>1, AllRead DEF Inv
  <2>2. next_seq..(Len(user_ids) - 1) = {}
    BY <1>2, <2>1, CliAssumption
  <2> QED BY <1>1, <2>2
<1>4. Reading'
  BY <1>1, ReadingStays DEF Inv
<1>5. Handed' /\ Answering' /\ Buffer' /\ Ending' /\ Verdict'
  BY <1>1, <1>2, <1>3 DEF Inv, Handed, Answering, Buffer, Ending, Verdict, Got, inputVars
<1>6. Filing'
  BY <1>1 DEF Inv, Filing, Got, Rows, RowId, inputVars
<1> QED BY <1>4, <1>5, <1>6 DEF Inv

\* The file is completed; its rows stay what they are.
LEMMA CloseInv ==
    ASSUME Inv, Close
    PROVE  Inv'
<1>1. /\ UNCHANGED <<text, answers, answer, stream, inputVars, next_seq, pending, skipped,
                     n_written, n_errors, format>>
      /\ pc = "close" /\ pc' = "done" /\ file' = Closed(file)
      /\ result' = (IF n_errors > 0 THEN "err" ELSE "ok")
  BY DEF Close, streamVars
<1>2. /\ Rows \in Seq(OutRow) /\ n_written = Len(Rows) /\ n_written \in Nat
      /\ file.disk \in Seq(OutRow) /\ file.buf \in Seq(OutRow)
  BY RowsAreTyped DEF Inv, Filing
<1>3. file.shape = 0 /\ ~file.closed /\ stream = "ended" /\ n_errors \in Nat
  <2>1. IsFiniteSet({m \in Msg : answer[m].kind = "failed"})
    <3>1. IsFiniteSet(Msg)
      BY MsgIsFinite
    <3> QED BY <3>1, FS_Subset
  <2>2. n_errors \in Nat
    BY <2>1, FS_CardinalityType DEF Inv, Ending
  <2> QED BY <1>1, <2>2 DEF Inv, Verdict, Ending
<1>4. /\ file' \in FileRec /\ Rows' = Rows
      /\ format = "npy" => file'.buf = <<>> /\ file'.shape = n_written /\ ~file'.closed
      /\ format # "npy" => file'.buf = <<>> /\ file'.shape = 0 /\ file'.closed
  <2> DEFINE disk == file.disk  buf == file.buf
  <2>1. file = [disk |-> disk, buf |-> buf, shape |-> file.shape, closed |-> file.closed]
    BY DEF Inv, Filing, FileRec
  <2>2. CASE format = "npy"
    <3>1. file' = [disk |-> disk, buf |-> buf, shape |-> n_written, closed |-> file.closed]
      BY <1>1, <2>1, <2>2 DEF Closed
    <3>2. buf = <<>> /\ file.closed \in BOOLEAN
      BY <2>2 DEF Inv, Filing, FileRec
    <3> QED BY <1>2, <1>3, <2>2, <3>1, <3>2 DEF FileRec, Rows
  <2>3. CASE format # "npy"
    <3>1. file' = [disk |-> disk \o buf, buf |-> <<>>, shape |-> file.shape, closed |-> TRUE]
      BY <1>1, <2>1, <2>3 DEF Closed
    <3>2. Rows \o <<>> = Rows /\ <<>> \in Seq(OutRow)
      BY <1>2, ConcatEmptySeq, EmptySeq
    <3>3. Rows = disk \o buf
      BY DEF Rows
    <3> HIDE DEF disk, buf
    <3>4. /\ file'.disk = disk \o buf /\ file'.buf = <<>> /\ file'.shape = 0 /\ file'.closed
          /\ file' \in FileRec
      BY <1>2, <1>3, <3>1, <3>2, <3>3 DEF FileRec
    <3>5. Rows' = Rows
      BY <3>2, <3>3, <3>4 DEF Rows
    <3> QED BY <2>3, <3>4, <3>5
  <2> QED BY <2>2, <2>3
<1>5. Reading'
  BY <1>1, ReadingStays DEF Inv
<1>6. Handed' /\ Answering' /\ Buffer' /\ Ending'
  BY <1>1 DEF Inv, Handed, Answering, Buffer, Ending, Got, inputVars
<1>7. Verdict'
  BY <1>1, <1>3, <1>4 DEF Inv, Verdict
<1>8. Filing'
  <2>1. (\A i \in DOMAIN Rows :
           LET s == Rows[i].seq
           IN  /\ s \in 0..(next_seq - 1) /\ Got(s, "row")
               /\ Rows[i].vec = answer[s + 1].vec /\ Rows[i].id = RowId(s))'
    BY <1>1, <1>4 DEF Inv, Filing, Got, RowId, inputVars
  <2>2. \A s, k : Got(s, k)' <=> Got(s, k)
    BY <1>1 DEF Got
  <2> QED BY <1>1, <1>2, <1>4, <2>1, <2>2 DEF Inv, Filing
<1> QED BY <1>5, <1>6, <1>7, <1>8 DEF Inv

\* An error of the file ends the program wherever it is.
LEMMA WriteFailsInv ==
    ASSUME Inv, WriteFails
    PROVE  Inv'
<1>1. /\ UNCHANGED <<text, answers, answer, inputVars, next_seq, pending, skipped, n_written,
                     n_errors, format, file>>
      /\ pc \in {"open", "close", "pop", "flush"} /\ pc' = "done" /\ result' = "err"
      /\ stream' = IF stream = "open" THEN "dropped" ELSE stream
  BY DEF WriteFails
<1>2. Reading'
  BY <1>1, ReadingStays DEF Inv
<1>3. Handed' /\ Answering' /\ Buffer' /\ Ending' /\ Verdict'
  BY <1>1 DEF Inv, Handed, Answering, Buffer, Ending, Verdict, Got, inputVars
<1>4. Filing'
  BY <1>1 DEF Inv, Filing, Got, Rows, RowId, inputVars
<1> QED BY <1>2, <1>3, <1>4 DEF Inv

LEMMA StutterInv ==
    ASSUME Inv, UNCHANGED vars
    PROVE  Inv'
<1>1. Reading'
  BY ReadingStays DEF Inv, vars
<1>2. Handed' /\ Answering' /\ Buffer' /\ Ending' /\ Verdict'
  BY DEF Inv, Handed, Answering, Buffer, Ending, Verdict, Got, vars, streamVars, inputVars, cliVars
<1>3. Filing'
  BY DEF Inv, Filing, Got, Rows, RowId, vars, streamVars, inputVars, cliVars
<1> QED BY <1>1, <1>2, <1>3 DEF Inv

\* The inductive invariant, for every input and every order of batches.
THEOREM Invariant == Spec => []Inv
<1>1. Inv /\ [Next]_vars => Inv'
  BY ReadInv, EmbedInv, OpenInv, RecvInv, PopInv, PopNoneInv, StreamEndsInv, CloseInv,
     WriteFailsInv, StutterInv
  DEF Next, Stopped
<1> QED BY <1>1, InitInv, PTL DEF Spec

-----------------------------------------------------------------------------
(* The properties. *)

\* Every variable of the program keeps its type.
THEOREM TypeCorrect == Spec => []TypeOK
<1>1. ASSUME Inv PROVE TypeOK
  <2>1. /\ n_written \in 0..NMsg /\ next_seq \in 0..NMsg
        /\ file.disk \in Seq(OutRow) /\ file.buf \in Seq(OutRow)
    BY <1>1, RowsAreTyped, CliAssumption DEF Inv
  <2>2. messages \in Seq([id : Seqs, text : Text])
    <3>1. at + 1 \in Nat /\ input \in Inputs
      BY <1>1, LinesOfInput DEF Inv, Reading
    <3>2. Len(messages) \in 0..NMsg
      BY <1>1, <3>1, BeforeGrows DEF Inv, Reading
    <3>3. ASSUME NEW m \in 1..Len(messages) PROVE messages[m] \in [id : Seqs, text : Text]
      <4>1. messages[m] \in MessageRec /\ messages[m].id = m - 1
        BY <1>1 DEF Inv, Reading
      <4>2. m - 1 \in Seqs
        BY <3>2, CliAssumption DEF Seqs
      <4> QED BY <4>1, <4>2 DEF MessageRec
    <3>4. messages \in Seq(MessageRec)
      BY <1>1 DEF Inv, Reading
    <3> DEFINE M == [id : Seqs, text : Text]
    <3>5. messages \in [1..Len(messages) -> M]
      BY <3>3, <3>4
    <3> HIDE DEF M
    <3>6. messages \in Seq(M)
      BY <3>2, <3>5
    <3> QED BY <3>6 DEF M
  <2>3. /\ DOMAIN pending \subseteq Seqs /\ skipped \subseteq Seqs
        /\ \A s \in DOMAIN pending : pending[s] \subseteq Text
    <3>1. \A s \in DOMAIN pending : s \in Seqs /\ s + 1 \in Msg /\ pending[s] = answer[s + 1].vec
      BY <1>1, CliAssumption DEF Inv, Buffer, Seqs, Msg
    <3>2. skipped \subseteq Seqs
      BY <1>1, CliAssumption DEF Inv, Buffer, Seqs
    <3>3. \A m \in Msg : answer[m].vec \subseteq Text
      BY <1>1 DEF Inv, Answering, AnswerRec
    <3> QED BY <3>1, <3>2, <3>3
  <2>4. n_errors \in 0..NMsg
    <3> DEFINE failed == {m \in Msg : answer[m].kind = "failed"}
    <3>1. IsFiniteSet(Msg) /\ Cardinality(Msg) = NMsg
      BY MsgIsFinite
    <3>2. IsFiniteSet(failed) /\ Cardinality(failed) =< NMsg
      BY <3>1, FS_Subset
    <3>3. Cardinality(failed) \in Nat
      BY <3>2, FS_CardinalityType
    <3>4. n_errors = Cardinality(failed)
      BY <1>1 DEF Inv, Ending
    <3> HIDE DEF failed
    <3> QED BY <3>2, <3>3, <3>4, CliAssumption
  <2>5. file.shape \in 0..NMsg /\ file.closed \in BOOLEAN
    BY <1>1, <2>1, CliAssumption DEF Inv, Filing, FileRec
  <2>6. /\ stream \in {"none", "open", "ended", "dropped"}
        /\ pc \in {"read", "open", "recv", "pop", "flush", "close", "done"}
        /\ format \in Formats /\ result \in {"none", "ok", "err"} /\ user_ids \in Seq(STRING)
    BY <1>1 DEF Inv, Answering, Handed, Filing, Verdict, Reading
  <2> QED BY <2>1, <2>2, <2>3, <2>4, <2>5, <2>6 DEF TypeOK
<1> QED BY <1>1, Invariant, PTL

\* Rows leave in input order, each with the vector of its own message.
THEOREM InputOrder == Spec => []RowsInOrder
<1>1. ASSUME Inv PROVE RowsInOrder
  <2>1. \A i \in DOMAIN Rows : LET a == answer[Rows[i].seq + 1]
                               IN  a.kind = "row" /\ Rows[i].vec = a.vec
    BY <1>1 DEF Inv, Filing, Got
  <2> QED BY <1>1, <2>1 DEF RowsInOrder, Inv, Filing
<1> QED BY <1>1, Invariant, PTL

\* A row of the file has the id and the vector of one and the same line.
THEOREM RowsNameTheirLines == Spec => []RowNamesItsLine
<1>1. ASSUME Inv, NEW i \in DOMAIN Rows
      PROVE  LET l == Origin(Rows[i].seq)
             IN  /\ Rows[i].vec \subseteq Mates[l.text]
                 /\ format = "parquet" /\ reading = "jsonl" /\ l.id # "" => Rows[i].id = l.id
  <2>1. PICK s : s = Rows[i].seq
    OBVIOUS
  <2>2. /\ s \in Seqs /\ s + 1 \in Msg /\ Rows[i].vec = answer[s + 1].vec /\ Rows[i].id = RowId(s)
        /\ answer[s + 1].kind = "row"
    <3>1. /\ s \in 0..(next_seq - 1) /\ Rows[i].vec = answer[s + 1].vec /\ Rows[i].id = RowId(s)
          /\ Got(s, "row")
      BY <1>1, <2>1 DEF Inv, Filing
    <3>2. next_seq \in 0..NMsg
      BY <1>1 DEF Inv, Buffer
    <3> QED BY <3>1, <3>2, CliAssumption DEF Seqs, Msg, Got
  <2>3. pc # "read"
    BY <1>1, <2>2 DEF Inv, Answering
  <2>4. DOMAIN messages = Msg /\ Len(user_ids) = NMsg /\ user_ids \in Seq(STRING)
    BY <1>1, <2>3, AllRead DEF Inv, Reading
  <2>5. PICK l \in Nat : ReadFrom(s + 1, l)
    BY <1>1, <2>2, <2>4 DEF Inv, Reading
  <2>6. /\ l \in TextLines(input) /\ Cardinality(Before(l)) = s
        /\ messages[s + 1].text = Lines(input)[l].text
        /\ reading = "jsonl" => user_ids[s + 1] = Lines(input)[l].id
    BY <2>2, <2>5, CliAssumption DEF ReadFrom, Seqs
  <2>7. \A k \in TextLines(input) : Cardinality(Before(k)) = s => k = l
    BY <1>1, <2>6, RankIsUnique DEF Inv, Reading
  <2>8. Origin(s) = Lines(input)[l]
    BY <2>6, <2>7 DEF Origin, Before
  <2>9. text[s + 1] = Lines(input)[l].text
    BY <1>1, <2>2, <2>3, <2>6 DEF Inv, Handed
  <2>10. Rows[i].vec \subseteq Mates[Origin(s).text]
    BY <1>1, <2>2, <2>8, <2>9 DEF Inv, Answering
  <2>11. s + 1 \in DOMAIN user_ids
    BY <2>2, <2>4 DEF Msg
  <2>12. reading = "jsonl" /\ Origin(s).id # "" => Rows[i].id = Origin(s).id
    BY <2>2, <2>6, <2>8, <2>11 DEF RowId
  <2> QED BY <2>1, <2>10, <2>12
<1>2. Inv => RowNamesItsLine
  BY <1>1 DEF RowNamesItsLine
<1> QED BY <1>2, Invariant, PTL

\* Between two batches only what must wait is held back.
THEOREM HeldBackOnlyForTheNext == Spec => []NothingHeldBack
<1>1. Inv => NothingHeldBack
  BY DEF Inv, Buffer, NothingHeldBack
<1> QED BY <1>1, Invariant, PTL

\* When the stream has ended the buffer is empty and no number is missing.
THEOREM EndLeavesNoGap == Spec => []NoGapAtEnd
<1>1. ASSUME Inv, stream = "ended" PROVE next_seq = NMsg /\ DOMAIN pending = {}
  <2>1. next_seq = NMsg /\ DOMAIN pending = {s \in next_seq..(NMsg - 1) : Got(s, "row")}
    BY <1>1 DEF Inv, Ending, Buffer
  <2> QED BY <2>1, CliAssumption
<1>2. Inv => NoGapAtEnd
  BY <1>1 DEF NoGapAtEnd
<1> QED BY <1>2, Invariant, PTL

\* The rows of a run that came to the end of the stream.
LEMMA RowsAtEnd ==
    ASSUME Inv, stream = "ended"
    PROVE  {Rows[i].seq : i \in DOMAIN Rows} = {s \in Seqs : answer[s + 1].kind = "row"}
<1>1. next_seq = NMsg
  BY DEF Inv, Ending
<1> QED BY <1>1 DEF Inv, Filing, Got, Seqs

\* What a reader finds in a file that was completed, and in one that was not.
LEMMA WhatIsReadable ==
    ASSUME Inv
    PROVE  IF file.closed \/ file.shape # 0 THEN Readable = Rows /\ stream = "ended"
           ELSE Readable = <<>>
<1>1. /\ file.disk \in Seq(OutRow) /\ file.buf \in Seq(OutRow) /\ Len(Rows) = n_written
      /\ n_written \in Nat
  BY RowsAreTyped DEF Inv
<1>2. file.closed \/ file.shape # 0 => stream = "ended"
  BY DEF Inv, Verdict
<1>3. file.disk \o <<>> = file.disk
  BY <1>1, ConcatEmptySeq
<1>4. CASE format = "npy"
  <2>1. Rows = file.disk /\ ~file.closed
    BY <1>3, <1>4 DEF Inv, Filing, Rows
  <2>2. CASE file.shape = 0
    <3>1. SubSeq(file.disk, 1, 0) = <<>>
      BY SubSeqEmpty
    <3> QED BY <1>4, <2>1, <2>2, <3>1 DEF Readable
  <2>3. CASE file.shape # 0
    <3>1. file.shape = Len(file.disk)
      BY <1>1, <2>1, <2>3 DEF Inv, Filing
    <3>2. SubSeq(file.disk, 1, Len(file.disk)) = file.disk
      BY <1>1, SubSeqFull
    <3> QED BY <1>2, <1>4, <2>1, <2>3, <3>1, <3>2 DEF Readable
  <2> QED BY <2>2, <2>3
<1>5. CASE format # "npy"
  BY <1>2, <1>3, <1>5 DEF Inv, Filing, Rows, Readable
<1> QED BY <1>4, <1>5

\* A file that shows any row shows the row of every message that has one.
THEOREM NoPartialFile == Spec => []ReadableIsComplete
<1>1. Inv => ReadableIsComplete
  BY RowsAtEnd, WhatIsReadable DEF ReadableIsComplete
<1> QED BY <1>1, Invariant, PTL

\* Success means that every message was answered, none with a failure, and
\* that the file holds all rows.
THEOREM SuccessIsComplete == Spec => []OkMeansAllThere
<1>1. ASSUME Inv, result = "ok"
      PROVE  /\ \A m \in Msg : answer[m].kind \in {"row", "skipped"}
             /\ {Readable[i].seq : i \in DOMAIN Readable} =
                  {s \in Seqs : answer[s + 1].kind = "row"}
  <2>1. /\ stream = "ended" /\ n_errors = 0
        /\ IF format = "npy" THEN file.shape = n_written ELSE file.closed
    BY <1>1 DEF Inv, Verdict
  <2>2. {m \in Msg : answer[m].kind = "failed"} = {}
    <3>1. IsFiniteSet(Msg)
      BY MsgIsFinite
    <3>2. IsFiniteSet({m \in Msg : answer[m].kind = "failed"})
      BY <3>1, FS_Subset
    <3> QED BY <1>1, <2>1, <3>2, FS_EmptySet DEF Inv, Ending
  <2>3. \A m \in Msg : answer[m].kind \in {"row", "skipped"}
    <3>1. \A m \in Msg : answers[m] = 1
      BY <1>1, <2>1 DEF Inv, Answering
    <3> QED BY <1>1, <2>2, <3>1, FourKinds DEF Inv
  <2>4. Readable = Rows
    <3>1. CASE file.closed \/ file.shape # 0
      BY <1>1, <3>1, WhatIsReadable
    <3>2. CASE ~(file.closed \/ file.shape # 0)
      <4>1. Readable = <<>> /\ n_written = 0 /\ Rows \in Seq(OutRow) /\ Len(Rows) = 0
        BY <1>1, <2>1, <3>2, WhatIsReadable, RowsAreTyped DEF Inv
      <4> QED BY <4>1, EmptySeq
    <3> QED BY <3>1, <3>2
  <2> QED BY <1>1, <2>1, <2>3, <2>4, RowsAtEnd
<1>2. Inv => OkMeansAllThere
  BY <1>1 DEF OkMeansAllThere
<1> QED BY <1>2, Invariant, PTL
=============================================================================
