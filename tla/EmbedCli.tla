------------------------------ MODULE EmbedCli ------------------------------
(***************************************************************************)
(* The command line program (ignite-ms-embed): the reading of the input,   *)
(* the loop over the engine's stream, the reorder buffer that undoes the   *)
(* batching, and the output file.  The engine is represented by what it    *)
(* promises, EmbedContract; SingleGpu and MultiGpu are shown to keep that  *)
(* promise.                                                                *)
(*                                                                         *)
(* An input is a record: args, the paths on the command line; below, the   *)
(* files each of them names or, a directory, contains; content, the lines  *)
(* of each file.  Files are numbers, in the order of their canonical paths.*)
(***************************************************************************)
EXTENDS Integers, Sequences, FiniteSets, FiniteSetsExt, SequencesExt, TLC

CONSTANTS
    NMsg,       \* messages read from the input files
    Text, TooShort, Mates,   \* as in EmbedContract
    Inputs,     \* the inputs considered, with NMsg messages each
    ReadAs,     \* subset of {"jsonl", "plain"}: input formats to consider
    Formats,    \* subset of {"npy", "parquet"}: output formats to consider
    RowGroup    \* ROW_GROUP_SIZE of the parquet writer (50_000)

ASSUME CliAssumption ==
    /\ NMsg \in Nat
    /\ TooShort \subseteq Text
    /\ Mates \in [Text -> SUBSET Text]
    /\ ReadAs \subseteq {"jsonl", "plain"} /\ Formats \subseteq {"npy", "parquet"}
    /\ RowGroup \in Nat \ {0}
    /\ \A n \in 0..NMsg : ToString(n) \in STRING

VARIABLES
    text, answers, answer, stream,   \* the engine's side: EmbedContract
    input, reading,       \* what is read, and as which format
    at,                   \* number of lines read
    messages, user_ids,   \* what read_sequential has made of them
    pc,         \* "read", "open", "recv", "pop", "flush", "close" or "done"
    next_seq, pending, skipped,      \* ReorderBuffer
    n_written, n_errors,             \* counters of run
    format,     \* what create_writer chose from the file name
    file,       \* the output file: rows on disk, rows still buffered, header
    result      \* "none", "ok" or "err"

streamVars == <<text, answers, answer, stream>>
inputVars == <<input, reading, at, messages, user_ids>>
cliVars == <<pc, next_seq, pending, skipped, n_written, n_errors, format, file, result>>
vars == <<streamVars, inputVars, cliVars>>

Stream == INSTANCE EmbedContract

Msg == 1..NMsg
Seqs == 0..(NMsg - 1)

-----------------------------------------------------------------------------
(* Reading the input. *)

\* resolve_inputs: every file once, in the order of the paths.
Files(in) ==
    SetToSortSeq(UNION {in.below[in.args[i]] : i \in DOMAIN in.args}, <)

Lines(in) == FlattenSeq([i \in DOMAIN Files(in) |-> in.content[Files(in)[i]]])

\* The lines that become messages.
TextLines(in) == {l \in DOMAIN Lines(in) : Lines(in)[l].kind = "text"}

ASSUME InputAssumption ==
    \A in \in Inputs :
      /\ Lines(in) \in Seq([kind : {"text", "short", "nothing"}, text : Text, id : STRING])
      /\ Cardinality(TextLines(in)) = NMsg

\* Mutant: a line without an id leaves none behind.
ReadLine_IdIfThere(as, read, line) ==
    LET seq == Len(read.messages)
        id  == IF as = "plain" THEN ToString(seq) ELSE line.id
    IN  IF line.kind # "text" THEN read
        ELSE [messages |-> Append(read.messages, [id |-> seq, text |-> line.text]),
              user_ids |-> IF id = "" THEN read.user_ids ELSE Append(read.user_ids, id)]

\* One turn of the loop in read_sequential.  A line of kind "nothing" is blank,
\* cannot be read, or is no JSON object with a text; a line of kind "short" has
\* a text of less than 10 bytes; neither gets a number.
ReadLine(as, read, line) ==
    LET seq == Len(read.messages)
        id  == IF as = "plain" THEN ToString(seq) ELSE line.id
    IN  IF line.kind # "text" THEN read
        ELSE [messages |-> Append(read.messages, [id |-> seq, text |-> line.text]),
              user_ids |-> Append(read.user_ids, id)]

SeqNo(m) == messages[m].id

-----------------------------------------------------------------------------
(* The consumer loop. *)

\* Embeddings waiting for their turn: at most one per sequence number.
NoneYet == [s \in {} |-> {}]
NoFile == [disk |-> <<>>, buf |-> <<>>, shape |-> 0, closed |-> FALSE]

\* read_sequential is called; there is no stream yet.
Init ==
    /\ text = <<>> /\ stream = "none"
    /\ answers = [m \in Msg |-> 0] /\ answer = [m \in Msg |-> [kind |-> "none", vec |-> {}]]
    /\ input \in Inputs /\ reading \in ReadAs
    /\ at = 0 /\ messages = <<>> /\ user_ids = <<>>
    /\ pc = "read"
    /\ next_seq = 0 /\ pending = NoneYet /\ skipped = {}
    /\ n_written = 0 /\ n_errors = 0
    /\ format \in Formats
    /\ file = NoFile
    /\ result = "none"

\* One line of the input.
Read ==
    /\ pc = "read" /\ at < Len(Lines(input))
    /\ at' = at + 1
    /\ LET read == ReadLine(reading, [messages |-> messages, user_ids |-> user_ids],
                            Lines(input)[at + 1])
       IN  messages' = read.messages /\ user_ids' = read.user_ids
    /\ UNCHANGED <<streamVars, input, reading, cliVars>>

\* read_sequential has returned and the engine is given the messages.
Embed ==
    /\ pc = "read" /\ at = Len(Lines(input))
    /\ text' = [m \in Msg |-> messages[m].text]
    /\ stream' = "open"
    /\ pc' = "open"
    /\ UNCHANGED <<answers, answer, inputVars, next_seq, pending, skipped, n_written, n_errors,
                   format, file, result>>

\* The writer is created and begun; an NPY file gets a header for 0 rows.
Open ==
    /\ pc = "open"
    /\ pc' = "recv"
    /\ UNCHANGED <<streamVars, inputVars, next_seq, pending, skipped, n_written, n_errors,
                   format, file, result>>

\* The message with sequence number s.
Numbered(s) == CHOOSE m \in Msg : SeqNo(m) = s

\* Mutant: a failed batch is treated like a filtered one.
Recv_FailureIgnored ==
    /\ pc = "recv"
    /\ \E S \in SUBSET Msg :
         /\ Stream!Deliver(S)
         /\ \A m, n \in S : answer'[m].kind = answer'[n].kind
         /\ LET seqs == {SeqNo(m) : m \in S}
                kind == answer'[CHOOSE m \in S : TRUE].kind
            IN  /\ n_errors' = n_errors
                /\ skipped' = IF kind = "row" THEN skipped ELSE skipped \cup seqs
                /\ pending' = IF kind # "row" THEN pending
                              ELSE [s \in DOMAIN pending \cup seqs |->
                                      IF s \in seqs THEN answer'[Numbered(s)].vec
                                      ELSE pending[s]]
    /\ pc' = "pop"
    /\ UNCHANGED <<inputVars, next_seq, n_written, format, file, result>>

\* Mutant: filtered messages are left to be noticed as gaps.
Recv_FilteredIgnored ==
    /\ pc = "recv"
    /\ \E S \in SUBSET Msg :
         /\ Stream!Deliver(S)
         /\ \A m, n \in S : answer'[m].kind = answer'[n].kind
         /\ LET seqs == {SeqNo(m) : m \in S}
                kind == answer'[CHOOSE m \in S : TRUE].kind
            IN  /\ n_errors' = n_errors + (IF kind = "failed" THEN Cardinality(S) ELSE 0)
                /\ skipped' = IF kind # "failed" THEN skipped ELSE skipped \cup seqs
                /\ pending' = IF kind # "row" THEN pending
                              ELSE [s \in DOMAIN pending \cup seqs |->
                                      IF s \in seqs THEN answer'[Numbered(s)].vec
                                      ELSE pending[s]]
    /\ pc' = "pop"
    /\ UNCHANGED <<inputVars, next_seq, n_written, format, file, result>>

\* One batch from the stream: all its rows are inserted, or all its ids are
\* marked as skipped (and counted, if inference failed).
Recv ==
    /\ pc = "recv"
    /\ \E S \in SUBSET Msg :
         /\ Stream!Deliver(S)
         /\ \A m, n \in S : answer'[m].kind = answer'[n].kind
         /\ LET seqs == {SeqNo(m) : m \in S}
                kind == answer'[CHOOSE m \in S : TRUE].kind
            IN  /\ n_errors' = n_errors + (IF kind = "failed" THEN Cardinality(S) ELSE 0)
                /\ skipped' = IF kind = "row" THEN skipped ELSE skipped \cup seqs
                /\ pending' = IF kind # "row" THEN pending
                              ELSE [s \in DOMAIN pending \cup seqs |->
                                      IF s \in seqs THEN answer'[Numbered(s)].vec
                                      ELSE pending[s]]
    /\ pc' = "pop"
    /\ UNCHANGED <<inputVars, next_seq, n_written, format, file, result>>

\* Mutant: pop_next does not look at the skipped set.
Advanced_SkipsIgnored == next_seq

\* next_seq after pop_next has moved past the skipped numbers.
Advanced == Min({s \in next_seq..NMsg : s \notin skipped})

\* Mutant: rows leave the buffer as they come, smallest first.
Ready_AnyPending == IF DOMAIN pending = {} THEN NMsg ELSE Min(DOMAIN pending)

\* The sequence number whose embedding pop_next would return next.
Ready == Advanced

\* The id column: the user's id, or the number where there is none.  (An
\* NPY file has no such column.)
RowId(s) ==
    IF s + 1 \in DOMAIN user_ids /\ user_ids[s + 1] # "" THEN user_ids[s + 1]
    ELSE ToString(s)

Row(s) == [seq |-> s, vec |-> pending[s], id |-> RowId(s)]

\* OutputWriter::finish: NPY patches its header, parquet flushes and closes.
Closed(f) ==
    IF format = "npy" THEN [f EXCEPT !.shape = n_written]
    ELSE [f EXCEPT !.disk = @ \o f.buf, !.buf = <<>>, !.closed = TRUE]

\* Mutant: NPY keeps its header up to date with every row.
Written_ShapeAsYouGo(f, row) ==
    IF format = "npy" THEN [f EXCEPT !.disk = Append(@, row), !.shape = n_written + 1]
    ELSE IF Len(f.buf) + 1 >= RowGroup
    THEN [f EXCEPT !.disk = @ \o Append(f.buf, row), !.buf = <<>>]
    ELSE [f EXCEPT !.buf = Append(@, row)]

\* OutputWriter::write_row: NPY writes through, parquet fills a row group.
Written(f, row) ==
    IF format = "npy" THEN [f EXCEPT !.disk = Append(@, row)]
    ELSE IF Len(f.buf) + 1 >= RowGroup
    THEN [f EXCEPT !.disk = @ \o Append(f.buf, row), !.buf = <<>>]
    ELSE [f EXCEPT !.buf = Append(@, row)]

\* pop_next returns an embedding and it is written.
Pop ==
    /\ pc \in {"pop", "flush"} /\ Ready \in DOMAIN pending
    /\ next_seq' = Ready + 1
    /\ skipped' = skipped \ (next_seq..Ready)
    /\ pending' = [s \in DOMAIN pending \ {Ready} |-> pending[s]]
    /\ file' = Written(file, Row(Ready))
    /\ n_written' = n_written + 1
    /\ UNCHANGED <<streamVars, inputVars, pc, n_errors, format, result>>

\* pop_next returns None, having moved past skipped numbers all the same.
PopNone ==
    /\ pc \in {"pop", "flush"} /\ Ready \notin DOMAIN pending
    /\ next_seq' = Advanced
    /\ skipped' = skipped \ (next_seq..Advanced)
    /\ pc' = IF pc = "pop" THEN "recv" ELSE "close"
    /\ UNCHANGED <<streamVars, inputVars, pending, n_written, n_errors, format, file, result>>

\* Mutant: the range of gaps includes total_input itself.
StreamEnds_OneTooMany ==
    /\ pc = "recv" /\ Stream!End
    /\ skipped' = skipped \cup {s \in next_seq..Len(user_ids) : s \notin DOMAIN pending}
    /\ pc' = "flush"
    /\ UNCHANGED <<inputVars, next_seq, pending, n_written, n_errors, format, file, result>>

\* The stream ends; what has neither come nor been skipped counts as skipped.
StreamEnds ==
    /\ pc = "recv" /\ Stream!End
    /\ skipped' = skipped \cup {s \in next_seq..(Len(user_ids) - 1) : s \notin DOMAIN pending}
    /\ pc' = "flush"
    /\ UNCHANGED <<inputVars, next_seq, pending, n_written, n_errors, format, file, result>>

\* writer.finish, handle.finish and the verdict.
Close ==
    /\ pc = "close"
    /\ file' = Closed(file)
    /\ result' = IF n_errors > 0 THEN "err" ELSE "ok"
    /\ pc' = "done"
    /\ UNCHANGED <<streamVars, inputVars, next_seq, pending, skipped, n_written, n_errors, format>>

\* Creating, writing or finishing the file fails: run returns the error at
\* once, dropping the stream; rows in memory are gone with the process.
WriteFails ==
    /\ \/ pc \in {"open", "close"}
       \/ pc \in {"pop", "flush"} /\ Ready \in DOMAIN pending
    /\ pc' = "done"
    /\ result' = "err"
    /\ stream' = IF stream = "open" THEN "dropped" ELSE stream
    /\ UNCHANGED <<text, answers, answer, inputVars, next_seq, pending, skipped, n_written,
                   n_errors, format, file>>

Stopped == pc = "done" /\ UNCHANGED vars

Next == Read \/ Embed \/ Open \/ Recv \/ Pop \/ PopNone \/ StreamEnds \/ Close \/ WriteFails \/ Stopped

Spec == Init /\ [][Next]_vars

-----------------------------------------------------------------------------
OutRow == [seq : Seqs, vec : SUBSET Text, id : STRING]

\* Every variable holds a value of its type.
TypeOK ==
    /\ stream \in {"none", "open", "ended", "dropped"}
    /\ messages \in Seq([id : Seqs, text : Text]) /\ user_ids \in Seq(STRING)
    /\ pc \in {"read", "open", "recv", "pop", "flush", "close", "done"}
    /\ next_seq \in 0..NMsg
    /\ DOMAIN pending \subseteq Seqs /\ \A s \in DOMAIN pending : pending[s] \subseteq Text
    /\ skipped \subseteq Seqs
    /\ n_written \in 0..NMsg /\ n_errors \in 0..NMsg
    /\ format \in Formats
    /\ file.disk \in Seq(OutRow) /\ file.buf \in Seq(OutRow)
    /\ file.shape \in 0..NMsg /\ file.closed \in BOOLEAN
    /\ result \in {"none", "ok", "err"}

\* All rows handed to the writer, in order.
Rows == file.disk \o file.buf

\* Rows leave in input order, each with the vector the engine gave for that
\* very message, in whatever order and grouping the batches come back.
RowsInOrder ==
    /\ \A i, j \in DOMAIN Rows : i < j => Rows[i].seq < Rows[j].seq
    /\ \A i \in DOMAIN Rows : LET a == answer[Rows[i].seq + 1]
                              IN  a.kind = "row" /\ Rows[i].vec = a.vec

\* The line that message s was read from: the one with s texts before it.
Origin(s) ==
    Lines(input)[CHOOSE l \in TextLines(input) :
                   Cardinality({k \in TextLines(input) : k < l}) = s]

\* Numbering, reordering and skipping never part a line's id from its vector:
\* a row of the file has the vector of the text it has the id of.
RowNamesItsLine ==
    \A i \in DOMAIN Rows : LET l == Origin(Rows[i].seq)
        IN  /\ Rows[i].vec \subseteq Mates[l.text]
            /\ format = "parquet" /\ reading = "jsonl" /\ l.id # "" => Rows[i].id = l.id

\* Between two batches, the buffer holds back only what must wait: the next
\* number in line is one the engine has not answered.
NothingHeldBack ==
    pc = "recv" /\ next_seq < NMsg => answers[next_seq + 1] = 0

\* When the stream has ended nothing is missing, so that marking the gaps as
\* skipped never hides a lost message.
NoGapAtEnd == stream = "ended" => next_seq = NMsg /\ DOMAIN pending = {}

\* What a reader of the output file finds: an NPY header counts the rows, a
\* parquet file has its footer only once it is closed.
Readable ==
    IF format = "npy" THEN SubSeq(file.disk, 1, file.shape)
    ELSE IF file.closed THEN file.disk ELSE <<>>

\* A file that shows any row shows the row of every message that has one: a
\* run that failed half-way never leaves a file that passes for a whole one.
ReadableIsComplete ==
    Readable # <<>> =>
        {Readable[i].seq : i \in DOMAIN Readable} = {s \in Seqs : answer[s + 1].kind = "row"}

\* The program reports success only if every message was answered, none was
\* lost to a failed inference and the file holds a row for all the others.
OkMeansAllThere ==
    result = "ok" =>
        /\ \A m \in Msg : answer[m].kind \in {"row", "skipped"}
        /\ {Readable[i].seq : i \in DOMAIN Readable} = {s \in Seqs : answer[s + 1].kind = "row"}

\* "this ensures output row N = input row N" (reorder.rs).
RowNIsInputN == result = "ok" => \A i \in DOMAIN Readable : Readable[i].seq = i - 1
=============================================================================
