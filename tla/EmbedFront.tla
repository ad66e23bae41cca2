----------------------------- MODULE EmbedFront -----------------------------
(***************************************************************************)
(* The part of Engine::embed that the single-GPU and the multi-GPU path    *)
(* share: the feeder thread, the tokenizer workers, the channels between   *)
(* them, the dedup cache, the output channel and the caller that consumes  *)
(* it.  SingleGpu and MultiGpu extend this module with the threads between *)
(* the bucket channels and the output channel.                             *)
(*                                                                         *)
(* Messages are numbered 1..NMsg in the order the caller's iterator yields *)
(* them; text[m] is the text of message m, fixed in the initial state.     *)
(* The vector computed for a text is named by the text; the vector that    *)
(* comes out of the dedup cache is a set of texts, the ones its components *)
(* may have been computed from (see LossyCache and DedupCache).            *)
(***************************************************************************)
EXTENDS Batching, FiniteSets, Functions

CONSTANTS
    NMsg,        \* how many messages the caller's iterator yields
    Text,        \* the texts
    Inputs,      \* the inputs considered: functions from 1..NMsg to Text
    TooShort,    \* those Normalizer::normalize rejects (returns None)
    TokLen,      \* token count of a text
    Hash,        \* fnv1a of a text
    Capacity,    \* Config::dedup_capacity, 0 = no dedup cache
    BucketLen,   \* Config::buckets
    BatchSize,   \* Config::batch_sizes
    Tok,         \* the tokenizer workers
    InCap,       \* capacity of the input channel (4096)
    BucketCap,   \* capacity of a bucket channel (8192)
    OutCap       \* capacity of the output channel (32)

ASSUME SizeAssumption ==
    /\ NMsg \in Nat
    /\ InCap \in Nat \ {0}
    /\ BucketCap \in Nat \ {0}
    /\ OutCap \in Nat \ {0}

\* What Config::validate demands (and tokenize_one guarantees of TokLen).
ASSUME ConfigAssumption ==
    /\ BucketLen \in Seq(Nat \ {0})
    /\ Len(BucketLen) > 0
    /\ \A i, j \in DOMAIN BucketLen : i < j => BucketLen[i] < BucketLen[j]
    /\ BatchSize \in [DOMAIN BucketLen -> Nat \ {0}]
    /\ Tok # {} /\ IsFiniteSet(Tok)
    /\ Capacity \in Nat

ASSUME TextAssumption ==
    /\ TooShort \subseteq Text
    /\ TokLen \in [Text -> Nat]
    /\ \A t \in Text : TokLen[t] <= BucketLen[Len(BucketLen)]
    /\ Hash \in [Text -> Nat]
    /\ Inputs \subseteq [1..NMsg -> Text]

Msg    == 1..NMsg
Bucket == DOMAIN BucketLen
Slot   == IF Capacity = 0 THEN {} ELSE 0..(Capacity - 1)
SlotOf(h) == h % Capacity

VARIABLES
    text,       \* the input, message -> text
    fed,        \* messages the feeder has sent
    feeder,     \* "run" or "done"
    inputQ,     \* input channel: message ids
    tok,        \* tokenizer workers: pc, the message in hand, the pending output
    bucketQ,    \* bucket channels: [id, row, hash]
    outQ,       \* output channel: [ids, vecs, failed]
    rx,         \* the caller's Receiver: "open", "ended" or "dropped"
    answers,    \* how often the caller got an answer for a message
    answer,     \* the last answer it got
    inserted,   \* dedup cache: everything ever stored in a slot
    processed, skipped, hits   \* the counters of EmbedStats

frontVars == <<text, fed, feeder, inputQ, tok, bucketQ, outQ, rx, answers,
               answer, inserted, processed, skipped, hits>>

-----------------------------------------------------------------------------
(* Batches on the output channel, and what they tell the caller. *)

\* n_rows = 0 and not inference_failed: the message was filtered out.
SkippedBatch(m) == [ids |-> <<m>>, vecs |-> <<>>, failed |-> FALSE]
HitBatch(m, v)  == [ids |-> <<m>>, vecs |-> <<v>>, failed |-> FALSE]
NoBatch         == [ids |-> <<>>, vecs |-> <<>>, failed |-> FALSE]
EmptyBatch == [shape |-> 0, bucket |-> 0, rows |-> <<>>, ids |-> <<>>, hashes |-> <<>>]

\* Mutant: a failed batch looks like a filtered one.
OutBatch_FailureUnmarked(batch, ok) ==
    [ids    |-> batch.ids,
     vecs   |-> IF ok THEN [i \in DOMAIN batch.ids |-> {batch.rows[i]}] ELSE <<>>,
     failed |-> FALSE]

\* The batch a GPU worker sends: a row per id, or none and inference_failed.
OutBatch(batch, ok) ==
    [ids    |-> batch.ids,
     vecs   |-> IF ok THEN [i \in DOMAIN batch.ids |-> {batch.rows[i]}] ELSE <<>>,
     failed |-> ~ok]

Outcome == [kind : {"none", "skipped", "failed", "row"}, vec : SUBSET Text]
NoAnswer == [kind |-> "none", vec |-> {}]

\* What a consumer concludes about the i-th id of a batch.
OutcomeAt(batch, i) ==
    IF batch.failed THEN [kind |-> "failed", vec |-> {}]
    ELSE IF batch.vecs = <<>> THEN [kind |-> "skipped", vec |-> {}]
    ELSE [kind |-> "row", vec |-> batch.vecs[i]]

Places(batch, m) == {i \in DOMAIN batch.ids : batch.ids[i] = m}

-----------------------------------------------------------------------------
(* The dedup cache as its users may see it: a hit needs an insertion under *)
(* the same hash, the vector may mix everything ever stored in the slot.   *)

\* Mutant: every hash of the batch gets the first row's vector.
InsertAll_FirstRow(batch) ==
    inserted' = [s \in Slot |-> inserted[s] \cup
        {[key |-> batch.hashes[i], text |-> batch.rows[1]] :
            i \in {j \in DOMAIN batch.rows :
                      batch.hashes[j] # 0 /\ SlotOf(batch.hashes[j]) = s}}]

\* EmbedCacheInner::insert for every row of a batch whose inference succeeded.
InsertAll(batch) ==
    inserted' = [s \in Slot |-> inserted[s] \cup
        {[key |-> batch.hashes[i], text |-> batch.rows[i]] :
            i \in {j \in DOMAIN batch.rows :
                      batch.hashes[j] # 0 /\ SlotOf(batch.hashes[j]) = s}}]

\* The vectors EmbedCacheInner::get may return for hash h; {} means a miss.
HitVectors(h) ==
    IF Capacity > 0 /\ h # 0 /\ \E e \in inserted[SlotOf(h)] : e.key = h
    THEN (SUBSET {e.text : e \in inserted[SlotOf(h)]}) \ {{}}
    ELSE {}

-----------------------------------------------------------------------------
FrontInit ==
    /\ text \in Inputs
    /\ fed = 0
    /\ feeder = "run"
    /\ inputQ = <<>>
    /\ tok = [w \in Tok |-> [pc |-> "recv", id |-> 0, out |-> NoBatch]]
    /\ bucketQ = [b \in Bucket |-> <<>>]
    /\ outQ = <<>>
    /\ rx = "open"
    /\ answers = [m \in Msg |-> 0]
    /\ answer = [m \in Msg |-> NoAnswer]
    /\ inserted = [s \in Slot |-> {}]
    /\ processed = 0
    /\ skipped = 0
    /\ hits = 0

\* Mutant: embed keeps a sender of every bucket channel for itself.
ToksDone_SenderKept == FALSE

ToksDone == \A w \in Tok : tok[w].pc = "done"

\* Mutant: the receiver is leaked, not dropped, so that sends still block.
CanSendOut_Leaked == rx = "open" /\ Len(outQ) < OutCap

(* Sending on the output channel: blocks while it is full, and is a no-op  *)
(* once the caller has dropped the receiver (`let _ = tx.send(..)`).       *)
CanSendOut == rx = "open" => Len(outQ) < OutCap
SendOut(batch) == outQ' = IF rx = "open" THEN Append(outQ, batch) ELSE outQ

(* Feeder thread. *)
\* Mutant: one message too many.
FeederSend_OneTooMany ==
    /\ feeder = "run" /\ fed <= NMsg
    /\ ~ToksDone
    /\ Len(inputQ) < InCap
    /\ fed' = fed + 1
    /\ inputQ' = Append(inputQ, fed + 1)
    /\ UNCHANGED <<text, feeder, tok, bucketQ, outQ, rx, answers, answer,
                   inserted, processed, skipped, hits>>

FeederSend ==
    /\ feeder = "run" /\ fed < NMsg
    /\ ~ToksDone
    /\ Len(inputQ) < InCap
    /\ fed' = fed + 1
    /\ inputQ' = Append(inputQ, fed + 1)
    /\ UNCHANGED <<text, feeder, tok, bucketQ, outQ, rx, answers, answer,
                   inserted, processed, skipped, hits>>

\* The iterator is exhausted; the thread ends and drops input_tx.
FeederEnd ==
    /\ feeder = "run" /\ fed = NMsg
    /\ feeder' = "done"
    /\ UNCHANGED <<text, fed, inputQ, tok, bucketQ, outQ, rx, answers, answer,
                   inserted, processed, skipped, hits>>

\* input_tx.send fails: no tokenizer worker is left.
FeederBreak ==
    /\ feeder = "run" /\ fed < NMsg
    /\ ToksDone
    /\ feeder' = "done"
    /\ UNCHANGED <<text, fed, inputQ, tok, bucketQ, outQ, rx, answers, answer,
                   inserted, processed, skipped, hits>>

(* Tokenizer worker w. *)
TokRecv(w) ==
    /\ tok[w].pc = "recv" /\ inputQ # <<>>
    /\ tok' = [tok EXCEPT ![w] = [pc |-> "got", id |-> Head(inputQ), out |-> NoBatch]]
    /\ inputQ' = Tail(inputQ)
    /\ UNCHANGED <<text, fed, feeder, bucketQ, outQ, rx, answers, answer,
                   inserted, processed, skipped, hits>>

\* normalize returned None.
TokSkip(w) ==
    /\ tok[w].pc = "got" /\ text[tok[w].id] \in TooShort
    /\ skipped' = skipped + 1
    /\ tok' = [tok EXCEPT ![w] = [pc |-> "emit", id |-> @.id, out |-> SkippedBatch(@.id)]]
    /\ UNCHANGED <<text, fed, feeder, inputQ, bucketQ, outQ, rx, answers,
                   answer, inserted, processed, hits>>

\* Mutant: a hit is not counted as processed.
TokHit_Uncounted(w) ==
    /\ tok[w].pc = "got" /\ text[tok[w].id] \notin TooShort
    /\ \E v \in HitVectors(Hash[text[tok[w].id]]) :
         tok' = [tok EXCEPT ![w] = [pc |-> "emit", id |-> @.id, out |-> HitBatch(@.id, v)]]
    /\ hits' = hits + 1
    /\ UNCHANGED <<text, fed, feeder, inputQ, bucketQ, outQ, rx, answers,
                   answer, inserted, processed, skipped>>

\* The dedup cache has a vector under this text's hash.
TokHit(w) ==
    /\ tok[w].pc = "got" /\ text[tok[w].id] \notin TooShort
    /\ \E v \in HitVectors(Hash[text[tok[w].id]]) :
         tok' = [tok EXCEPT ![w] = [pc |-> "emit", id |-> @.id, out |-> HitBatch(@.id, v)]]
    /\ processed' = processed + 1
    /\ hits' = hits + 1
    /\ UNCHANGED <<text, fed, feeder, inputQ, bucketQ, outQ, rx, answers,
                   answer, inserted, skipped>>

\* A miss (which an overwrite of the slot makes possible at any time).
TokTokenize(w) ==
    /\ tok[w].pc = "got" /\ text[tok[w].id] \notin TooShort
    /\ processed' = processed + 1
    /\ tok' = [tok EXCEPT ![w] = [pc |-> "route", id |-> @.id, out |-> NoBatch]]
    /\ UNCHANGED <<text, fed, feeder, inputQ, bucketQ, outQ, rx, answers,
                   answer, inserted, skipped, hits>>

TokSendOut(w) ==
    /\ tok[w].pc = "emit" /\ CanSendOut
    /\ SendOut(tok[w].out)
    /\ tok' = [tok EXCEPT ![w] = [pc |-> "recv", id |-> 0, out |-> NoBatch]]
    /\ UNCHANGED <<text, fed, feeder, inputQ, bucketQ, rx, answers, answer,
                   inserted, processed, skipped, hits>>

\* What travels to the batcher of a bucket.
Item(m) == [id |-> m, row |-> text[m], hash |-> Hash[text[m]]]

\* alive[b]: the receiving end of bucket b's channel still exists.
TokSendBucket(w, alive) ==
    LET m == tok[w].id
        b == AssignBucket(BucketLen, TokLen[text[m]])
    IN  /\ tok[w].pc = "route" /\ alive[b]
        /\ Len(bucketQ[b]) < BucketCap
        /\ bucketQ' = [bucketQ EXCEPT ![b] = Append(@, Item(m))]
        /\ tok' = [tok EXCEPT ![w] = [pc |-> "recv", id |-> 0, out |-> NoBatch]]
        /\ UNCHANGED <<text, fed, feeder, inputQ, outQ, rx, answers, answer,
                       inserted, processed, skipped, hits>>

\* txs[bi].send failed: the worker gives up, and with the last worker the
\* input channel loses its receivers and what they had not received.
TokBreak(w, alive) ==
    /\ tok[w].pc = "route"
    /\ ~alive[AssignBucket(BucketLen, TokLen[text[tok[w].id]])]
    /\ tok' = [tok EXCEPT ![w] = [pc |-> "done", id |-> 0, out |-> NoBatch]]
    /\ inputQ' = IF \A v \in Tok \ {w} : tok[v].pc = "done" THEN <<>> ELSE inputQ
    /\ UNCHANGED <<text, fed, feeder, bucketQ, outQ, rx, answers, answer,
                   inserted, processed, skipped, hits>>

\* rx.recv fails: the feeder is gone and the channel is empty.
TokExit(w) ==
    /\ tok[w].pc = "recv" /\ inputQ = <<>> /\ feeder = "done"
    /\ tok' = [tok EXCEPT ![w] = [pc |-> "done", id |-> 0, out |-> NoBatch]]
    /\ UNCHANGED <<text, fed, feeder, inputQ, bucketQ, outQ, rx, answers,
                   answer, inserted, processed, skipped, hits>>

(* The caller. *)
ConsumerRecv ==
    /\ rx = "open" /\ outQ # <<>>
    /\ outQ' = Tail(outQ)
    /\ LET batch == Head(outQ)
       IN  /\ answers' = [m \in Msg |-> answers[m] + Cardinality(Places(batch, m))]
           /\ answer' = [m \in Msg |->
                            IF Places(batch, m) = {} THEN answer[m]
                            ELSE OutcomeAt(batch, Max(Places(batch, m)))]
    /\ UNCHANGED <<text, fed, feeder, inputQ, tok, bucketQ, rx, inserted,
                   processed, skipped, hits>>

\* The iteration over the Receiver ends: no sender is left, nothing queued.
ConsumerEnd(noSender) ==
    /\ rx = "open" /\ outQ = <<>> /\ noSender
    /\ rx' = "ended"
    /\ UNCHANGED <<text, fed, feeder, inputQ, tok, bucketQ, outQ, answers,
                   answer, inserted, processed, skipped, hits>>

\* The caller drops the Receiver before the end.
ConsumerDrop ==
    /\ rx = "open"
    /\ rx' = "dropped"
    /\ outQ' = <<>>
    /\ UNCHANGED <<text, fed, feeder, inputQ, tok, bucketQ, answers, answer,
                   inserted, processed, skipped, hits>>

-----------------------------------------------------------------------------
BucketItem == [id : Msg, row : Text, hash : Nat]
OutMsg == [ids : Seq(Msg), vecs : Seq(SUBSET Text), failed : BOOLEAN]
Entry  == [key : Nat, text : Text]

Acc == [rows : Seq(Text), ids : Seq(Msg), hashes : Seq(Nat)]
BatchType == [shape : Bucket \cup {0}, bucket : Bucket \cup {0},
              rows : Seq(Text), ids : Seq(Msg), hashes : Seq(Nat)]

FrontTypeOK ==
    /\ text \in [Msg -> Text]
    /\ fed \in 0..NMsg
    /\ feeder \in {"run", "done"}
    /\ inputQ \in Seq(Msg)
    /\ tok \in [Tok -> [pc : {"recv", "got", "emit", "route", "done"},
                        id : Msg \cup {0}, out : OutMsg]]
    /\ \A w \in Tok : tok[w].pc \in {"got", "emit", "route"} => tok[w].id \in Msg
    /\ bucketQ \in [Bucket -> Seq(BucketItem)]
    /\ outQ \in Seq(OutMsg)
    /\ rx \in {"open", "ended", "dropped"}
    /\ answers \in [Msg -> Nat]
    /\ answer \in [Msg -> Outcome]
    /\ inserted \in [Slot -> SUBSET Entry]
    /\ processed \in Nat /\ skipped \in Nat /\ hits \in Nat

-----------------------------------------------------------------------------
(* Message m waits in a place of this module, or has been answered. *)
InInput(m)  == m \in Range(inputQ)
InTok(m)    == \E w \in Tok : tok[w].pc \in {"got", "emit", "route"} /\ tok[w].id = m
InBucket(m) == \E b \in Bucket : \E i \in DOMAIN bucketQ[b] : bucketQ[b][i].id = m
InOut(m)    == \E i \in DOMAIN outQ : m \in Range(outQ[i].ids)
InFront(m)  == InInput(m) \/ InTok(m) \/ InBucket(m) \/ InOut(m) \/ answers[m] > 0

(* Texts whose vectors a hit for text t may be mixed with. *)
SlotMates(t) ==
    IF Capacity = 0 \/ Hash[t] = 0 THEN {t}
    ELSE {u \in Text \ TooShort : Hash[u] # 0 /\ SlotOf(Hash[u]) = SlotOf(Hash[t])}
=============================================================================
