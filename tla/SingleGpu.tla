------------------------------ MODULE SingleGpu ------------------------------
(***************************************************************************)
(* Engine::embed on one GPU: EmbedFront and, per bucket, one thread that   *)
(* receives from the bucket's channel, accumulates a batch, runs inference *)
(* and sends the result to the output channel; then EmbedHandle::finish.   *)
(***************************************************************************)
EXTENDS EmbedFront

CONSTANT SessionSets   \* sets of buckets that Engine::new may have got a session for

ASSUME SessionAssumption == SessionSets \subseteq SUBSET Bucket /\ SessionSets # {}

VARIABLES
    sessions,   \* the buckets with a TensorRT session
    worker,     \* per bucket: pc, the accumulated messages, batch and result in hand
    batches,    \* batches_done
    rows,       \* per bucket: rows inferred (GpuWorkerStats)
    finished    \* EmbedHandle::finish has returned

workerVars == <<sessions, worker, batches, rows, finished>>
vars == <<frontVars, workerVars>>

Init ==
    /\ FrontInit
    /\ sessions \in SessionSets
    /\ worker = [b \in Bucket |-> [pc |-> "recv", acc |-> EmptyAcc,
                                   batch |-> EmptyBatch, out |-> NoBatch]]
    /\ batches = 0
    /\ rows = [b \in Bucket |-> 0]
    /\ finished = FALSE

\* A bucket's receiver lives as long as the bucket's thread.
Alive == [b \in Bucket |-> worker[b].pc # "done"]
WorkersDone == \A b \in Bucket : worker[b].pc = "done"
\* Every clone of out_tx is owned by a tokenizer worker or a bucket thread.
NoSender == ToksDone /\ WorkersDone

\* bucket_rx.recv returned an item; if it fills the batch, inference is next.
WorkerRecv(b) ==
    /\ worker[b].pc = "recv" /\ bucketQ[b] # <<>>
    /\ bucketQ' = [bucketQ EXCEPT ![b] = Tail(@)]
    /\ LET acc == Push(worker[b].acc, Head(bucketQ[b]))
       IN  worker' = [worker EXCEPT ![b] =
              IF Filled(acc, BatchSize[b])
              THEN [pc |-> "infer", acc |-> Drain(acc),
                    batch |-> BuildBatch(acc, b), out |-> NoBatch]
              ELSE [pc |-> "recv", acc |-> acc, batch |-> EmptyBatch, out |-> NoBatch]]
    /\ UNCHANGED <<text, fed, feeder, inputQ, tok, outQ, rx, answers, answer,
                   inserted, processed, skipped, hits,
                   sessions, batches, rows, finished>>

\* Mutant: flushes whenever the channel is empty.
WorkerFlush_WhenIdle(b) ==
    /\ worker[b].pc = "recv" /\ bucketQ[b] = <<>>
    /\ worker[b].acc.rows # <<>>
    /\ LET acc == worker[b].acc
       IN  worker' = [worker EXCEPT ![b] =
              [pc |-> "infer", acc |-> Drain(acc),
               batch |-> BuildBatch(acc, b), out |-> NoBatch]]
    /\ UNCHANGED <<frontVars, sessions, batches, rows, finished>>

\* All senders are gone and the channel is empty: bucketizer.flush().
WorkerFlush(b) ==
    /\ worker[b].pc = "recv" /\ bucketQ[b] = <<>> /\ ToksDone
    /\ worker[b].acc.rows # <<>>
    /\ LET acc == worker[b].acc
       IN  worker' = [worker EXCEPT ![b] =
              [pc |-> "infer", acc |-> Drain(acc),
               batch |-> BuildBatch(acc, b), out |-> NoBatch]]
    /\ UNCHANGED <<frontVars, sessions, batches, rows, finished>>

\* infer and get_output, which fail at any time and always without a session;
\* the statistics, and on success the insertions into the dedup cache.
WorkerInfer(b) ==
    LET batch == worker[b].batch
    IN  /\ worker[b].pc = "infer"
        /\ rows' = [rows EXCEPT ![b] = @ + Len(batch.rows)]
        /\ \E ok \in BOOLEAN :
             /\ ok => b \in sessions
             /\ IF ok THEN InsertAll(batch) ELSE UNCHANGED inserted
             /\ worker' = [worker EXCEPT ![b] =
                   [pc |-> "send", acc |-> @.acc, batch |-> EmptyBatch,
                    out |-> OutBatch(batch, ok)]]
        /\ UNCHANGED <<text, fed, feeder, inputQ, tok, bucketQ, outQ, rx,
                       answers, answer, processed, skipped, hits,
                       sessions, batches, finished>>

\* Mutant: try_send, which drops the batch when the channel is full.
WorkerSend_Try(b) ==
    /\ worker[b].pc = "send"
    /\ outQ' = IF rx = "open" /\ Len(outQ) < OutCap
               THEN Append(outQ, worker[b].out) ELSE outQ
    /\ batches' = batches + 1
    /\ worker' = [worker EXCEPT ![b] = [pc |-> "recv", acc |-> @.acc,
                                       batch |-> EmptyBatch, out |-> NoBatch]]
    /\ UNCHANGED <<text, fed, feeder, inputQ, tok, bucketQ, rx, answers, answer,
                   inserted, processed, skipped, hits, sessions, rows, finished>>

WorkerSend(b) ==
    /\ worker[b].pc = "send" /\ CanSendOut
    /\ SendOut(worker[b].out)
    /\ batches' = batches + 1
    /\ worker' = [worker EXCEPT ![b] = [pc |-> "recv", acc |-> @.acc,
                                       batch |-> EmptyBatch, out |-> NoBatch]]
    /\ UNCHANGED <<text, fed, feeder, inputQ, tok, bucketQ, rx, answers, answer,
                   inserted, processed, skipped, hits, sessions, rows, finished>>

\* Mutant: no flush before the thread ends.
WorkerExit_NoFlush(b) ==
    /\ worker[b].pc = "recv" /\ bucketQ[b] = <<>> /\ ToksDone
    /\ worker' = [worker EXCEPT ![b] = [pc |-> "done", acc |-> @.acc,
                                       batch |-> EmptyBatch, out |-> NoBatch]]
    /\ UNCHANGED <<frontVars, sessions, batches, rows, finished>>

\* Mutant: the thread ends as soon as the channel is empty.
WorkerExit_WhenIdle(b) ==
    /\ worker[b].pc = "recv" /\ bucketQ[b] = <<>>
    /\ worker[b].acc.rows = <<>>
    /\ worker' = [worker EXCEPT ![b] = [pc |-> "done", acc |-> @.acc,
                                       batch |-> EmptyBatch, out |-> NoBatch]]
    /\ UNCHANGED <<frontVars, sessions, batches, rows, finished>>

\* Nothing is pending after the flush: the thread ends.
WorkerExit(b) ==
    /\ worker[b].pc = "recv" /\ bucketQ[b] = <<>> /\ ToksDone
    /\ worker[b].acc.rows = <<>>
    /\ worker' = [worker EXCEPT ![b] = [pc |-> "done", acc |-> @.acc,
                                       batch |-> EmptyBatch, out |-> NoBatch]]
    /\ UNCHANGED <<frontVars, sessions, batches, rows, finished>>

\* EmbedHandle::finish, called after the receiver has been drained or
\* dropped, returns once it has joined the tokenizer and bucket threads.
Finish ==
    /\ ~finished /\ rx # "open"
    /\ ToksDone /\ WorkersDone
    /\ finished' = TRUE
    /\ UNCHANGED <<frontVars, sessions, worker, batches, rows>>

\* Nothing is left to do.
Stopped == finished /\ UNCHANGED vars

Next ==
    \/ FeederSend /\ UNCHANGED workerVars
    \/ FeederEnd /\ UNCHANGED workerVars
    \/ \E w \in Tok :
         \/ TokRecv(w) /\ UNCHANGED workerVars
         \/ TokSkip(w) /\ UNCHANGED workerVars
         \/ TokHit(w) /\ UNCHANGED workerVars
         \/ TokTokenize(w) /\ UNCHANGED workerVars
         \/ TokSendOut(w) /\ UNCHANGED workerVars
         \/ TokSendBucket(w, Alive) /\ UNCHANGED workerVars
         \/ TokExit(w) /\ UNCHANGED workerVars
    \/ \E b \in Bucket : \/ WorkerRecv(b) \/ WorkerFlush(b) \/ WorkerInfer(b)
                         \/ WorkerSend(b) \/ WorkerExit(b)
    \/ ConsumerRecv /\ UNCHANGED workerVars
    \/ ConsumerEnd(NoSender) /\ UNCHANGED workerVars
    \/ ConsumerDrop /\ UNCHANGED workerVars
    \/ Finish
    \/ Stopped

Spec == Init /\ [][Next]_vars

-----------------------------------------------------------------------------
(* Fairness: every thread the call started runs; the caller keeps receiving *)
(* (or drops the receiver) and then calls finish.  The feeder is left out:  *)
(* the iterator it drives is the caller's own code and may pause for ever.  *)
TokStep(w) == /\ \/ TokRecv(w) \/ TokSkip(w) \/ TokHit(w) \/ TokTokenize(w)
                 \/ TokSendOut(w) \/ TokSendBucket(w, Alive) \/ TokExit(w)
              /\ UNCHANGED workerVars
WorkerStep(b) == \/ WorkerRecv(b) \/ WorkerFlush(b) \/ WorkerInfer(b)
                 \/ WorkerSend(b) \/ WorkerExit(b)
CallerStep == (ConsumerRecv \/ ConsumerEnd(NoSender)) /\ UNCHANGED workerVars

FairSpec ==
    /\ Spec
    /\ \A w \in Tok : WF_vars(TokStep(w))
    /\ \A b \in Bucket : WF_vars(WorkerStep(b))
    /\ WF_vars(CallerStep)
    /\ WF_vars(Finish)

-----------------------------------------------------------------------------
\* Every variable holds a value of its type.
TypeOK ==
    /\ FrontTypeOK
    /\ sessions \subseteq Bucket
    /\ worker \in [Bucket -> [pc : {"recv", "infer", "send", "done"}, acc : Acc,
                              batch : BatchType, out : OutMsg]]
    /\ batches \in Nat
    /\ rows \in [Bucket -> Nat]
    /\ finished \in BOOLEAN

\* Message m is in the hands of a bucket thread.
InWorker(m) == \E b \in Bucket : \/ m \in Range(worker[b].acc.ids)
                                 \/ m \in Range(worker[b].batch.ids)
                                 \/ m \in Range(worker[b].out.ids)

\* While the caller listens, every message the feeder has taken from the
\* iterator is in some queue or some thread's hands, or has been answered:
\* no hand-over between the threads of embed, no batch boundary and no final
\* flush loses one.
NothingLost ==
    rx # "dropped" =>
        \A m \in 1..fed : InFront(m) \/ InWorker(m)

\* The caller's loop over the Receiver ends only when every message of the
\* iterator has been answered: the stream closes by the last sender going
\* away, so a thread that ended early would cut it short silently.
EndMeansAnswered == rx = "ended" => \A m \in Msg : answers[m] > 0

\* A row the caller gets for a message is the vector of that message's text,
\* up to the documented approximation of the dedup cache: ids, hashes and
\* rows travel in separate buffers and must stay aligned over every batch.
RightVector ==
    \A m \in Msg : answer[m].kind = "row" =>
        answer[m].vec # {} /\ answer[m].vec \subseteq SlotMates(text[m])

\* A bucket thread, and with it the receiver of its channel, outlives every
\* tokenizer worker, so txs[bi].send in a tokenizer worker never fails here.
ReceiverOutlivesSenders ==
    \A b \in Bucket : worker[b].pc = "done" => ToksDone /\ bucketQ[b] = <<>>

\* The counters finish() reports agree with each other and with the input:
\* every message was processed or skipped, and every processed one was a
\* dedup hit or a row of some batch -- also when the receiver was dropped.
ReportAddsUp ==
    finished => /\ processed + skipped = NMsg
                /\ processed = hits + SumFunction(rows)

\* Inference runs on a partial batch only once the input is exhausted, and
\* never on more rows than the padded arrays hold.
FullUntilFlush ==
    [][\A b \in Bucket :
         LET n == rows'[b] - rows[b]
         IN  n # 0 => n = BatchSize[b] \/ (n < BatchSize[b] /\ ToksDone)]_vars

\* SingleGpu implements the promise made to the caller.
Contract == INSTANCE EmbedContract
    WITH Mates <- [t \in Text |-> SlotMates(t)], stream <- rx
ContractHolds == Contract!Spec

\* Once the iterator has ended, finish() returns, whether the caller drains
\* the stream or drops it half-way: no thread waits for another for ever.
Terminates == (feeder = "done") ~> finished

\* "If a bucket hasn't filled a full batch within this time, fire a partial
\* batch" (Config::batch_timeout_ms): what has been taken from the source gets
\* answered even if the source then pauses (fed is bounded, so being caught up
\* again and again means that no message waits for ever).  The bucket threads
\* of this path wait in recv, not in recv_timeout.
PartialBatchFires ==
    []<>(rx = "dropped" \/ \A m \in 1..fed : answers[m] > 0)
=============================================================================
