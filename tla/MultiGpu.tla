------------------------------ MODULE MultiGpu ------------------------------
(***************************************************************************)
(* Engine::embed on several GPUs: EmbedFront, per bucket a batcher thread  *)
(* that turns the bucket's channel into batches (with a timeout for        *)
(* partial ones), one shared channel of ready batches, and per usable GPU  *)
(* a worker that takes batches of any bucket.  embed itself is a thread    *)
(* too: it has already started feeder, tokenizer workers and batchers when *)
(* it finds that no GPU has a session for every bucket, and refuses.       *)
(***************************************************************************)
EXTENDS EmbedFront

CONSTANTS
    Gpu,            \* the devices
    SessionSets,    \* sets of <<bucket, gpu>> Engine::new may have got a session for
    BatchTimeout,   \* Config::batch_timeout_ms > 0
    BatchCap        \* capacity of the ready-batch channel (64)

ASSUME MultiAssumption ==
    /\ Gpu # {} /\ IsFiniteSet(Gpu)
    /\ SessionSets \subseteq SUBSET (Bucket \X Gpu) /\ SessionSets # {}
    /\ BatchTimeout \in BOOLEAN
    /\ BatchCap \in Nat \ {0}

VARIABLES
    embed,      \* the call: "starting", "running" (has returned Ok), "refused"
    sessions,   \* the <<bucket, gpu>> with a TensorRT session
    batcher,    \* per bucket: pc, the accumulated messages, the batch in hand
    batchQ,     \* the ready-batch channel
    gpu,        \* per GPU: pc, the batch and the result in hand
    batches,    \* batches_done
    rows,       \* per bucket: rows inferred (GpuWorkerStats)
    finished    \* EmbedHandle::finish has returned

backVars == <<embed, sessions, batcher, batchQ, gpu, batches, rows, finished>>
vars == <<frontVars, backVars>>

\* The GPUs that get a worker: those with a session for every bucket.
Usable == {g \in Gpu : \A b \in Bucket : <<b, g>> \in sessions}

Init ==
    /\ FrontInit
    /\ embed = "starting"
    /\ sessions \in SessionSets
    /\ batcher = [b \in Bucket |-> [pc |-> "recv", acc |-> EmptyAcc, batch |-> EmptyBatch]]
    /\ batchQ = <<>>
    /\ gpu = [g \in Gpu |-> [pc |-> "off", batch |-> EmptyBatch, out |-> NoBatch]]
    /\ batches = 0
    /\ rows = [b \in Bucket |-> 0]
    /\ finished = FALSE

Alive == [b \in Bucket |-> batcher[b].pc # "done"]
BatchersDone == \A b \in Bucket : batcher[b].pc = "done"
GpusDone == \A g \in Gpu : gpu[g].pc \in {"off", "done"}
\* Mutant: the GPU workers hold no sender of their own.
NoSender_GpusIgnored == embed = "running" /\ ToksDone

\* embed has dropped its own out_tx, the workers theirs by ending.
NoSender == embed = "running" /\ ToksDone /\ GpusDone

-----------------------------------------------------------------------------
(* The rest of embed, after the batchers have been started. *)
MainSpawn ==
    /\ embed = "starting" /\ Usable # {}
    /\ embed' = "running"
    /\ gpu' = [g \in Gpu |-> [gpu[g] EXCEPT !.pc = IF g \in Usable THEN "recv" ELSE "off"]]
    /\ UNCHANGED <<frontVars, sessions, batcher, batchQ, batches, rows, finished>>

\* Err: every channel end the call still holds goes away with it.
MainRefuse ==
    /\ embed = "starting" /\ Usable = {}
    /\ embed' = "refused"
    /\ rx' = "dropped"
    /\ outQ' = <<>>
    /\ batchQ' = <<>>
    /\ UNCHANGED <<text, fed, feeder, inputQ, tok, bucketQ, answers, answer,
                   inserted, processed, skipped, hits,
                   sessions, batcher, gpu, batches, rows, finished>>

-----------------------------------------------------------------------------
(* Batcher of bucket b. *)
BatcherRecv(b) ==
    /\ batcher[b].pc = "recv" /\ bucketQ[b] # <<>>
    /\ bucketQ' = [bucketQ EXCEPT ![b] = Tail(@)]
    /\ LET acc == Push(batcher[b].acc, Head(bucketQ[b]))
       IN  batcher' = [batcher EXCEPT ![b] =
              IF Filled(acc, BatchSize[b])
              THEN [pc |-> "send", acc |-> Drain(acc), batch |-> BuildBatch(acc, b)]
              ELSE [@ EXCEPT !.acc = acc]]
    /\ UNCHANGED <<text, fed, feeder, inputQ, tok, outQ, rx, answers, answer,
                   inserted, processed, skipped, hits,
                   embed, sessions, batchQ, gpu, batches, rows, finished>>

\* Send off what is pending, as a partial batch.
BatcherEmit(b) ==
    /\ batcher[b].pc = "recv" /\ bucketQ[b] = <<>> /\ batcher[b].acc.rows # <<>>
    /\ LET acc == batcher[b].acc
       IN  batcher' = [batcher EXCEPT ![b] =
              [pc |-> "send", acc |-> Drain(acc), batch |-> BuildBatch(acc, b)]]
    /\ UNCHANGED <<frontVars, embed, sessions, batchQ, gpu, batches, rows, finished>>

\* Mutant: the timeout flushes only what is full anyway.
BatcherTimeout_FullOnly(b) ==
    BatchTimeout /\ ~ToksDone /\ Filled(batcher[b].acc, BatchSize[b]) /\ BatcherEmit(b)

\* recv_timeout: nothing arrived for batch_timeout_ms.
BatcherTimeout(b) == BatchTimeout /\ ~ToksDone /\ BatcherEmit(b)

\* The senders are gone and the channel is empty.
BatcherFlush(b) == ToksDone /\ BatcherEmit(b)

\* Mutant: try_send, which drops the batch when the channel is full.
BatcherSend_Try(b) ==
    /\ batcher[b].pc = "send" /\ embed # "refused"
    /\ batchQ' = IF Len(batchQ) < BatchCap THEN Append(batchQ, batcher[b].batch) ELSE batchQ
    /\ batcher' = [batcher EXCEPT ![b] = [@ EXCEPT !.pc = "recv", !.batch = EmptyBatch]]
    /\ UNCHANGED <<frontVars, embed, sessions, gpu, batches, rows, finished>>

BatcherSend(b) ==
    /\ batcher[b].pc = "send" /\ embed # "refused"
    /\ Len(batchQ) < BatchCap
    /\ batchQ' = Append(batchQ, batcher[b].batch)
    /\ batcher' = [batcher EXCEPT ![b] = [@ EXCEPT !.pc = "recv", !.batch = EmptyBatch]]
    /\ UNCHANGED <<frontVars, embed, sessions, gpu, batches, rows, finished>>

\* Mutant: the batcher tries again instead of returning.
BatcherBreak_Retry(b) == batcher[b].pc = "send" /\ embed = "refused" /\ UNCHANGED vars

\* btx.send failed: the thread returns, and its receiver goes with it.
BatcherBreak(b) ==
    /\ batcher[b].pc = "send" /\ embed = "refused"
    /\ batcher' = [batcher EXCEPT ![b] =
                      [pc |-> "done", acc |-> EmptyAcc, batch |-> EmptyBatch]]
    /\ bucketQ' = [bucketQ EXCEPT ![b] = <<>>]
    /\ UNCHANGED <<text, fed, feeder, inputQ, tok, outQ, rx, answers, answer,
                   inserted, processed, skipped, hits,
                   embed, sessions, batchQ, gpu, batches, rows, finished>>

BatcherExit(b) ==
    /\ batcher[b].pc = "recv" /\ bucketQ[b] = <<>> /\ ToksDone
    /\ batcher[b].acc.rows = <<>>
    /\ batcher' = [batcher EXCEPT ![b].pc = "done"]
    /\ UNCHANGED <<frontVars, embed, sessions, batchQ, gpu, batches, rows, finished>>

-----------------------------------------------------------------------------
(* Worker of GPU g. *)
GpuRecv(g) ==
    /\ gpu[g].pc = "recv" /\ batchQ # <<>>
    /\ gpu' = [gpu EXCEPT ![g] = [pc |-> "infer", batch |-> Head(batchQ), out |-> NoBatch]]
    /\ batchQ' = Tail(batchQ)
    /\ UNCHANGED <<frontVars, embed, sessions, batcher, batches, rows, finished>>

\* The session is looked up by batch.bucket; infer rejects arrays that do not
\* have its shape, and may fail at any other time too.
GpuInfer(g) ==
    LET batch == gpu[g].batch
    IN  /\ gpu[g].pc = "infer"
        /\ rows' = [rows EXCEPT ![batch.bucket] = @ + Len(batch.rows)]
        /\ \E ok \in BOOLEAN :
             /\ ok => <<batch.bucket, g>> \in sessions /\ batch.shape = batch.bucket
             /\ IF ok THEN InsertAll(batch) ELSE UNCHANGED inserted
             /\ gpu' = [gpu EXCEPT ![g] = [pc |-> "send", batch |-> EmptyBatch,
                                           out |-> OutBatch(batch, ok)]]
        /\ UNCHANGED <<text, fed, feeder, inputQ, tok, bucketQ, outQ, rx,
                       answers, answer, processed, skipped, hits,
                       embed, sessions, batcher, batchQ, batches, finished>>

GpuSend(g) ==
    /\ gpu[g].pc = "send" /\ CanSendOut
    /\ SendOut(gpu[g].out)
    /\ batches' = batches + 1
    /\ gpu' = [gpu EXCEPT ![g] = [pc |-> "recv", batch |-> EmptyBatch, out |-> NoBatch]]
    /\ UNCHANGED <<text, fed, feeder, inputQ, tok, bucketQ, rx, answers, answer,
                   inserted, processed, skipped, hits,
                   embed, sessions, batcher, batchQ, rows, finished>>

\* Mutant: the worker ends as soon as no batch is ready.
GpuExit_WhenIdle(g) ==
    /\ gpu[g].pc = "recv" /\ batchQ = <<>>
    /\ gpu' = [gpu EXCEPT ![g].pc = "done"]
    /\ UNCHANGED <<frontVars, embed, sessions, batcher, batchQ, batches, rows, finished>>

GpuExit(g) ==
    /\ gpu[g].pc = "recv" /\ batchQ = <<>> /\ BatchersDone
    /\ gpu' = [gpu EXCEPT ![g].pc = "done"]
    /\ UNCHANGED <<frontVars, embed, sessions, batcher, batchQ, batches, rows, finished>>

-----------------------------------------------------------------------------
\* Mutant: the GPU workers are not joined.
Finish_NoGpuJoin ==
    /\ ~finished /\ embed = "running" /\ rx # "open"
    /\ ToksDone /\ BatchersDone
    /\ finished' = TRUE
    /\ UNCHANGED <<frontVars, embed, sessions, batcher, batchQ, gpu, batches, rows>>

\* EmbedHandle::finish joins tokenizer workers, batchers and GPU workers.
Finish ==
    /\ ~finished /\ embed = "running" /\ rx # "open"
    /\ ToksDone /\ BatchersDone /\ GpusDone
    /\ finished' = TRUE
    /\ UNCHANGED <<frontVars, embed, sessions, batcher, batchQ, gpu, batches, rows>>

\* The threads that outlive a refused call have all ended.
WoundDown == embed = "refused" /\ feeder = "done" /\ ToksDone /\ BatchersDone

Stopped == (finished \/ WoundDown) /\ UNCHANGED vars

Next ==
    \/ FeederSend /\ UNCHANGED backVars
    \/ FeederEnd /\ UNCHANGED backVars
    \/ FeederBreak /\ UNCHANGED backVars
    \/ \E w \in Tok :
         \/ TokRecv(w) /\ UNCHANGED backVars
         \/ TokSkip(w) /\ UNCHANGED backVars
         \/ TokHit(w) /\ UNCHANGED backVars
         \/ TokTokenize(w) /\ UNCHANGED backVars
         \/ TokSendOut(w) /\ UNCHANGED backVars
         \/ TokSendBucket(w, Alive) /\ UNCHANGED backVars
         \/ TokBreak(w, Alive) /\ UNCHANGED backVars
         \/ TokExit(w) /\ UNCHANGED backVars
    \/ MainSpawn \/ MainRefuse
    \/ \E b \in Bucket :
         \/ BatcherRecv(b) \/ BatcherTimeout(b) \/ BatcherFlush(b)
         \/ BatcherSend(b) \/ BatcherBreak(b) \/ BatcherExit(b)
    \/ \E g \in Gpu : GpuRecv(g) \/ GpuInfer(g) \/ GpuSend(g) \/ GpuExit(g)
    \/ embed = "running" /\ ConsumerRecv /\ UNCHANGED backVars
    \/ ConsumerEnd(NoSender) /\ UNCHANGED backVars
    \/ embed = "running" /\ ConsumerDrop /\ UNCHANGED backVars
    \/ Finish
    \/ Stopped

Spec == Init /\ [][Next]_vars

(* Fairness as in SingleGpu; embed itself runs, too. *)
TokStep(w) == /\ \/ TokRecv(w) \/ TokSkip(w) \/ TokHit(w) \/ TokTokenize(w)
                 \/ TokSendOut(w) \/ TokSendBucket(w, Alive)
                 \/ TokBreak(w, Alive) \/ TokExit(w)
              /\ UNCHANGED backVars
BatcherStep(b) == \/ BatcherRecv(b) \/ BatcherTimeout(b) \/ BatcherFlush(b)
                  \/ BatcherSend(b) \/ BatcherBreak(b) \/ BatcherExit(b)
GpuStep(g) == GpuRecv(g) \/ GpuInfer(g) \/ GpuSend(g) \/ GpuExit(g)
CallerStep == /\ \/ embed = "running" /\ ConsumerRecv
                 \/ ConsumerEnd(NoSender)
              /\ UNCHANGED backVars

FairSpec ==
    /\ Spec
    /\ \A w \in Tok : WF_vars(TokStep(w))
    /\ \A b \in Bucket : WF_vars(BatcherStep(b))
    /\ \A g \in Gpu : WF_vars(GpuStep(g))
    /\ WF_vars(MainSpawn \/ MainRefuse)
    /\ WF_vars(CallerStep)
    /\ WF_vars(Finish)

-----------------------------------------------------------------------------
\* Every variable holds a value of its type.
TypeOK ==
    /\ FrontTypeOK
    /\ embed \in {"starting", "running", "refused"}
    /\ sessions \subseteq Bucket \X Gpu
    /\ batcher \in [Bucket -> [pc : {"recv", "send", "done"}, acc : Acc, batch : BatchType]]
    /\ batchQ \in Seq(BatchType)
    /\ gpu \in [Gpu -> [pc : {"off", "recv", "infer", "send", "done"},
                        batch : BatchType, out : OutMsg]]
    /\ batches \in Nat
    /\ rows \in [Bucket -> Nat]
    /\ finished \in BOOLEAN

\* Message m is in the hands of the threads between the channels.
InBatcher(m) == \E b \in Bucket : \/ m \in Range(batcher[b].acc.ids)
                                  \/ m \in Range(batcher[b].batch.ids)
InReady(m)   == \E i \in DOMAIN batchQ : m \in Range(batchQ[i].ids)
InGpu(m)     == \E g \in Gpu : m \in Range(gpu[g].batch.ids) \/ m \in Range(gpu[g].out.ids)

\* While the caller listens, every message the feeder has taken from the
\* iterator is in some queue or some thread's hands, or has been answered:
\* the hand-over through the shared ready-batch channel loses none.
NothingLost ==
    rx # "dropped" =>
        \A m \in 1..fed : InFront(m) \/ InBatcher(m) \/ InReady(m) \/ InGpu(m)

\* A row is inferred by the session of the bucket it was padded for: batches
\* of all buckets share one channel, and the index in the batch is all that
\* tells the GPU worker which session to use.
BatchMeetsItsSession ==
    \A g \in Gpu : gpu[g].pc = "infer" =>
        LET batch == gpu[g].batch
        IN  /\ <<batch.bucket, g>> \in sessions
            /\ Len(batch.rows) \in 1..BatchSize[batch.bucket]
            /\ \A i \in DOMAIN batch.rows :
                  TokLen[batch.rows[i]] <= BucketLen[batch.bucket]
            /\ batch.shape = batch.bucket

\* No receiver disappears while a running call still sends to it.
ReceiverOutlivesSenders ==
    embed = "running" =>
        /\ \A b \in Bucket : batcher[b].pc = "done" => ToksDone /\ bucketQ[b] = <<>>
        /\ \A g \in Usable : gpu[g].pc = "done" => BatchersDone /\ batchQ = <<>>

\* The counters finish() reports agree with each other and with the input.
ReportAddsUp ==
    finished => /\ processed + skipped = NMsg
                /\ processed = hits + SumFunction(rows)

\* MultiGpu implements the promise made to the caller; a refused call is one
\* that ends before anything is delivered.
Contract == INSTANCE EmbedContract
    WITH Mates <- [t \in Text |-> SlotMates(t)], stream <- rx
ContractHolds == Contract!Spec

\* Once the feeder has ended, finish() returns or, if the call was refused,
\* the threads it had already started all end: the failure of one channel end
\* cascades from the batchers over the tokenizer workers.
Terminates == (feeder = "done") ~> (finished \/ WoundDown)

\* "If a bucket hasn't filled a full batch within this time, fire a partial
\* batch" (Config::batch_timeout_ms): what has been taken from the source gets
\* answered even if the source then pauses (fed is bounded, so being caught up
\* again and again means that no message waits for ever).
PartialBatchFires ==
    []<>(rx = "dropped" \/ \A m \in 1..fed : answers[m] > 0)
=============================================================================
