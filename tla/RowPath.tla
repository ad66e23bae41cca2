------------------------------- MODULE RowPath -------------------------------
(***************************************************************************)
(* One message's way through the multi-GPU path, seen from the inside: the *)
(* text is normalized, tokenized, padded into the arrays of a batch, run   *)
(* on a device that works asynchronously and may break, and comes back as  *)
(* a row.  One bucket, one tokenizer worker, one batcher and one GPU; the  *)
(* races between several threads of a stage are the business of MultiGpu,  *)
(* which in turn takes the rows as given.                                  *)
(*                                                                         *)
(* Time is counted for the batcher, whose recv_timeout starts anew with    *)
(* every message.  Its other steps take no time.                           *)
(***************************************************************************)
EXTENDS Tokenize, TrtRunner, Batching

CONSTANTS
    Inputs,      \* the inputs considered: sequences of texts
    Timeout,     \* Config::batch_timeout_ms
    FlushEvery,  \* messages between two reports of the word cache's counters (4096)
    BucketCap, BatchCap  \* capacities of the channels (8192 and 64)

ASSUME PathAssumption ==
    /\ Timeout \in Nat \ {0} /\ FlushEvery \in Nat \ {0}
    /\ BucketCap \in Nat \ {0} /\ BatchCap \in Nat \ {0}
    /\ MaxLen = SeqLen
    /\ Inputs \subseteq Seq(Seq(Stem))

VARIABLES
    texts,      \* the caller's messages
    taken,      \* how many the tokenizer worker has taken
    tokpc,      \* "run" or "done"
    cache,      \* its CachedTokenizer
    reported,   \* last_reported_hits and last_reported_misses
    flush_ctr,  \* messages since the last report
    live,       \* live_cache_hits, live_cache_misses
    bucketQ,    \* the bucket channel
    bpc,        \* the batcher: "recv", "send" or "done"
    acc,        \* its Bucketizer and buffers
    ages,       \* how long each pending row has been waiting there
    idle,       \* how long recv_timeout has been waiting
    ready,      \* the batch it is about to send
    batchQ,     \* the ready-batch channel
    gpu,        \* the GPU worker: pc and the batch in hand
    stream      \* the batches sent to the caller

tokVars == <<texts, taken, tokpc, cache, reported, flush_ctr, live>>
batcherVars == <<bpc, acc, ages, idle, ready>>
gpuVars == <<gpu, stream, runnerVars>>
vars == <<tokVars, bucketQ, batcherVars, batchQ, gpuVars>>

NoBatch == [ids |-> <<>>, input_ids |-> Zeros, attention_mask |-> Zeros]
Counts(c) == [hits |-> c.hits, misses |-> c.misses]

Init ==
    /\ Create
    /\ texts \in Inputs
    /\ taken = 0 /\ tokpc = "run"
    /\ cache = EmptyCache
    /\ reported = Counts(EmptyCache) /\ live = Counts(EmptyCache)
    /\ flush_ctr = 0
    /\ bucketQ = <<>> /\ batchQ = <<>>
    /\ bpc = "recv" /\ acc = EmptyAcc /\ ages = <<>> /\ idle = 0 /\ ready = NoBatch
    /\ gpu = [pc |-> "recv", batch |-> NoBatch]
    /\ stream = <<>>

-----------------------------------------------------------------------------
(* The tokenizer worker. *)
NextText == texts[taken + 1]
More == tokpc = "run" /\ taken < Len(texts)

\* Mutant: the last reported values are not remembered.
Report_Forgotten(c) ==
    /\ live' = [hits   |-> live.hits + c.hits - reported.hits,
                misses |-> live.misses + c.misses - reported.misses]
    /\ reported' = reported

\* The worker's part of the live counters, brought up to date.
Report(c) ==
    /\ live' = [hits   |-> live.hits + c.hits - reported.hits,
                misses |-> live.misses + c.misses - reported.misses]
    /\ reported' = Counts(c)

TokSkip ==
    /\ More /\ Rejected(NextText)
    /\ taken' = taken + 1
    /\ stream' = Append(stream, [ids |-> <<taken + 1>>, vecs |-> <<>>, failed |-> FALSE])
    /\ UNCHANGED <<texts, tokpc, cache, reported, flush_ctr, live, bucketQ,
                   batcherVars, batchQ, gpu, runnerVars>>

\* Mutant: the bucket channel has no limit.
TokSend_Unbounded ==
    LET t == TokenizeOne(cache, Normalized(NextText))
    IN  /\ More /\ ~Rejected(NextText)
        /\ taken' = taken + 1
        /\ cache' = t.cache
        /\ bucketQ' = Append(bucketQ, [id |-> taken + 1, row |-> t.ids, hash |-> 0])
        /\ flush_ctr' = (flush_ctr + 1) % FlushEvery
        /\ IF flush_ctr + 1 >= FlushEvery THEN Report(t.cache)
           ELSE UNCHANGED <<live, reported>>
        /\ UNCHANGED <<texts, tokpc, batcherVars, batchQ, gpuVars>>

\* A message is tokenized and goes to its bucket; every FlushEvery of them the
\* live counters are brought up to date.
TokSend ==
    LET t == TokenizeOne(cache, Normalized(NextText))
    IN  /\ More /\ ~Rejected(NextText) /\ Len(bucketQ) < BucketCap
        /\ taken' = taken + 1
        /\ cache' = t.cache
        /\ bucketQ' = Append(bucketQ, [id |-> taken + 1, row |-> t.ids, hash |-> 0])
        /\ flush_ctr' = (flush_ctr + 1) % FlushEvery
        /\ IF flush_ctr + 1 >= FlushEvery THEN Report(t.cache)
           ELSE UNCHANGED <<live, reported>>
        /\ UNCHANGED <<texts, tokpc, batcherVars, batchQ, gpuVars>>

\* The input has ended; what has not been reported yet is.
TokExit ==
    /\ tokpc = "run" /\ taken = Len(texts)
    /\ tokpc' = "done"
    /\ Report(cache)
    /\ UNCHANGED <<texts, taken, cache, flush_ctr, bucketQ, batcherVars, batchQ, gpuVars>>

-----------------------------------------------------------------------------
(* The batcher. *)

\* Bucketizer::push cuts a row that is longer than the bucket.
Fitted(item) == [item EXCEPT !.row = SubSeq(@, 1, Min({Len(@), SeqLen}))]

\* build_batch: one row after the other, the rest of the arrays is zero.
RowAt(c) == ((c - 1) \div SeqLen) + 1
ColAt(c) == ((c - 1) % SeqLen) + 1
Covered(rows, c) == RowAt(c) \in DOMAIN rows /\ ColAt(c) <= Len(rows[RowAt(c)])

Arrays(a) ==
    LET b == BuildBatch(a, 1)
    IN  [ids            |-> b.ids,
         input_ids      |-> [c \in Cells |-> IF Covered(b.rows, c)
                                            THEN b.rows[RowAt(c)][ColAt(c)] ELSE 0],
         attention_mask |-> [c \in Cells |-> IF Covered(b.rows, c) THEN 1 ELSE 0]]

\* What is pending in `a` becomes the batch to send.
Emit(a) ==
    /\ ready' = Arrays(a)
    /\ acc' = Drain(a)
    /\ ages' = <<>>
    /\ bpc' = "send"

\* recv_timeout returns a message; the next call starts with the full time.
BatcherRecv ==
    /\ bpc = "recv" /\ bucketQ # <<>>
    /\ bucketQ' = Tail(bucketQ)
    /\ idle' = 0
    /\ LET a == Push(acc, Fitted(Head(bucketQ)))
       IN  IF Filled(a, BatchSize) THEN Emit(a)
           ELSE /\ acc' = a
                /\ ages' = Append(ages, 0)
                /\ UNCHANGED <<bpc, ready>>
    /\ UNCHANGED <<tokVars, batchQ, gpuVars>>

\* Mutant: a single row is not worth a batch.
BatcherTimeout_NotForOne ==
    /\ bpc = "recv" /\ bucketQ = <<>> /\ tokpc = "run" /\ idle = Timeout
    /\ idle' = 0
    /\ IF Len(acc.rows) <= 1 THEN UNCHANGED <<bpc, acc, ages, ready>> ELSE Emit(acc)
    /\ UNCHANGED <<tokVars, bucketQ, batchQ, gpuVars>>

\* recv_timeout times out: what is pending is sent as a partial batch.
BatcherTimeout ==
    /\ bpc = "recv" /\ bucketQ = <<>> /\ tokpc = "run" /\ idle = Timeout
    /\ idle' = 0
    /\ IF acc.rows = <<>> THEN UNCHANGED <<bpc, acc, ages, ready>> ELSE Emit(acc)
    /\ UNCHANGED <<tokVars, bucketQ, batchQ, gpuVars>>

\* The channel is disconnected and empty: the last partial batch.
BatcherFlush ==
    /\ bpc = "recv" /\ bucketQ = <<>> /\ tokpc = "done" /\ acc.rows # <<>>
    /\ Emit(acc)
    /\ UNCHANGED <<tokVars, bucketQ, idle, batchQ, gpuVars>>

BatcherSend ==
    /\ bpc = "send" /\ Len(batchQ) < BatchCap
    /\ batchQ' = Append(batchQ, ready)
    /\ bpc' = "recv" /\ ready' = NoBatch
    /\ UNCHANGED <<tokVars, bucketQ, acc, ages, idle, gpuVars>>

BatcherExit ==
    /\ bpc = "recv" /\ bucketQ = <<>> /\ tokpc = "done" /\ acc.rows = <<>>
    /\ bpc' = "done"
    /\ UNCHANGED <<tokVars, bucketQ, acc, ages, idle, ready, batchQ, gpuVars>>

\* Time passes for a batcher that has nothing to receive and no timeout due.
Tick ==
    /\ bpc = "recv" /\ bucketQ = <<>> /\ tokpc = "run" /\ idle < Timeout
    /\ idle' = idle + 1
    /\ ages' = [i \in DOMAIN ages |-> ages[i] + 1]
    /\ UNCHANGED <<tokVars, bucketQ, bpc, acc, ready, batchQ, gpuVars>>

-----------------------------------------------------------------------------
(* The GPU worker. *)
Sent(vecs) ==
    stream' = Append(stream, [ids |-> gpu.batch.ids, vecs |-> vecs, failed |-> vecs = <<>>])

GpuRecv ==
    /\ gpu.pc = "recv" /\ batchQ # <<>>
    /\ gpu' = [pc |-> "infer", batch |-> Head(batchQ)]
    /\ batchQ' = Tail(batchQ)
    /\ UNCHANGED <<tokVars, bucketQ, batcherVars, stream, runnerVars>>

\* sess.infer; if it fails the batch is sent as failed.
GpuInfer ==
    /\ gpu.pc = "infer"
    /\ Infer(gpu.batch.input_ids, gpu.batch.attention_mask)
    /\ IF InferOk(gpu.batch.input_ids, gpu.batch.attention_mask)
       THEN gpu' = [gpu EXCEPT !.pc = "wait"] /\ UNCHANGED stream
       ELSE gpu' = [pc |-> "recv", batch |-> NoBatch] /\ Sent(<<>>)
    /\ UNCHANGED <<tokVars, bucketQ, batcherVars, batchQ>>

\* sess.get_output: whatever the pinned memory holds, and always success; the
\* process dies if that memory was never allocated.
GpuOutput ==
    /\ gpu.pc = "wait" /\ Synced
    /\ IF "pinned" \in alloc
       THEN /\ Sent([i \in DOMAIN gpu.batch.ids |-> pinned[i]])
            /\ gpu' = [pc |-> "recv", batch |-> NoBatch]
       ELSE gpu' = [gpu EXCEPT !.pc = "crashed"] /\ UNCHANGED stream
    /\ UNCHANGED <<tokVars, bucketQ, batcherVars, batchQ, runnerVars>>

\* No batch will come any more; the session is dropped.
GpuExit ==
    /\ gpu.pc = "recv" /\ batchQ = <<>> /\ bpc = "done"
    /\ gpu' = [gpu EXCEPT !.pc = "done"]
    /\ Destroy
    /\ UNCHANGED <<tokVars, bucketQ, batcherVars, batchQ, stream>>

Device(step) ==
    /\ gpu.pc # "done" /\ step
    /\ UNCHANGED <<tokVars, bucketQ, batcherVars, batchQ, gpu, stream>>

Stopped == gpu.pc \in {"done", "crashed"} /\ UNCHANGED vars

Running == gpu.pc # "crashed"

Next ==
    \/ Running /\ TokSkip
    \/ Running /\ TokSend
    \/ Running /\ TokExit
    \/ Running /\ BatcherRecv
    \/ Running /\ BatcherTimeout
    \/ Running /\ BatcherFlush
    \/ Running /\ BatcherSend
    \/ Running /\ BatcherExit
    \/ Running /\ Tick
    \/ GpuRecv \/ GpuInfer \/ GpuOutput \/ GpuExit
    \/ Running /\ Device(ComputeStep)
    \/ Running /\ Device(CopyStep)
    \/ Running /\ Device(Break)
    \/ Stopped

Spec == Init /\ [][Next]_vars

-----------------------------------------------------------------------------
Batch == [ids : Seq(Nat), input_ids : [Cells -> Nat], attention_mask : [Cells -> {0, 1}]]
Counters == [hits : Nat, misses : Nat]

\* Every variable holds a value of its type, and no channel exceeds its bound.
TypeOK ==
    /\ RunnerTypeOK
    /\ taken \in 0..Len(texts) /\ tokpc \in {"run", "done"}
    /\ DOMAIN cache.runtime \subseteq Word /\ Counts(cache) \in Counters
    /\ reported \in Counters /\ live \in Counters /\ flush_ctr \in 0..(FlushEvery - 1)
    /\ bucketQ \in Seq([id : Nat, row : Seq(Nat), hash : {0}]) /\ Len(bucketQ) <= BucketCap
    /\ bpc \in {"recv", "send", "done"} /\ ready \in Batch
    /\ acc.rows \in Seq(Seq(Nat)) /\ acc.ids \in Seq(Nat) /\ acc.hashes \in Seq({0})
    /\ ages \in Seq(Nat) /\ idle \in 0..Timeout
    /\ batchQ \in Seq(Batch) /\ Len(batchQ) <= BatchCap
    /\ gpu.pc \in {"recv", "infer", "wait", "done", "crashed"} /\ gpu.batch \in Batch
    /\ stream \in Seq([ids : Seq(Nat), vecs : Seq(Seq(Nat)), failed : BOOLEAN])

\* What the row of message m should be computed from.
RightRow(m) == RefTokens(Normalized(texts[m]))

\* The arrays of a batch on its way to the device spell out, row by row, the
\* tokens of the messages whose ids travel with it, and nothing else: neither
\* what the word cache has learned from other messages nor the position in
\* the flat arrays shows in them.
ArraysAreTheText ==
    \A b \in {ready, gpu.batch} \cup Range(batchQ) : \A r \in Slots :
        Vector(b.input_ids, b.attention_mask, r) =
            IF r \in DOMAIN b.ids THEN RightRow(b.ids[r]) ELSE <<>>

\* Batches sent as good in which some row is not that of its message.
Spoilt ==
    {i \in DOMAIN stream : \E k \in DOMAIN stream[i].vecs :
        stream[i].vecs[k] # RightRow(stream[i].ids[k])}

\* get_output cannot fail and the copies are not checked, so a fault of the
\* device can pass for a result; but it spoils one batch at most, because the
\* next enqueueV3 fails or overwrites what is stale.  Without faults all is right.
FaultCostsOneBatch == Cardinality(Spoilt) <= faults

\* A row waits in the batcher for no more than one timeout for itself and one
\* for every row received after it, which are less than a batch: the limit
\* that is left of batch_timeout_ms when every message restarts it.
WaitIsBounded ==
    \A i \in DOMAIN ages :
        ages[i] <= (Len(acc.rows) + 1 - i) * Timeout /\ Len(acc.rows) < BatchSize

\* Only a text with too few bytes of real words is filtered out: noise before
\* the words or a cut after them does not cost a message its vector.
SkippedAreShort ==
    \A i \in DOMAIN stream : stream[i].vecs = <<>> /\ ~stream[i].failed =>
        CleanBytes(texts[stream[i].ids[1]]) < MinBytes

\* The reports made along the way and at the end count every look-up once.
CountersAddUp ==
    /\ live = reported
    /\ tokpc = "done" => live = Counts(cache)
=============================================================================
