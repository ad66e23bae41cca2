---------------------------- MODULE MultiGpuProofs ----------------------------
(***************************************************************************)
(* Theorems about MultiGpu, for any number of messages, texts, buckets,    *)
(* tokenizer workers, GPUs, sets of sessions and channel capacities.       *)
(***************************************************************************)
EXTENDS MultiGpu, EmbedFrontProofs

-----------------------------------------------------------------------------
(* Type correctness, with the alignment of the buffers it needs.           *)

BatcherRecord == [pc : {"recv", "send", "done"}, acc : Acc, batch : BatchType]
GpuRecord == [pc : {"off", "recv", "infer", "send", "done"}, batch : BatchType, out : OutMsg]

GoodBatcher(r) == /\ Aligned(r.acc) /\ Aligned(r.batch)
                  /\ r.pc # "send" => r.batch = EmptyBatch
GoodGpu(r) == /\ Aligned(r.batch) /\ WellFormed(r.out)
              /\ r.pc # "infer" => r.batch = EmptyBatch
              /\ r.pc # "send" => r.out = NoBatch

BatchersGood == \A b \in Bucket : GoodBatcher(batcher[b])
QueueGood    == \A i \in DOMAIN batchQ : Aligned(batchQ[i])
GpusGood     == \A g \in Gpu : GoodGpu(gpu[g])

NotStarted   == embed = "starting" => \A g \in Gpu : gpu[g].pc = "off"

TypeInv == TypeOK /\ FrontShape /\ BatchersGood /\ QueueGood /\ GpusGood /\ NotStarted

\* A step of the threads behind the bucket channels, or of embed itself.
BackStep ==
    \/ MainSpawn \/ MainRefuse \/ Finish
    \/ \E b \in Bucket : BatcherStep(b)
    \/ \E g \in Gpu : GpuStep(g)

\* Every step is one of the front's, of the back's, or changes nothing.
LEMMA NextSteps ==
    [Next]_vars => \/ FrontStep(Alive, NoSender) /\ UNCHANGED backVars
                   \/ FeederBreak /\ UNCHANGED backVars
                   \/ (\E w \in Tok : TokBreak(w, Alive)) /\ UNCHANGED backVars
                   \/ BackStep
                   \/ UNCHANGED vars
BY DEF Next, FrontStep, BackStep, BatcherStep, GpuStep, Stopped

LEMMA BatcherUpdate ==
    ASSUME TypeInv, NEW b \in Bucket, NEW r \in BatcherRecord, GoodBatcher(r),
           batcher' = [batcher EXCEPT ![b] = r]
    PROVE  batcher' \in [Bucket -> BatcherRecord] /\ BatchersGood'
BY DEF TypeInv, TypeOK, BatchersGood, BatcherRecord

LEMMA GpuUpdate ==
    ASSUME TypeInv, NEW g \in Gpu, NEW r \in GpuRecord, GoodGpu(r),
           gpu' = [gpu EXCEPT ![g] = r]
    PROVE  gpu' \in [Gpu -> GpuRecord] /\ GpusGood'
BY DEF TypeInv, TypeOK, GpusGood, GpuRecord

LEMMA InitTypeInv == Init => TypeInv
<1> SUFFICES ASSUME Init PROVE TypeInv
  OBVIOUS
<1>1. FrontInv
  BY FrontInitInv DEF Init
<1>2. EmptyAcc \in Acc /\ Aligned(EmptyAcc)
  BY EmptyAccType DEF Acc, AccOf
<1>3. sessions \subseteq Bucket \X Gpu
  BY MultiAssumption DEF Init
<1>4. batchQ \in Seq(BatchType) /\ QueueGood
  BY EmptySeq DEF Init, QueueGood
<1>5. /\ batcher \in [Bucket -> BatcherRecord] /\ BatchersGood
      /\ gpu \in [Gpu -> GpuRecord] /\ GpusGood
  BY <1>2, EmptyBatchType, NoBatchType
     DEF Init, BatcherRecord, BatchersGood, GoodBatcher, GpuRecord, GpusGood, GoodGpu
<1>6. TypeOK
  BY <1>1, <1>3, <1>4, <1>5 DEF Init, FrontInv, TypeOK, BatcherRecord, GpuRecord
<1>7. NotStarted
  BY DEF Init, NotStarted
<1> QED BY <1>1, <1>4, <1>5, <1>6, <1>7 DEF TypeInv, FrontInv

\* The item a batcher receives joins its aligned buffers.
LEMMA PushedAcc ==
    ASSUME TypeInv, NEW b \in Bucket, BatcherRecv(b)
    PROVE  /\ Head(bucketQ[b]) \in BucketItem
           /\ Push(batcher[b].acc, Head(bucketQ[b])) \in Acc
           /\ Aligned(Push(batcher[b].acc, Head(bucketQ[b])))
           /\ Len(Push(batcher[b].acc, Head(bucketQ[b])).rows) = Len(batcher[b].acc.rows) + 1
           /\ Range(Push(batcher[b].acc, Head(bucketQ[b])).ids)
                = Range(batcher[b].acc.ids) \cup {Head(bucketQ[b]).id}
<1>1. Head(bucketQ[b]) \in BucketItem
  BY HeadOfBucket DEF TypeInv, TypeOK, BatcherRecv
<1> QED BY <1>1, PushItem DEF TypeInv, TypeOK, BatchersGood, GoodBatcher

LEMMA BatcherRecvTypeInv == ASSUME TypeInv, NEW b \in Bucket, BatcherRecv(b) PROVE TypeInv'
<1> DEFINE acc == Push(batcher[b].acc, Head(bucketQ[b]))
           full == [pc |-> "send", acc |-> Drain(acc), batch |-> BuildBatch(acc, b)]
           more == [batcher[b] EXCEPT !.acc = acc]
<1>1. acc \in Acc /\ Aligned(acc)
  BY PushedAcc
<1>2. batcher' = [batcher EXCEPT ![b] = IF Filled(acc, BatchSize[b]) THEN full ELSE more]
  BY DEF BatcherRecv
<1> HIDE DEF acc
<1>3. full \in BatcherRecord /\ GoodBatcher(full)
  BY <1>1, BatchInHand DEF BatcherRecord, GoodBatcher
<1>4. more \in BatcherRecord /\ GoodBatcher(more)
  BY <1>1 DEF BatcherRecord, GoodBatcher, TypeInv, TypeOK, BatchersGood
<1> HIDE DEF full, more
<1>5. batcher' \in [Bucket -> BatcherRecord] /\ BatchersGood'
  BY <1>2, <1>3, <1>4, BatcherUpdate
<1>6. bucketQ' \in [Bucket -> Seq(BucketItem)]
  BY HeadOfBucket DEF BatcherRecv, TypeInv, TypeOK
<1> QED BY <1>5, <1>6 DEF TypeInv, NotStarted, TypeOK, FrontTypeOK, FrontShape, QueueGood, GpusGood,
                          BatcherRecord, BatcherRecv

LEMMA BatcherEmitTypeInv == ASSUME TypeInv, NEW b \in Bucket, BatcherEmit(b) PROVE TypeInv'
<1> DEFINE acc == batcher[b].acc
           r == [pc |-> "send", acc |-> Drain(acc), batch |-> BuildBatch(acc, b)]
<1>1. acc \in Acc /\ Aligned(acc)
  BY DEF TypeInv, TypeOK, BatchersGood, GoodBatcher
<1>2. batcher' = [batcher EXCEPT ![b] = r]
  BY DEF BatcherEmit
<1> HIDE DEF acc
<1>3. r \in BatcherRecord /\ GoodBatcher(r)
  BY <1>1, BatchInHand DEF BatcherRecord, GoodBatcher
<1> HIDE DEF r
<1>4. batcher' \in [Bucket -> BatcherRecord] /\ BatchersGood'
  BY <1>2, <1>3, BatcherUpdate
<1> QED BY <1>4 DEF TypeInv, NotStarted, TypeOK, FrontTypeOK, FrontShape, QueueGood, GpusGood,
                    BatcherRecord, BatcherEmit, frontVars

LEMMA BatcherSendTypeInv == ASSUME TypeInv, NEW b \in Bucket, BatcherSend(b) PROVE TypeInv'
<1> DEFINE r == [batcher[b] EXCEPT !.pc = "recv", !.batch = EmptyBatch]
           batch == batcher[b].batch
<1>1. batcher' = [batcher EXCEPT ![b] = r] /\ batchQ' = Append(batchQ, batch)
  BY DEF BatcherSend
<1>2. r \in BatcherRecord /\ GoodBatcher(r)
  BY EmptyBatchType DEF BatcherRecord, GoodBatcher, TypeInv, TypeOK, BatchersGood
<1> HIDE DEF r
<1>3. batcher' \in [Bucket -> BatcherRecord] /\ BatchersGood'
  BY <1>1, <1>2, BatcherUpdate
<1>4. batchQ \in Seq(BatchType) /\ batch \in BatchType /\ Aligned(batch)
  BY DEF TypeInv, TypeOK, BatchersGood, GoodBatcher
<1>5. batchQ' \in Seq(BatchType) /\ QueueGood'
  <2> HIDE DEF batch
  <2>1. /\ batchQ' \in Seq(BatchType)
        /\ \A j \in DOMAIN batchQ' : batchQ'[j] = batch \/ \E i \in DOMAIN batchQ : batchQ'[j] = batchQ[i]
    BY <1>1, <1>4, AppendOnly
  <2> QED BY <1>4, <2>1 DEF TypeInv, QueueGood
<1> QED BY <1>3, <1>5 DEF TypeInv, NotStarted, TypeOK, FrontTypeOK, FrontShape, GpusGood,
                          BatcherRecord, BatcherSend, frontVars

LEMMA BatcherBreakTypeInv == ASSUME TypeInv, NEW b \in Bucket, BatcherBreak(b) PROVE TypeInv'
<1> DEFINE r == [pc |-> "done", acc |-> EmptyAcc, batch |-> EmptyBatch]
<1>1. batcher' = [batcher EXCEPT ![b] = r]
  BY DEF BatcherBreak
<1>2. r \in BatcherRecord /\ GoodBatcher(r)
  BY EmptyAccType, EmptyBatchType DEF BatcherRecord, GoodBatcher, Acc, AccOf
<1> HIDE DEF r
<1>3. batcher' \in [Bucket -> BatcherRecord] /\ BatchersGood'
  BY <1>1, <1>2, BatcherUpdate
<1>4. bucketQ' \in [Bucket -> Seq(BucketItem)]
  BY EmptySeq DEF BatcherBreak, TypeInv, TypeOK, FrontTypeOK
<1> QED BY <1>3, <1>4 DEF TypeInv, NotStarted, TypeOK, FrontTypeOK, FrontShape, QueueGood, GpusGood,
                          BatcherRecord, BatcherBreak

LEMMA BatcherExitTypeInv == ASSUME TypeInv, NEW b \in Bucket, BatcherExit(b) PROVE TypeInv'
<1> DEFINE r == [batcher[b] EXCEPT !.pc = "done"]
<1>1. batcher' = [batcher EXCEPT ![b] = r]
  BY DEF BatcherExit, TypeInv, TypeOK
<1>2. r \in BatcherRecord /\ GoodBatcher(r)
  BY DEF BatcherRecord, GoodBatcher, TypeInv, TypeOK, BatchersGood, BatcherExit
<1> HIDE DEF r
<1>3. batcher' \in [Bucket -> BatcherRecord] /\ BatchersGood'
  BY <1>1, <1>2, BatcherUpdate
<1> QED BY <1>3 DEF TypeInv, NotStarted, TypeOK, FrontTypeOK, FrontShape, QueueGood, GpusGood,
                    BatcherRecord, BatcherExit, frontVars

\* The first batch of the shared channel.
LEMMA HeadOfBatches ==
    ASSUME TypeInv, batchQ # <<>>
    PROVE  /\ Head(batchQ) \in BatchType /\ Aligned(Head(batchQ))
           /\ Tail(batchQ) \in Seq(BatchType)
           /\ \A j \in DOMAIN Tail(batchQ) : Aligned(Tail(batchQ)[j])
<1>1. batchQ \in Seq(BatchType)
  BY DEF TypeInv, TypeOK
<1>2. /\ \E i \in DOMAIN batchQ : batchQ[i] = Head(batchQ)
      /\ \A j \in DOMAIN Tail(batchQ) : \E i \in DOMAIN batchQ : Tail(batchQ)[j] = batchQ[i]
  BY <1>1, TailElements
<1> QED BY <1>1, <1>2, HeadTailProperties DEF TypeInv, QueueGood

LEMMA GpuRecvTypeInv == ASSUME TypeInv, NEW g \in Gpu, GpuRecv(g) PROVE TypeInv'
<1> DEFINE r == [pc |-> "infer", batch |-> Head(batchQ), out |-> NoBatch]
<1>1. gpu' = [gpu EXCEPT ![g] = r] /\ batchQ' = Tail(batchQ) /\ batchQ # <<>>
  BY DEF GpuRecv
<1>2. r \in GpuRecord /\ GoodGpu(r)
  BY <1>1, HeadOfBatches, NoBatchType DEF GpuRecord, GoodGpu
<1> HIDE DEF r
<1>3. gpu' \in [Gpu -> GpuRecord] /\ GpusGood'
  BY <1>1, <1>2, GpuUpdate
<1>4. batchQ' \in Seq(BatchType) /\ QueueGood'
  BY <1>1, HeadOfBatches DEF QueueGood
<1>8. NotStarted'
  BY DEF NotStarted, TypeInv, TypeOK, GpuRecv
<1> QED BY <1>3, <1>4, <1>8 DEF TypeInv, TypeOK, FrontTypeOK, FrontShape, BatchersGood,
                          GpuRecord, GpuRecv, frontVars

LEMMA GpuInferTypeInv == ASSUME TypeInv, NEW g \in Gpu, GpuInfer(g) PROVE TypeInv'
<1> DEFINE batch == gpu[g].batch
<1>1. batch \in BatchType /\ Aligned(batch)
  BY DEF TypeInv, TypeOK, GpusGood, GoodGpu
<1>2. PICK ok \in BOOLEAN :
        /\ IF ok THEN InsertAll(batch) ELSE UNCHANGED inserted
        /\ gpu' = [gpu EXCEPT ![g] = [pc |-> "send", batch |-> EmptyBatch,
                                      out |-> OutBatch(batch, ok)]]
  BY DEF GpuInfer
<1> DEFINE r == [pc |-> "send", batch |-> EmptyBatch, out |-> OutBatch(batch, ok)]
<1>3. gpu' = [gpu EXCEPT ![g] = r]
  BY <1>2
<1>4. r \in GpuRecord /\ GoodGpu(r)
  BY <1>1, OutBatchType, EmptyBatchType DEF GpuRecord, GoodGpu
<1>5. gpu' \in [Gpu -> GpuRecord] /\ GpusGood'
  <2> HIDE DEF r
  <2> QED BY <1>3, <1>4, GpuUpdate
<1>6. inserted' \in [Slot -> SUBSET Entry]
  <2> HIDE DEF batch
  <2> QED BY <1>1, <1>2, InsertAllType DEF TypeInv, TypeOK, FrontTypeOK
<1>7. rows' \in [Bucket -> Nat]
  <2>1. Len(batch.rows) \in Nat
    BY <1>1, LenProperties DEF BatchType
  <2> QED BY <2>1, CountRows DEF GpuInfer, TypeInv, TypeOK
<1>8. NotStarted'
  BY DEF NotStarted, TypeInv, TypeOK, GpuInfer
<1> QED BY <1>5, <1>6, <1>7, <1>8 DEF TypeInv, TypeOK, FrontTypeOK, FrontShape, BatchersGood,
                                QueueGood, GpuRecord, GpuInfer

LEMMA GpuSendTypeInv == ASSUME TypeInv, NEW g \in Gpu, GpuSend(g) PROVE TypeInv'
<1> DEFINE r == [pc |-> "recv", batch |-> EmptyBatch, out |-> NoBatch]
<1>1. gpu' = [gpu EXCEPT ![g] = r]
  BY DEF GpuSend
<1>2. r \in GpuRecord /\ GoodGpu(r)
  BY EmptyBatchType, NoBatchType DEF GpuRecord, GoodGpu
<1> HIDE DEF r
<1>3. gpu' \in [Gpu -> GpuRecord] /\ GpusGood'
  BY <1>1, <1>2, GpuUpdate
<1>4. outQ' \in Seq(OutMsg) /\ \A i \in DOMAIN outQ' : WellFormed(outQ'[i])
  <2>1. gpu[g].out \in OutMsg /\ WellFormed(gpu[g].out)
    BY DEF TypeInv, TypeOK, GpusGood, GoodGpu
  <2> QED BY <2>1, SendOutInv DEF GpuSend, TypeInv, TypeOK, FrontInv
<1>8. NotStarted'
  BY DEF NotStarted, TypeInv, TypeOK, GpuSend
<1> QED BY <1>3, <1>4, <1>8 DEF TypeInv, TypeOK, FrontTypeOK, FrontShape, BatchersGood,
                          QueueGood, GpuRecord, GpuSend

LEMMA GpuExitTypeInv == ASSUME TypeInv, NEW g \in Gpu, GpuExit(g) PROVE TypeInv'
<1> DEFINE r == [gpu[g] EXCEPT !.pc = "done"]
<1>1. gpu' = [gpu EXCEPT ![g] = r]
  BY DEF GpuExit, TypeInv, TypeOK
<1>2. r \in GpuRecord /\ GoodGpu(r)
  BY DEF GpuRecord, GoodGpu, TypeInv, TypeOK, GpusGood, GpuExit
<1> HIDE DEF r
<1>3. gpu' \in [Gpu -> GpuRecord] /\ GpusGood'
  BY <1>1, <1>2, GpuUpdate
<1>8. NotStarted'
  BY DEF NotStarted, TypeInv, TypeOK, GpuExit
<1> QED BY <1>3, <1>8 DEF TypeInv, TypeOK, FrontTypeOK, FrontShape, BatchersGood, QueueGood,
                    GpuRecord, GpuExit, frontVars

\* embed either starts the workers or gives every channel end up.
LEMMA MainTypeInv == ASSUME TypeInv, MainSpawn \/ MainRefuse PROVE TypeInv'
<1>1. CASE MainSpawn
  <2> DEFINE r(g) == [gpu[g] EXCEPT !.pc = IF g \in Usable THEN "recv" ELSE "off"]
  <2>1. gpu' = [g \in Gpu |-> r(g)]
    BY <1>1 DEF MainSpawn
  <2>2. \A g \in Gpu : r(g) \in GpuRecord /\ GoodGpu(r(g))
    BY <1>1 DEF MainSpawn, TypeInv, TypeOK, GpusGood, GoodGpu, GpuRecord, NotStarted
  <2> HIDE DEF r
  <2>3. gpu' \in [Gpu -> GpuRecord] /\ GpusGood'
    BY <2>1, <2>2 DEF GpusGood
  <2> QED BY <1>1, <2>3 DEF TypeInv, TypeOK, FrontTypeOK, FrontShape, BatchersGood,
                            QueueGood, GpuRecord, NotStarted, MainSpawn, frontVars
<1>2. CASE MainRefuse
  BY <1>2, EmptySeq DEF TypeInv, TypeOK, FrontTypeOK, FrontShape, BatchersGood,
                        QueueGood, GpusGood, NotStarted, MainRefuse
<1> QED BY <1>1, <1>2

LEMMA StepTypeInv == TypeInv /\ [Next]_vars => TypeInv'
<1> SUFFICES ASSUME TypeInv, [Next]_vars PROVE TypeInv'
  OBVIOUS
<1>1. ASSUME FrontInv', UNCHANGED backVars PROVE TypeInv'
  BY <1>1 DEF TypeInv, TypeOK, BatchersGood, QueueGood, GpusGood, NotStarted, FrontInv,
              backVars
<1>2. FrontInv
  BY DEF TypeInv, TypeOK, FrontInv
<1>3. CASE FrontStep(Alive, NoSender) /\ UNCHANGED backVars
  BY <1>1, <1>2, <1>3, FrontStepInv
<1>4. CASE FeederBreak /\ UNCHANGED backVars
  BY <1>1, <1>2, <1>4, FeederStopInv
<1>5. CASE (\E w \in Tok : TokBreak(w, Alive)) /\ UNCHANGED backVars
  BY <1>1, <1>2, <1>5, TokBreakInv
<1>6. ASSUME NEW b \in Bucket, BatcherStep(b) PROVE TypeInv'
  BY <1>6, BatcherRecvTypeInv, BatcherEmitTypeInv, BatcherSendTypeInv,
     BatcherBreakTypeInv, BatcherExitTypeInv DEF BatcherStep, BatcherTimeout, BatcherFlush
<1>7. ASSUME NEW g \in Gpu, GpuStep(g) PROVE TypeInv'
  BY <1>7, GpuRecvTypeInv, GpuInferTypeInv, GpuSendTypeInv, GpuExitTypeInv DEF GpuStep
<1>8. CASE Finish
  BY <1>8 DEF TypeInv, TypeOK, FrontTypeOK, FrontShape, BatchersGood, QueueGood, GpusGood,
              NotStarted, Finish, frontVars
<1>9. CASE UNCHANGED vars
  BY <1>9 DEF TypeInv, TypeOK, FrontTypeOK, FrontShape, BatchersGood, QueueGood, GpusGood,
              NotStarted, vars, frontVars, backVars
<1> QED BY <1>3, <1>4, <1>5, <1>6, <1>7, <1>8, <1>9, NextSteps, MainTypeInv DEF BackStep

\* Every reachable state is well typed, and in every one the ids, hashes and
\* rows of every batch, in a batcher's buffers, in the shared channel or on a
\* GPU, have the same number.
THEOREM TypeInvariant == Spec => []TypeInv
<1>1. Init => TypeInv
  BY InitTypeInv
<1>2. TypeInv /\ [Next]_vars => TypeInv'
  BY StepTypeInv
<1> QED BY <1>1, <1>2, PTL DEF Spec

\* Every variable holds a value of its type in every reachable state.
THEOREM TypeCorrect == Spec => []TypeOK
<1>1. TypeInv => TypeOK
  BY DEF TypeInv
<1> QED BY <1>1, TypeInvariant, PTL

-----------------------------------------------------------------------------
(* How a running call winds down: each stage ends only after the one       *)
(* before it has ended and the channel between them is empty.  A refused   *)
(* call has dropped the receiver, so its threads have nobody to answer.    *)

Winding ==
    /\ feeder = "done" => fed = NMsg
    /\ \A w \in Tok : tok[w].pc = "done" => feeder = "done" /\ inputQ = <<>>
    /\ \A b \in Bucket : batcher[b].pc = "done" =>
          ToksDone /\ bucketQ[b] = <<>> /\ batcher[b].acc.rows = <<>>
    /\ \A g \in Gpu : gpu[g].pc = "done" => BatchersDone /\ batchQ = <<>>

Phases ==
    /\ embed = "starting" => rx = "open"
    /\ embed = "refused" => rx = "dropped"
    /\ embed = "running" => Usable # {}
    /\ \A g \in Usable : embed = "running" => gpu[g].pc # "off"
    /\ \A g \in Gpu : gpu[g].pc # "off" => embed = "running" /\ g \in Usable
    /\ rx # "open" => outQ = <<>>
    /\ rx = "ended" => NoSender

Closing == Phases /\ (embed # "refused" => Winding)

LEMMA InitClosing == Init => Closing
BY DEF Init, FrontInit, Closing, Phases, Winding

\* Nothing happens behind the bucket channels; as long as a tokenizer worker
\* is not done, no batcher and no GPU worker is.
LEMMA TokClosing ==
    ASSUME TypeInv, Closing, UNCHANGED backVars, NEW w \in Tok,
           \/ TokRecv(w) \/ TokSkip(w) \/ TokHit(w) \/ TokTokenize(w)
           \/ TokSendOut(w) \/ TokSendBucket(w, Alive) \/ TokBreak(w, Alive) \/ TokExit(w)
    PROVE  Closing'
<1>1. tok[w].pc # "done" /\ ~ToksDone
  BY DEF TokRecv, TokSkip, TokHit, TokTokenize, TokSendOut, TokSendBucket, TokBreak,
         TokExit, ToksDone
<1>2. rx # "ended" /\ rx' = rx /\ feeder' = feeder /\ fed' = fed
  BY <1>1 DEF Closing, Phases, NoSender, TokRecv, TokSkip, TokHit, TokTokenize, TokSendOut,
             TokSendBucket, TokBreak, TokExit
<1>3. rx # "open" => outQ' = <<>>
  BY DEF Closing, Phases, TokRecv, TokSkip, TokHit, TokTokenize, TokSendOut, TokSendBucket,
         TokBreak, TokExit, SendOut
<1>4. Phases'
  <2>1. Usable' = Usable
    BY DEF Usable, backVars
  <2> QED BY <1>2, <1>3, <2>1 DEF Closing, Phases, backVars
<1>5. ASSUME embed # "refused" PROVE Winding'
  <2>1. Winding
    BY <1>5 DEF Closing
  <2>2. (\A b \in Bucket : batcher[b].pc # "done") /\ (\A g \in Gpu : gpu[g].pc # "done")
    <3>1. \A b \in Bucket : batcher[b].pc # "done"
      BY <1>1, <2>1 DEF Winding
    <3>2. Bucket # {}
      BY ConfigAssumption, EmptySeq DEF Bucket
    <3> QED BY <2>1, <3>1, <3>2 DEF Winding, BatchersDone
  <2>3. ~TokBreak(w, Alive)
    <3>1. tok[w].pc = "route" => AssignBucket(BucketLen, TokLen[text[tok[w].id]]) \in Bucket
      BY BucketOfText DEF TypeInv, TypeOK, FrontTypeOK
    <3> QED BY <2>2, <3>1 DEF TokBreak, Alive
  <2>4. ASSUME NEW v \in Tok, tok'[v].pc = "done" PROVE feeder' = "done" /\ inputQ' = <<>>
    <3>1. CASE TokExit(w)
      BY <3>1 DEF TokExit
    <3>2. CASE ~TokExit(w)
      <4>1. PICK r : r.pc # "done" /\ tok' = [tok EXCEPT ![w] = r]
        BY <2>3, <3>2 DEF TokRecv, TokSkip, TokHit, TokTokenize, TokSendOut, TokSendBucket
      <4>2. tok'[w].pc # "done" /\ \A u \in Tok : u # w => tok'[u] = tok[u]
        BY <4>1 DEF TypeInv, TypeOK, FrontTypeOK
      <4>3. tok[v].pc = "done" /\ v # w
        BY <2>4, <4>2
      <4>4. /\ TokRecv(w) => inputQ # <<>>
            /\ ~TokRecv(w) => inputQ' = inputQ
        BY <2>3, <3>2 DEF TokRecv, TokSkip, TokHit, TokTokenize, TokSendOut, TokSendBucket
      <4> QED BY <1>2, <2>1, <4>3, <4>4 DEF Winding
    <3> QED BY <3>1, <3>2
  <2>5. (\A b \in Bucket : batcher'[b].pc # "done") /\ (\A g \in Gpu : gpu'[g].pc # "done")
    BY <2>2 DEF backVars
  <2> QED BY <1>2, <2>1, <2>4, <2>5 DEF Winding
<1> QED BY <1>4, <1>5 DEF Closing, backVars

LEMMA CallerClosing ==
    ASSUME TypeInv, Closing, UNCHANGED backVars,
           \/ FeederSend \/ FeederEnd \/ FeederBreak
           \/ embed = "running" /\ ConsumerRecv
           \/ ConsumerEnd(NoSender)
           \/ embed = "running" /\ ConsumerDrop
    PROVE  Closing'
<1>1. /\ ToksDone' = ToksDone /\ BatchersDone' = BatchersDone /\ NoSender' = NoSender
      /\ Usable' = Usable /\ tok' = tok /\ bucketQ' = bucketQ
      /\ embed' = embed /\ batcher' = batcher /\ batchQ' = batchQ /\ gpu' = gpu
  BY DEF ToksDone, BatchersDone, NoSender, GpusDone, Usable, backVars, FeederSend, FeederEnd,
         FeederBreak, ConsumerRecv, ConsumerEnd, ConsumerDrop
<1>2. Phases'
  BY <1>1 DEF Closing, Phases, NoSender, FeederSend, FeederEnd, FeederBreak, ConsumerRecv,
              ConsumerEnd, ConsumerDrop
<1>3. ASSUME embed # "refused" PROVE Winding'
  <2>1. Winding
    BY <1>3 DEF Closing
  <2>2. ~FeederBreak
    BY <2>1, ConfigAssumption DEF Winding, FeederBreak, ToksDone
  <2> QED BY <1>1, <2>1, <2>2 DEF Winding, FeederSend, FeederEnd, ConsumerRecv,
              ConsumerEnd, ConsumerDrop
<1> QED BY <1>1, <1>2, <1>3 DEF Closing

LEMMA BatcherClosing ==
    ASSUME TypeInv, Closing, NEW b \in Bucket, BatcherStep(b)
    PROVE  Closing'
<1> USE DEF BatcherTimeout, BatcherFlush
<1>1. batcher[b].pc # "done" /\ ~BatchersDone
  BY DEF BatcherStep, BatcherRecv, BatcherEmit, BatcherSend, BatcherBreak, BatcherExit,
         BatchersDone
<1>2. /\ feeder' = feeder /\ fed' = fed /\ tok' = tok /\ inputQ' = inputQ /\ rx' = rx
      /\ outQ' = outQ /\ embed' = embed /\ sessions' = sessions /\ gpu' = gpu
      /\ ToksDone' = ToksDone /\ NoSender' = NoSender /\ Usable' = Usable
  BY DEF BatcherStep, BatcherRecv, BatcherEmit, BatcherSend, BatcherBreak, BatcherExit,
         frontVars, ToksDone, NoSender, GpusDone, Usable
<1>3. Phases'
  BY <1>2 DEF Closing, Phases
<1>4. ASSUME embed # "refused" PROVE Winding'
  <2>1. Winding /\ ~BatcherBreak(b)
    BY <1>4 DEF Closing, BatcherBreak
  <2>2. /\ \A c \in Bucket : c # b => batcher'[c] = batcher[c] /\ bucketQ'[c] = bucketQ[c]
        /\ batcher'[b].pc = "done" =>
              ToksDone /\ bucketQ'[b] = <<>> /\ batcher'[b].acc.rows = <<>>
    <3>1. CASE BatcherExit(b)
      BY <3>1 DEF BatcherExit, frontVars, TypeInv, TypeOK
    <3>2. CASE ~BatcherExit(b)
      <4>1. PICK r : r.pc # "done" /\ batcher' = [batcher EXCEPT ![b] = r]
        <5>1. CASE BatcherRecv(b)
          <6> DEFINE acc == Push(batcher[b].acc, Head(bucketQ[b]))
                     r == IF Filled(acc, BatchSize[b])
                          THEN [pc |-> "send", acc |-> Drain(acc), batch |-> BuildBatch(acc, b)]
                          ELSE [batcher[b] EXCEPT !.acc = acc]
          <6>1. batcher' = [batcher EXCEPT ![b] = r]
            BY <5>1 DEF BatcherRecv
          <6>2. r.pc # "done"
            BY <5>1 DEF BatcherRecv, TypeInv, TypeOK
          <6> QED BY <6>1, <6>2
        <5>2. CASE BatcherSend(b)
          BY <5>2 DEF BatcherSend, TypeInv, TypeOK
        <5>3. CASE BatcherEmit(b)
          BY <5>3 DEF BatcherEmit
        <5> QED BY <2>1, <3>2, <5>1, <5>2, <5>3 DEF BatcherStep
      <4>2. batcher'[b].pc # "done" /\ \A c \in Bucket : c # b => batcher'[c] = batcher[c]
        BY <4>1 DEF TypeInv, TypeOK
      <4>3. \A c \in Bucket : c # b => bucketQ'[c] = bucketQ[c]
        BY <2>1, <3>2 DEF BatcherStep, BatcherRecv, BatcherEmit, BatcherSend,
                   frontVars, TypeInv, TypeOK, FrontTypeOK
      <4> QED BY <4>2, <4>3
    <3> QED BY <3>1, <3>2
  <2>3. \A g \in Gpu : gpu[g].pc # "done"
    BY <1>1, <2>1 DEF Winding
  <2> QED BY <1>2, <2>1, <2>2, <2>3 DEF Winding
<1> QED BY <1>2, <1>3, <1>4 DEF Closing

LEMMA GpuClosing ==
    ASSUME TypeInv, Closing, NEW g \in Gpu, GpuStep(g)
    PROVE  Closing'
<1>1. gpu[g].pc \notin {"off", "done"} /\ ~GpusDone
  BY DEF GpuStep, GpuRecv, GpuInfer, GpuSend, GpuExit, GpusDone
<1>2. embed = "running" /\ g \in Usable /\ Winding
  BY <1>1 DEF Closing, Phases
<1>3. /\ feeder' = feeder /\ fed' = fed /\ tok' = tok /\ inputQ' = inputQ /\ rx' = rx
      /\ bucketQ' = bucketQ /\ batcher' = batcher /\ embed' = embed /\ sessions' = sessions
      /\ ToksDone' = ToksDone /\ Usable' = Usable /\ BatchersDone' = BatchersDone
  BY DEF GpuStep, GpuRecv, GpuInfer, GpuSend, GpuExit, frontVars, ToksDone, BatchersDone,
         Usable
<1>4. rx # "ended" /\ (rx # "open" => outQ' = <<>>)
  BY <1>1 DEF Closing, Phases, NoSender, GpuStep, GpuRecv, GpuInfer, GpuSend, GpuExit,
              frontVars, SendOut
<1>5. /\ \A h \in Gpu : h # g => gpu'[h] = gpu[h]
      /\ gpu'[g].pc # "off"
      /\ gpu'[g].pc = "done" => BatchersDone /\ batchQ' = <<>>
  <2>1. PICK r : /\ gpu' = [gpu EXCEPT ![g] = r] /\ r.pc # "off"
                 /\ r.pc = "done" => GpuExit(g)
    BY DEF GpuStep, GpuRecv, GpuInfer, GpuSend, GpuExit, TypeInv, TypeOK
  <2>2. gpu'[g] = r /\ \A h \in Gpu : h # g => gpu'[h] = gpu[h]
    BY <2>1 DEF TypeInv, TypeOK
  <2> QED BY <2>1, <2>2 DEF GpuExit
<1>6. batchQ = <<>> => batchQ' = <<>>
  BY DEF GpuStep, GpuRecv, GpuInfer, GpuSend, GpuExit
<1>7. Phases'
  <2>1. Phases /\ Usable \subseteq Gpu
    BY DEF Closing, Usable
  <2>2. \A h \in Gpu : (gpu'[h].pc # "off") <=> (gpu[h].pc # "off")
    BY <1>1, <1>5
  <2> QED BY <1>2, <1>3, <1>4, <2>1, <2>2 DEF Phases
<1>8. Winding'
  BY <1>2, <1>3, <1>5, <1>6 DEF Winding
<1> QED BY <1>7, <1>8 DEF Closing

LEMMA MainClosing == ASSUME TypeInv, Closing, MainSpawn \/ MainRefuse PROVE Closing'
<1>1. Usable' = Usable
  BY DEF MainSpawn, MainRefuse, Usable
<1>2. CASE MainSpawn
  <2>1. \A g \in Gpu : gpu'[g].pc = IF g \in Usable THEN "recv" ELSE "off"
    BY <1>2 DEF MainSpawn, TypeInv, TypeOK
  <2>2. /\ embed = "starting" /\ embed' = "running" /\ Usable # {} /\ rx' = rx
        /\ ToksDone' = ToksDone /\ BatchersDone' = BatchersDone
        /\ feeder' = feeder /\ fed' = fed /\ tok' = tok /\ inputQ' = inputQ
        /\ bucketQ' = bucketQ /\ batcher' = batcher /\ outQ' = outQ
    BY <1>2 DEF MainSpawn, frontVars, ToksDone, BatchersDone
  <2>3. Usable \subseteq Gpu
    BY DEF Usable
  <2> QED BY <1>1, <2>1, <2>2, <2>3 DEF Closing, Phases, Winding
<1>3. CASE MainRefuse
  BY <1>1, <1>3 DEF MainRefuse, Closing, Phases, TypeInv, NotStarted
<1> QED BY <1>2, <1>3

LEMMA StepClosing == TypeInv /\ Closing /\ [Next]_vars => Closing'
<1> SUFFICES ASSUME TypeInv, Closing, [Next]_vars PROVE Closing'
  OBVIOUS
<1>1. CASE UNCHANGED vars \/ Finish
  <2>1. UNCHANGED <<frontVars, embed, sessions, batcher, batchQ, gpu>>
    BY <1>1 DEF Finish, vars, backVars
  <2> QED BY <2>1 DEF Closing, Phases, Winding, frontVars, NoSender, ToksDone, BatchersDone,
                      GpusDone, Usable
<1> QED BY <1>1, TokClosing, CallerClosing, BatcherClosing, GpuClosing, MainClosing
        DEF Next, BatcherStep, GpuStep, Stopped

LEMMA ClosingInvariant == Spec => []Closing
<1>1. TypeInv /\ Closing /\ [Next]_vars => Closing'
  BY StepClosing
<1> QED BY <1>1, InitClosing, TypeInvariant, PTL DEF Spec

\* While a call runs, no batcher goes away before the tokenizer workers that
\* send to it, and no GPU worker before the batchers: txs[bi].send and
\* btx.send fail only after a refusal.
THEOREM ReceiversOutliveSenders == Spec => []ReceiverOutlivesSenders
<1>1. Closing => ReceiverOutlivesSenders
  BY DEF Closing, Winding, ReceiverOutlivesSenders, Usable
<1> QED BY <1>1, ClosingInvariant, PTL

-----------------------------------------------------------------------------
(* No message is lost: each step moves what it takes to the next place.    *)

Waits(m) == InFront(m) \/ InBatcher(m) \/ InReady(m) \/ InGpu(m)

\* A tokenizer worker gives a message up only after a refusal.
LEMMA TokBreakRefused ==
    ASSUME TypeInv, Closing, NEW w \in Tok, TokBreak(w, Alive)
    PROVE  rx = "dropped"
<1>1. AssignBucket(BucketLen, TokLen[text[tok[w].id]]) \in Bucket
  BY BucketOfText DEF TokBreak, TypeInv, TypeOK, FrontTypeOK
<1>2. ~ToksDone /\ ~(\A b \in Bucket : batcher[b].pc # "done")
  BY <1>1 DEF TokBreak, Alive, ToksDone
<1> QED BY <1>2 DEF Closing, Phases, Winding

LEMMA BatcherRecvKeeps ==
    ASSUME TypeInv, NEW b \in Bucket, BatcherRecv(b), NEW m, Waits(m)
    PROVE  Waits(m)'
<1> DEFINE item == Head(bucketQ[b])
           acc == Push(batcher[b].acc, item)
<1>1. /\ acc \in Acc /\ Aligned(acc)
      /\ Range(acc.ids) = Range(batcher[b].acc.ids) \cup {item.id}
  BY PushedAcc
<1>2. InBucket(m) => InBucket(m)' \/ m = item.id
  BY BucketRecvKeeps DEF BatcherRecv, TypeInv, TypeOK
<1>3. BuildBatch(acc, b).ids = acc.ids
  <2>1. acc \in AccOf(Text, Msg, Nat)
    BY <1>1 DEF Acc, AccOf
  <2> HIDE DEF acc
  <2> QED BY <1>1, <2>1, BuildBatchTakesAll
<1>4. batcher[b].batch.ids = <<>>
  BY DEF TypeInv, BatchersGood, GoodBatcher, BatcherRecv, EmptyBatch
<1>5. /\ batcher'[b].acc.ids = acc.ids \/ batcher'[b].batch.ids = acc.ids
      /\ \A c \in Bucket : c # b => batcher'[c] = batcher[c]
  BY <1>3 DEF BatcherRecv, TypeInv, TypeOK
<1> HIDE DEF acc, item
<1>6. m = item.id => InBatcher(m)'
  BY <1>1, <1>5 DEF InBatcher
<1>7. InBatcher(m) => InBatcher(m)'
  <2>1. m \notin Range(batcher[b].batch.ids)
    BY <1>4 DEF Range
  <2> QED BY <1>1, <1>5, <2>1 DEF InBatcher
<1>8. /\ InInput(m)' = InInput(m) /\ InTok(m)' = InTok(m) /\ InOut(m)' = InOut(m)
      /\ answers' = answers /\ InReady(m)' = InReady(m) /\ InGpu(m)' = InGpu(m)
  BY DEF InInput, InTok, InOut, InReady, InGpu, BatcherRecv
<1> QED BY <1>2, <1>6, <1>7, <1>8 DEF Waits, InFront

LEMMA BatcherKeeps ==
    ASSUME TypeInv, NEW b \in Bucket, BatcherEmit(b) \/ BatcherSend(b) \/ BatcherExit(b),
           NEW m, Waits(m)
    PROVE  Waits(m)'
<1>1. InFront(m)' = InFront(m) /\ InGpu(m)' = InGpu(m)
  BY DEF InFront, InInput, InTok, InBucket, InOut, InGpu, BatcherEmit, BatcherSend,
         BatcherExit, frontVars
<1>2. \A c \in Bucket : c # b => batcher'[c] = batcher[c]
  BY DEF BatcherEmit, BatcherSend, BatcherExit, TypeInv, TypeOK
<1>3. CASE BatcherEmit(b)
  <2>1. batcher[b].acc \in AccOf(Text, Msg, Nat) /\ Aligned(batcher[b].acc)
    BY DEF TypeInv, TypeOK, BatchersGood, GoodBatcher, Acc, AccOf
  <2>2. BuildBatch(batcher[b].acc, b).ids = batcher[b].acc.ids
    BY <2>1, BuildBatchTakesAll
  <2>3. batcher'[b].batch.ids = batcher[b].acc.ids
    BY <1>3, <2>2 DEF BatcherEmit, TypeInv, TypeOK
  <2>4. m \notin Range(batcher[b].batch.ids)
    BY <1>3 DEF BatcherEmit, TypeInv, BatchersGood, GoodBatcher, EmptyBatch, Range
  <2>5. InBatcher(m) => InBatcher(m)'
    BY <1>2, <2>3, <2>4 DEF InBatcher
  <2>6. InReady(m)' = InReady(m)
    BY <1>3 DEF InReady, BatcherEmit
  <2> QED BY <1>1, <2>5, <2>6 DEF Waits
<1>4. CASE BatcherSend(b)
  <2>1. batchQ \in Seq(BatchType) /\ batcher[b].batch \in BatchType
    BY DEF TypeInv, TypeOK
  <2>2. batchQ' = Append(batchQ, batcher[b].batch) /\ batcher'[b].acc = batcher[b].acc
    BY <1>4 DEF BatcherSend, TypeInv, TypeOK
  <2>3. /\ \E j \in DOMAIN batchQ' : batchQ'[j] = batcher[b].batch
        /\ \A i \in DOMAIN batchQ : \E j \in DOMAIN batchQ' : batchQ'[j] = batchQ[i]
    BY <2>1, <2>2, AppendElements
  <2>4. InReady(m) => InReady(m)'
    BY <2>3 DEF InReady
  <2>5. InBatcher(m) => InBatcher(m)' \/ InReady(m)'
    BY <1>2, <2>2, <2>3 DEF InBatcher, InReady
  <2> QED BY <1>1, <2>4, <2>5 DEF Waits
<1>5. CASE BatcherExit(b)
  <2>1. batcher'[b].acc = batcher[b].acc /\ batcher'[b].batch = batcher[b].batch
    BY <1>5 DEF BatcherExit, TypeInv, TypeOK
  <2>2. InBatcher(m) => InBatcher(m)'
    BY <1>2, <2>1 DEF InBatcher
  <2>3. InReady(m)' = InReady(m)
    BY <1>5 DEF InReady, BatcherExit
  <2> QED BY <1>1, <2>2, <2>3 DEF Waits
<1> QED BY <1>3, <1>4, <1>5

LEMMA GpuKeeps ==
    ASSUME TypeInv, Closing, rx # "dropped", NEW g \in Gpu, GpuStep(g), NEW m, Waits(m)
    PROVE  Waits(m)'
<1>1. \A h \in Gpu : h # g => gpu'[h] = gpu[h]
  BY DEF GpuStep, GpuRecv, GpuInfer, GpuSend, GpuExit, TypeInv, TypeOK
<1>2. /\ InInput(m)' = InInput(m) /\ InTok(m)' = InTok(m) /\ InBucket(m)' = InBucket(m)
      /\ InBatcher(m)' = InBatcher(m) /\ answers' = answers
  BY DEF InInput, InTok, InBucket, InBatcher, GpuStep, GpuRecv, GpuInfer, GpuSend, GpuExit,
         frontVars
<1>4. CASE GpuRecv(g)
  <2>1. batchQ \in Seq(BatchType) /\ batchQ # <<>> /\ batchQ' = Tail(batchQ)
    BY <1>4 DEF GpuRecv, TypeInv, TypeOK
  <2>2. \A i \in DOMAIN batchQ :
          batchQ[i] = Head(batchQ) \/ \E j \in DOMAIN batchQ' : batchQ'[j] = batchQ[i]
    BY <2>1, TailElements
  <2>3. gpu'[g].batch = Head(batchQ) /\ gpu[g].batch.ids = <<>> /\ gpu[g].out.ids = <<>>
    <3>1. gpu'[g].batch = Head(batchQ)
      BY <1>4 DEF GpuRecv, TypeInv, TypeOK
    <3>2. gpu[g].batch = EmptyBatch /\ gpu[g].out = NoBatch
      BY <1>4 DEF GpuRecv, TypeInv, GpusGood, GoodGpu
    <3> QED BY <3>1, <3>2 DEF EmptyBatch, NoBatch
  <2>4. InReady(m) => InReady(m)' \/ InGpu(m)'
    BY <2>2, <2>3 DEF InReady, InGpu
  <2>5. InGpu(m) => InGpu(m)'
    <3>1. m \notin Range(gpu[g].batch.ids) /\ m \notin Range(gpu[g].out.ids)
      BY <2>3 DEF Range
    <3> QED BY <1>1, <3>1 DEF InGpu
  <2>6. InOut(m)' = InOut(m)
    BY <1>4 DEF GpuRecv, InOut, frontVars
  <2> QED BY <1>2, <2>4, <2>5, <2>6 DEF Waits, InFront
<1>5. CASE GpuInfer(g)
  <2>1. gpu'[g].out.ids = gpu[g].batch.ids
    BY <1>5 DEF GpuInfer, OutBatch, TypeInv, TypeOK
  <2>2. m \notin Range(gpu[g].out.ids)
    BY <1>5 DEF GpuInfer, TypeInv, GpusGood, GoodGpu, NoBatch, Range
  <2>3. InGpu(m) => InGpu(m)'
    BY <1>1, <2>1, <2>2 DEF InGpu
  <2>4. InOut(m)' = InOut(m) /\ InReady(m)' = InReady(m)
    BY <1>5 DEF GpuInfer, InOut, InReady
  <2> QED BY <1>2, <2>3, <2>4 DEF Waits, InFront
<1>6. CASE GpuSend(g)
  <2>1. rx = "open"
    BY <1>6 DEF Closing, Phases, NoSender, GpusDone, GpuSend, TypeInv, TypeOK, FrontTypeOK
  <2>2. gpu[g].out \in OutMsg /\ FrontInv /\ SendOut(gpu[g].out)
    BY <1>6 DEF GpuSend, TypeInv, TypeOK, FrontInv
  <2>3. /\ m \in Range(gpu[g].out.ids) => InOut(m)'
        /\ InOut(m) => InOut(m)'
    BY <2>1, <2>2, SendOutKeeps
  <2>4. m \notin Range(gpu[g].batch.ids)
    BY <1>6 DEF GpuSend, TypeInv, GpusGood, GoodGpu, EmptyBatch, Range
  <2>5. InGpu(m) => InGpu(m)' \/ InOut(m)'
    BY <1>1, <2>3, <2>4 DEF InGpu
  <2>6. InReady(m)' = InReady(m)
    BY <1>6 DEF GpuSend, InReady
  <2> QED BY <1>2, <2>3, <2>5, <2>6 DEF Waits, InFront
<1>7. CASE GpuExit(g)
  <2>1. gpu'[g].batch = gpu[g].batch /\ gpu'[g].out = gpu[g].out
    BY <1>7 DEF GpuExit, TypeInv, TypeOK
  <2>2. InGpu(m) => InGpu(m)'
    BY <1>1, <2>1 DEF InGpu
  <2>3. InOut(m)' = InOut(m) /\ InReady(m)' = InReady(m)
    BY <1>7 DEF GpuExit, InOut, InReady, frontVars
  <2> QED BY <1>2, <2>2, <2>3 DEF Waits, InFront
<1> QED BY <1>4, <1>5, <1>6, <1>7 DEF GpuStep

\* Steps that change no place at all.
LEMMA SpawnKeeps ==
    ASSUME TypeInv, \/ MainSpawn \/ Finish \/ UNCHANGED vars
                    \/ FeederBreak /\ UNCHANGED backVars,
           NEW m, Waits(m)
    PROVE  Waits(m)'
<1>1. InFront(m)' = InFront(m) /\ InBatcher(m)' = InBatcher(m) /\ InReady(m)' = InReady(m)
  BY DEF InFront, InInput, InTok, InBucket, InOut, InBatcher, InReady, MainSpawn, Finish,
         FeederBreak, vars, backVars, frontVars
<1>2. \A g \in Gpu : gpu'[g].batch = gpu[g].batch /\ gpu'[g].out = gpu[g].out
  BY DEF MainSpawn, Finish, FeederBreak, vars, backVars, TypeInv, TypeOK
<1> QED BY <1>1, <1>2 DEF Waits, InGpu

LEMMA StepNothingLost == TypeInv /\ Closing /\ NothingLost /\ [Next]_vars => NothingLost'
<1> SUFFICES ASSUME TypeInv, Closing, NothingLost, [Next]_vars,
                    rx' # "dropped", NEW m \in 1..fed'
             PROVE  Waits(m)'
  BY DEF NothingLost, Waits
<1>1. CASE FrontStep(Alive, NoSender) /\ UNCHANGED backVars
  <2>1. InBatcher(m)' = InBatcher(m) /\ InReady(m)' = InReady(m) /\ InGpu(m)' = InGpu(m)
    BY <1>1 DEF InBatcher, InReady, InGpu, backVars
  <2>2. rx # "dropped"
    BY <1>1 DEF FrontStep, FeederSend, FeederEnd, TokRecv, TokSkip, TokHit, TokTokenize,
                TokSendOut, TokSendBucket, TokExit, ConsumerRecv, ConsumerEnd, ConsumerDrop
  <2>3. FrontInv /\ (rx = "ended" => ToksDone)
    BY DEF TypeInv, TypeOK, FrontInv, Closing, Phases, NoSender
  <2>4. CASE FeederSend
    <3>1. m \in 1..fed => Waits(m)
      BY <2>2 DEF NothingLost, Waits
    <3> QED BY <2>1, <2>3, <2>4, <3>1, FeederSendKeeps DEF Waits
  <2>5. CASE ~FeederSend
    <3>1. fed' = fed
      BY <1>1, <2>5 DEF FrontStep, FeederEnd, TokRecv, TokSkip, TokHit, TokTokenize,
                  TokSendOut, TokSendBucket, TokExit, ConsumerRecv, ConsumerEnd, ConsumerDrop
    <3>2. m \in Msg /\ Waits(m)
      BY <2>2, <3>1, SizeAssumption DEF NothingLost, Waits, TypeInv, TypeOK, FrontTypeOK, Msg
    <3> QED BY <1>1, <2>1, <2>3, <3>2, FrontKeeps DEF Waits
  <2> QED BY <2>4, <2>5
<1>2. CASE (\E w \in Tok : TokBreak(w, Alive)) /\ UNCHANGED backVars
  <2>1. rx' = rx
    BY <1>2 DEF TokBreak
  <2> QED BY <1>2, <2>1, TokBreakRefused
<1>3. CASE BackStep \/ UNCHANGED vars \/ (FeederBreak /\ UNCHANGED backVars)
  <2>1. rx' = rx /\ fed' = fed
    BY <1>3 DEF BackStep, MainSpawn, MainRefuse, Finish, BatcherStep, BatcherRecv,
       BatcherTimeout, BatcherFlush, BatcherEmit, BatcherSend, BatcherBreak, BatcherExit,
       GpuStep, GpuRecv, GpuInfer, GpuSend, GpuExit, FeederBreak, vars, frontVars
  <2>2. Waits(m) /\ rx # "dropped"
    BY <2>1 DEF NothingLost, Waits
  <2>3. embed # "refused" /\ ~MainRefuse
    BY <2>1, <2>2 DEF Closing, Phases, MainRefuse
  <2>4. ASSUME NEW b \in Bucket, BatcherStep(b) PROVE Waits(m)'
    BY <2>2, <2>3, <2>4, BatcherRecvKeeps, BatcherKeeps
       DEF BatcherStep, BatcherTimeout, BatcherFlush, BatcherBreak
  <2>5. ASSUME NEW g \in Gpu, GpuStep(g) PROVE Waits(m)'
    BY <2>2, <2>5, GpuKeeps
  <2> QED BY <1>3, <2>2, <2>3, <2>4, <2>5, SpawnKeeps DEF BackStep
<1> QED BY <1>1, <1>2, <1>3, NextSteps

\* No message the feeder has taken from the iterator disappears while the
\* caller listens: not at the batch timeout, not in the channel all batchers
\* share, and not when embed starts only some of the GPUs.
THEOREM NoMessageLost == Spec => []NothingLost
<1>1. Init => NothingLost
  BY DEF Init, FrontInit, NothingLost
<1>2. TypeInv /\ Closing /\ NothingLost /\ [Next]_vars => NothingLost'
  BY StepNothingLost
<1> QED BY <1>1, <1>2, TypeInvariant, ClosingInvariant, PTL DEF Spec

\* When the caller's loop over the receiver ends, every message of its
\* iterator has been answered.
THEOREM StreamEndIsComplete == Spec => [](rx = "ended" => \A m \in Msg : answers[m] > 0)
<1>1. TypeInv /\ Closing /\ NothingLost => (rx = "ended" => \A m \in Msg : answers[m] > 0)
  <2> SUFFICES ASSUME TypeInv, Closing, NothingLost, rx = "ended", NEW m \in Msg
               PROVE  answers[m] > 0
    OBVIOUS
  <2>1. embed = "running" /\ ToksDone /\ GpusDone /\ outQ = <<>> /\ Winding
    BY DEF Closing, Phases, NoSender
  <2>2. PICK g \in Usable : gpu[g].pc = "done"
    BY <2>1 DEF Closing, Phases, GpusDone, Usable
  <2>3. BatchersDone /\ batchQ = <<>>
    BY <2>1, <2>2 DEF Winding, Usable
  <2>4. feeder = "done" /\ inputQ = <<>> /\ fed = NMsg
    BY <2>1, ConfigAssumption DEF Winding, ToksDone
  <2>5. ~InGpu(m)
    <3>1. \A h \in Gpu : gpu[h].batch = EmptyBatch /\ gpu[h].out = NoBatch
      BY <2>1 DEF GpusDone, TypeInv, GpusGood, GoodGpu
    <3> QED BY <3>1 DEF InGpu, EmptyBatch, NoBatch, Range
  <2>6. ~InBatcher(m)
    <3>1. ASSUME NEW b \in Bucket
          PROVE  batcher[b].acc.ids = <<>> /\ batcher[b].batch = EmptyBatch
      <4>1. batcher[b].pc = "done" /\ batcher[b].acc.rows = <<>>
        BY <2>1, <2>3 DEF BatchersDone, Winding
      <4>2. batcher[b].acc.ids \in Seq(Msg) /\ Len(batcher[b].acc.ids) = 0
        BY <4>1, EmptySeq DEF TypeInv, TypeOK, BatchersGood, GoodBatcher, Aligned, Acc
      <4> QED BY <4>1, <4>2, EmptySeq DEF TypeInv, BatchersGood, GoodBatcher
    <3> QED BY <3>1 DEF InBatcher, EmptyBatch, Range
  <2>7. ~InReady(m) /\ ~InOut(m) /\ ~InInput(m)
    BY <2>1, <2>3, <2>4 DEF InReady, InOut, InInput, Range
  <2>8. ~InTok(m) /\ ~InBucket(m)
    BY <2>1, <2>3 DEF InTok, InBucket, ToksDone, Winding, BatchersDone
  <2>9. m \in 1..fed
    BY <2>4 DEF Msg
  <2> QED BY <2>5, <2>6, <2>7, <2>8, <2>9 DEF NothingLost, InFront
<1> QED BY <1>1, TypeInvariant, ClosingInvariant, NoMessageLost, PTL

-----------------------------------------------------------------------------
(* Batches of all buckets share a channel, and rows, ids and hashes travel *)
(* in it side by side: each batch is full of items of the bucket it names, *)
(* and fits the arrays it is padded into.                                  *)

Meets(batch) ==
    /\ batch.bucket \in Bucket /\ batch.shape = batch.bucket
    /\ Len(batch.rows) \in 1..BatchSize[batch.bucket]
    /\ Holds(batch, ItemsOf(batch.bucket))

BatcherContent ==
    \A b \in Bucket : /\ Holds(batcher[b].acc, ItemsOf(b))
                      /\ Len(batcher[b].acc.rows) < BatchSize[b]
                      /\ batcher[b].pc = "send" => Meets(batcher[b].batch)
QueueContent == \A i \in DOMAIN batchQ : Meets(batchQ[i])
GpuContent   == \A g \in Gpu : /\ gpu[g].pc = "infer" => Meets(gpu[g].batch)
                               /\ RightOut(gpu[g].out)

BackContent == BatcherContent /\ QueueContent /\ GpuContent
Content == FrontContent /\ BackContent

\* The texts are fixed, so what is right stays right.
LEMMA MeaningStays ==
    ASSUME text' = text
    PROVE  /\ \A b : ItemsOf(b)' = ItemsOf(b)
           /\ \A o : RightOut(o)' = RightOut(o)
           /\ \A x : Meets(x)' = Meets(x)
<1>1. \A b : ItemsOf(b)' = ItemsOf(b)
  BY DEF ItemsOf, Item
<1>2. \A o : RightOut(o)' = RightOut(o)
  BY DEF RightOut, Rightful
<1>3. \A x : Meets(x)' = Meets(x)
  BY <1>1 DEF Meets
<1> QED BY <1>1, <1>2, <1>3

LEMMA BackContentUnchanged ==
    ASSUME BackContent, text' = text
    PROVE  /\ batcher' = batcher => BatcherContent'
           /\ batchQ' = batchQ => QueueContent'
           /\ gpu' = gpu => GpuContent'
<1>1. batcher' = batcher => BatcherContent'
  BY MeaningStays DEF BackContent, BatcherContent
<1>2. batchQ' = batchQ => QueueContent'
  BY MeaningStays DEF BackContent, QueueContent
<1>3. gpu' = gpu => GpuContent'
  BY MeaningStays DEF BackContent, GpuContent
<1> QED BY <1>1, <1>2, <1>3

LEMMA BatcherContentUpdate ==
    ASSUME TypeInv, BackContent, text' = text, NEW b \in Bucket, NEW r,
           Holds(r.acc, ItemsOf(b)), Len(r.acc.rows) < BatchSize[b],
           r.pc = "send" => Meets(r.batch),
           batcher' = [batcher EXCEPT ![b] = r]
    PROVE  BatcherContent'
<1>1. batcher'[b] = r /\ \A c \in Bucket : c # b => batcher'[c] = batcher[c]
  BY DEF TypeInv, TypeOK
<1> QED BY <1>1, MeaningStays DEF BackContent, BatcherContent

LEMMA GpuContentUpdate ==
    ASSUME TypeInv, BackContent, text' = text, NEW g \in Gpu, NEW r,
           r.pc = "infer" => Meets(r.batch), RightOut(r.out),
           gpu' = [gpu EXCEPT ![g] = r]
    PROVE  GpuContent'
<1>1. gpu'[g] = r /\ \A h \in Gpu : h # g => gpu'[h] = gpu[h]
  BY DEF TypeInv, TypeOK
<1> QED BY <1>1, MeaningStays DEF BackContent, GpuContent

\* What a batcher has pending makes a batch that meets its session.
LEMMA BuiltMeets ==
    ASSUME NEW acc \in Acc, Aligned(acc), NEW b \in Bucket, Holds(acc, ItemsOf(b)),
           Len(acc.rows) \in 1..BatchSize[b]
    PROVE  /\ Meets(BuildBatch(acc, b))
           /\ Holds(Drain(acc), ItemsOf(b)) /\ Len(Drain(acc).rows) < BatchSize[b]
<1>1. acc \in AccOf(Text, Msg, Nat)
  BY DEF Acc, AccOf
<1>2. Holds(BuildBatch(acc, b), ItemsOf(b)) /\ Holds(Drain(acc), ItemsOf(b))
  BY <1>1, BuildBatchHolds
<1>3. BuildBatch(acc, b) = [shape |-> b, bucket |-> b, rows |-> acc.rows,
                            ids |-> acc.ids, hashes |-> acc.hashes]
  BY <1>1, BuildBatchTakesAll
<1>4. Drain(acc).rows = <<>> /\ BatchSize[b] \in Nat \ {0}
  BY ConfigAssumption DEF Drain, Bucket
<1>5. Len(Drain(acc).rows) = 0
  BY <1>4, EmptySeq
<1> QED BY <1>2, <1>3, <1>4, <1>5 DEF Meets

LEMMA BatcherStepContent ==
    ASSUME TypeInv, Content, NEW b \in Bucket, BatcherStep(b)
    PROVE  Content'
<1> USE DEF BatcherTimeout, BatcherFlush
<1>1. FrontInv /\ FrontContent /\ BackContent
  BY DEF TypeInv, TypeOK, FrontInv, Content
<1>2. /\ text' = text /\ tok' = tok /\ answers' = answers /\ answer' = answer
      /\ outQ' = outQ /\ inserted' = inserted /\ gpu' = gpu
  BY DEF BatcherStep, BatcherRecv, BatcherEmit, BatcherSend, BatcherBreak, BatcherExit,
         frontVars
<1>3. /\ batcher[b].acc \in Acc /\ Aligned(batcher[b].acc)
      /\ Holds(batcher[b].acc, ItemsOf(b)) /\ Len(batcher[b].acc.rows) < BatchSize[b]
      /\ Len(batcher[b].acc.rows) \in Nat /\ BatchSize[b] \in Nat \ {0}
  BY <1>1, ConfigAssumption, LenProperties
     DEF TypeInv, TypeOK, BatchersGood, GoodBatcher, BackContent, BatcherContent, Bucket, Acc
<1>4. /\ Holds(EmptyAcc, ItemsOf(b)) /\ Len(EmptyAcc.rows) < BatchSize[b]
  BY <1>3, EmptyHolds, EmptySeq DEF EmptyAcc
<1>5. GpuContent'
  BY <1>1, <1>2, BackContentUnchanged
<1>6. CASE BatcherRecv(b)
  <2> DEFINE item == Head(bucketQ[b])
             acc == Push(batcher[b].acc, item)
             full == [pc |-> "send", acc |-> Drain(acc), batch |-> BuildBatch(acc, b)]
             more == [batcher[b] EXCEPT !.acc = acc]
  <2>1. item \in ItemsOf(b) /\ BucketContent'
    BY <1>1, <1>2, <1>6, BucketRecvRight DEF BatcherRecv
  <2>2. /\ item \in ItemOf(Text, Msg, Nat)
        /\ acc \in Acc /\ Aligned(acc) /\ Len(acc.rows) = Len(batcher[b].acc.rows) + 1
    BY <1>6, PushedAcc DEF BucketItem, ItemOf
  <2>3. batcher[b].acc \in AccOf(Text, Msg, Nat)
    BY <1>3 DEF Acc, AccOf
  <2>4. Holds(acc, ItemsOf(b))
    <3> HIDE DEF item
    <3> QED BY <1>3, <2>1, <2>2, <2>3, PushHolds
  <2>5. batcher' = [batcher EXCEPT ![b] = IF Filled(acc, BatchSize[b]) THEN full ELSE more]
    BY <1>6 DEF BatcherRecv
  <2>6. batcher[b].pc = "recv" /\ more.acc = acc /\ more.pc = batcher[b].pc
    BY <1>6 DEF BatcherRecv, TypeInv, TypeOK
  <2> HIDE DEF item, acc
  <2>7. Len(acc.rows) \in 1..BatchSize[b]
    BY <1>3, <2>2
  <2>8. Meets(full.batch) /\ Holds(full.acc, ItemsOf(b)) /\ Len(full.acc.rows) < BatchSize[b]
    BY <2>2, <2>4, <2>7, BuiltMeets
  <2>9. ~Filled(acc, BatchSize[b]) => Len(more.acc.rows) < BatchSize[b]
    BY <1>3, <2>2, <2>6 DEF Filled
  <2> HIDE DEF full, more
  <2> DEFINE r == IF Filled(acc, BatchSize[b]) THEN full ELSE more
  <2>10. /\ Holds(r.acc, ItemsOf(b)) /\ Len(r.acc.rows) < BatchSize[b]
         /\ r.pc = "send" => Meets(r.batch)
    BY <2>4, <2>6, <2>8, <2>9
  <2> HIDE DEF r
  <2>11. BatcherContent'
    BY <1>1, <1>2, <2>5, <2>10, BatcherContentUpdate DEF r
  <2>12. QueueContent'
    BY <1>1, <1>2, <1>6, BackContentUnchanged DEF BatcherRecv
  <2>13. FrontContent'
    BY <1>1, <1>2, <2>1, BackContentStays
  <2> QED BY <1>5, <2>11, <2>12, <2>13 DEF Content, BackContent
<1>7. CASE BatcherEmit(b)
  <2> DEFINE acc == batcher[b].acc
             r == [pc |-> "send", acc |-> Drain(acc), batch |-> BuildBatch(acc, b)]
  <2>1. batcher' = [batcher EXCEPT ![b] = r] /\ acc.rows # <<>>
    BY <1>7 DEF BatcherEmit
  <2>2. Len(acc.rows) \in 1..BatchSize[b]
    <3>1. Len(acc.rows) # 0
      BY <1>3, <2>1, EmptySeq DEF Acc
    <3> QED BY <1>3, <3>1
  <2>3. acc \in Acc /\ Aligned(acc) /\ Holds(acc, ItemsOf(b))
    BY <1>3
  <2> HIDE DEF acc
  <2>4. Meets(r.batch) /\ Holds(r.acc, ItemsOf(b)) /\ Len(r.acc.rows) < BatchSize[b]
    BY <2>2, <2>3, BuiltMeets
  <2> HIDE DEF r
  <2>5. BatcherContent'
    BY <1>1, <1>2, <2>1, <2>4, BatcherContentUpdate
  <2>6. QueueContent' /\ FrontContent'
    BY <1>1, <1>2, <1>7, BackContentUnchanged, BackContentStays DEF BatcherEmit, frontVars
  <2> QED BY <1>5, <2>5, <2>6 DEF Content, BackContent
<1>8. CASE BatcherSend(b)
  <2> DEFINE r == [batcher[b] EXCEPT !.pc = "recv", !.batch = EmptyBatch]
             batch == batcher[b].batch
  <2>1. batcher' = [batcher EXCEPT ![b] = r] /\ batchQ' = Append(batchQ, batch)
    BY <1>8 DEF BatcherSend
  <2>2. r.acc = batcher[b].acc /\ r.pc = "recv"
    BY DEF TypeInv, TypeOK
  <2>3. batchQ \in Seq(BatchType) /\ batch \in BatchType /\ Meets(batch)
    BY <1>1, <1>8 DEF BatcherSend, TypeInv, TypeOK, BackContent, BatcherContent
  <2> HIDE DEF r, batch
  <2>4. BatcherContent'
    BY <1>1, <1>2, <1>3, <2>1, <2>2, BatcherContentUpdate
  <2>5. QueueContent'
    <3>1. \A j \in DOMAIN batchQ' :
            batchQ'[j] = batch \/ \E i \in DOMAIN batchQ : batchQ'[j] = batchQ[i]
      BY <2>1, <2>3, AppendOnly
    <3> QED BY <1>1, <1>2, <2>3, <3>1, MeaningStays DEF BackContent, QueueContent
  <2>6. FrontContent'
    BY <1>1, <1>2, <1>8, BackContentStays DEF BatcherSend, frontVars
  <2> QED BY <1>5, <2>4, <2>5, <2>6 DEF Content, BackContent
<1>9. CASE BatcherBreak(b)
  <2> DEFINE r == [pc |-> "done", acc |-> EmptyAcc, batch |-> EmptyBatch]
  <2>1. batcher' = [batcher EXCEPT ![b] = r]
    BY <1>9 DEF BatcherBreak
  <2> HIDE DEF r
  <2>2. BatcherContent'
    BY <1>1, <1>2, <1>4, <2>1, BatcherContentUpdate DEF r
  <2>3. BucketContent'
    <3>1. bucketQ'[b] = <<>> /\ \A c \in Bucket : c # b => bucketQ'[c] = bucketQ[c]
      BY <1>9 DEF BatcherBreak, TypeInv, TypeOK, FrontTypeOK
    <3> QED BY <1>1, <1>2, <3>1, MeaningStays DEF BucketContent, FrontContent
  <2>4. QueueContent' /\ FrontContent'
    BY <1>1, <1>2, <1>9, <2>3, BackContentUnchanged, BackContentStays DEF BatcherBreak
  <2> QED BY <1>5, <2>2, <2>4 DEF Content, BackContent
<1>10. CASE BatcherExit(b)
  <2> DEFINE r == [batcher[b] EXCEPT !.pc = "done"]
  <2>1. batcher' = [batcher EXCEPT ![b] = r] /\ r.acc = batcher[b].acc /\ r.pc # "send"
    BY <1>10 DEF BatcherExit, TypeInv, TypeOK
  <2> HIDE DEF r
  <2>2. BatcherContent'
    BY <1>1, <1>2, <1>3, <2>1, BatcherContentUpdate
  <2>3. QueueContent' /\ FrontContent'
    BY <1>1, <1>2, <1>10, BackContentUnchanged, BackContentStays DEF BatcherExit, frontVars
  <2> QED BY <1>5, <2>2, <2>3 DEF Content, BackContent
<1> QED BY <1>6, <1>7, <1>8, <1>9, <1>10 DEF BatcherStep

LEMMA GpuStepContent ==
    ASSUME TypeInv, Content, NEW g \in Gpu, GpuStep(g)
    PROVE  Content'
<1>1. FrontInv /\ FrontContent /\ BackContent
  BY DEF TypeInv, TypeOK, FrontInv, Content
<1>2. /\ text' = text /\ tok' = tok /\ answers' = answers /\ answer' = answer
      /\ bucketQ' = bucketQ /\ batcher' = batcher
  BY DEF GpuStep, GpuRecv, GpuInfer, GpuSend, GpuExit, frontVars
<1>3. BatcherContent'
  BY <1>1, <1>2, BackContentUnchanged
<1>4. CASE GpuRecv(g)
  <2> DEFINE r == [pc |-> "infer", batch |-> Head(batchQ), out |-> NoBatch]
  <2>1. gpu' = [gpu EXCEPT ![g] = r] /\ batchQ' = Tail(batchQ)
    BY <1>4 DEF GpuRecv
  <2>2. batchQ \in Seq(BatchType) /\ batchQ # <<>>
    BY <1>4 DEF GpuRecv, TypeInv, TypeOK
  <2>3. /\ \E i \in DOMAIN batchQ : batchQ[i] = Head(batchQ)
        /\ \A j \in DOMAIN Tail(batchQ) : \E i \in DOMAIN batchQ : Tail(batchQ)[j] = batchQ[i]
    BY <2>2, TailElements
  <2>4. Meets(r.batch) /\ RightOut(r.out)
    BY <1>1, <2>3, NoBatchRight DEF BackContent, QueueContent
  <2> HIDE DEF r
  <2>5. GpuContent'
    BY <1>1, <1>2, <2>1, <2>4, GpuContentUpdate
  <2>6. QueueContent'
    BY <1>1, <1>2, <2>1, <2>3, MeaningStays DEF BackContent, QueueContent
  <2>7. FrontContent'
    BY <1>1, <1>2, <1>4, BackContentStays DEF GpuRecv, frontVars
  <2> QED BY <1>3, <2>5, <2>6, <2>7 DEF Content, BackContent
<1>5. CASE GpuInfer(g)
  <2> DEFINE batch == gpu[g].batch
  <2>1. /\ batch \in BatchType /\ Aligned(batch) /\ batch.bucket \in Bucket
        /\ Holds(batch, ItemsOf(batch.bucket))
    BY <1>1, <1>5
       DEF GpuInfer, TypeInv, TypeOK, GpusGood, GoodGpu, BackContent, GpuContent, Meets
  <2>2. PICK ok \in BOOLEAN :
          /\ IF ok THEN InsertAll(batch) ELSE UNCHANGED inserted
          /\ gpu' = [gpu EXCEPT ![g] = [pc |-> "send", batch |-> EmptyBatch,
                                        out |-> OutBatch(batch, ok)]]
    BY <1>5 DEF GpuInfer
  <2> DEFINE r == [pc |-> "send", batch |-> EmptyBatch, out |-> OutBatch(batch, ok)]
  <2>3. gpu' = [gpu EXCEPT ![g] = r]
    BY <2>2
  <2> HIDE DEF batch
  <2>4. RightOut(r.out) /\ r.pc # "infer"
    BY <1>1, <2>1, OutBatchRight DEF FrontInv
  <2> HIDE DEF r
  <2>5. GpuContent'
    BY <1>1, <1>2, <2>3, <2>4, GpuContentUpdate
  <2>6. inserted' = inserted \/ CacheContent'
    BY <1>1, <2>1, <2>2, InsertAllRight
  <2>7. FrontContent'
    BY <1>1, <1>2, <1>5, <2>6, BackContentStays DEF GpuInfer
  <2>8. QueueContent'
    BY <1>1, <1>2, <1>5, BackContentUnchanged DEF GpuInfer
  <2> QED BY <1>3, <2>5, <2>7, <2>8 DEF Content, BackContent
<1>6. CASE GpuSend(g)
  <2> DEFINE r == [pc |-> "recv", batch |-> EmptyBatch, out |-> NoBatch]
  <2>1. gpu' = [gpu EXCEPT ![g] = r]
    BY <1>6 DEF GpuSend
  <2>2. RightOut(r.out) /\ r.pc # "infer"
    BY NoBatchRight
  <2> HIDE DEF r
  <2>3. GpuContent'
    BY <1>1, <1>2, <2>1, <2>2, GpuContentUpdate
  <2>4. gpu[g].out \in OutMsg /\ RightOut(gpu[g].out) /\ SendOut(gpu[g].out)
    BY <1>1, <1>6 DEF GpuSend, TypeInv, TypeOK, BackContent, GpuContent
  <2>5. OutContent'
    BY <1>1, <1>2, <2>4, SendOutRight
  <2>6. FrontContent' /\ QueueContent'
    BY <1>1, <1>2, <1>6, <2>5, BackContentStays, BackContentUnchanged DEF GpuSend
  <2> QED BY <1>3, <2>3, <2>6 DEF Content, BackContent
<1>7. CASE GpuExit(g)
  <2> DEFINE r == [gpu[g] EXCEPT !.pc = "done"]
  <2>1. gpu' = [gpu EXCEPT ![g] = r] /\ r.pc # "infer" /\ r.out = gpu[g].out
    BY <1>7 DEF GpuExit, TypeInv, TypeOK
  <2> HIDE DEF r
  <2>2. RightOut(r.out)
    BY <1>1, <2>1 DEF BackContent, GpuContent
  <2>3. GpuContent'
    BY <1>1, <1>2, <2>1, <2>2, GpuContentUpdate
  <2>4. FrontContent' /\ QueueContent'
    BY <1>1, <1>2, <1>7, BackContentStays, BackContentUnchanged DEF GpuExit, frontVars
  <2> QED BY <1>3, <2>3, <2>4 DEF Content, BackContent
<1> QED BY <1>4, <1>5, <1>6, <1>7 DEF GpuStep

LEMMA MainContent == ASSUME TypeInv, Content, MainSpawn \/ MainRefuse PROVE Content'
<1>1. FrontContent /\ BackContent
  BY DEF Content
<1>2. /\ text' = text /\ tok' = tok /\ answers' = answers /\ answer' = answer
      /\ bucketQ' = bucketQ /\ inserted' = inserted /\ batcher' = batcher
  BY DEF MainSpawn, MainRefuse, frontVars
<1>3. CASE MainSpawn
  <2>1. \A g \in Gpu : gpu'[g].pc # "infer" /\ gpu'[g].out = gpu[g].out
    BY <1>3 DEF MainSpawn, TypeInv, TypeOK
  <2>2. GpuContent'
    BY <1>1, <1>2, <2>1, MeaningStays DEF BackContent, GpuContent
  <2>3. FrontContent' /\ BatcherContent' /\ QueueContent'
    BY <1>1, <1>2, <1>3, BackContentStays, BackContentUnchanged DEF MainSpawn, frontVars
  <2> QED BY <2>2, <2>3 DEF Content, BackContent
<1>4. CASE MainRefuse
  <2>1. OutContent' /\ QueueContent'
    BY <1>4 DEF MainRefuse, OutContent, QueueContent
  <2>2. FrontContent' /\ BatcherContent' /\ GpuContent'
    BY <1>1, <1>2, <1>4, <2>1, BackContentStays, BackContentUnchanged DEF MainRefuse
  <2> QED BY <2>1, <2>2 DEF Content, BackContent
<1> QED BY <1>3, <1>4

LEMMA StepContent == TypeInv /\ Content /\ [Next]_vars => Content'
<1> SUFFICES ASSUME TypeInv, Content, [Next]_vars PROVE Content'
  OBVIOUS
<1>1. CASE /\ \/ FrontStep(Alive, NoSender) \/ FeederBreak
              \/ \E w \in Tok : TokBreak(w, Alive)
           /\ UNCHANGED backVars
  <2>1. FrontContent'
    BY <1>1, FrontStepContent DEF TypeInv, TypeOK, FrontInv, Content
  <2>2. text' = text
    BY <1>1 DEF FrontStep, FeederSend, FeederEnd, FeederBreak, TokRecv, TokSkip, TokHit,
       TokTokenize, TokSendOut, TokSendBucket, TokBreak, TokExit, ConsumerRecv, ConsumerEnd,
       ConsumerDrop
  <2>3. BackContent'
    BY <1>1, <2>2, BackContentUnchanged DEF Content, BackContent, backVars
  <2> QED BY <2>1, <2>3 DEF Content
<1>2. ASSUME NEW b \in Bucket, BatcherStep(b) PROVE Content'
  BY <1>2, BatcherStepContent
<1>3. ASSUME NEW g \in Gpu, GpuStep(g) PROVE Content'
  BY <1>3, GpuStepContent
<1>4. CASE Finish \/ UNCHANGED vars
  <2>1. UNCHANGED <<frontVars, batcher, batchQ, gpu>>
    BY <1>4 DEF Finish, vars, backVars
  <2>2. FrontContent' /\ BackContent'
    BY <2>1, BackContentStays, BackContentUnchanged DEF Content, BackContent, frontVars
  <2> QED BY <2>2 DEF Content
<1> QED BY <1>1, <1>2, <1>3, <1>4, NextSteps, MainContent DEF BackStep

LEMMA ContentInvariant == Spec => []Content
<1>1. Init => Content
  <2> SUFFICES ASSUME Init PROVE Content
    OBVIOUS
  <2>1. FrontContent
    BY FrontInitContent DEF Init
  <2>2. BatcherContent
    BY EmptyHolds, EmptySeq, ConfigAssumption DEF Init, BatcherContent, EmptyAcc, Bucket
  <2>3. QueueContent /\ GpuContent
    BY NoBatchRight DEF Init, QueueContent, GpuContent
  <2> QED BY <2>1, <2>2, <2>3 DEF Content, BackContent
<1>2. TypeInv /\ Content /\ [Next]_vars => Content'
  BY StepContent
<1> QED BY <1>1, <1>2, TypeInvariant, PTL DEF Spec

\* Every batch a GPU worker is about to infer was padded for the bucket it
\* names, fits its arrays in both dimensions, and there is a session for that
\* bucket on that GPU: the index carried in the batch is enough.
THEOREM BatchesMeetTheirSessions == Spec => []BatchMeetsItsSession
<1>1. TypeInv /\ Closing /\ Content => BatchMeetsItsSession
  <2> SUFFICES ASSUME TypeInv, Closing, Content, NEW g \in Gpu, gpu[g].pc = "infer"
               PROVE  LET batch == gpu[g].batch
                      IN  /\ <<batch.bucket, g>> \in sessions
                          /\ Len(batch.rows) \in 1..BatchSize[batch.bucket]
                          /\ \A i \in DOMAIN batch.rows :
                                TokLen[batch.rows[i]] <= BucketLen[batch.bucket]
                          /\ batch.shape = batch.bucket
    BY DEF BatchMeetsItsSession
  <2> DEFINE batch == gpu[g].batch
  <2>1. /\ batch.bucket \in Bucket /\ batch.shape = batch.bucket
        /\ Len(batch.rows) \in 1..BatchSize[batch.bucket]
        /\ Holds(batch, ItemsOf(batch.bucket))
    BY DEF Content, BackContent, GpuContent, Meets
  <2>2. g \in Usable
    BY DEF Closing, Phases
  <2>3. <<batch.bucket, g>> \in sessions
    BY <2>1, <2>2 DEF Usable
  <2>4. \A i \in DOMAIN batch.rows : TokLen[batch.rows[i]] <= BucketLen[batch.bucket]
    BY <2>1, ItemsFit DEF TypeInv, TypeOK
  <2> QED BY <2>1, <2>3, <2>4
<1> QED BY <1>1, TypeInvariant, ClosingInvariant, ContentInvariant, PTL

\* What the caller hears of a message is an answer it may get: a row is the
\* vector of the message's own text, up to texts that share a slot of the
\* dedup cache.
THEOREM AnswersAreRight ==
    Spec => [](\A m \in Msg : answers[m] > 0 => answer[m] \in Rightful(m))
<1>1. TypeInv /\ Content => (\A m \in Msg : answers[m] > 0 => answer[m] \in Rightful(m))
  BY DEF Content, FrontContent, AnswerContent, TypeInv, TypeOK, FrontTypeOK
<1> QED BY <1>1, TypeInvariant, ContentInvariant, PTL

-----------------------------------------------------------------------------
(* No message is in two places, hence none is answered twice.              *)

\* The messages a batcher and a GPU worker hold.
BatcherHas(r) == IF r.pc = "send" THEN r.batch.ids ELSE r.acc.ids
Tidy(r)       == r.pc = "send" => r.acc.ids = <<>>
GpuHas(r)     == IF r.pc = "send" THEN r.out.ids ELSE r.batch.ids

Ready == At("ready", 0)

BatchersAt(h) ==
    \A b \in Bucket : Tidy(batcher[b]) /\ IdsAt(BatcherHas(batcher[b]), h, At("batcher", b))
ReadyAt(h) == BatchesAt(batchQ, h, Ready)
GpusAt(h)  == \A g \in Gpu : IdsAt(GpuHas(gpu[g]), h, At("gpu", g))

BackAt(h) == BatchersAt(h) /\ ReadyAt(h) /\ GpusAt(h)

Once == \E h : FrontAt(h) /\ BackAt(h)

LEMMA HasType ==
    ASSUME TypeInv
    PROVE  /\ \A b \in Bucket : BatcherHas(batcher[b]) \in Seq(Msg)
           /\ \A g \in Gpu : GpuHas(gpu[g]) \in Seq(Msg)
<1>1. \A b \in Bucket : BatcherHas(batcher[b]) \in Seq(Msg)
  BY DEF TypeInv, TypeOK, BatcherHas, Acc, BatchType
<1>2. \A g \in Gpu : GpuHas(gpu[g]) \in Seq(Msg)
  BY DEF TypeInv, TypeOK, GpuHas, BatchType, OutMsg
<1> QED BY <1>1, <1>2

\* The places behind the bucket channels are different ones, none of the front's.
LEMMA BackPlaces ==
    /\ \A b : At("batcher", b) \notin FrontPlace /\ At("batcher", b) # Ready
    /\ \A g : At("gpu", g) \notin FrontPlace /\ At("gpu", g) # Ready
    /\ Ready \notin FrontPlace
    /\ \A b, c : At("batcher", b) = At("batcher", c) <=> b = c
    /\ \A b, c : At("batcher", b) # At("bucket", c)
    /\ \A g, k : At("gpu", g) = At("gpu", k) <=> g = k
    /\ \A b, g : At("batcher", b) # At("gpu", g)
    /\ \A b, g : At("bucket", b) # At("gpu", g)
    /\ \A b : At("bucket", b) # Ready
BY PlacesDiffer DEF Ready

\* What a step leaves alone stays where it is.
LEMMA BackStays ==
    ASSUME TypeInv, NEW h, BackAt(h), NEW f
    PROVE  /\ batcher' = batcher /\ (\A b \in Bucket : Stays(h, f, At("batcher", b)))
                => BatchersAt(f)'
           /\ batchQ' = batchQ /\ Stays(h, f, Ready) => ReadyAt(f)'
           /\ gpu' = gpu /\ (\A g \in Gpu : Stays(h, f, At("gpu", g))) => GpusAt(f)'
<1>1. ASSUME batcher' = batcher, \A b \in Bucket : Stays(h, f, At("batcher", b))
      PROVE  BatchersAt(f)'
  <2>1. ASSUME NEW b \in Bucket PROVE IdsAt(BatcherHas(batcher[b]), f, At("batcher", b))
    BY <1>1, HasType, StaysAt DEF BackAt, BatchersAt
  <2> QED BY <1>1, <2>1 DEF BackAt, BatchersAt
<1>2. ASSUME batchQ' = batchQ, Stays(h, f, Ready) PROVE ReadyAt(f)'
  <2>1. batchQ \in Seq(BatchType) /\ BatchesAt(batchQ, h, Ready)
    BY DEF TypeInv, TypeOK, BackAt, ReadyAt
  <2>2. BatchesAt(batchQ, f, Ready)
    BY <1>2, <2>1, StaysAt
  <2> QED BY <1>2, <2>2 DEF ReadyAt
<1>3. ASSUME gpu' = gpu, \A g \in Gpu : Stays(h, f, At("gpu", g)) PROVE GpusAt(f)'
  <2>1. ASSUME NEW g \in Gpu PROVE IdsAt(GpuHas(gpu[g]), f, At("gpu", g))
    BY <1>3, HasType, StaysAt DEF BackAt, GpusAt
  <2> QED BY <1>3, <2>1 DEF GpusAt
<1> QED BY <1>1, <1>2, <1>3

LEMMA BatchersAtUpdate ==
    ASSUME TypeInv, NEW h, BackAt(h), NEW f, NEW b \in Bucket, NEW r,
           batcher' = [batcher EXCEPT ![b] = r], Tidy(r),
           IdsAt(BatcherHas(r), f, At("batcher", b)),
           \A c \in Bucket : c # b => Stays(h, f, At("batcher", c))
    PROVE  BatchersAt(f)'
<1>1. batcher'[b] = r /\ \A c \in Bucket : c # b => batcher'[c] = batcher[c]
  BY DEF TypeInv, TypeOK
<1>2. ASSUME NEW c \in Bucket, c # b
      PROVE  Tidy(batcher[c]) /\ IdsAt(BatcherHas(batcher[c]), f, At("batcher", c))
  BY <1>2, HasType, StaysAt DEF BackAt, BatchersAt
<1> QED BY <1>1, <1>2 DEF BatchersAt

LEMMA GpusAtUpdate ==
    ASSUME TypeInv, NEW h, BackAt(h), NEW f, NEW g \in Gpu, NEW r,
           gpu' = [gpu EXCEPT ![g] = r], IdsAt(GpuHas(r), f, At("gpu", g)),
           \A k \in Gpu : k # g => Stays(h, f, At("gpu", k))
    PROVE  GpusAt(f)'
<1>1. gpu'[g] = r /\ \A k \in Gpu : k # g => gpu'[k] = gpu[k]
  BY DEF TypeInv, TypeOK
<1>2. ASSUME NEW k \in Gpu, k # g PROVE IdsAt(GpuHas(gpu[k]), f, At("gpu", k))
  BY <1>2, HasType, StaysAt DEF BackAt, GpusAt
<1> QED BY <1>1, <1>2 DEF GpusAt

LEMMA BatcherStepOnce ==
    ASSUME TypeInv, Once, NEW b \in Bucket, BatcherStep(b)
    PROVE  Once'
<1>1. PICK h : FrontAt(h) /\ BackAt(h)
  BY DEF Once
<1>2. FrontInv /\ Tidy(batcher[b]) /\ IdsAt(BatcherHas(batcher[b]), h, At("batcher", b))
  BY <1>1 DEF TypeInv, TypeOK, FrontInv, BackAt, BatchersAt
<1>3. /\ batcher[b].acc \in Acc /\ Aligned(batcher[b].acc)
      /\ batcher[b].acc \in AccOf(Text, Msg, Nat)
  BY DEF TypeInv, TypeOK, BatchersGood, GoodBatcher, Acc, AccOf
<1>4. \A p : Stays(h, h, p)
  BY DEF Stays
\* A step that changes this batcher's record only and moves nothing.
<1>5. ASSUME NEW r, batcher' = [batcher EXCEPT ![b] = r], Tidy(r),
             BatcherHas(r) = BatcherHas(batcher[b]),
             UNCHANGED <<fed, inputQ, tok, bucketQ, outQ, answers, batchQ, gpu>>
      PROVE  Once'
  <2>1. FrontAt(h)'
    BY <1>1, <1>2, <1>4, <1>5, BackMoveAt
  <2>2. BatchersAt(h)'
    BY <1>1, <1>2, <1>4, <1>5, BatchersAtUpdate
  <2>3. ReadyAt(h)' /\ GpusAt(h)'
    BY <1>1, <1>4, <1>5, BackStays
  <2> QED BY <2>1, <2>2, <2>3 DEF Once, BackAt
<1>6. CASE BatcherRecv(b)
  <2>1. PICK e, f : /\ e = Head(bucketQ[b]).id /\ e \in Msg /\ h[e] = At("bucket", b)
                    /\ f = Moved(h, e, At("batcher", b)) /\ FrontAt(f)'
    <3>1. /\ bucketQ[b] # <<>> /\ bucketQ'[b] = Tail(bucketQ[b])
          /\ \A c \in Bucket : c # b => bucketQ'[c] = bucketQ[c]
      BY <1>6 DEF BatcherRecv, TypeInv, TypeOK, FrontTypeOK
    <3>2. UNCHANGED <<fed, inputQ, tok, outQ, answers>>
      BY <1>6 DEF BatcherRecv
    <3> QED BY <1>1, <1>2, <3>1, <3>2, BucketRecvAt, BackPlaces
  <2>2. PICK acc : acc = Push(batcher[b].acc, Head(bucketQ[b]))
    OBVIOUS
  <2>3. PICK r : /\ batcher' = [batcher EXCEPT ![b] = r]
                 /\ r = IF Filled(acc, BatchSize[b])
                        THEN [pc |-> "send", acc |-> Drain(acc), batch |-> BuildBatch(acc, b)]
                        ELSE [batcher[b] EXCEPT !.acc = acc]
    BY <1>6, <2>2 DEF BatcherRecv
  <2>4. acc \in Acc /\ Aligned(acc) /\ acc \in AccOf(Text, Msg, Nat)
    <3>1. acc \in Acc /\ Aligned(acc)
      BY <1>6, <2>2, PushedAcc
    <3> QED BY <3>1 DEF Acc, AccOf
  <2>5. acc.ids = Append(batcher[b].acc.ids, e)
    BY <2>1, <2>2 DEF Push
  <2>6. BatcherHas(batcher[b]) = batcher[b].acc.ids /\ batcher[b].acc.ids \in Seq(Msg)
    BY <1>3, <1>6 DEF BatcherHas, BatcherRecv, Acc
  <2>7. IdsAt(acc.ids, f, At("batcher", b))
    BY <1>2, <2>1, <2>5, <2>6, AppendId, BackPlaces
  <2>8. BuildBatch(acc, b).ids = acc.ids /\ Drain(acc).ids = <<>>
    BY <2>4, BuildBatchTakesAll, BatchInHand DEF EmptyAcc
  <2>9. Tidy(r) /\ BatcherHas(r) = acc.ids
    <3>1. CASE Filled(acc, BatchSize[b])
      BY <2>3, <2>8, <3>1 DEF Tidy, BatcherHas
    <3>2. CASE ~Filled(acc, BatchSize[b])
      <4>1. r.pc = "recv" /\ r.acc = acc
        BY <1>6, <2>3, <3>2 DEF BatcherRecv, TypeInv, TypeOK
      <4> QED BY <4>1 DEF Tidy, BatcherHas
    <3> QED BY <3>1, <3>2
  <2>10. \A p : p # At("bucket", b) => Stays(h, f, p)
    BY <2>1, MoveStays
  <2>11. BatchersAt(f)'
    <3>1. \A c \in Bucket : Stays(h, f, At("batcher", c))
      BY <2>10, BackPlaces
    <3> QED BY <1>1, <2>3, <2>7, <2>9, <3>1, BatchersAtUpdate
  <2>12. ReadyAt(f)' /\ GpusAt(f)'
    <3>1. Stays(h, f, Ready) /\ \A g \in Gpu : Stays(h, f, At("gpu", g))
      BY <2>10, BackPlaces
    <3> QED BY <1>1, <1>6, <3>1, BackStays DEF BatcherRecv
  <2> QED BY <2>1, <2>11, <2>12 DEF Once, BackAt
<1>7. CASE BatcherEmit(b)
  <2>1. PICK acc : acc = batcher[b].acc
    OBVIOUS
  <2>2. PICK r : /\ batcher' = [batcher EXCEPT ![b] = r]
                 /\ r = [pc |-> "send", acc |-> Drain(acc), batch |-> BuildBatch(acc, b)]
    BY <1>7, <2>1 DEF BatcherEmit
  <2>3. BuildBatch(acc, b).ids = acc.ids /\ Drain(acc).ids = <<>>
    BY <1>3, <2>1, BuildBatchTakesAll, BatchInHand DEF EmptyAcc
  <2>4. BatcherHas(batcher[b]) = acc.ids
    BY <1>7, <2>1 DEF BatcherHas, BatcherEmit
  <2>5. Tidy(r) /\ BatcherHas(r) = BatcherHas(batcher[b])
    BY <2>2, <2>3, <2>4 DEF Tidy, BatcherHas
  <2> QED BY <1>5, <1>7, <2>2, <2>5 DEF BatcherEmit, frontVars
<1>8. CASE BatcherSend(b)
  <2>1. PICK o : o = batcher[b].batch
    OBVIOUS
  <2>2. PICK r : /\ batcher' = [batcher EXCEPT ![b] = r]
                 /\ r = [batcher[b] EXCEPT !.pc = "recv", !.batch = EmptyBatch]
    BY <1>8 DEF BatcherSend
  <2>3. /\ o \in BatchType /\ BatcherHas(batcher[b]) = o.ids /\ batcher[b].acc.ids = <<>>
        /\ batchQ \in Seq(BatchType) /\ batchQ' = Append(batchQ, o)
    BY <1>2, <1>8, <2>1 DEF BatcherSend, TypeInv, TypeOK, BatcherHas, Tidy
  <2>4. IdsAt(o.ids, h, At("batcher", b))
    BY <1>2, <2>3
  <2>5. PICK f : f = MovedAll(h, o.ids, Ready)
    OBVIOUS
  <2>6. \A p : p # At("batcher", b) => Stays(h, f, p)
    BY <2>4, <2>5, MoveStays
  <2>7. FrontAt(f)'
    <3>1. \A p \in FrontPlace : Stays(h, f, p)
      BY <2>6, BackPlaces
    <3>2. Stays(h, f, Caller)
      BY <2>6, BackPlaces DEF FrontPlace
    <3>3. UNCHANGED <<fed, inputQ, tok, bucketQ, outQ, answers>>
      BY <1>8 DEF BatcherSend, frontVars
    <3> QED BY <1>1, <1>2, <3>1, <3>2, <3>3, BackMoveAt
  <2>8. BatchersAt(f)'
    <3>1. Tidy(r) /\ BatcherHas(r) = <<>>
      <4>1. r.pc = "recv" /\ r.acc = batcher[b].acc
        BY <2>2 DEF TypeInv, TypeOK
      <4> QED BY <2>3, <4>1 DEF Tidy, BatcherHas
    <3>2. IdsAt(BatcherHas(r), f, At("batcher", b))
      BY <3>1 DEF IdsAt
    <3>3. \A c \in Bucket : c # b => Stays(h, f, At("batcher", c))
      BY <2>6, BackPlaces
    <3> QED BY <1>1, <2>2, <3>1, <3>2, <3>3, BatchersAtUpdate
  <2>9. ReadyAt(f)'
    <3>1. BatchesAt(batchQ, h, Ready)
      BY <1>1 DEF BackAt, ReadyAt
    <3>2. BatchesAt(Append(batchQ, o), MovedAll(h, o.ids, Ready), Ready)
      BY <2>3, <2>4, <3>1, AppendBatch, BackPlaces
    <3> QED BY <2>3, <2>5, <3>2 DEF ReadyAt
  <2>10. GpusAt(f)'
    <3>1. \A g \in Gpu : Stays(h, f, At("gpu", g))
      BY <2>6, BackPlaces
    <3> QED BY <1>1, <1>8, <3>1, BackStays DEF BatcherSend
  <2> QED BY <2>7, <2>8, <2>9, <2>10 DEF Once, BackAt
\* What a batcher that gives up had in hand or in its channel is nowhere.
<1>9. CASE BatcherBreak(b)
  <2>1. PICK r : /\ batcher' = [batcher EXCEPT ![b] = r]
                 /\ r = [pc |-> "done", acc |-> EmptyAcc, batch |-> EmptyBatch]
    BY <1>9 DEF BatcherBreak
  <2>2. Tidy(r) /\ BatcherHas(r) = <<>>
    BY <2>1 DEF Tidy, BatcherHas, EmptyAcc
  <2>3. IdsAt(BatcherHas(r), h, At("batcher", b))
    BY <2>2 DEF IdsAt
  <2>4. BatchersAt(h)'
    BY <1>1, <1>4, <2>1, <2>2, <2>3, BatchersAtUpdate
  <2>5. ReadyAt(h)' /\ GpusAt(h)'
    BY <1>1, <1>4, <1>9, BackStays DEF BatcherBreak
  <2>6. \A c \in Bucket : bucketQ'[c] = bucketQ[c] \/ bucketQ'[c] = <<>>
    BY <1>9 DEF BatcherBreak, TypeInv, TypeOK, FrontTypeOK
  <2>7. \A c \in Bucket : ItemsAt(bucketQ'[c], h, At("bucket", c))
    BY <1>1, <2>6 DEF FrontAt, ItemsAt
  <2>8. fed' = fed /\ inputQ' = inputQ /\ tok' = tok /\ outQ' = outQ /\ answers' = answers
    BY <1>9 DEF BatcherBreak
  <2>9. FrontAt(h)'
    BY <1>1, <2>7, <2>8 DEF FrontAt
  <2> QED BY <2>4, <2>5, <2>9 DEF Once, BackAt
<1>10. CASE BatcherExit(b)
  <2>1. PICK r : /\ batcher' = [batcher EXCEPT ![b] = r]
                 /\ r = [batcher[b] EXCEPT !.pc = "done"]
    BY <1>10 DEF BatcherExit
  <2>2. r.pc = "done" /\ r.acc = batcher[b].acc /\ batcher[b].pc = "recv"
    BY <1>10, <2>1 DEF BatcherExit, TypeInv, TypeOK
  <2>3. Tidy(r) /\ BatcherHas(r) = BatcherHas(batcher[b])
    BY <2>2 DEF Tidy, BatcherHas
  <2> QED BY <1>5, <1>10, <2>1, <2>3 DEF BatcherExit, frontVars
<1> QED BY <1>6, <1>7, <1>8, <1>9, <1>10 DEF BatcherStep, BatcherTimeout, BatcherFlush

LEMMA GpuStepOnce ==
    ASSUME TypeInv, Once, NEW g \in Gpu, GpuStep(g)
    PROVE  Once'
<1>1. PICK h : FrontAt(h) /\ BackAt(h)
  BY DEF Once
<1>2. FrontInv /\ IdsAt(GpuHas(gpu[g]), h, At("gpu", g))
  BY <1>1 DEF TypeInv, TypeOK, FrontInv, BackAt, GpusAt
<1>3. \A p : Stays(h, h, p)
  BY DEF Stays
\* A step that changes this worker's record only and moves nothing.
<1>4. ASSUME NEW r, gpu' = [gpu EXCEPT ![g] = r], GpuHas(r) = GpuHas(gpu[g]),
             UNCHANGED <<fed, inputQ, tok, bucketQ, outQ, answers, batchQ, batcher>>
      PROVE  Once'
  <2>1. FrontAt(h)'
    BY <1>1, <1>2, <1>3, <1>4, BackMoveAt
  <2>2. GpusAt(h)'
    BY <1>1, <1>2, <1>3, <1>4, GpusAtUpdate
  <2>3. ReadyAt(h)' /\ BatchersAt(h)'
    BY <1>1, <1>3, <1>4, BackStays
  <2> QED BY <2>1, <2>2, <2>3 DEF Once, BackAt
<1>5. CASE GpuRecv(g)
  <2>1. PICK o : o = Head(batchQ)
    OBVIOUS
  <2>2. PICK r : /\ gpu' = [gpu EXCEPT ![g] = r]
                 /\ r = [pc |-> "infer", batch |-> o, out |-> NoBatch]
    BY <1>5, <2>1 DEF GpuRecv
  <2>3. PICK f : f = MovedAll(h, o.ids, At("gpu", g))
    OBVIOUS
  <2>4. /\ batchQ \in Seq(BatchType) /\ batchQ # <<>> /\ batchQ' = Tail(batchQ)
        /\ BatchesAt(batchQ, h, Ready)
    BY <1>1, <1>5 DEF GpuRecv, TypeInv, TypeOK, BackAt, ReadyAt
  <2>5. /\ BatchesAt(Tail(batchQ), f, Ready) /\ o \in BatchType /\ IdsAt(o.ids, h, Ready)
    BY <2>1, <2>3, <2>4, TailBatch
  <2>6. \A p : p # Ready => Stays(h, f, p)
    BY <2>3, <2>5, MoveStays
  <2>7. FrontAt(f)'
    <3>1. \A p \in FrontPlace : Stays(h, f, p)
      BY <2>6, BackPlaces
    <3>2. Stays(h, f, Caller)
      BY <2>6, BackPlaces DEF FrontPlace
    <3>3. UNCHANGED <<fed, inputQ, tok, bucketQ, outQ, answers>>
      BY <1>5 DEF GpuRecv, frontVars
    <3> QED BY <1>1, <1>2, <3>1, <3>2, <3>3, BackMoveAt
  <2>8. BatchersAt(f)'
    <3>1. \A b \in Bucket : Stays(h, f, At("batcher", b))
      BY <2>6, BackPlaces
    <3> QED BY <1>1, <1>5, <3>1, BackStays DEF GpuRecv
  <2>9. ReadyAt(f)'
    BY <2>4, <2>5 DEF ReadyAt
  <2>10. GpusAt(f)'
    <3>1. GpuHas(r) = o.ids /\ o.ids \in Seq(Msg)
      BY <2>2, <2>5 DEF GpuHas, BatchType
    <3>2. IdsAt(GpuHas(r), f, At("gpu", g))
      BY <2>3, <2>5, <3>1, MovedIdsAt
    <3>3. \A k \in Gpu : Stays(h, f, At("gpu", k))
      BY <2>6, BackPlaces
    <3> QED BY <1>1, <2>2, <3>2, <3>3, GpusAtUpdate
  <2> QED BY <2>7, <2>8, <2>9, <2>10 DEF Once, BackAt
<1>6. CASE GpuInfer(g)
  <2>1. PICK ok, r : /\ gpu' = [gpu EXCEPT ![g] = r]
                     /\ r = [pc |-> "send", batch |-> EmptyBatch,
                             out |-> OutBatch(gpu[g].batch, ok)]
    BY <1>6 DEF GpuInfer
  <2>2. OutBatch(gpu[g].batch, ok).ids = gpu[g].batch.ids /\ gpu[g].pc = "infer"
    BY <1>6 DEF OutBatch, GpuInfer
  <2>3. GpuHas(r) = GpuHas(gpu[g])
    BY <2>1, <2>2 DEF GpuHas
  <2> QED BY <1>4, <1>6, <2>1, <2>3 DEF GpuInfer
<1>7. CASE GpuSend(g)
  <2>1. PICK o : o = gpu[g].out
    OBVIOUS
  <2>2. PICK r : /\ gpu' = [gpu EXCEPT ![g] = r]
                 /\ r = [pc |-> "recv", batch |-> EmptyBatch, out |-> NoBatch]
    BY <1>7 DEF GpuSend
  <2>3. /\ o \in OutMsg /\ SendOut(o) /\ GpuHas(gpu[g]) = o.ids
        /\ UNCHANGED <<fed, inputQ, tok, bucketQ, answers>>
    BY <1>7, <2>1 DEF GpuSend, TypeInv, TypeOK, GpuHas
  <2>4. IdsAt(o.ids, h, At("gpu", g))
    BY <1>2, <2>3
  <2>5. PICK f : f = MovedAll(h, o.ids, Out) /\ FrontAt(f)'
    BY <1>1, <1>2, <2>3, <2>4, BackSendAt, BackPlaces
  <2>6. \A p : p # At("gpu", g) => Stays(h, f, p)
    BY <2>4, <2>5, MoveStays
  <2>7. GpusAt(f)'
    <3>1. GpuHas(r) = <<>>
      BY <2>2 DEF GpuHas, EmptyBatch
    <3>2. IdsAt(GpuHas(r), f, At("gpu", g))
      BY <3>1 DEF IdsAt
    <3>3. \A k \in Gpu : k # g => Stays(h, f, At("gpu", k))
      BY <2>6, BackPlaces
    <3> QED BY <1>1, <2>2, <3>2, <3>3, GpusAtUpdate
  <2>8. BatchersAt(f)' /\ ReadyAt(f)'
    <3>1. Stays(h, f, Ready) /\ \A b \in Bucket : Stays(h, f, At("batcher", b))
      BY <2>6, BackPlaces
    <3> QED BY <1>1, <1>7, <3>1, BackStays DEF GpuSend
  <2> QED BY <2>5, <2>7, <2>8 DEF Once, BackAt
<1>8. CASE GpuExit(g)
  <2>1. PICK r : gpu' = [gpu EXCEPT ![g] = r] /\ r = [gpu[g] EXCEPT !.pc = "done"]
    BY <1>8 DEF GpuExit
  <2>2. GpuHas(r) = GpuHas(gpu[g])
    BY <1>8, <2>1 DEF GpuExit, GpuHas, TypeInv, TypeOK
  <2> QED BY <1>4, <1>8, <2>1, <2>2 DEF GpuExit, frontVars
<1> QED BY <1>5, <1>6, <1>7, <1>8 DEF GpuStep

LEMMA MainOnce == ASSUME TypeInv, Once, MainSpawn \/ MainRefuse PROVE Once'
<1>1. PICK h : FrontAt(h) /\ BackAt(h)
  BY DEF Once
<1>2. \A p : Stays(h, h, p)
  BY DEF Stays
<1>3. BatchersAt(h)'
  BY <1>1, <1>2, BackStays DEF MainSpawn, MainRefuse
<1>4. CASE MainSpawn
  <2>1. FrontAt(h)'
    BY <1>1, <1>2, <1>4, BackMoveAt DEF MainSpawn, frontVars, TypeInv, TypeOK, FrontInv
  <2>2. ReadyAt(h)'
    BY <1>1, <1>2, <1>4, BackStays DEF MainSpawn
  <2>3. ASSUME NEW g \in Gpu PROVE GpuHas(gpu'[g]) = GpuHas(gpu[g])
    <3>1. gpu'[g].batch = gpu[g].batch /\ gpu'[g].pc # "send" /\ gpu[g].pc # "send"
      BY <1>4 DEF MainSpawn, TypeInv, TypeOK, NotStarted
    <3> QED BY <3>1 DEF GpuHas
  <2>4. GpusAt(h)'
    BY <1>1, <2>3 DEF BackAt, GpusAt
  <2> QED BY <1>3, <2>1, <2>2, <2>4 DEF Once, BackAt
<1>5. CASE MainRefuse
  <2>1. BatchesAt(outQ', h, Out) /\ ReadyAt(h)'
    BY <1>5 DEF MainRefuse, BatchesAt, ReadyAt
  <2>2. GpusAt(h)'
    BY <1>1, <1>2, <1>5, BackStays DEF MainRefuse
  <2>3. fed' = fed /\ inputQ' = inputQ /\ tok' = tok /\ bucketQ' = bucketQ /\ answers' = answers
    BY <1>5 DEF MainRefuse
  <2>4. FrontAt(h)'
    BY <1>1, <2>1, <2>3 DEF FrontAt
  <2> QED BY <1>3, <2>1, <2>2, <2>4 DEF Once, BackAt
<1> QED BY <1>4, <1>5

LEMMA StepOnce == TypeInv /\ Once /\ [Next]_vars => Once'
<1> SUFFICES ASSUME TypeInv, Once, [Next]_vars PROVE Once'
  OBVIOUS
<1>1. PICK h : FrontAt(h) /\ BackAt(h)
  BY DEF Once
<1>2. CASE /\ \/ FrontStep(Alive, NoSender) \/ FeederBreak
              \/ \E w \in Tok : TokBreak(w, Alive)
           /\ UNCHANGED backVars
  <2>1. PICK f : FrontAt(f)' /\ Leaves(h, f)
    BY <1>1, <1>2, FrontStepAt DEF TypeInv, TypeOK, FrontInv
  <2>2. /\ \A b \in Bucket : Stays(h, f, At("batcher", b))
        /\ Stays(h, f, Ready) /\ \A g \in Gpu : Stays(h, f, At("gpu", g))
    BY <2>1, LeavesStays, BackPlaces
  <2>3. BackAt(f)'
    BY <1>1, <1>2, <2>2, BackStays DEF BackAt, backVars
  <2> QED BY <2>1, <2>3 DEF Once
<1>3. ASSUME NEW b \in Bucket, BatcherStep(b) PROVE Once'
  BY <1>3, BatcherStepOnce
<1>4. ASSUME NEW g \in Gpu, GpuStep(g) PROVE Once'
  BY <1>4, GpuStepOnce
<1>5. CASE Finish \/ UNCHANGED vars
  <2>1. UNCHANGED <<frontVars, batcher, batchQ, gpu>>
    BY <1>5 DEF Finish, vars, backVars
  <2>2. \A p : Stays(h, h, p)
    BY DEF Stays
  <2>3. FrontAt(h)'
    BY <1>1, <2>1, <2>2, BackMoveAt DEF TypeInv, TypeOK, FrontInv, frontVars
  <2>4. BackAt(h)'
    BY <1>1, <2>1, <2>2, BackStays DEF BackAt
  <2> QED BY <2>3, <2>4 DEF Once
<1> QED BY <1>2, <1>3, <1>4, <1>5, NextSteps, MainOnce DEF BackStep

LEMMA OnceInvariant == Spec => []Once
<1>1. Init => Once
  <2> SUFFICES ASSUME Init PROVE Once
    OBVIOUS
  <2>1. PICK h : h = [m \in Msg |-> Source]
    OBVIOUS
  <2>2. FrontAt(h)
    BY <2>1, FrontInitAt DEF Init
  <2>3. BatchersAt(h)
    BY DEF Init, BatchersAt, IdsAt, Tidy, BatcherHas, EmptyAcc
  <2>4. ReadyAt(h) /\ GpusAt(h)
    BY DEF Init, ReadyAt, BatchesAt, GpusAt, GpuHas, EmptyBatch, IdsAt
  <2> QED BY <2>2, <2>3, <2>4 DEF Once, BackAt
<1>2. TypeInv /\ Once /\ [Next]_vars => Once'
  BY StepOnce
<1> QED BY <1>1, <1>2, TypeInvariant, PTL DEF Spec

-----------------------------------------------------------------------------
(* The promise to the caller.                                              *)

LEMMA InitContract == Init => Contract!Init
BY TextAssumption DEF Init, FrontInit, Contract!Init, Contract!Msg, Msg, NoAnswer

\* The contract's rightful answers are those of the model.
LEMMA SameRightful ==
    ASSUME TypeInv, NEW m \in Msg PROVE Contract!Rightful(m) = Rightful(m)
<1>1. text[m] \in Text
  BY DEF TypeInv, TypeOK, FrontTypeOK
<1> QED BY <1>1 DEF Contract!Rightful, Rightful

\* The stream ends only when every message has been answered.
EndIsComplete == rx = "ended" => \A m \in Msg : answers[m] > 0

LEMMA StepContract ==
    TypeInv /\ Closing /\ Content /\ Once /\ EndIsComplete' /\ [Next]_vars
        => [Contract!Next]_(Contract!cvars)
<1> SUFFICES ASSUME TypeInv, Closing, Content, Once, EndIsComplete', [Next]_vars
             PROVE  Contract!Next \/ UNCHANGED Contract!cvars
  OBVIOUS
<1>1. FrontInv /\ FrontContent
  BY DEF TypeInv, TypeOK, FrontInv, Content
<1>2. PICK h : FrontAt(h)
  BY DEF Once
<1>3. CASE ConsumerRecv
  <2>1. PICK S \in SUBSET Msg :
          /\ \A m \in S : answers[m] = 0 /\ answer'[m] \in Rightful(m)
          /\ answers' = [m \in Msg |-> IF m \in S THEN 1 ELSE answers[m]]
          /\ answer' = [m \in Msg |-> IF m \in S THEN answer'[m] ELSE answer[m]]
    BY <1>1, <1>2, <1>3, RecvDelivers
  <2>2. text' = text /\ rx' = rx /\ rx = "open"
    BY <1>3 DEF ConsumerRecv
  <2>3. CASE S = {}
    <3>1. answers' = answers /\ answer' = answer
      BY <2>1, <2>3 DEF TypeInv, TypeOK, FrontTypeOK
    <3> QED BY <2>2, <3>1 DEF Contract!cvars
  <2>4. CASE S # {}
    <3>1. PICK a : a = [m \in S |-> answer'[m]]
      OBVIOUS
    <3>2. \A m \in S : a[m] = answer'[m] /\ a[m] \in Contract!Rightful(m)
      BY <2>1, <3>1, SameRightful
    <3>3. a \in [S -> UNION {Contract!Rightful(m) : m \in S}]
      BY <3>1, <3>2
    <3>4. answer' = [m \in Msg |-> IF m \in S THEN a[m] ELSE answer[m]]
      BY <2>1, <3>2
    <3>5. Contract!Deliver(S)
      BY <2>1, <2>2, <2>4, <3>2, <3>3, <3>4 DEF Contract!Deliver, Contract!Msg, Msg
    <3> QED BY <3>5 DEF Contract!Next, Contract!Msg, Msg
  <2> QED BY <2>3, <2>4
<1>4. CASE ConsumerEnd(NoSender)
  <2>1. \A m \in Msg : answers[m] = 1
    BY <1>2, <1>4 DEF ConsumerEnd, EndIsComplete, FrontAt
  <2>2. Contract!End
    BY <1>4, <2>1 DEF ConsumerEnd, Contract!End, Contract!Msg, Msg
  <2> QED BY <2>2 DEF Contract!Next
<1>5. CASE ConsumerDrop
  BY <1>5 DEF ConsumerDrop, Contract!Drop, Contract!Next
\* A refused call: nothing has been received, the receiver goes away.
<1>6. CASE MainRefuse
  BY <1>6 DEF MainRefuse, Closing, Phases, Contract!Drop, Contract!Next
<1>7. CASE FeederSend \/ FeederEnd \/ FeederBreak \/ MainSpawn \/ Finish \/ UNCHANGED vars
  BY <1>7 DEF FeederSend, FeederEnd, FeederBreak, MainSpawn, Finish, frontVars, vars,
              Contract!cvars
<1>8. ASSUME NEW w \in Tok, TokStep(w) PROVE UNCHANGED Contract!cvars
  BY <1>8 DEF TokStep, TokRecv, TokSkip, TokHit, TokTokenize, TokSendOut, TokSendBucket,
              TokBreak, TokExit, Contract!cvars
<1>9. ASSUME NEW b \in Bucket, BatcherStep(b) PROVE UNCHANGED Contract!cvars
  BY <1>9 DEF BatcherStep, BatcherRecv, BatcherTimeout, BatcherFlush, BatcherEmit,
              BatcherSend, BatcherBreak, BatcherExit, frontVars, Contract!cvars
<1>10. ASSUME NEW g \in Gpu, GpuStep(g) PROVE UNCHANGED Contract!cvars
  BY <1>10 DEF GpuStep, GpuRecv, GpuInfer, GpuSend, GpuExit, frontVars, Contract!cvars
<1> QED BY <1>3, <1>4, <1>5, <1>6, <1>7, <1>8, <1>9, <1>10
        DEF Next, TokStep, BatcherStep, GpuStep, Stopped

\* Engine::embed on several GPUs keeps its promise, whatever the threads do and
\* whether the call is refused: every message gets at most one answer, one its
\* text may get, and the stream ends only when every message has been answered.
THEOREM MultiGpuKeepsContract == Spec => ContractHolds
<1>1. TypeInv /\ Closing /\ Content /\ Once /\ EndIsComplete' /\ [Next]_vars
        => [Contract!Next]_(Contract!cvars)
  BY StepContract
<1>2. Spec => []EndIsComplete
  BY StreamEndIsComplete DEF EndIsComplete
<1> QED BY <1>1, <1>2, InitContract, TypeInvariant, ClosingInvariant, ContentInvariant,
           OnceInvariant, PTL DEF Spec, ContractHolds, Contract!Spec

-----------------------------------------------------------------------------
(* The report of finish().  What a batcher has received is in its buffers, *)
(* in the batch it is about to send, in the ready-batch channel, on a GPU, *)
(* or counted in rows; when everything has been joined, only in rows.      *)

\* The rows in the hands of batcher r.
Load(r) == Len(r.acc.rows) + Len(r.batch.rows)

Pending   == [b \in Bucket |-> Load(batcher[b])]
RowsOf(q) == [i \in DOMAIN q |-> Len(q[i].rows)]
OnGpu     == [g \in Gpu |-> Len(gpu[g].batch.rows)]

\* All of them, wherever they are.
Everywhere == SumFunction(Pending) + SumFunction(RowsOf(batchQ)) + SumFunction(OnGpu)
                + SumFunction(rows)

Tally ==
    /\ embed # "refused" => Counted /\ Received = Everywhere
    /\ finished => embed = "running" /\ ToksDone /\ BatchersDone /\ GpusDone

LEMMA NoRows == Len(EmptyAcc.rows) = 0 /\ Len(EmptyBatch.rows) = 0
BY EmptySeq DEF EmptyAcc, EmptyBatch

LEMMA NoLoad ==
    ASSUME NEW r, r.acc.rows = EmptyAcc.rows, r.batch = EmptyBatch
    PROVE  Load(r) = 0
<1>1. Len(r.acc.rows) = 0 /\ Len(r.batch.rows) = 0
  BY NoRows
<1>2. PICK k \in {0} : k = Len(r.acc.rows)
  BY <1>1
<1>3. PICK i \in {0} : i = Len(r.batch.rows)
  BY <1>1
<1>4. k + i = 0
  OBVIOUS
<1> QED BY <1>2, <1>3, <1>4 DEF Load

LEMMA LoadType ==
    ASSUME TypeInv, NEW b \in Bucket
    PROVE  Load(batcher[b]) \in Nat
<1>1. PICK k \in Nat : k = Len(batcher[b].acc.rows)
  BY LenProperties DEF TypeInv, TypeOK, Acc
<1>2. PICK i \in Nat : i = Len(batcher[b].batch.rows)
  BY LenProperties DEF TypeInv, TypeOK, BatchType
<1>3. Load(batcher[b]) = k + i
  BY <1>1, <1>2 DEF Load
<1> QED BY <1>3

LEMMA OnGpuType ==
    ASSUME TypeInv, NEW g \in Gpu
    PROVE  Len(gpu[g].batch.rows) \in Nat
BY LenProperties DEF TypeInv, TypeOK, BatchType

LEMMA RowsOfType ==
    ASSUME NEW q \in Seq(BatchType)
    PROVE  /\ DOMAIN RowsOf(q) = 1..Len(q) /\ Len(q) \in Nat /\ IsFiniteSet(1..Len(q))
           /\ \A i \in 1..Len(q) : RowsOf(q)[i] = Len(q[i].rows) /\ RowsOf(q)[i] \in Nat
<1>1. Len(q) \in Nat /\ DOMAIN q = 1..Len(q) /\ \A i \in 1..Len(q) : q[i] \in BatchType
  BY LenProperties, ElementOfSeq
<1>2. \A i \in 1..Len(q) : Len(q[i].rows) \in Nat
  BY <1>1, LenProperties DEF BatchType
<1>3. IsFiniteSet(1..Len(q))
  BY <1>1, FS_Interval
<1> QED BY <1>1, <1>2, <1>3 DEF RowsOf

\* Every part of the sum is a number.
LEMMA PartsType ==
    ASSUME TypeInv
    PROVE  /\ SumFunction(Pending) \in Int /\ SumFunction(RowsOf(batchQ)) \in Int
           /\ SumFunction(OnGpu) \in Int /\ SumFunction(rows) \in Int
<1>1. ASSUME NEW f, IsFiniteSet(DOMAIN f), \A x \in DOMAIN f : f[x] \in Nat
      PROVE  SumFunction(f) \in Int
  <2>1. \A x \in DOMAIN f : f[x] \in Int
    BY <1>1
  <2> QED BY <1>1, <2>1, SumOfNumbers DEF SumFunction
<1>2. IsFiniteSet(DOMAIN Pending) /\ \A b \in DOMAIN Pending : Pending[b] \in Nat
  BY BucketsFinite, LoadType DEF Pending
<1>3. IsFiniteSet(DOMAIN RowsOf(batchQ)) /\ \A i \in DOMAIN RowsOf(batchQ) : RowsOf(batchQ)[i] \in Nat
  BY RowsOfType DEF TypeInv, TypeOK
<1>4. IsFiniteSet(DOMAIN OnGpu) /\ \A g \in DOMAIN OnGpu : OnGpu[g] \in Nat
  BY MultiAssumption, OnGpuType DEF OnGpu
<1>5. IsFiniteSet(DOMAIN rows) /\ \A b \in DOMAIN rows : rows[b] \in Nat
  BY BucketsFinite DEF TypeInv, TypeOK
<1> QED BY <1>1, <1>2, <1>3, <1>4, <1>5

\* A batch joins the channel at its end ...
LEMMA RowsOfAppend ==
    ASSUME NEW q \in Seq(BatchType), NEW batch \in BatchType
    PROVE  SumFunction(RowsOf(Append(q, batch))) = SumFunction(RowsOf(q)) + Len(batch.rows)
<1>1. PICK n \in Nat : n = Len(q)
  BY LenProperties
<1>2. PICK p : p = Append(q, batch)
  OBVIOUS
<1>3. /\ p \in Seq(BatchType) /\ Len(p) = n + 1 /\ p[n + 1] = batch
      /\ \A i \in 1..n : p[i] = q[i]
  BY <1>1, <1>2, AppendProperties
<1>4. PICK f : f = RowsOf(q)
  OBVIOUS
<1>5. PICK g : g = RowsOf(p)
  OBVIOUS
<1>6. /\ DOMAIN f = 1..n /\ \A i \in 1..n : f[i] = Len(q[i].rows) /\ f[i] \in Int
      /\ DOMAIN g = 1..(n + 1) /\ \A i \in 1..(n + 1) : g[i] = Len(p[i].rows) /\ g[i] \in Int
  BY <1>1, <1>3, <1>4, <1>5, RowsOfType
<1>7. PICK D : D = 1..(n + 1)
  OBVIOUS
<1>8. /\ IsFiniteSet(D) /\ n + 1 \in D /\ D \ {n + 1} = 1..n /\ IsFiniteSet(1..n)
      /\ \A i \in D : g[i] \in Int
  <2>1. IsFiniteSet(1..n) /\ IsFiniteSet(1..(n + 1))
    BY FS_Interval
  <2>2. n + 1 \in 1..(n + 1) /\ (1..(n + 1)) \ {n + 1} = 1..n
    OBVIOUS
  <2>3. \A i \in D : g[i] \in Int
    BY <1>6, <1>7
  <2> QED BY <1>7, <2>1, <2>2, <2>3
<1>9. SumFunctionOnSet(g, D) = g[n + 1] + SumFunctionOnSet(g, D \ {n + 1})
  BY <1>8, SumWithout
<1>10. SumFunctionOnSet(g, 1..n) = SumFunctionOnSet(f, 1..n)
  <2>1. \A i \in 1..n : g[i] = f[i]
    BY <1>3, <1>6
  <2> QED BY <1>8, <2>1, SumOfEqual
<1>11. g[n + 1] = Len(batch.rows) /\ g[n + 1] \in Int
  BY <1>3, <1>6
<1>12. SumFunctionOnSet(f, 1..n) \in Int
  BY <1>6, <1>8, SumOfNumbers
<1>13. SumFunction(g) = SumFunctionOnSet(g, D) /\ SumFunction(f) = SumFunctionOnSet(f, 1..n)
  BY <1>6, <1>7 DEF SumFunction
<1>14. SumFunction(g) = SumFunction(f) + g[n + 1]
  <2>1. PICK k \in Int : k = g[n + 1]
    BY <1>11
  <2>2. PICK s \in Int : s = SumFunctionOnSet(f, 1..n)
    BY <1>12
  <2>3. SumFunctionOnSet(g, D \ {n + 1}) = s
    BY <1>8, <1>10, <2>2
  <2>4. SumFunction(g) = k + s /\ SumFunction(f) = s
    BY <1>9, <1>13, <2>1, <2>2, <2>3
  <2> QED BY <2>1, <2>4
<1> QED BY <1>2, <1>4, <1>5, <1>11, <1>14

\* ... and leaves it at the front.
LEMMA RowsOfTail ==
    ASSUME NEW q \in Seq(BatchType), q # <<>>
    PROVE  SumFunction(RowsOf(q)) = SumFunction(RowsOf(Tail(q))) + Len(Head(q).rows)
<1>1. PICK n \in Nat : Len(q) = n + 1
  <2>1. Len(q) \in Nat /\ Len(q) # 0
    BY LenProperties, EmptySeq
  <2>2. Len(q) - 1 \in Nat /\ Len(q) = (Len(q) - 1) + 1
    BY <2>1
  <2> QED BY <2>2
<1>2. PICK p : p = Tail(q)
  OBVIOUS
<1>3. p \in Seq(BatchType) /\ Len(p) = n /\ \A i \in 1..n : p[i] = q[i + 1]
  BY <1>1, <1>2, HeadTailProperties
<1>4. PICK f : f = RowsOf(p)
  OBVIOUS
<1>5. PICK g : g = RowsOf(q)
  OBVIOUS
<1>6. /\ DOMAIN f = 1..n /\ \A i \in 1..n : f[i] = Len(p[i].rows) /\ f[i] \in Int
      /\ DOMAIN g = 1..(n + 1) /\ \A i \in 1..(n + 1) : g[i] = Len(q[i].rows) /\ g[i] \in Int
  BY <1>1, <1>3, <1>4, <1>5, RowsOfType
<1>7. PICK D : D = 1..(n + 1)
  OBVIOUS
<1>8. /\ IsFiniteSet(D) /\ 1 \in D /\ D \ {1} = 2..(n + 1) /\ IsFiniteSet(1..n)
      /\ \A i \in D : g[i] \in Int
  <2>1. IsFiniteSet(1..n) /\ IsFiniteSet(1..(n + 1))
    BY FS_Interval
  <2>2. 1 \in 1..(n + 1) /\ (1..(n + 1)) \ {1} = 2..(n + 1)
    OBVIOUS
  <2>3. \A i \in D : g[i] \in Int
    BY <1>6, <1>7
  <2> QED BY <1>7, <2>1, <2>2, <2>3
<1>9. SumFunctionOnSet(g, D) = g[1] + SumFunctionOnSet(g, D \ {1})
  BY <1>8, SumWithout
<1>10. SumFunctionOnSet(g, 2..(n + 1)) = SumFunctionOnSet(f, 1..n)
  <2>1. \A i \in 1..n : i + 1 \in 1..(n + 1)
    OBVIOUS
  <2>2. \A i \in 1..n : f[i] \in Int /\ g[i + 1] = f[i]
    BY <1>3, <1>6, <2>1
  <2> QED BY <2>2, SumShifted
<1>11. g[1] = Len(Head(q).rows) /\ g[1] \in Int
  <2>1. q[1] = Head(q) /\ 1 \in 1..(n + 1)
    BY HeadTailProperties
  <2> QED BY <1>6, <2>1
<1>12. SumFunctionOnSet(f, 1..n) \in Int
  BY <1>6, <1>8, SumOfNumbers
<1>13. SumFunction(g) = SumFunctionOnSet(g, D) /\ SumFunction(f) = SumFunctionOnSet(f, 1..n)
  BY <1>6, <1>7 DEF SumFunction
<1>14. SumFunction(g) = SumFunction(f) + g[1]
  <2>1. PICK k \in Int : k = g[1]
    BY <1>11
  <2>2. PICK s \in Int : s = SumFunctionOnSet(f, 1..n)
    BY <1>12
  <2>3. SumFunctionOnSet(g, D \ {1}) = s
    BY <1>8, <1>10, <2>2
  <2>4. SumFunction(g) = k + s /\ SumFunction(f) = s
    BY <1>9, <1>13, <2>1, <2>2, <2>3
  <2> QED BY <2>1, <2>4
<1> QED BY <1>2, <1>4, <1>5, <1>11, <1>14

\* A step of the thread of bucket b changes what that bucket has pending.
LEMMA PendingMoves ==
    ASSUME TypeInv, NEW b \in Bucket, \A c \in Bucket : c # b => batcher'[c] = batcher[c],
           NEW n \in Int, Load(batcher'[b]) = Load(batcher[b]) + n
    PROVE  SumFunction(Pending)' = SumFunction(Pending) + n
<1>1. PICK f : f = Pending
  OBVIOUS
<1>2. PICK g : g = Pending'
  OBVIOUS
<1>3. /\ DOMAIN f = Bucket /\ DOMAIN g = Bucket
      /\ \A c \in Bucket : f[c] = Load(batcher[c]) /\ g[c] = Load(batcher'[c])
  BY <1>1, <1>2 DEF Pending
<1>4. \A c \in Bucket : f[c] \in Int /\ (c # b => g[c] = f[c])
  BY <1>3, LoadType
<1>5. Adds(f, g, b, n)
  BY <1>3, <1>4, BucketsFinite DEF Adds
<1>6. SumFunction(g) = SumFunction(f) + n
  BY <1>5, SumAdds
<1>7. SumFunction(Pending)' = SumFunction(g)
  BY <1>2
<1> QED BY <1>1, <1>6, <1>7

\* A step of GPU g changes what that GPU has in hand.
LEMMA OnGpuMoves ==
    ASSUME TypeInv, NEW g \in Gpu, \A k \in Gpu : k # g => gpu'[k] = gpu[k],
           NEW n \in Int, Len(gpu'[g].batch.rows) = Len(gpu[g].batch.rows) + n
    PROVE  SumFunction(OnGpu)' = SumFunction(OnGpu) + n
<1>1. PICK f : f = OnGpu
  OBVIOUS
<1>2. PICK h : h = OnGpu'
  OBVIOUS
<1>3. /\ DOMAIN f = Gpu /\ DOMAIN h = Gpu
      /\ \A k \in Gpu : f[k] = Len(gpu[k].batch.rows) /\ h[k] = Len(gpu'[k].batch.rows)
  BY <1>1, <1>2 DEF OnGpu
<1>4. \A k \in Gpu : f[k] \in Int /\ (k # g => h[k] = f[k])
  BY <1>3, OnGpuType
<1>5. Adds(f, h, g, n)
  BY <1>3, <1>4, MultiAssumption DEF Adds
<1>6. SumFunction(h) = SumFunction(f) + n
  BY <1>5, SumAdds
<1>7. SumFunction(OnGpu)' = SumFunction(h)
  BY <1>2
<1> QED BY <1>1, <1>6, <1>7

LEMMA EverywhereStays ==
    ASSUME UNCHANGED <<batcher, batchQ, gpu, rows>>
    PROVE  Everywhere' = Everywhere
<1>1. Pending' = Pending /\ OnGpu' = OnGpu /\ RowsOf(batchQ)' = RowsOf(batchQ) /\ rows' = rows
  BY DEF Pending, OnGpu, RowsOf
<1> QED BY <1>1 DEF Everywhere

LEMMA BatcherStepTally ==
    ASSUME TypeInv, Counted, Received = Everywhere, NEW b \in Bucket, BatcherStep(b),
           ~BatcherBreak(b)
    PROVE  Counted' /\ Received' = Everywhere'
<1> USE DEF BatcherTimeout, BatcherFlush
<1>1. /\ \A c \in Bucket : c # b => batcher'[c] = batcher[c]
      /\ gpu' = gpu /\ rows' = rows
  BY DEF BatcherStep, BatcherRecv, BatcherEmit, BatcherSend, BatcherExit, TypeInv, TypeOK
<1>2. OnGpu' = OnGpu
  BY <1>1 DEF OnGpu
<1>3. PICK k \in Nat : k = Len(batcher[b].acc.rows)
  BY LenProperties DEF TypeInv, TypeOK, Acc
<1>4. PICK i \in Nat : i = Len(batcher[b].batch.rows)
  BY LenProperties DEF TypeInv, TypeOK, BatchType
<1>5. Load(batcher[b]) = k + i
  BY <1>3, <1>4 DEF Load
<1>6. batcher[b].pc # "send" => i = 0
  BY <1>4, NoRows DEF TypeInv, BatchersGood, GoodBatcher
<1>7. ASSUME ~BatcherRecv(b) PROVE Counted' /\ Received' = Received
  <2>1. UNCHANGED <<fed, inputQ, tok, bucketQ, processed, skipped, hits>>
    BY <1>7 DEF BatcherStep, BatcherEmit, BatcherSend, BatcherExit, frontVars
  <2> QED BY <2>1, CountsStay
<1>8. CASE BatcherRecv(b)
  <2> DEFINE acc == Push(batcher[b].acc, Head(bucketQ[b]))
  <2>1. /\ acc \in Acc /\ Aligned(acc) /\ Len(acc.rows) = k + 1
    BY <1>3, <1>8, PushedAcc
  <2>2. Len(Drain(acc).rows) = 0 /\ BuildBatch(acc, b).rows = acc.rows
    BY <2>1, BatchInHand, NoRows DEF BuildBatch
  <2>3. /\ batcher[b].pc = "recv" /\ batchQ' = batchQ
        /\ \/ /\ batcher'[b].acc = Drain(acc) /\ batcher'[b].batch = BuildBatch(acc, b)
           \/ /\ batcher'[b].acc = acc /\ batcher'[b].batch = batcher[b].batch
    BY <1>8 DEF BatcherRecv, TypeInv, TypeOK
  <2> HIDE DEF acc
  <2>4. \/ Load(batcher'[b]) = 0 + (k + 1)
        \/ Load(batcher'[b]) = (k + 1) + i
    BY <1>4, <2>1, <2>2, <2>3 DEF Load
  <2>5. Load(batcher'[b]) = Load(batcher[b]) + 1
    BY <1>5, <1>6, <2>3, <2>4
  <2>6. SumFunction(Pending)' = SumFunction(Pending) + 1
    BY <1>1, <2>5, PendingMoves
  <2>7. Counted' /\ Received' = Received + 1
    BY <1>8, BucketRecvCounts DEF BatcherRecv, TypeInv, TypeOK
  <2>8. RowsOf(batchQ)' = RowsOf(batchQ)
    BY <2>3
  <2>9. Everywhere' = Everywhere + 1
    BY <1>1, <1>2, <2>6, <2>8, PartsType DEF Everywhere
  <2> QED BY <2>7, <2>9
<1>9. CASE BatcherEmit(b)
  <2>1. Len(Drain(batcher[b].acc).rows) = 0
        /\ BuildBatch(batcher[b].acc, b).rows = batcher[b].acc.rows
    BY BatchInHand, NoRows DEF BuildBatch, TypeInv, TypeOK, BatchersGood, GoodBatcher
  <2>2. /\ batcher[b].pc = "recv" /\ batchQ' = batchQ
        /\ batcher'[b].acc = Drain(batcher[b].acc)
        /\ batcher'[b].batch = BuildBatch(batcher[b].acc, b)
    BY <1>9 DEF BatcherEmit, TypeInv, TypeOK
  <2>3. Load(batcher'[b]) = 0 + k
    BY <1>3, <2>1, <2>2 DEF Load
  <2>4. Load(batcher'[b]) = Load(batcher[b]) + 0
    BY <1>5, <1>6, <2>2, <2>3
  <2>5. SumFunction(Pending)' = SumFunction(Pending) + 0
    BY <1>1, <2>4, PendingMoves
  <2>6. RowsOf(batchQ)' = RowsOf(batchQ)
    BY <2>2
  <2>7. Everywhere' = Everywhere
    BY <1>1, <1>2, <2>5, <2>6, PartsType DEF Everywhere
  <2>8. ~BatcherRecv(b)
    BY <1>9 DEF BatcherEmit, BatcherRecv
  <2> QED BY <1>7, <2>7, <2>8
<1>10. CASE BatcherSend(b)
  <2>1. /\ batcher[b].pc = "send" /\ batchQ' = Append(batchQ, batcher[b].batch)
        /\ batcher'[b].acc = batcher[b].acc /\ batcher'[b].batch = EmptyBatch
    BY <1>10 DEF BatcherSend, TypeInv, TypeOK
  <2>2. Load(batcher'[b]) = k + 0
    BY <1>3, <2>1, NoRows DEF Load
  <2>3. Load(batcher'[b]) = Load(batcher[b]) + (0 - i) /\ 0 - i \in Int
    BY <1>5, <2>2
  <2>4. SumFunction(Pending)' = SumFunction(Pending) + (0 - i)
    BY <1>1, <2>3, PendingMoves
  <2>5. batchQ \in Seq(BatchType) /\ batcher[b].batch \in BatchType
    BY DEF TypeInv, TypeOK
  <2>6. SumFunction(RowsOf(batchQ')) = SumFunction(RowsOf(batchQ)) + i
    BY <1>4, <2>1, <2>5, RowsOfAppend
  <2>7. Everywhere' = Everywhere
    BY <1>1, <1>2, <2>4, <2>6, PartsType DEF Everywhere
  <2>8. ~BatcherRecv(b)
    BY <1>10 DEF BatcherSend, BatcherRecv
  <2> QED BY <1>7, <2>7, <2>8
<1>11. CASE BatcherExit(b)
  <2>1. /\ batchQ' = batchQ
        /\ batcher'[b].acc = batcher[b].acc /\ batcher'[b].batch = batcher[b].batch
    BY <1>11 DEF BatcherExit, TypeInv, TypeOK
  <2>2. Load(batcher'[b]) = Load(batcher[b]) + 0
    BY <1>5, <2>1 DEF Load
  <2>3. SumFunction(Pending)' = SumFunction(Pending) + 0
    BY <1>1, <2>2, PendingMoves
  <2>4. RowsOf(batchQ)' = RowsOf(batchQ)
    BY <2>1
  <2>5. Everywhere' = Everywhere
    BY <1>1, <1>2, <2>3, <2>4, PartsType DEF Everywhere
  <2>6. ~BatcherRecv(b)
    BY <1>11 DEF BatcherExit, BatcherRecv
  <2> QED BY <1>7, <2>5, <2>6
<1> QED BY <1>8, <1>9, <1>10, <1>11 DEF BatcherStep

LEMMA GpuStepTally ==
    ASSUME TypeInv, Content, Counted, Received = Everywhere, NEW g \in Gpu, GpuStep(g)
    PROVE  Counted' /\ Received' = Everywhere'
<1>1. /\ \A k \in Gpu : k # g => gpu'[k] = gpu[k]
      /\ batcher' = batcher
  BY DEF GpuStep, GpuRecv, GpuInfer, GpuSend, GpuExit, TypeInv, TypeOK
<1>2. Pending' = Pending
  BY <1>1 DEF Pending
<1>3. Counted' /\ Received' = Received
  <2>1. UNCHANGED <<fed, inputQ, tok, bucketQ, processed, skipped, hits>>
    BY DEF GpuStep, GpuRecv, GpuInfer, GpuSend, GpuExit, frontVars
  <2> QED BY <2>1, CountsStay
<1>4. PICK i \in Nat : i = Len(gpu[g].batch.rows)
  BY OnGpuType
<1>5. gpu[g].pc # "infer" => i = 0
  BY <1>4, NoRows DEF TypeInv, GpusGood, GoodGpu
<1>6. CASE GpuRecv(g)
  <2>1. /\ gpu[g].pc = "recv" /\ batchQ # <<>> /\ batchQ' = Tail(batchQ) /\ rows' = rows
        /\ gpu'[g].batch = Head(batchQ)
    BY <1>6 DEF GpuRecv, TypeInv, TypeOK
  <2>2. PICK n \in Nat : n = Len(Head(batchQ).rows)
    BY <2>1, HeadOfBatches, LenProperties DEF BatchType
  <2>3. Len(gpu'[g].batch.rows) = Len(gpu[g].batch.rows) + n
    <3>1. i = 0
      BY <1>5, <2>1
    <3>2. Len(gpu'[g].batch.rows) = n
      BY <2>1, <2>2
    <3>3. n = i + n
      BY <3>1
    <3> QED BY <1>4, <3>2, <3>3
  <2>4. SumFunction(OnGpu)' = SumFunction(OnGpu) + n
    BY <1>1, <2>3, OnGpuMoves
  <2>5. SumFunction(RowsOf(batchQ)) = SumFunction(RowsOf(batchQ')) + n
    BY <2>1, <2>2, RowsOfTail DEF TypeInv, TypeOK
  <2>6. SumFunction(RowsOf(batchQ')) \in Int
    <3>1. batchQ' \in Seq(BatchType)
      BY <2>1, HeadOfBatches
    <3>2. PICK f : f = RowsOf(batchQ')
      OBVIOUS
    <3>3. IsFiniteSet(DOMAIN f) /\ \A j \in DOMAIN f : f[j] \in Int
      BY <3>1, <3>2, RowsOfType
    <3> QED BY <3>2, <3>3, SumOfNumbers DEF SumFunction
  <2>7. Everywhere' = Everywhere
    BY <1>2, <2>1, <2>4, <2>5, <2>6, PartsType DEF Everywhere
  <2> QED BY <1>3, <2>7
<1>7. CASE GpuInfer(g)
  <2> DEFINE c == gpu[g].batch.bucket
  <2>1. c \in Bucket
    BY <1>7 DEF GpuInfer, Content, BackContent, GpuContent, Meets
  <2>2. /\ rows' = [rows EXCEPT ![c] = @ + i] /\ batchQ' = batchQ
        /\ gpu'[g].batch = EmptyBatch
    BY <1>4, <1>7 DEF GpuInfer, TypeInv, TypeOK
  <2>3. Len(gpu'[g].batch.rows) = Len(gpu[g].batch.rows) + (0 - i) /\ 0 - i \in Int
    BY <1>4, <2>2, NoRows
  <2>4. SumFunction(OnGpu)' = SumFunction(OnGpu) + (0 - i)
    BY <1>1, <2>3, OnGpuMoves
  <2>5. SumFunction(rows') = SumFunction(rows) + i
    <3>1. rows \in [Bucket -> Nat]
      BY DEF TypeInv, TypeOK
    <3> HIDE DEF c
    <3>2. Adds(rows, rows', c, i)
      BY <2>1, <2>2, <3>1, BucketsFinite DEF Adds
    <3> QED BY <3>2, SumAdds
  <2>6. RowsOf(batchQ)' = RowsOf(batchQ)
    BY <2>2
  <2>7. Everywhere' = Everywhere
    <3> HIDE DEF c
    <3> QED BY <1>2, <2>4, <2>5, <2>6, PartsType DEF Everywhere
  <2> QED BY <1>3, <2>7
<1>8. CASE GpuSend(g) \/ GpuExit(g)
  <2>1. /\ gpu[g].pc # "infer" /\ batchQ' = batchQ /\ rows' = rows
        /\ gpu'[g].batch = EmptyBatch \/ gpu'[g].batch = gpu[g].batch
    BY <1>8 DEF GpuSend, GpuExit, TypeInv, TypeOK
  <2>2. Len(gpu'[g].batch.rows) = Len(gpu[g].batch.rows) + 0
    BY <1>4, <1>5, <2>1, NoRows
  <2>3. SumFunction(OnGpu)' = SumFunction(OnGpu) + 0
    BY <1>1, <2>2, OnGpuMoves
  <2>4. RowsOf(batchQ)' = RowsOf(batchQ)
    BY <2>1
  <2>5. Everywhere' = Everywhere
    BY <1>2, <2>1, <2>3, <2>4, PartsType DEF Everywhere
  <2> QED BY <1>3, <2>5
<1> QED BY <1>6, <1>7, <1>8 DEF GpuStep

\* embed itself moves no row.
LEMMA MainTally ==
    ASSUME TypeInv, Counted, Received = Everywhere, MainSpawn
    PROVE  Counted' /\ Received' = Everywhere'
<1>1. UNCHANGED <<fed, inputQ, tok, bucketQ, processed, skipped, hits>>
  BY DEF MainSpawn, frontVars
<1>2. UNCHANGED <<batcher, batchQ, rows>>
  BY DEF MainSpawn
<1>3. OnGpu' = OnGpu
  <2>1. \A g \in Gpu : gpu'[g].batch = gpu[g].batch
    BY DEF MainSpawn, TypeInv, TypeOK
  <2> QED BY <2>1 DEF OnGpu
<1>4. Pending' = Pending /\ RowsOf(batchQ)' = RowsOf(batchQ) /\ rows' = rows
  BY <1>2 DEF Pending
<1> QED BY <1>1, <1>3, <1>4, CountsStay DEF Everywhere

\* What has been joined does not come back.
LEMMA StaysJoined ==
    ASSUME TypeInv, Tally, [Next]_vars, finished'
    PROVE  (embed = "running" /\ ToksDone /\ BatchersDone /\ GpusDone)'
<1>1. embed = "running" /\ ToksDone /\ BatchersDone /\ GpusDone
  <2>1. finished \/ Finish
    BY DEF Next, Stopped, vars, backVars, MainSpawn, MainRefuse, BatcherRecv, BatcherTimeout,
       BatcherFlush, BatcherEmit, BatcherSend, BatcherBreak, BatcherExit, GpuRecv, GpuInfer,
       GpuSend, GpuExit
  <2> QED BY <2>1 DEF Tally, Finish
<1>2. UNCHANGED <<embed, tok, batcher, gpu>>
  <2>1. CASE FrontStep(Alive, NoSender) /\ UNCHANGED backVars
    BY <1>1, <2>1 DEF ToksDone, FrontStep, backVars, FeederSend, FeederEnd, TokRecv, TokSkip,
       TokHit, TokTokenize, TokSendOut, TokSendBucket, TokExit, ConsumerRecv, ConsumerEnd,
       ConsumerDrop
  <2>2. CASE FeederBreak /\ UNCHANGED backVars
    BY <2>2 DEF FeederBreak, backVars
  <2>3. CASE (\E w \in Tok : TokBreak(w, Alive)) /\ UNCHANGED backVars
    BY <1>1, <2>3 DEF ToksDone, TokBreak
  <2>4. ASSUME NEW b \in Bucket, BatcherStep(b) PROVE FALSE
    BY <1>1, <2>4 DEF BatchersDone, BatcherStep, BatcherRecv, BatcherTimeout, BatcherFlush,
       BatcherEmit, BatcherSend, BatcherBreak, BatcherExit
  <2>5. ASSUME NEW g \in Gpu, GpuStep(g) PROVE FALSE
    BY <1>1, <2>5 DEF GpusDone, GpuStep, GpuRecv, GpuInfer, GpuSend, GpuExit
  <2>6. CASE MainSpawn \/ MainRefuse \/ Finish \/ UNCHANGED vars
    BY <1>1, <2>6 DEF MainSpawn, MainRefuse, Finish, vars, frontVars, backVars
  <2> QED BY <2>1, <2>2, <2>3, <2>4, <2>5, <2>6, NextSteps DEF BackStep
<1> QED BY <1>1, <1>2 DEF ToksDone, BatchersDone, GpusDone

LEMMA StepTally == TypeInv /\ Closing /\ Content /\ Tally /\ [Next]_vars => Tally'
<1> SUFFICES ASSUME TypeInv, Closing, Content, Tally, [Next]_vars PROVE Tally'
  OBVIOUS
<1>1. SUFFICES ASSUME embed' # "refused" PROVE Counted' /\ Received' = Everywhere'
  BY StaysJoined DEF Tally
<1>2. embed # "refused" /\ Counted /\ Received = Everywhere
  <2>1. embed # "refused"
    BY <1>1 DEF Next, Stopped, vars, backVars, MainSpawn, MainRefuse, Finish, BatcherRecv,
       BatcherTimeout, BatcherFlush, BatcherEmit, BatcherSend, BatcherBreak, BatcherExit,
       GpuRecv, GpuInfer, GpuSend, GpuExit
  <2> QED BY <2>1 DEF Tally
<1>3. CASE FrontStep(Alive, NoSender) /\ UNCHANGED backVars
  <2>1. Counted' /\ Received' = Received
    BY <1>2, <1>3, FrontStepCounts DEF TypeInv, TypeOK, FrontInv
  <2>2. Everywhere' = Everywhere
    BY <1>3, EverywhereStays DEF backVars
  <2> QED BY <1>2, <2>1, <2>2
<1>4. ~(\E w \in Tok : TokBreak(w, Alive))
  <2> SUFFICES ASSUME NEW w \in Tok, TokBreak(w, Alive) PROVE FALSE
    OBVIOUS
  <2>1. AssignBucket(BucketLen, TokLen[text[tok[w].id]]) \in Bucket
    BY BucketOfText DEF TokBreak, TypeInv, TypeOK, FrontTypeOK
  <2>2. ~ToksDone /\ ~(\A b \in Bucket : batcher[b].pc # "done")
    BY <2>1 DEF TokBreak, Alive, ToksDone
  <2> QED BY <1>2, <2>2 DEF Closing, Winding
<1>5. CASE (FeederBreak /\ UNCHANGED backVars) \/ Finish \/ UNCHANGED vars
  <2>1. UNCHANGED <<fed, inputQ, tok, bucketQ, processed, skipped, hits>>
    BY <1>5 DEF FeederBreak, Finish, vars, frontVars
  <2>2. UNCHANGED <<batcher, batchQ, gpu, rows>>
    BY <1>5 DEF Finish, vars, backVars
  <2> QED BY <1>2, <2>1, <2>2, CountsStay, EverywhereStays
<1>6. ASSUME NEW b \in Bucket, BatcherStep(b) PROVE Counted' /\ Received' = Everywhere'
  BY <1>2, <1>6, BatcherStepTally DEF BatcherBreak
<1>7. ASSUME NEW g \in Gpu, GpuStep(g) PROVE Counted' /\ Received' = Everywhere'
  BY <1>2, <1>7, GpuStepTally
<1>8. CASE MainSpawn
  BY <1>2, <1>8, MainTally
<1>9. ~MainRefuse
  BY <1>1 DEF MainRefuse
<1> QED BY <1>3, <1>4, <1>5, <1>6, <1>7, <1>8, <1>9, NextSteps DEF BackStep

LEMMA InitTally == Init => Tally
<1> SUFFICES ASSUME Init PROVE Tally
  OBVIOUS
<1>1. ASSUME NEW f, IsFiniteSet(DOMAIN f), \A x \in DOMAIN f : f[x] = 0
      PROVE  SumFunction(f) = 0
  BY <1>1, SumOfZeros
<1>2. SumFunction(Pending) = 0
  <2>1. ASSUME NEW b \in Bucket PROVE Load(batcher[b]) = 0
    <3>1. batcher[b].acc = EmptyAcc /\ batcher[b].batch = EmptyBatch
      BY DEF Init
    <3> QED BY <3>1, NoLoad
  <2> QED BY <1>1, <2>1, BucketsFinite DEF Pending
<1>3. SumFunction(RowsOf(batchQ)) = 0
  <2>1. PICK f : f = RowsOf(batchQ)
    OBVIOUS
  <2>2. DOMAIN f = {}
    BY <2>1 DEF Init, RowsOf
  <2> QED BY <1>1, <2>1, <2>2, FS_EmptySet
<1>4. SumFunction(OnGpu) = 0
  <2>1. \A g \in Gpu : Len(gpu[g].batch.rows) = 0
    BY NoRows DEF Init
  <2> QED BY <1>1, <2>1, MultiAssumption DEF OnGpu
<1>5. SumFunction(rows) = 0
  BY <1>1, BucketsFinite DEF Init
<1>6. Everywhere = 0
  BY <1>2, <1>3, <1>4, <1>5 DEF Everywhere
<1> QED BY <1>6, FrontInitCounts DEF Init, Tally

LEMMA TallyInvariant == Spec => []Tally
<1>1. TypeInv /\ Closing /\ Content /\ Tally /\ [Next]_vars => Tally'
  BY StepTally
<1> QED BY <1>1, InitTally, TypeInvariant, ClosingInvariant, ContentInvariant, PTL DEF Spec

\* The counters finish() reports account for every message of the input:
\* none is counted by no thread or by two, although any GPU may infer the
\* batch of any bucket and the tokenizer workers share three counters.
THEOREM ReportIsComplete == Spec => []ReportAddsUp
<1>1. TypeInv /\ Closing /\ Tally => ReportAddsUp
  <2> SUFFICES ASSUME TypeInv, Closing, Tally, finished
               PROVE  /\ processed + skipped = NMsg
                      /\ processed = hits + SumFunction(rows)
    BY DEF ReportAddsUp
  <2>1. embed = "running" /\ ToksDone /\ BatchersDone /\ GpusDone /\ Winding
    BY DEF Tally, Closing
  <2>2. fed = NMsg /\ inputQ = <<>>
    BY <2>1, ConfigAssumption DEF Winding, ToksDone
  <2>3. \A b \in Bucket : /\ bucketQ[b] = <<>> /\ batcher[b].acc.rows = <<>>
                          /\ batcher[b].batch = EmptyBatch
    BY <2>1 DEF Winding, BatchersDone, TypeInv, BatchersGood, GoodBatcher
  <2>4. batchQ = <<>>
    <3>1. PICK g \in Usable : gpu[g].pc = "done"
      BY <2>1 DEF Closing, Phases, GpusDone, Usable
    <3> QED BY <2>1, <3>1 DEF Winding, Usable
  <2>5. ASSUME NEW f, IsFiniteSet(DOMAIN f), \A x \in DOMAIN f : f[x] = 0
        PROVE  SumFunction(f) = 0
    BY <2>5, SumOfZeros
  <2>6. SumFunction(Pending) = 0
    <3>1. ASSUME NEW b \in Bucket PROVE Load(batcher[b]) = 0
      <4>1. batcher[b].acc.rows = EmptyAcc.rows /\ batcher[b].batch = EmptyBatch
        BY <2>3 DEF EmptyAcc
      <4> QED BY <4>1, NoLoad
    <3> QED BY <2>5, <3>1, BucketsFinite DEF Pending
  <2>7. SumFunction(RowsOf(batchQ)) = 0
    <3>1. PICK f : f = RowsOf(batchQ)
      OBVIOUS
    <3>2. DOMAIN f = {}
      BY <2>4, <3>1 DEF RowsOf
    <3> QED BY <2>5, <3>1, <3>2, FS_EmptySet
  <2>8. SumFunction(OnGpu) = 0
    <3>1. \A g \in Gpu : Len(gpu[g].batch.rows) = 0
      BY <2>1, NoRows DEF GpusDone, TypeInv, GpusGood, GoodGpu
    <3> QED BY <2>5, <3>1, MultiAssumption DEF OnGpu
  <2>9. Received = SumFunction(rows)
    BY <2>1, <2>6, <2>7, <2>8, PartsType DEF Tally, Everywhere
  <2>10. processed + skipped = fed /\ processed = hits + Received
    BY <2>1, <2>2, <2>3, CountsAtEnd DEF Tally, TypeInv, TypeOK
  <2> QED BY <2>2, <2>9, <2>10
<1> QED BY <1>1, TypeInvariant, ClosingInvariant, TallyInvariant, PTL
=============================================================================
