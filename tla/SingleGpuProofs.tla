--------------------------- MODULE SingleGpuProofs ---------------------------
(***************************************************************************)
(* Theorems about SingleGpu, for any number of messages, texts, buckets,   *)
(* tokenizer workers and channel capacities.                               *)
(***************************************************************************)
EXTENDS SingleGpu, EmbedFrontProofs

-----------------------------------------------------------------------------
(* Type correctness.  TypeOK is not inductive: SubSeq of a buffer that is  *)
(* shorter than the number of rows is not a sequence of ids, and a result  *)
(* with fewer rows than ids has no answer for the last of them.  So the    *)
(* invariant also says that the buffers of a bucket thread stay aligned.   *)

WorkerShape ==
    \A b \in Bucket :
        /\ Aligned(worker[b].acc)
        /\ Aligned(worker[b].batch)
        /\ WellFormed(worker[b].out)
        /\ worker[b].pc # "infer" => worker[b].batch = EmptyBatch
        /\ worker[b].pc # "send" => worker[b].out = NoBatch

TypeInv == TypeOK /\ FrontShape /\ WorkerShape

WorkerRecord == [pc : {"recv", "infer", "send", "done"}, acc : Acc,
                 batch : BatchType, out : OutMsg]
GoodWorker(r) == /\ Aligned(r.acc) /\ Aligned(r.batch) /\ WellFormed(r.out)
                 /\ r.pc # "infer" => r.batch = EmptyBatch
                 /\ r.pc # "send" => r.out = NoBatch

\* The record of a bucket thread may be replaced by any good one.
LEMMA WorkerUpdate ==
    ASSUME TypeInv, NEW b \in Bucket, NEW r \in WorkerRecord, GoodWorker(r),
           worker' = [worker EXCEPT ![b] = r]
    PROVE  /\ worker' \in [Bucket -> WorkerRecord]
           /\ WorkerShape'
BY DEF TypeInv, TypeOK, WorkerShape, WorkerRecord, GoodWorker

LEMMA InitTypeInv == Init => TypeInv
<1> SUFFICES ASSUME Init PROVE TypeInv
  OBVIOUS
<1>1. FrontInv
  BY FrontInitInv DEF Init
<1>2. EmptyAcc \in Acc /\ Aligned(EmptyAcc)
  BY EmptyAccType DEF Acc, AccOf
<1>3. TypeOK
  BY <1>1, <1>2, SessionAssumption, EmptyBatchType, NoBatchType
     DEF Init, FrontInv, TypeOK
<1>4. WorkerShape
  BY <1>2, EmptyBatchType, NoBatchType DEF Init, WorkerShape
<1> QED BY <1>1, <1>3, <1>4 DEF TypeInv, FrontInv

\* The item a bucket thread receives joins its aligned buffers.
LEMMA PushedAcc ==
    ASSUME TypeInv, NEW b \in Bucket, WorkerRecv(b)
    PROVE  /\ Push(worker[b].acc, Head(bucketQ[b])) \in Acc
           /\ Aligned(Push(worker[b].acc, Head(bucketQ[b])))
           /\ Len(Push(worker[b].acc, Head(bucketQ[b])).rows) = Len(worker[b].acc.rows) + 1
<1>1. Head(bucketQ[b]) \in BucketItem
  BY HeadOfBucket DEF TypeInv, TypeOK, WorkerRecv
<1> QED BY <1>1, PushItem DEF TypeInv, TypeOK, WorkerShape

LEMMA WorkerRecvTypeInv == ASSUME TypeInv, NEW b \in Bucket, WorkerRecv(b) PROVE TypeInv'
<1> DEFINE acc == Push(worker[b].acc, Head(bucketQ[b]))
           full == [pc |-> "infer", acc |-> Drain(acc),
                    batch |-> BuildBatch(acc, b), out |-> NoBatch]
           more == [pc |-> "recv", acc |-> acc, batch |-> EmptyBatch, out |-> NoBatch]
<1>1. acc \in Acc /\ Aligned(acc)
  BY PushedAcc
<1>2. worker' = [worker EXCEPT ![b] = IF Filled(acc, BatchSize[b]) THEN full ELSE more]
  BY DEF WorkerRecv
<1> HIDE DEF acc
<1>3. full \in WorkerRecord /\ GoodWorker(full)
  BY <1>1, BatchInHand, NoBatchType DEF WorkerRecord, GoodWorker
<1>4. more \in WorkerRecord /\ GoodWorker(more)
  BY <1>1, EmptyBatchType, NoBatchType DEF WorkerRecord, GoodWorker
<1> HIDE DEF full, more
<1>5. worker' \in [Bucket -> WorkerRecord] /\ WorkerShape'
  BY <1>2, <1>3, <1>4, WorkerUpdate
<1>6. bucketQ' \in [Bucket -> Seq(BucketItem)]
  BY HeadOfBucket DEF WorkerRecv, TypeInv, TypeOK
<1> QED BY <1>5, <1>6
    DEF TypeInv, TypeOK, FrontTypeOK, FrontShape, WorkerRecord, WorkerRecv

LEMMA WorkerFlushTypeInv == ASSUME TypeInv, NEW b \in Bucket, WorkerFlush(b) PROVE TypeInv'
<1> DEFINE acc == worker[b].acc
           r == [pc |-> "infer", acc |-> Drain(acc),
                 batch |-> BuildBatch(acc, b), out |-> NoBatch]
<1>1. acc \in Acc /\ Aligned(acc)
  BY DEF TypeInv, TypeOK, WorkerShape
<1>2. worker' = [worker EXCEPT ![b] = r]
  BY DEF WorkerFlush
<1> HIDE DEF acc
<1>3. r \in WorkerRecord /\ GoodWorker(r)
  BY <1>1, BatchInHand, NoBatchType DEF WorkerRecord, GoodWorker
<1> HIDE DEF r
<1>4. worker' \in [Bucket -> WorkerRecord] /\ WorkerShape'
  BY <1>2, <1>3, WorkerUpdate
<1> QED BY <1>4
    DEF TypeInv, TypeOK, FrontTypeOK, FrontShape, WorkerRecord, WorkerFlush, frontVars

LEMMA WorkerInferTypeInv == ASSUME TypeInv, NEW b \in Bucket, WorkerInfer(b) PROVE TypeInv'
<1> DEFINE batch == worker[b].batch
<1>1. batch \in BatchType /\ Aligned(batch)
  BY DEF TypeInv, TypeOK, WorkerShape
<1>2. PICK ok \in BOOLEAN :
        /\ IF ok THEN InsertAll(batch) ELSE UNCHANGED inserted
        /\ worker' = [worker EXCEPT ![b] =
              [pc |-> "send", acc |-> @.acc, batch |-> EmptyBatch,
               out |-> OutBatch(batch, ok)]]
  BY DEF WorkerInfer
<1> DEFINE r == [pc |-> "send", acc |-> worker[b].acc, batch |-> EmptyBatch,
                 out |-> OutBatch(batch, ok)]
<1>3. worker' = [worker EXCEPT ![b] = r]
  BY <1>2
<1>4. r \in WorkerRecord /\ GoodWorker(r)
  BY <1>1, OutBatchType, EmptyBatchType
     DEF WorkerRecord, GoodWorker, TypeInv, TypeOK, WorkerShape
<1>5. worker' \in [Bucket -> WorkerRecord] /\ WorkerShape'
  <2> HIDE DEF r
  <2> QED BY <1>3, <1>4, WorkerUpdate
<1>6. inserted' \in [Slot -> SUBSET Entry]
  <2> HIDE DEF batch
  <2> QED BY <1>1, <1>2, InsertAllType DEF TypeInv, TypeOK, FrontTypeOK
<1>7. rows' \in [Bucket -> Nat]
  <2>1. Len(batch.rows) \in Nat
    BY <1>1, LenProperties DEF BatchType
  <2> QED BY <2>1 DEF WorkerInfer, TypeInv, TypeOK
<1> QED BY <1>5, <1>6, <1>7
    DEF TypeInv, TypeOK, FrontTypeOK, FrontShape, WorkerRecord, WorkerInfer

LEMMA WorkerSendTypeInv == ASSUME TypeInv, NEW b \in Bucket, WorkerSend(b) PROVE TypeInv'
<1> DEFINE r == [pc |-> "recv", acc |-> worker[b].acc, batch |-> EmptyBatch, out |-> NoBatch]
<1>1. worker' = [worker EXCEPT ![b] = r]
  BY DEF WorkerSend
<1>2. r \in WorkerRecord /\ GoodWorker(r)
  BY EmptyBatchType, NoBatchType DEF WorkerRecord, GoodWorker, TypeInv, TypeOK, WorkerShape
<1> HIDE DEF r
<1>3. worker' \in [Bucket -> WorkerRecord] /\ WorkerShape'
  BY <1>1, <1>2, WorkerUpdate
<1>4. outQ' \in Seq(OutMsg) /\ \A i \in DOMAIN outQ' : WellFormed(outQ'[i])
  <2>1. worker[b].out \in OutMsg /\ WellFormed(worker[b].out)
    BY DEF TypeInv, TypeOK, WorkerShape
  <2> QED BY <2>1, SendOutInv DEF WorkerSend, TypeInv, TypeOK, FrontInv
<1> QED BY <1>3, <1>4
    DEF TypeInv, TypeOK, FrontTypeOK, FrontShape, WorkerRecord, WorkerSend

LEMMA WorkerExitTypeInv == ASSUME TypeInv, NEW b \in Bucket, WorkerExit(b) PROVE TypeInv'
<1> DEFINE r == [pc |-> "done", acc |-> worker[b].acc, batch |-> EmptyBatch, out |-> NoBatch]
<1>1. worker' = [worker EXCEPT ![b] = r]
  BY DEF WorkerExit
<1>2. r \in WorkerRecord /\ GoodWorker(r)
  BY EmptyBatchType, NoBatchType DEF WorkerRecord, GoodWorker, TypeInv, TypeOK, WorkerShape
<1> HIDE DEF r
<1>3. worker' \in [Bucket -> WorkerRecord] /\ WorkerShape'
  BY <1>1, <1>2, WorkerUpdate
<1> QED BY <1>3
    DEF TypeInv, TypeOK, FrontTypeOK, FrontShape, WorkerRecord, WorkerExit, frontVars

LEMMA StepTypeInv == TypeInv /\ [Next]_vars => TypeInv'
<1> SUFFICES ASSUME TypeInv, [Next]_vars PROVE TypeInv'
  OBVIOUS
<1>1. CASE FrontStep(Alive, NoSender) /\ UNCHANGED workerVars
  <2>1. FrontInv'
    BY <1>1, FrontStepInv DEF TypeInv, TypeOK, FrontInv
  <2> QED BY <1>1, <2>1 DEF TypeInv, TypeOK, WorkerShape, FrontInv, workerVars
<1>2. ASSUME NEW b \in Bucket, WorkerStep(b) PROVE TypeInv'
  BY <1>2, WorkerRecvTypeInv, WorkerFlushTypeInv, WorkerInferTypeInv,
     WorkerSendTypeInv, WorkerExitTypeInv DEF WorkerStep
<1>3. CASE Finish
  BY <1>3 DEF TypeInv, TypeOK, FrontTypeOK, FrontShape, WorkerShape, Finish, frontVars
<1>4. CASE UNCHANGED vars
  BY <1>4 DEF TypeInv, TypeOK, FrontTypeOK, FrontShape, WorkerShape, vars, frontVars,
              workerVars
<1> QED BY <1>1, <1>2, <1>3, <1>4 DEF Next, FrontStep, WorkerStep, Stopped

\* Every reachable state is well typed, and in every one the ids, hashes and
\* rows that a bucket thread keeps in separate buffers have the same number
\* (the three pushes and the two drains of gpu_worker and Bucketizer).
THEOREM TypeInvariant == Spec => []TypeInv
<1>1. Init => TypeInv
  BY InitTypeInv
<1>2. TypeInv /\ [Next]_vars => TypeInv'
  BY StepTypeInv
<1> QED BY <1>1, <1>2, PTL DEF Spec

\* Every variable holds a value of its type in every reachable state.
THEOREM TypeCorrect == Spec => []TypeOK
<1>1. TypeInv => TypeOK
  BY DEF TypeInv
<1> QED BY <1>1, TypeInvariant, PTL

-----------------------------------------------------------------------------
(* How the call winds down: each stage ends only after the one before it   *)
(* has ended and the channel between them is empty.                        *)

Closing ==
    /\ feeder = "done" => fed = NMsg
    /\ \A w \in Tok : tok[w].pc = "done" => feeder = "done" /\ inputQ = <<>>
    /\ \A b \in Bucket : worker[b].pc = "done" =>
          ToksDone /\ bucketQ[b] = <<>> /\ worker[b].acc.rows = <<>>
    /\ rx # "open" => outQ = <<>>
    /\ rx = "ended" => NoSender

LEMMA InitClosing == Init => Closing
BY DEF Init, FrontInit, Closing

\* Nothing happens to the bucket threads; a tokenizer worker that is not
\* done is a reason for every bucket thread not to be.
LEMMA TokClosing ==
    ASSUME TypeInv, Closing, UNCHANGED workerVars, NEW w \in Tok,
           \/ TokRecv(w) \/ TokSkip(w) \/ TokHit(w) \/ TokTokenize(w)
           \/ TokSendOut(w) \/ TokSendBucket(w, Alive) \/ TokExit(w)
    PROVE  Closing'
<1>1. tok[w].pc # "done"
  BY DEF TokRecv, TokSkip, TokHit, TokTokenize, TokSendOut, TokSendBucket, TokExit
<1>2. ~ToksDone /\ \A b \in Bucket : worker[b].pc # "done"
  BY <1>1 DEF ToksDone, Closing
<1>3. rx # "ended" /\ rx' = rx /\ feeder' = feeder /\ fed' = fed
  BY <1>2 DEF Closing, NoSender, TokRecv, TokSkip, TokHit, TokTokenize, TokSendOut,
             TokSendBucket, TokExit
<1>4. \A b \in Bucket : worker'[b].pc # "done"
  BY <1>2 DEF workerVars
<1>5. rx # "open" => outQ' = <<>>
  BY DEF Closing, TokRecv, TokSkip, TokHit, TokTokenize, TokSendOut, TokSendBucket,
         TokExit, SendOut
<1>6. ASSUME NEW v \in Tok, tok'[v].pc = "done" PROVE feeder' = "done" /\ inputQ' = <<>>
  <2>1. CASE TokExit(w)
    BY <2>1 DEF TokExit
  <2>2. CASE ~TokExit(w)
    <3>1. /\ tok'[w].pc # "done" /\ \A u \in Tok : u # w => tok'[u] = tok[u]
          /\ TokRecv(w) => inputQ # <<>>
          /\ ~TokRecv(w) => inputQ' = inputQ
      <4>1. PICK r : r.pc # "done" /\ tok' = [tok EXCEPT ![w] = r]
        BY <2>2 DEF TokRecv, TokSkip, TokHit, TokTokenize, TokSendOut, TokSendBucket
      <4>2. tok'[w].pc # "done" /\ \A u \in Tok : u # w => tok'[u] = tok[u]
        BY <4>1 DEF TypeInv, TypeOK, FrontTypeOK
      <4> QED BY <2>2, <4>2 DEF TokRecv, TokSkip, TokHit, TokTokenize, TokSendOut, TokSendBucket
    <3>2. tok[v].pc = "done" /\ v # w
      BY <1>6, <3>1
    <3> QED BY <1>3, <3>1, <3>2 DEF Closing
  <2> QED BY <2>1, <2>2
<1> QED BY <1>3, <1>4, <1>5, <1>6 DEF Closing

LEMMA CallerClosing ==
    ASSUME TypeInv, Closing, UNCHANGED workerVars,
           \/ FeederSend \/ FeederEnd
           \/ ConsumerRecv \/ ConsumerEnd(NoSender) \/ ConsumerDrop
    PROVE  Closing'
<1>1. ToksDone' = ToksDone /\ WorkersDone' = WorkersDone
  BY DEF ToksDone, WorkersDone, workerVars, FeederSend, FeederEnd, ConsumerRecv,
         ConsumerEnd, ConsumerDrop
<1>2. CASE FeederSend
  BY <1>1, <1>2 DEF Closing, FeederSend, NoSender, workerVars
<1>3. CASE FeederEnd
  BY <1>1, <1>3 DEF Closing, FeederEnd, NoSender, workerVars
<1>4. CASE ConsumerRecv
  BY <1>1, <1>4 DEF Closing, ConsumerRecv, NoSender, workerVars
<1>5. CASE ConsumerEnd(NoSender)
  BY <1>1, <1>5 DEF Closing, ConsumerEnd, NoSender, workerVars
<1>6. CASE ConsumerDrop
  BY <1>1, <1>6 DEF Closing, ConsumerDrop, NoSender, workerVars
<1> QED BY <1>2, <1>3, <1>4, <1>5, <1>6

LEMMA WorkerClosing ==
    ASSUME TypeInv, Closing, NEW b \in Bucket, WorkerStep(b)
    PROVE  Closing'
<1>1. worker[b].pc # "done"
  BY DEF WorkerStep, WorkerRecv, WorkerFlush, WorkerInfer, WorkerSend, WorkerExit
<1>2. /\ feeder' = feeder /\ fed' = fed /\ tok' = tok /\ inputQ' = inputQ /\ rx' = rx
      /\ ToksDone' = ToksDone
  BY DEF WorkerStep, WorkerRecv, WorkerFlush, WorkerInfer, WorkerSend, WorkerExit,
         frontVars, ToksDone
<1>3. rx # "ended" /\ (rx # "open" => outQ' = <<>>)
  BY <1>1 DEF Closing, NoSender, WorkersDone, WorkerStep, WorkerRecv, WorkerFlush,
             WorkerInfer, WorkerSend, WorkerExit, frontVars, SendOut
<1>4. /\ \A c \in Bucket : c # b => worker'[c] = worker[c] /\ bucketQ'[c] = bucketQ[c]
      /\ worker'[b].pc = "done" =>
            ToksDone /\ bucketQ'[b] = <<>> /\ worker'[b].acc.rows = <<>>
  <2>1. CASE WorkerExit(b)
    BY <2>1 DEF WorkerExit, frontVars, TypeInv, TypeOK
  <2>2. CASE ~WorkerExit(b)
    <3>1. PICK r : r.pc # "done" /\ worker' = [worker EXCEPT ![b] = r]
      BY <2>2 DEF WorkerStep, WorkerRecv, WorkerFlush, WorkerInfer, WorkerSend
    <3>2. worker'[b].pc # "done" /\ \A c \in Bucket : c # b => worker'[c] = worker[c]
      BY <3>1 DEF TypeInv, TypeOK
    <3>3. \A c \in Bucket : c # b => bucketQ'[c] = bucketQ[c]
      BY <2>2 DEF WorkerStep, WorkerRecv, WorkerFlush, WorkerInfer, WorkerSend,
                 frontVars, TypeInv, TypeOK, FrontTypeOK
    <3> QED BY <3>2, <3>3
  <2> QED BY <2>1, <2>2
<1> QED BY <1>2, <1>3, <1>4 DEF Closing

LEMMA StepClosing == TypeInv /\ Closing /\ [Next]_vars => Closing'
<1> SUFFICES ASSUME TypeInv, Closing, [Next]_vars PROVE Closing'
  OBVIOUS
<1>1. CASE FrontStep(Alive, NoSender) /\ UNCHANGED workerVars
  BY <1>1, TokClosing, CallerClosing DEF FrontStep
<1>2. ASSUME NEW b \in Bucket, WorkerStep(b) PROVE Closing'
  BY <1>2, WorkerClosing
<1>3. CASE Finish
  BY <1>3 DEF Closing, Finish, frontVars, NoSender, ToksDone, WorkersDone
<1>4. CASE UNCHANGED vars
  BY <1>4 DEF Closing, vars, frontVars, workerVars, NoSender, ToksDone, WorkersDone
<1> QED BY <1>1, <1>2, <1>3, <1>4 DEF Next, FrontStep, WorkerStep, Stopped

LEMMA ClosingInvariant == Spec => []Closing
<1>1. TypeInv /\ Closing /\ [Next]_vars => Closing'
  BY StepClosing
<1> QED BY <1>1, InitClosing, TypeInvariant, PTL DEF Spec

\* No receiver of a bucket channel goes away while a tokenizer worker may
\* still send to it, so txs[bi].send in tokenize_loop cannot fail here and a
\* tokenizer worker never gives up with a message in hand.
THEOREM ReceiversOutliveSenders == Spec => []ReceiverOutlivesSenders
<1>1. Closing => ReceiverOutlivesSenders
  BY DEF Closing, ReceiverOutlivesSenders
<1> QED BY <1>1, ClosingInvariant, PTL

-----------------------------------------------------------------------------
(* No message is lost. *)

\* What a bucket thread receives joins its buffers, ...
LEMMA WorkerRecvKeeps ==
    ASSUME TypeInv, NEW b \in Bucket, WorkerRecv(b), NEW m, InFront(m) \/ InWorker(m)
    PROVE  (InFront(m) \/ InWorker(m))'
<1> DEFINE item == Head(bucketQ[b])
           acc == Push(worker[b].acc, item)
<1>1. item \in BucketItem /\ bucketQ \in [Bucket -> Seq(BucketItem)]
  BY HeadOfBucket DEF WorkerRecv, TypeInv, TypeOK, FrontTypeOK
<1>2. /\ bucketQ'[b] = Tail(bucketQ[b]) /\ bucketQ[b] # <<>>
      /\ \A c \in Bucket : c # b => bucketQ'[c] = bucketQ[c]
  BY <1>1 DEF WorkerRecv
<1>3. InBucket(m) => InBucket(m)' \/ m = item.id
  BY <1>2, BucketRecvKeeps DEF WorkerRecv, TypeInv, TypeOK
<1>4. /\ acc \in Acc /\ Aligned(acc)
      /\ Range(acc.ids) = Range(worker[b].acc.ids) \cup {item.id}
  BY <1>1, PushItem DEF TypeInv, TypeOK, WorkerShape
<1>5. BuildBatch(acc, b).ids = acc.ids
  <2>1. acc \in AccOf(Text, Msg, Nat)
    BY <1>4 DEF Acc, AccOf
  <2> HIDE DEF acc
  <2> QED BY <1>4, <2>1, BuildBatchTakesAll
<1>6. worker[b].batch = EmptyBatch /\ worker[b].out = NoBatch
  BY DEF TypeInv, WorkerShape, WorkerRecv
<1>7. /\ worker'[b].acc.ids = acc.ids \/ worker'[b].batch.ids = acc.ids
      /\ \A c \in Bucket : c # b => worker'[c] = worker[c]
  BY <1>5 DEF WorkerRecv, TypeInv, TypeOK
<1> HIDE DEF acc, item
<1>8. m = item.id => InWorker(m)'
  BY <1>4, <1>7 DEF InWorker
<1>9. InWorker(m) => InWorker(m)'
  <2>1. m \notin Range(worker[b].batch.ids) /\ m \notin Range(worker[b].out.ids)
    BY <1>6 DEF EmptyBatch, NoBatch, Range
  <2> QED BY <1>4, <1>7, <2>1 DEF InWorker
<1>10. /\ InInput(m)' = InInput(m) /\ InTok(m)' = InTok(m) /\ InOut(m)' = InOut(m)
       /\ answers' = answers
  BY DEF InInput, InTok, InOut, WorkerRecv
<1> QED BY <1>3, <1>8, <1>9, <1>10 DEF InFront

\* ... and what it has in hand stays there until it is in the output channel.
LEMMA WorkerKeeps ==
    ASSUME TypeInv, Closing, rx # "dropped", NEW b \in Bucket,
           WorkerFlush(b) \/ WorkerInfer(b) \/ WorkerSend(b) \/ WorkerExit(b),
           NEW m, InFront(m) \/ InWorker(m)
    PROVE  (InFront(m) \/ InWorker(m))'
<1> DEFINE Hand(r) == m \in Range(r.acc.ids) \/ m \in Range(r.batch.ids) \/ m \in Range(r.out.ids)
<1>1. \A c \in Bucket : c # b => worker'[c] = worker[c]
  BY DEF WorkerFlush, WorkerInfer, WorkerSend, WorkerExit, TypeInv, TypeOK
<1>2. Hand(worker[b]) => Hand(worker'[b]) \/ InOut(m)'
  <2>1. CASE WorkerFlush(b)
    <3>1. worker[b].acc \in AccOf(Text, Msg, Nat) /\ Aligned(worker[b].acc)
      BY DEF TypeInv, TypeOK, WorkerShape, Acc, AccOf
    <3>2. BuildBatch(worker[b].acc, b).ids = worker[b].acc.ids
      BY <3>1, BuildBatchTakesAll
    <3>3. worker'[b].batch.ids = worker[b].acc.ids
      BY <2>1, <3>2 DEF WorkerFlush, TypeInv, TypeOK
    <3>4. worker[b].batch = EmptyBatch /\ worker[b].out = NoBatch
      BY <2>1 DEF TypeInv, WorkerShape, WorkerFlush
    <3> QED BY <3>3, <3>4 DEF EmptyBatch, NoBatch, Range
  <2>2. CASE WorkerInfer(b)
    <3>1. worker'[b].acc = worker[b].acc /\ worker'[b].out.ids = worker[b].batch.ids
      BY <2>2 DEF WorkerInfer, OutBatch, TypeInv, TypeOK
    <3>2. worker[b].out = NoBatch
      BY <2>2 DEF TypeInv, WorkerShape, WorkerInfer
    <3> QED BY <3>1, <3>2 DEF NoBatch, Range
  <2>3. CASE WorkerSend(b)
    <3>1. worker'[b].acc = worker[b].acc /\ worker[b].batch = EmptyBatch
      BY <2>3 DEF WorkerSend, TypeInv, TypeOK, WorkerShape
    <3>2. rx = "open"
      BY <2>3 DEF Closing, NoSender, WorkersDone, WorkerSend, TypeInv, TypeOK, FrontTypeOK
    <3>3. m \in Range(worker[b].out.ids) => InOut(m)'
      BY <2>3, <3>2, SendOutKeeps DEF WorkerSend, TypeInv, TypeOK, FrontInv
    <3> QED BY <3>1, <3>3 DEF EmptyBatch, Range
  <2>4. CASE WorkerExit(b)
    <3>1. worker'[b].acc = worker[b].acc /\ worker[b].batch = EmptyBatch /\ worker[b].out = NoBatch
      BY <2>4 DEF WorkerExit, TypeInv, TypeOK, WorkerShape
    <3> QED BY <3>1 DEF EmptyBatch, NoBatch, Range
  <2> QED BY <2>1, <2>2, <2>3, <2>4
<1>3. InFront(m) => InFront(m)'
  <2>1. InOut(m) => InOut(m)'
    <3>1. CASE WorkerSend(b)
      <4>1. rx = "open"
        BY <3>1 DEF Closing, NoSender, WorkersDone, WorkerSend, TypeInv, TypeOK, FrontTypeOK
      <4> QED BY <3>1, <4>1, SendOutKeeps DEF WorkerSend, TypeInv, TypeOK, FrontInv
    <3>2. CASE ~WorkerSend(b)
      BY <3>2 DEF InOut, WorkerFlush, WorkerInfer, WorkerExit, frontVars
    <3> QED BY <3>1, <3>2
  <2>2. /\ InInput(m)' = InInput(m) /\ InTok(m)' = InTok(m) /\ InBucket(m)' = InBucket(m)
        /\ answers' = answers
    BY DEF InInput, InTok, InBucket, WorkerFlush, WorkerInfer, WorkerSend, WorkerExit, frontVars
  <2> QED BY <2>1, <2>2 DEF InFront
<1>4. InWorker(m) = \E c \in Bucket : Hand(worker[c])
  BY DEF InWorker
<1>5. InWorker(m)' = \E c \in Bucket : Hand(worker'[c])
  BY DEF InWorker
<1> HIDE DEF Hand
<1>6. InWorker(m) => InWorker(m)' \/ InOut(m)'
  BY <1>1, <1>2, <1>4, <1>5
<1> QED BY <1>3, <1>6 DEF InFront

LEMMA StepNothingLost == TypeInv /\ Closing /\ NothingLost /\ [Next]_vars => NothingLost'
<1> SUFFICES ASSUME TypeInv, Closing, NothingLost, [Next]_vars,
                    rx' # "dropped", NEW m \in 1..fed'
             PROVE  (InFront(m) \/ InWorker(m))'
  BY DEF NothingLost
<1>1. CASE FrontStep(Alive, NoSender) /\ UNCHANGED workerVars
  <2>1. InWorker(m)' = InWorker(m)
    BY <1>1 DEF InWorker, workerVars
  <2>2. rx # "dropped"
    BY <1>1 DEF FrontStep, FeederSend, FeederEnd, TokRecv, TokSkip, TokHit, TokTokenize,
                TokSendOut, TokSendBucket, TokExit, ConsumerRecv, ConsumerEnd, ConsumerDrop
  <2>3. CASE FeederSend
    <3>1. m \in 1..fed => InFront(m) \/ InWorker(m)
      BY <2>2 DEF NothingLost
    <3>2. FrontInv
      BY DEF TypeInv, TypeOK, FrontInv
    <3> QED BY <2>1, <2>3, <3>1, <3>2, FeederSendKeeps
  <2>4. CASE ~FeederSend
    <3>1. fed' = fed
      BY <1>1, <2>4 DEF FrontStep, FeederEnd, TokRecv, TokSkip, TokHit, TokTokenize,
                  TokSendOut, TokSendBucket, TokExit, ConsumerRecv, ConsumerEnd, ConsumerDrop
    <3>2. m \in Msg /\ (InFront(m) \/ InWorker(m))
      BY <2>2, <3>1, SizeAssumption DEF NothingLost, TypeInv, TypeOK, FrontTypeOK, Msg
    <3>3. FrontInv /\ (rx = "ended" => ToksDone)
      BY DEF TypeInv, TypeOK, FrontInv, Closing, NoSender
    <3> QED BY <1>1, <2>1, <3>2, <3>3, FrontKeeps
  <2> QED BY <2>3, <2>4
<1>2. ASSUME NEW b \in Bucket, WorkerStep(b) PROVE (InFront(m) \/ InWorker(m))'
  <2>1. fed' = fed /\ rx' = rx
    BY <1>2 DEF WorkerStep, WorkerRecv, WorkerFlush, WorkerInfer, WorkerSend, WorkerExit, frontVars
  <2>2. InFront(m) \/ InWorker(m)
    BY <2>1 DEF NothingLost
  <2> QED BY <1>2, <2>1, <2>2, WorkerRecvKeeps, WorkerKeeps DEF WorkerStep
<1>3. CASE Finish \/ UNCHANGED vars
  <2>1. UNCHANGED <<frontVars, worker>>
    BY <1>3 DEF Finish, vars, workerVars
  <2> QED BY <2>1 DEF NothingLost, frontVars, InFront, InInput, InTok, InBucket, InOut, InWorker
<1> QED BY <1>1, <1>2, <1>3 DEF Next, FrontStep, WorkerStep, Stopped

\* No message the feeder has taken from the iterator disappears while the
\* caller listens, whatever the order in which the threads run.
THEOREM NoMessageLost == Spec => []NothingLost
<1>1. Init => NothingLost
  BY DEF Init, FrontInit, NothingLost
<1>2. TypeInv /\ Closing /\ NothingLost /\ [Next]_vars => NothingLost'
  BY StepNothingLost
<1> QED BY <1>1, <1>2, TypeInvariant, ClosingInvariant, PTL DEF Spec

\* When the caller's loop over the receiver ends, every message of its
\* iterator has been answered.
THEOREM StreamEndIsComplete == Spec => []EndMeansAnswered
<1>1. TypeInv /\ Closing /\ NothingLost => EndMeansAnswered
  <2> SUFFICES ASSUME TypeInv, Closing, NothingLost, rx = "ended", NEW m \in Msg
               PROVE  answers[m] > 0
    BY DEF EndMeansAnswered
  <2>1. ToksDone /\ WorkersDone /\ outQ = <<>>
    BY DEF Closing, NoSender
  <2>2. feeder = "done" /\ inputQ = <<>> /\ fed = NMsg
    BY <2>1, ConfigAssumption DEF Closing, ToksDone
  <2>3. \A b \in Bucket : /\ bucketQ[b] = <<>> /\ worker[b].acc.rows = <<>>
                          /\ worker[b].batch = EmptyBatch /\ worker[b].out = NoBatch
    BY <2>1 DEF Closing, WorkersDone, TypeInv, WorkerShape
  <2>4. \A b \in Bucket : worker[b].acc.ids = <<>>
    <3> SUFFICES ASSUME NEW b \in Bucket PROVE worker[b].acc.ids = <<>>
      OBVIOUS
    <3>1. worker[b].acc.ids \in Seq(Msg) /\ Len(worker[b].acc.ids) = 0
      BY <2>3, EmptySeq DEF TypeInv, TypeOK, WorkerShape, Aligned, Acc
    <3> QED BY <3>1, EmptySeq
  <2>5. ~InWorker(m)
    BY <2>3, <2>4 DEF InWorker, EmptyBatch, NoBatch, Range
  <2>6. ~InInput(m) /\ ~InTok(m) /\ ~InBucket(m) /\ ~InOut(m)
    BY <2>1, <2>2, <2>3 DEF InInput, InTok, InBucket, InOut, ToksDone, Range
  <2>7. m \in 1..fed
    BY <2>2 DEF Msg
  <2> QED BY <2>5, <2>6, <2>7 DEF NothingLost, InFront
<1> QED BY <1>1, TypeInvariant, ClosingInvariant, NoMessageLost, PTL

-----------------------------------------------------------------------------
(* Batches are full until the input is exhausted. *)

BatchSizes ==
    \A b \in Bucket :
        /\ Len(worker[b].acc.rows) < BatchSize[b]
        /\ worker[b].pc = "infer" =>
              \/ Len(worker[b].batch.rows) = BatchSize[b]
              \/ Len(worker[b].batch.rows) < BatchSize[b] /\ ToksDone

\* Once every tokenizer worker is done, they stay done.
LEMMA ToksStayDone == TypeInv /\ ToksDone /\ [Next]_vars => ToksDone'
<1> SUFFICES ASSUME TypeInv, ToksDone, [Next]_vars PROVE tok' = tok
  BY DEF ToksDone
<1>1. CASE FrontStep(Alive, NoSender)
  BY <1>1 DEF FrontStep, ToksDone, FeederSend, FeederEnd, TokRecv, TokSkip, TokHit,
     TokTokenize, TokSendOut, TokSendBucket, TokExit, ConsumerRecv, ConsumerEnd, ConsumerDrop
<1>2. ASSUME NEW b \in Bucket, WorkerStep(b) PROVE tok' = tok
  BY <1>2 DEF WorkerStep, WorkerRecv, WorkerFlush, WorkerInfer, WorkerSend, WorkerExit, frontVars
<1>3. CASE Finish \/ UNCHANGED vars
  BY <1>3 DEF Finish, vars, frontVars
<1> QED BY <1>1, <1>2, <1>3 DEF Next, FrontStep, WorkerStep, Stopped

LEMMA StepBatchSizes == TypeInv /\ BatchSizes /\ [Next]_vars => BatchSizes'
<1> SUFFICES ASSUME TypeInv, BatchSizes, [Next]_vars PROVE BatchSizes'
  OBVIOUS
<1>1. ToksDone => ToksDone'
  BY ToksStayDone
<1>2. CASE UNCHANGED worker
  BY <1>1, <1>2 DEF BatchSizes
<1>3. ASSUME NEW b \in Bucket, WorkerStep(b) PROVE BatchSizes'
  <2> DEFINE Fits(r) == /\ Len(r.acc.rows) < BatchSize[b]
                        /\ r.pc = "infer" =>
                              \/ Len(r.batch.rows) = BatchSize[b]
                              \/ Len(r.batch.rows) < BatchSize[b] /\ ToksDone
  <2>1. \A c \in Bucket : c # b => worker'[c] = worker[c]
    BY <1>3 DEF WorkerStep, WorkerRecv, WorkerFlush, WorkerInfer, WorkerSend, WorkerExit,
               TypeInv, TypeOK
  <2>2. BatchSize[b] \in Nat \ {0} /\ Len(EmptyAcc.rows) = 0
    BY ConfigAssumption, EmptySeq DEF Bucket, EmptyAcc
  <2>3. worker[b].acc \in Acc /\ Aligned(worker[b].acc) /\ Len(worker[b].acc.rows) < BatchSize[b]
    BY DEF BatchSizes, TypeInv, TypeOK, WorkerShape
  <2> SUFFICES Fits(worker'[b])
    BY <1>1, <2>1 DEF BatchSizes
  <2>4. CASE WorkerRecv(b)
    <3> DEFINE acc == Push(worker[b].acc, Head(bucketQ[b]))
    <3>1. /\ acc \in Acc /\ Aligned(acc)
          /\ Len(acc.rows) = Len(worker[b].acc.rows) + 1
      BY <2>4, PushedAcc
    <3>2. Len(acc.rows) \in Nat /\ Len(worker[b].acc.rows) \in Nat
      BY <2>3, <3>1, LenProperties DEF Acc
    <3>3. Drain(acc) = EmptyAcc /\ BuildBatch(acc, b).rows = acc.rows
      BY <3>1, BatchInHand DEF BuildBatch
    <3>4. worker'[b] = IF Len(acc.rows) >= BatchSize[b]
                       THEN [pc |-> "infer", acc |-> Drain(acc),
                             batch |-> BuildBatch(acc, b), out |-> NoBatch]
                       ELSE [pc |-> "recv", acc |-> acc, batch |-> EmptyBatch, out |-> NoBatch]
      BY <2>4 DEF WorkerRecv, TypeInv, TypeOK, Filled
    <3> HIDE DEF acc
    <3> QED BY <2>2, <2>3, <3>1, <3>2, <3>3, <3>4
  <2>5. CASE WorkerFlush(b)
    <3>1. /\ Drain(worker[b].acc) = EmptyAcc
          /\ BuildBatch(worker[b].acc, b).rows = worker[b].acc.rows
      BY <2>3, BatchInHand DEF BuildBatch
    <3>2. /\ ToksDone
          /\ worker'[b] = [pc |-> "infer", acc |-> Drain(worker[b].acc),
                           batch |-> BuildBatch(worker[b].acc, b), out |-> NoBatch]
      BY <2>5 DEF WorkerFlush, TypeInv, TypeOK
    <3> QED BY <2>2, <2>3, <3>1, <3>2
  <2>6. CASE WorkerInfer(b) \/ WorkerSend(b) \/ WorkerExit(b)
    <3>1. worker'[b].acc = worker[b].acc /\ worker'[b].pc # "infer"
      BY <2>6 DEF WorkerInfer, WorkerSend, WorkerExit, TypeInv, TypeOK
    <3> QED BY <2>3, <3>1
  <2> QED BY <1>3, <2>4, <2>5, <2>6 DEF WorkerStep
<1> QED BY <1>2, <1>3 DEF Next, WorkerStep, Stopped, Finish, vars, workerVars

LEMMA BatchSizesInvariant == Spec => []BatchSizes
<1>1. Init => BatchSizes
  BY ConfigAssumption, EmptySeq DEF Init, BatchSizes, EmptyAcc, Bucket
<1>2. TypeInv /\ BatchSizes /\ [Next]_vars => BatchSizes'
  BY StepBatchSizes
<1> QED BY <1>1, <1>2, TypeInvariant, PTL DEF Spec

\* Inference runs on a partial batch only in the final flush, and never on
\* more rows than the padded arrays hold.
THEOREM BatchesAreFull == Spec => FullUntilFlush
<1> DEFINE A == \A b \in Bucket :
              LET n == rows'[b] - rows[b]
              IN  n # 0 => n = BatchSize[b] \/ (n < BatchSize[b] /\ ToksDone)
<1>1. TypeInv /\ BatchSizes /\ [Next]_vars => [A]_vars
  <2> SUFFICES ASSUME TypeInv, BatchSizes, Next PROVE A
    OBVIOUS
  <2>1. rows \in [Bucket -> Nat]
    BY DEF TypeInv, TypeOK
  <2>2. CASE UNCHANGED rows
    BY <2>1, <2>2
  <2>3. ASSUME NEW c \in Bucket, WorkerInfer(c) PROVE A
    <3>1. /\ rows' = [rows EXCEPT ![c] = @ + Len(worker[c].batch.rows)]
          /\ worker[c].pc = "infer"
      BY <2>3 DEF WorkerInfer
    <3>2. Len(worker[c].batch.rows) \in Nat
      BY LenProperties DEF TypeInv, TypeOK, BatchType
    <3>3. SUFFICES ASSUME NEW b \in Bucket, rows'[b] - rows[b] # 0
                   PROVE  \/ rows'[b] - rows[b] = BatchSize[b]
                          \/ rows'[b] - rows[b] < BatchSize[b] /\ ToksDone
      OBVIOUS
    <3>4. b = c /\ rows'[b] - rows[b] = Len(worker[c].batch.rows)
      <4>1. rows[b] \in Nat /\ rows[c] \in Nat
        BY <2>1
      <4>2. rows'[b] = IF b = c THEN rows[b] + Len(worker[c].batch.rows) ELSE rows[b]
        BY <2>1, <3>1
      <4> HIDE DEF A
      <4> QED BY <3>2, <3>3, <4>1, <4>2
    <3> QED BY <3>1, <3>4 DEF BatchSizes
  <2> HIDE DEF A
  <2>4. CASE \E b \in Bucket : WorkerStep(b)
    BY <2>2, <2>3, <2>4 DEF WorkerStep, WorkerRecv, WorkerFlush, WorkerSend, WorkerExit
  <2> QED BY <2>2, <2>4 DEF Next, WorkerStep, Finish, Stopped, vars, workerVars
<1>2. Spec => [][A]_vars
  BY <1>1, TypeInvariant, BatchSizesInvariant, PTL DEF Spec
<1> QED BY <1>2 DEF FullUntilFlush

-----------------------------------------------------------------------------
(* Rows, ids, hashes and vectors belong together.                          *)

WorkerContent ==
    \A b \in Bucket : /\ Holds(worker[b].acc, ItemsOf(b))
                      /\ Holds(worker[b].batch, ItemsOf(b))
                      /\ RightOut(worker[b].out)

Content == FrontContent /\ WorkerContent

LEMMA EmptyBatchHolds == ASSUME NEW S PROVE Holds(EmptyBatch, S)
BY DEF Holds, EmptyBatch

\* A bucket thread's record may be replaced by any with rightful contents.
LEMMA WorkerContentUpdate ==
    ASSUME TypeInv, WorkerContent, text' = text, NEW b \in Bucket, NEW r,
           Holds(r.acc, ItemsOf(b)), Holds(r.batch, ItemsOf(b)), RightOut(r.out),
           worker' = [worker EXCEPT ![b] = r]
    PROVE  WorkerContent'
<1>1. \A c : ItemsOf(c)' = ItemsOf(c)
  BY DEF ItemsOf, Item
<1>2. \A o : RightOut(o)' = RightOut(o)
  BY DEF RightOut, Rightful
<1>3. worker'[b] = r /\ \A c \in Bucket : c # b => worker'[c] = worker[c]
  BY DEF TypeInv, TypeOK
<1> QED BY <1>1, <1>2, <1>3 DEF WorkerContent

LEMMA WorkerStepContent ==
    ASSUME TypeInv, Content, NEW b \in Bucket, WorkerStep(b)
    PROVE  Content'
<1>1. FrontInv /\ FrontContent /\ WorkerContent
  BY DEF TypeInv, TypeOK, FrontInv, Content
<1>2. /\ text' = text /\ tok' = tok /\ answers' = answers /\ answer' = answer
  BY DEF WorkerStep, WorkerRecv, WorkerFlush, WorkerInfer, WorkerSend, WorkerExit, frontVars
<1>3. /\ worker[b].acc \in AccOf(Text, Msg, Nat) /\ Acc = AccOf(Text, Msg, Nat)
      /\ Aligned(worker[b].acc) /\ Holds(worker[b].acc, ItemsOf(b))
  BY <1>1 DEF TypeInv, TypeOK, WorkerShape, Acc, AccOf, WorkerContent
<1>4. CASE WorkerRecv(b)
  <2> DEFINE item == Head(bucketQ[b])
             acc == Push(worker[b].acc, item)
             full == [pc |-> "infer", acc |-> Drain(acc),
                      batch |-> BuildBatch(acc, b), out |-> NoBatch]
             more == [pc |-> "recv", acc |-> acc, batch |-> EmptyBatch, out |-> NoBatch]
  <2>1. item \in ItemsOf(b) /\ BucketContent'
    BY <1>1, <1>2, <1>4, BucketRecvRight DEF WorkerRecv
  <2>2. item \in ItemOf(Text, Msg, Nat)
    BY <1>4, HeadOfBucket DEF TypeInv, TypeOK, WorkerRecv, BucketItem, ItemOf
  <2>3. acc \in AccOf(Text, Msg, Nat) /\ Aligned(acc)
    BY <1>3, <1>4, PushedAcc
  <2>4. Holds(acc, ItemsOf(b))
    <3> HIDE DEF item
    <3> QED BY <1>3, <2>1, <2>2, PushHolds
  <2>5. worker' = [worker EXCEPT ![b] = IF Filled(acc, BatchSize[b]) THEN full ELSE more]
    BY <1>4 DEF WorkerRecv
  <2> HIDE DEF item, acc
  <2>6. Holds(BuildBatch(acc, b), ItemsOf(b)) /\ Holds(Drain(acc), ItemsOf(b))
    BY <2>3, <2>4, BuildBatchHolds
  <2>7. /\ Holds(full.acc, ItemsOf(b)) /\ Holds(full.batch, ItemsOf(b)) /\ RightOut(full.out)
        /\ Holds(more.acc, ItemsOf(b)) /\ Holds(more.batch, ItemsOf(b)) /\ RightOut(more.out)
    BY <2>4, <2>6, EmptyBatchHolds, NoBatchRight
  <2> HIDE DEF full, more
  <2>8. WorkerContent'
    BY <1>1, <1>2, <2>5, <2>7, WorkerContentUpdate
  <2>9. FrontContent'
    BY <1>1, <1>2, <1>4, <2>1, BackContentStays DEF WorkerRecv
  <2> QED BY <2>8, <2>9 DEF Content
<1>5. CASE WorkerFlush(b)
  <2> DEFINE acc == worker[b].acc
             r == [pc |-> "infer", acc |-> Drain(acc),
                   batch |-> BuildBatch(acc, b), out |-> NoBatch]
  <2>1. worker' = [worker EXCEPT ![b] = r]
    BY <1>5 DEF WorkerFlush
  <2>2. Holds(BuildBatch(acc, b), ItemsOf(b)) /\ Holds(Drain(acc), ItemsOf(b))
    BY <1>3, BuildBatchHolds
  <2> HIDE DEF acc
  <2>3. Holds(r.acc, ItemsOf(b)) /\ Holds(r.batch, ItemsOf(b)) /\ RightOut(r.out)
    BY <2>2, NoBatchRight
  <2> HIDE DEF r
  <2>4. WorkerContent'
    BY <1>1, <1>2, <2>1, <2>3, WorkerContentUpdate
  <2>5. FrontContent'
    BY <1>1, <1>2, <1>5, BackContentStays DEF WorkerFlush, frontVars
  <2> QED BY <2>4, <2>5 DEF Content
<1>6. CASE WorkerInfer(b)
  <2> DEFINE batch == worker[b].batch
  <2>1. batch \in BatchType /\ Aligned(batch) /\ Holds(batch, ItemsOf(b))
    BY <1>1 DEF TypeInv, TypeOK, WorkerShape, WorkerContent
  <2>2. PICK ok \in BOOLEAN :
          /\ IF ok THEN InsertAll(batch) ELSE UNCHANGED inserted
          /\ worker' = [worker EXCEPT ![b] =
                [pc |-> "send", acc |-> @.acc, batch |-> EmptyBatch,
                 out |-> OutBatch(batch, ok)]]
    BY <1>6 DEF WorkerInfer
  <2> DEFINE r == [pc |-> "send", acc |-> worker[b].acc, batch |-> EmptyBatch,
                   out |-> OutBatch(batch, ok)]
  <2>3. worker' = [worker EXCEPT ![b] = r]
    BY <2>2
  <2> HIDE DEF batch
  <2>4. RightOut(OutBatch(batch, ok))
    BY <1>1, <2>1, OutBatchRight DEF FrontInv
  <2>5. Holds(r.acc, ItemsOf(b)) /\ Holds(r.batch, ItemsOf(b)) /\ RightOut(r.out)
    BY <1>3, <2>4, EmptyBatchHolds
  <2> HIDE DEF r
  <2>6. WorkerContent'
    BY <1>1, <1>2, <2>3, <2>5, WorkerContentUpdate
  <2>7. inserted' = inserted \/ CacheContent'
    BY <1>1, <2>1, <2>2, InsertAllRight
  <2>8. FrontContent'
    BY <1>1, <1>2, <1>6, <2>7, BackContentStays DEF WorkerInfer
  <2> QED BY <2>6, <2>8 DEF Content
<1>7. CASE WorkerSend(b)
  <2> DEFINE r == [pc |-> "recv", acc |-> worker[b].acc, batch |-> EmptyBatch, out |-> NoBatch]
  <2>1. worker' = [worker EXCEPT ![b] = r]
    BY <1>7 DEF WorkerSend
  <2>2. Holds(r.acc, ItemsOf(b)) /\ Holds(r.batch, ItemsOf(b)) /\ RightOut(r.out)
    BY <1>3, EmptyBatchHolds, NoBatchRight
  <2> HIDE DEF r
  <2>3. WorkerContent'
    BY <1>1, <1>2, <2>1, <2>2, WorkerContentUpdate
  <2>4. worker[b].out \in OutMsg /\ RightOut(worker[b].out) /\ SendOut(worker[b].out)
    BY <1>1, <1>7 DEF WorkerSend, TypeInv, TypeOK, WorkerContent
  <2>5. OutContent'
    BY <1>1, <1>2, <2>4, SendOutRight
  <2>6. FrontContent'
    BY <1>1, <1>2, <1>7, <2>5, BackContentStays DEF WorkerSend
  <2> QED BY <2>3, <2>6 DEF Content
<1>8. CASE WorkerExit(b)
  <2> DEFINE r == [pc |-> "done", acc |-> worker[b].acc, batch |-> EmptyBatch, out |-> NoBatch]
  <2>1. worker' = [worker EXCEPT ![b] = r]
    BY <1>8 DEF WorkerExit
  <2>2. Holds(r.acc, ItemsOf(b)) /\ Holds(r.batch, ItemsOf(b)) /\ RightOut(r.out)
    BY <1>3, EmptyBatchHolds, NoBatchRight
  <2> HIDE DEF r
  <2>3. WorkerContent'
    BY <1>1, <1>2, <2>1, <2>2, WorkerContentUpdate
  <2>4. FrontContent'
    BY <1>1, <1>2, <1>8, BackContentStays DEF WorkerExit, frontVars
  <2> QED BY <2>3, <2>4 DEF Content
<1> QED BY <1>4, <1>5, <1>6, <1>7, <1>8 DEF WorkerStep

LEMMA StepContent == TypeInv /\ Content /\ [Next]_vars => Content'
<1> SUFFICES ASSUME TypeInv, Content, [Next]_vars PROVE Content'
  OBVIOUS
<1>1. ASSUME text' = text, worker' = worker PROVE WorkerContent'
  <2>1. \A c : ItemsOf(c)' = ItemsOf(c)
    BY <1>1 DEF ItemsOf, Item
  <2>2. \A o : RightOut(o)' = RightOut(o)
    BY <1>1 DEF RightOut, Rightful
  <2> QED BY <1>1, <2>1, <2>2 DEF Content, WorkerContent
<1>2. CASE FrontStep(Alive, NoSender) /\ UNCHANGED workerVars
  <2>1. FrontContent'
    BY <1>2, FrontStepContent DEF TypeInv, TypeOK, FrontInv, Content
  <2>2. text' = text /\ worker' = worker
    BY <1>2 DEF FrontStep, FeederSend, FeederEnd, TokRecv, TokSkip, TokHit, TokTokenize,
       TokSendOut, TokSendBucket, TokExit, ConsumerRecv, ConsumerEnd, ConsumerDrop, workerVars
  <2> QED BY <1>1, <2>1, <2>2 DEF Content
<1>3. ASSUME NEW b \in Bucket, WorkerStep(b) PROVE Content'
  BY <1>3, WorkerStepContent
<1>4. CASE Finish \/ UNCHANGED vars
  <2>1. UNCHANGED <<frontVars, worker>>
    BY <1>4 DEF Finish, vars, workerVars
  <2>2. FrontContent'
    BY <2>1, BackContentStays DEF Content, frontVars
  <2> QED BY <1>1, <2>1, <2>2 DEF Content, frontVars
<1> QED BY <1>2, <1>3, <1>4 DEF Next, FrontStep, WorkerStep, Stopped

LEMMA ContentInvariant == Spec => []Content
<1>1. Init => Content
  <2> SUFFICES ASSUME Init PROVE Content
    OBVIOUS
  <2>1. FrontContent
    BY FrontInitContent DEF Init
  <2>2. WorkerContent
    BY EmptyHolds, EmptyBatchHolds, NoBatchRight DEF Init, WorkerContent
  <2> QED BY <2>1, <2>2 DEF Content
<1>2. TypeInv /\ Content /\ [Next]_vars => Content'
  BY StepContent
<1> QED BY <1>1, <1>2, TypeInvariant, PTL DEF Spec

\* A row the caller gets for a message is the vector of that message's text,
\* up to texts that share a slot of the dedup cache: no batch boundary, flush
\* or drain lets ids, hashes and rows slip against each other.
THEOREM VectorsAreRight == Spec => []RightVector
<1>1. Content => RightVector
  <2> SUFFICES ASSUME Content, NEW m \in Msg, answer[m].kind = "row"
               PROVE  answer[m].vec # {} /\ answer[m].vec \subseteq SlotMates(text[m])
    BY DEF RightVector
  <2>1. answer[m] \in Rightful(m)
    BY DEF Content, FrontContent, AnswerContent, NoAnswer
  <2> QED BY <2>1 DEF Rightful
<1> QED BY <1>1, ContentInvariant, PTL

-----------------------------------------------------------------------------
(* No message is in two places, hence none is answered twice.              *)

\* The messages a bucket thread holds; while it works on a batch it has
\* accumulated nothing.
Held(r) == IF r.pc = "infer" THEN r.batch.ids
           ELSE IF r.pc = "send" THEN r.out.ids ELSE r.acc.ids
Tidy(r) == r.pc \in {"infer", "send"} => r.acc.ids = <<>>

WorkerAt(h) ==
    \A b \in Bucket : Tidy(worker[b]) /\ IdsAt(Held(worker[b]), h, At("worker", b))

Once == \E h : FrontAt(h) /\ WorkerAt(h)

LEMMA HeldType == ASSUME TypeInv, NEW b \in Bucket PROVE Held(worker[b]) \in Seq(Msg)
BY DEF TypeInv, TypeOK, Held, Acc, BatchType, OutMsg

LEMMA NoIdsAt == \A h, p : IdsAt(<<>>, h, p)
BY DEF IdsAt

\* The places of bucket threads are none of the front's.
LEMMA WorkerPlaces ==
    /\ \A b : At("worker", b) \notin FrontPlace
    /\ \A b, c : At("worker", b) = At("worker", c) <=> b = c
    /\ \A b, c : At("worker", b) # At("bucket", c)
BY PlacesDiffer

LEMMA WorkerAtUpdate ==
    ASSUME TypeInv, NEW h, WorkerAt(h), NEW g, NEW b \in Bucket, NEW r,
           worker' = [worker EXCEPT ![b] = r], Tidy(r), IdsAt(Held(r), g, At("worker", b)),
           \A c \in Bucket : c # b => Stays(h, g, At("worker", c))
    PROVE  WorkerAt(g)'
<1>1. worker'[b] = r /\ \A c \in Bucket : c # b => worker'[c] = worker[c]
  BY DEF TypeInv, TypeOK
<1>2. ASSUME NEW c \in Bucket, c # b
      PROVE  Tidy(worker[c]) /\ IdsAt(Held(worker[c]), g, At("worker", c))
  BY <1>2, HeldType, StaysAt DEF WorkerAt
<1> QED BY <1>1, <1>2 DEF WorkerAt

LEMMA WorkerStepOnce ==
    ASSUME TypeInv, Once, NEW b \in Bucket, WorkerStep(b)
    PROVE  Once'
<1>1. PICK h : FrontAt(h) /\ WorkerAt(h)
  BY DEF Once
<1>2. FrontInv /\ Tidy(worker[b]) /\ IdsAt(Held(worker[b]), h, At("worker", b))
  BY <1>1 DEF TypeInv, TypeOK, FrontInv, WorkerAt
<1>3. /\ worker[b].acc \in Acc /\ Aligned(worker[b].acc)
      /\ worker[b].acc \in AccOf(Text, Msg, Nat) /\ Acc = AccOf(Text, Msg, Nat)
  BY DEF TypeInv, TypeOK, WorkerShape, Acc, AccOf
<1>4. \A p : Stays(h, h, p)
  BY DEF Stays
\* A step that changes this thread's record only and moves nothing.
<1>5. ASSUME NEW r, worker' = [worker EXCEPT ![b] = r], Tidy(r), Held(r) = Held(worker[b]),
             UNCHANGED <<fed, inputQ, tok, bucketQ, outQ, answers>>
      PROVE  Once'
  <2>1. FrontAt(h)'
    BY <1>1, <1>2, <1>4, <1>5, BackMoveAt
  <2>2. WorkerAt(h)'
    BY <1>1, <1>2, <1>4, <1>5, WorkerAtUpdate
  <2> QED BY <2>1, <2>2 DEF Once
<1>6. CASE WorkerRecv(b)
  <2>1. PICK e, g : /\ e = Head(bucketQ[b]).id /\ e \in Msg /\ h[e] = At("bucket", b)
                    /\ g = Moved(h, e, At("worker", b)) /\ FrontAt(g)'
    <3>1. /\ bucketQ[b] # <<>> /\ bucketQ'[b] = Tail(bucketQ[b])
          /\ \A c \in Bucket : c # b => bucketQ'[c] = bucketQ[c]
      BY <1>6 DEF WorkerRecv, TypeInv, TypeOK, FrontTypeOK
    <3>2. UNCHANGED <<fed, inputQ, tok, outQ, answers>>
      BY <1>6 DEF WorkerRecv
    <3> QED BY <1>1, <1>2, <3>1, <3>2, BucketRecvAt, WorkerPlaces
  <2>2. PICK acc : acc = Push(worker[b].acc, Head(bucketQ[b]))
    OBVIOUS
  <2>3. PICK r : /\ worker' = [worker EXCEPT ![b] = r]
                 /\ r = IF Filled(acc, BatchSize[b])
                        THEN [pc |-> "infer", acc |-> Drain(acc),
                              batch |-> BuildBatch(acc, b), out |-> NoBatch]
                        ELSE [pc |-> "recv", acc |-> acc, batch |-> EmptyBatch, out |-> NoBatch]
    BY <1>6, <2>2 DEF WorkerRecv
  <2>4. acc \in Acc /\ Aligned(acc) /\ acc \in AccOf(Text, Msg, Nat)
    BY <1>3, <1>6, <2>2, PushedAcc
  <2>5. acc.ids = Append(worker[b].acc.ids, e)
    BY <2>1, <2>2 DEF Push
  <2>6. Held(worker[b]) = worker[b].acc.ids /\ worker[b].acc.ids \in Seq(Msg)
    BY <1>3, <1>6 DEF Held, WorkerRecv, Acc
  <2>7. IdsAt(acc.ids, g, At("worker", b))
    BY <1>2, <2>1, <2>5, <2>6, AppendId, WorkerPlaces
  <2>8. BuildBatch(acc, b).ids = acc.ids /\ Drain(acc).ids = <<>>
    BY <2>4, BuildBatchTakesAll, BatchInHand DEF EmptyAcc
  <2>9. Tidy(r) /\ Held(r) = acc.ids
    <3>1. CASE Filled(acc, BatchSize[b])
      BY <2>3, <2>8, <3>1 DEF Tidy, Held
    <3>2. CASE ~Filled(acc, BatchSize[b])
      BY <2>3, <3>2 DEF Tidy, Held
    <3> QED BY <3>1, <3>2
  <2>10. \A c \in Bucket : Stays(h, g, At("worker", c))
    BY <2>1, MoveStays, WorkerPlaces
  <2>11. WorkerAt(g)'
    BY <1>1, <2>3, <2>7, <2>9, <2>10, WorkerAtUpdate
  <2> QED BY <2>1, <2>11 DEF Once
<1>7. CASE WorkerFlush(b)
  <2>1. PICK acc : acc = worker[b].acc
    OBVIOUS
  <2>2. PICK r : /\ worker' = [worker EXCEPT ![b] = r]
                 /\ r = [pc |-> "infer", acc |-> Drain(acc),
                         batch |-> BuildBatch(acc, b), out |-> NoBatch]
    BY <1>7, <2>1 DEF WorkerFlush
  <2>3. BuildBatch(acc, b).ids = acc.ids /\ Drain(acc).ids = <<>>
    BY <1>3, <2>1, BuildBatchTakesAll, BatchInHand DEF EmptyAcc
  <2>4. Held(worker[b]) = acc.ids
    BY <1>7, <2>1 DEF Held, WorkerFlush
  <2>5. Tidy(r) /\ Held(r) = Held(worker[b])
    BY <2>2, <2>3, <2>4 DEF Tidy, Held
  <2> QED BY <1>5, <1>7, <2>2, <2>5 DEF WorkerFlush, frontVars
<1>8. CASE WorkerInfer(b)
  <2>1. PICK ok, r :
          /\ worker' = [worker EXCEPT ![b] = r]
          /\ r = [pc |-> "send", acc |-> worker[b].acc, batch |-> EmptyBatch,
                  out |-> OutBatch(worker[b].batch, ok)]
    BY <1>8 DEF WorkerInfer
  <2>2. OutBatch(worker[b].batch, ok).ids = worker[b].batch.ids /\ worker[b].pc = "infer"
    BY <1>8 DEF OutBatch, WorkerInfer
  <2>3. Tidy(r) /\ Held(r) = Held(worker[b])
    BY <1>2, <2>1, <2>2 DEF Tidy, Held
  <2> QED BY <1>5, <1>8, <2>1, <2>3 DEF WorkerInfer
<1>9. CASE WorkerSend(b)
  <2>1. PICK o : o = worker[b].out
    OBVIOUS
  <2>2. PICK r : /\ worker' = [worker EXCEPT ![b] = r]
                 /\ r = [pc |-> "recv", acc |-> worker[b].acc,
                         batch |-> EmptyBatch, out |-> NoBatch]
    BY <1>9 DEF WorkerSend
  <2>3. /\ o \in OutMsg /\ SendOut(o) /\ Held(worker[b]) = o.ids /\ worker[b].acc.ids = <<>>
        /\ UNCHANGED <<fed, inputQ, tok, bucketQ, answers>>
    BY <1>2, <1>9, <2>1 DEF WorkerSend, TypeInv, TypeOK, Held, Tidy
  <2>4. IdsAt(o.ids, h, At("worker", b))
    BY <1>2, <2>3
  <2>5. PICK g : g = MovedAll(h, o.ids, Out) /\ FrontAt(g)'
    BY <1>1, <1>2, <2>3, <2>4, BackSendAt, WorkerPlaces
  <2>6. Tidy(r) /\ Held(r) = <<>>
    BY <2>2, <2>3 DEF Tidy, Held
  <2>7. \A c \in Bucket : c # b => Stays(h, g, At("worker", c))
    BY <2>4, <2>5, MoveStays, WorkerPlaces
  <2>8. WorkerAt(g)'
    BY <1>1, <2>2, <2>6, <2>7, NoIdsAt, WorkerAtUpdate
  <2> QED BY <2>5, <2>8 DEF Once
<1>10. CASE WorkerExit(b)
  <2>1. PICK r : /\ worker' = [worker EXCEPT ![b] = r]
                 /\ r = [pc |-> "done", acc |-> worker[b].acc,
                         batch |-> EmptyBatch, out |-> NoBatch]
    BY <1>10 DEF WorkerExit
  <2>2. Tidy(r) /\ Held(r) = Held(worker[b])
    BY <1>10, <2>1 DEF Tidy, Held, WorkerExit
  <2> QED BY <1>5, <1>10, <2>1, <2>2 DEF WorkerExit, frontVars
<1> QED BY <1>6, <1>7, <1>8, <1>9, <1>10 DEF WorkerStep

LEMMA StepOnce == TypeInv /\ Once /\ [Next]_vars => Once'
<1> SUFFICES ASSUME TypeInv, Once, [Next]_vars PROVE Once'
  OBVIOUS
<1>1. PICK h : FrontAt(h) /\ WorkerAt(h)
  BY DEF Once
<1>2. ASSUME NEW g, worker' = worker, \A b \in Bucket : Stays(h, g, At("worker", b))
      PROVE  WorkerAt(g)'
  <2>1. ASSUME NEW b \in Bucket PROVE IdsAt(Held(worker[b]), g, At("worker", b))
    BY <1>1, <1>2, HeldType, StaysAt DEF WorkerAt
  <2> QED BY <1>1, <1>2, <2>1 DEF WorkerAt
<1>3. CASE FrontStep(Alive, NoSender) /\ UNCHANGED workerVars
  <2>1. PICK g : FrontAt(g)' /\ Leaves(h, g)
    BY <1>1, <1>3, FrontStepAt DEF TypeInv, TypeOK, FrontInv
  <2>2. \A b \in Bucket : Stays(h, g, At("worker", b))
    BY <2>1, LeavesStays, WorkerPlaces
  <2> QED BY <1>2, <1>3, <2>1, <2>2 DEF Once, workerVars
<1>4. ASSUME NEW b \in Bucket, WorkerStep(b) PROVE Once'
  BY <1>4, WorkerStepOnce
<1>5. CASE Finish \/ UNCHANGED vars
  <2>1. UNCHANGED <<frontVars, worker>>
    BY <1>5 DEF Finish, vars, workerVars
  <2>2. \A p : Stays(h, h, p)
    BY DEF Stays
  <2>3. FrontAt(h)'
    BY <1>1, <2>1, <2>2, BackMoveAt DEF TypeInv, TypeOK, FrontInv, frontVars
  <2> QED BY <1>2, <2>1, <2>2, <2>3 DEF Once
<1> QED BY <1>3, <1>4, <1>5 DEF Next, FrontStep, WorkerStep, Stopped

LEMMA OnceInvariant == Spec => []Once
<1>1. Init => Once
  <2> SUFFICES ASSUME Init PROVE Once
    OBVIOUS
  <2>1. FrontAt([m \in Msg |-> Source])
    BY FrontInitAt DEF Init
  <2>2. \A h : WorkerAt(h)
    BY NoIdsAt DEF Init, WorkerAt, Tidy, Held, EmptyAcc
  <2> QED BY <2>1, <2>2 DEF Once
<1>2. TypeInv /\ Once /\ [Next]_vars => Once'
  BY StepOnce
<1> QED BY <1>1, <1>2, TypeInvariant, PTL DEF Spec

-----------------------------------------------------------------------------
(* The promise to the caller.                                              *)

LEMMA InitContract == Init => Contract!Init
BY TextAssumption DEF Init, FrontInit, Contract!Init, Contract!Msg, Msg, NoAnswer

\* The contract's rightful answers are those of the model.
LEMMA SameRightful ==
    ASSUME TypeInv, NEW m \in Msg PROVE Contract!Rightful(m) = Rightful(m)
<1>1. text[m] \in Text
  BY DEF TypeInv, TypeOK, FrontTypeOK
<1> QED BY <1>1 DEF Contract!Rightful, Rightful

LEMMA StepContract ==
    TypeInv /\ Content /\ Once /\ EndMeansAnswered' /\ [Next]_vars
        => [Contract!Next]_(Contract!cvars)
<1> SUFFICES ASSUME TypeInv, Content, Once, EndMeansAnswered', [Next]_vars
             PROVE  Contract!Next \/ UNCHANGED Contract!cvars
  OBVIOUS
<1>1. FrontInv /\ FrontContent
  BY DEF TypeInv, TypeOK, FrontInv, Content
<1>2. PICK h : FrontAt(h)
  BY DEF Once
<1>3. CASE ConsumerRecv
  <2>1. PICK S \in SUBSET Msg :
          /\ \A m \in S : answers[m] = 0 /\ answer'[m] \in Rightful(m)
          /\ answers' = [m \in Msg |-> IF m \in S THEN 1 ELSE answers[m]]
          /\ answer' = [m \in Msg |-> IF m \in S THEN answer'[m] ELSE answer[m]]
    BY <1>1, <1>2, <1>3, RecvDelivers
  <2>2. text' = text /\ rx' = rx /\ rx = "open"
    BY <1>3 DEF ConsumerRecv
  <2>3. CASE S = {}
    <3>1. answers' = answers /\ answer' = answer
      BY <2>1, <2>3 DEF TypeInv, TypeOK, FrontTypeOK
    <3> QED BY <2>2, <3>1 DEF Contract!cvars
  <2>4. CASE S # {}
    <3>1. PICK a : a = [m \in S |-> answer'[m]]
      OBVIOUS
    <3>2. \A m \in S : a[m] = answer'[m] /\ a[m] \in Contract!Rightful(m)
      BY <2>1, <3>1, SameRightful
    <3>3. a \in [S -> UNION {Contract!Rightful(m) : m \in S}]
      BY <3>1, <3>2
    <3>4. answer' = [m \in Msg |-> IF m \in S THEN a[m] ELSE answer[m]]
      BY <2>1, <3>2
    <3>5. Contract!Deliver(S)
      BY <2>1, <2>2, <2>4, <3>2, <3>3, <3>4 DEF Contract!Deliver, Contract!Msg, Msg
    <3> QED BY <3>5 DEF Contract!Next, Contract!Msg, Msg
  <2> QED BY <2>3, <2>4
<1>4. CASE ConsumerEnd(NoSender)
  <2>1. \A m \in Msg : answers[m] = 1
    BY <1>2, <1>4 DEF ConsumerEnd, EndMeansAnswered, FrontAt
  <2>2. Contract!End
    BY <1>4, <2>1 DEF ConsumerEnd, Contract!End, Contract!Msg, Msg
  <2> QED BY <2>2 DEF Contract!Next
<1>5. CASE ConsumerDrop
  BY <1>5 DEF ConsumerDrop, Contract!Drop, Contract!Next
<1>6. CASE FeederSend \/ FeederEnd \/ Finish \/ UNCHANGED vars
  BY <1>6 DEF FeederSend, FeederEnd, Finish, frontVars, vars, Contract!cvars
<1>7. ASSUME NEW w \in Tok, TokStep(w) PROVE UNCHANGED Contract!cvars
  BY <1>7 DEF TokStep, TokRecv, TokSkip, TokHit, TokTokenize, TokSendOut, TokSendBucket,
              TokExit, Contract!cvars
<1>8. ASSUME NEW b \in Bucket, WorkerStep(b) PROVE UNCHANGED Contract!cvars
  BY <1>8 DEF WorkerStep, WorkerRecv, WorkerFlush, WorkerInfer, WorkerSend, WorkerExit,
              frontVars, Contract!cvars
<1> QED BY <1>3, <1>4, <1>5, <1>6, <1>7, <1>8 DEF Next, TokStep, WorkerStep, Stopped

\* Engine::embed on one GPU keeps its promise, whatever the threads do: every
\* message gets at most one answer, one its text may get, and the stream ends
\* only when every message has been answered.
THEOREM SingleGpuKeepsContract == Spec => ContractHolds
<1>1. TypeInv /\ Content /\ Once /\ EndMeansAnswered' /\ [Next]_vars
        => [Contract!Next]_(Contract!cvars)
  BY StepContract
<1> QED BY <1>1, InitContract, TypeInvariant, ContentInvariant, OnceInvariant,
           StreamEndIsComplete, PTL DEF Spec, ContractHolds, Contract!Spec

-----------------------------------------------------------------------------
(* The report of finish().  What a bucket thread has received is in its    *)
(* buffers, in the batch in hand, or counted in rows; when everything has  *)
(* been joined it can only be in rows.                                     *)

\* The rows in the hands of thread r, and k that it has inferred.
Load(r, k) == Len(r.acc.rows) + Len(r.batch.rows) + k
Mine == [b \in Bucket |-> Load(worker[b], rows[b])]

Tally ==
    /\ Counted
    /\ Received = SumFunction(Mine)
    /\ finished => ToksDone /\ WorkersDone

LEMMA LoadType ==
    ASSUME TypeInv, NEW b \in Bucket
    PROVE  Load(worker[b], rows[b]) \in Nat
<1>1. PICK k \in Nat : k = Len(worker[b].acc.rows)
  BY LenProperties DEF TypeInv, TypeOK, Acc
<1>2. PICK i \in Nat : i = Len(worker[b].batch.rows)
  BY LenProperties DEF TypeInv, TypeOK, BatchType
<1>3. PICK n \in Nat : n = rows[b]
  BY DEF TypeInv, TypeOK
<1>4. Load(worker[b], rows[b]) = k + i + n
  BY <1>1, <1>2, <1>3 DEF Load
<1> QED BY <1>4

LEMMA NothingHeld ==
    ASSUME NEW r, NEW k \in Nat, r.acc.rows = <<>>, r.batch = EmptyBatch
    PROVE  Load(r, k) = k
<1>1. Len(r.acc.rows) = 0 /\ Len(r.batch.rows) = 0
  BY EmptySeq DEF EmptyBatch
<1> QED BY <1>1 DEF Load

LEMMA InitTally == Init => Tally
<1> SUFFICES ASSUME Init PROVE Tally
  OBVIOUS
<1>1. SumFunction(Mine) = 0
  <2>1. PICK f : f = Mine
    OBVIOUS
  <2>2. \A b \in Bucket : Load(worker[b], rows[b]) = 0
    BY NothingHeld DEF Init, EmptyAcc
  <2>3. DOMAIN f = Bucket /\ \A b \in Bucket : f[b] = 0
    BY <2>1, <2>2 DEF Mine
  <2> QED BY <2>1, <2>3, BucketsFinite, SumOfZeros
<1> QED BY <1>1, FrontInitCounts DEF Init, Tally

\* Receiving adds a row to those in hand, ...
LEMMA RecvLoad ==
    ASSUME TypeInv, NEW b \in Bucket, WorkerRecv(b)
    PROVE  Load(worker'[b], rows'[b]) = Load(worker[b], rows[b]) + 1
<1> DEFINE acc == Push(worker[b].acc, Head(bucketQ[b]))
<1>1. /\ acc \in Acc /\ Aligned(acc) /\ Len(acc.rows) = Len(worker[b].acc.rows) + 1
  BY PushedAcc
<1>2. /\ Drain(acc) = EmptyAcc /\ BuildBatch(acc, b).rows = acc.rows
      /\ Len(EmptyAcc.rows) = 0 /\ Len(EmptyBatch.rows) = 0
  BY <1>1, BatchInHand, EmptySeq DEF BuildBatch, EmptyAcc, EmptyBatch
<1>3. /\ worker[b].batch = EmptyBatch /\ rows'[b] = rows[b]
      /\ worker'[b] = IF Filled(acc, BatchSize[b])
                      THEN [pc |-> "infer", acc |-> Drain(acc),
                            batch |-> BuildBatch(acc, b), out |-> NoBatch]
                      ELSE [pc |-> "recv", acc |-> acc, batch |-> EmptyBatch, out |-> NoBatch]
  BY DEF WorkerRecv, TypeInv, TypeOK, WorkerShape
<1>4. PICK k \in Nat : k = Len(worker[b].acc.rows)
  BY LenProperties DEF TypeInv, TypeOK, Acc
<1>5. PICK n \in Nat : n = rows[b]
  BY DEF TypeInv, TypeOK
<1> HIDE DEF acc
<1>6. CASE Filled(acc, BatchSize[b])
  <2>1. Len(worker'[b].acc.rows) = 0 /\ Len(worker'[b].batch.rows) = k + 1
    BY <1>1, <1>2, <1>3, <1>4, <1>6
  <2>2. Load(worker'[b], rows'[b]) = 0 + (k + 1) + n
    BY <1>3, <1>5, <2>1 DEF Load
  <2>3. Load(worker[b], rows[b]) = k + 0 + n
    BY <1>2, <1>3, <1>4, <1>5 DEF Load
  <2> QED BY <2>2, <2>3
<1>7. CASE ~Filled(acc, BatchSize[b])
  <2>1. Len(worker'[b].acc.rows) = k + 1 /\ Len(worker'[b].batch.rows) = 0
    BY <1>1, <1>2, <1>3, <1>4, <1>7
  <2>2. Load(worker'[b], rows'[b]) = (k + 1) + 0 + n
    BY <1>3, <1>5, <2>1 DEF Load
  <2>3. Load(worker[b], rows[b]) = k + 0 + n
    BY <1>2, <1>3, <1>4, <1>5 DEF Load
  <2> QED BY <2>2, <2>3
<1> QED BY <1>6, <1>7

\* ... and nothing else a bucket thread does changes their number.
LEMMA LoadStays ==
    ASSUME TypeInv, NEW b \in Bucket, WorkerStep(b), ~WorkerRecv(b)
    PROVE  Load(worker'[b], rows'[b]) = Load(worker[b], rows[b])
<1>1. PICK k \in Nat : k = Len(worker[b].acc.rows)
  BY LenProperties DEF TypeInv, TypeOK, Acc
<1>2. PICK i \in Nat : i = Len(worker[b].batch.rows)
  BY LenProperties DEF TypeInv, TypeOK, BatchType
<1>3. PICK n \in Nat : n = rows[b]
  BY DEF TypeInv, TypeOK
<1>4. Load(worker[b], rows[b]) = k + i + n
  BY <1>1, <1>2, <1>3 DEF Load
<1>5. /\ Len(EmptyAcc.rows) = 0 /\ Len(EmptyBatch.rows) = 0
      /\ worker[b].pc # "infer" => i = 0
  <2>1. Len(EmptyAcc.rows) = 0 /\ Len(EmptyBatch.rows) = 0
    BY EmptySeq DEF EmptyAcc, EmptyBatch
  <2> QED BY <1>2, <2>1 DEF TypeInv, WorkerShape
<1>6. CASE WorkerFlush(b)
  <2>1. /\ Drain(worker[b].acc) = EmptyAcc
        /\ BuildBatch(worker[b].acc, b).rows = worker[b].acc.rows
    BY BatchInHand DEF BuildBatch, TypeInv, TypeOK, WorkerShape
  <2>2. /\ worker[b].pc = "recv" /\ rows'[b] = n
        /\ worker'[b].acc = Drain(worker[b].acc)
        /\ worker'[b].batch = BuildBatch(worker[b].acc, b)
    BY <1>3, <1>6 DEF WorkerFlush, TypeInv, TypeOK
  <2>3. Load(worker'[b], rows'[b]) = 0 + k + n
    BY <1>1, <1>5, <2>1, <2>2 DEF Load
  <2>4. i = 0
    BY <1>5, <2>2
  <2> QED BY <1>4, <2>3, <2>4
<1>7. CASE WorkerInfer(b)
  <2>1. /\ rows'[b] = n + i
        /\ worker'[b].acc = worker[b].acc /\ worker'[b].batch = EmptyBatch
    BY <1>2, <1>3, <1>7 DEF WorkerInfer, TypeInv, TypeOK
  <2>2. Load(worker'[b], rows'[b]) = k + 0 + (n + i)
    BY <1>1, <1>5, <2>1 DEF Load
  <2> QED BY <1>4, <2>2
<1>8. CASE WorkerSend(b) \/ WorkerExit(b)
  <2>1. /\ rows'[b] = n /\ worker[b].pc # "infer"
        /\ worker'[b].acc = worker[b].acc /\ worker'[b].batch = EmptyBatch
    BY <1>3, <1>8 DEF WorkerSend, WorkerExit, TypeInv, TypeOK
  <2>2. Load(worker'[b], rows'[b]) = k + 0 + n
    BY <1>1, <1>5, <2>1 DEF Load
  <2>3. i = 0
    BY <1>5, <2>1
  <2> QED BY <1>4, <2>2, <2>3
<1> QED BY <1>6, <1>7, <1>8 DEF WorkerStep

LEMMA WorkerTally ==
    ASSUME TypeInv, Tally, NEW b \in Bucket, WorkerStep(b)
    PROVE  Counted' /\ Received' = SumFunction(Mine)'
<1>1. \A c \in Bucket : c # b => worker'[c] = worker[c] /\ rows'[c] = rows[c]
  BY DEF WorkerStep, WorkerRecv, WorkerFlush, WorkerInfer, WorkerSend, WorkerExit,
         TypeInv, TypeOK
<1>2. \A c \in Bucket : c # b => Load(worker'[c], rows'[c]) = Load(worker[c], rows[c])
  BY <1>1
<1>3. CASE WorkerRecv(b)
  <2>1. Counted' /\ Received' = Received + 1
    BY <1>3, BucketRecvCounts DEF WorkerRecv, TypeInv, TypeOK, Tally
  <2>2. PICK f : f = Mine
    OBVIOUS
  <2>3. PICK g : g = Mine'
    OBVIOUS
  <2>4. \A c \in Bucket : f[c] \in Int /\ f[c] = Load(worker[c], rows[c])
    BY <2>2, LoadType DEF Mine
  <2>5. g[b] = f[b] + 1 /\ \A c \in Bucket : c # b => g[c] = f[c]
    BY <1>2, <1>3, <2>3, <2>4, RecvLoad DEF Mine
  <2>6. Adds(f, g, b, 1)
    <3>1. DOMAIN f = Bucket /\ DOMAIN g = Bucket
      BY <2>2, <2>3 DEF Mine
    <3> QED BY <2>4, <2>5, <3>1, BucketsFinite DEF Adds
  <2>7. SumFunction(g) = SumFunction(f) + 1
    BY <2>6, SumAdds
  <2>8. SumFunction(Mine)' = SumFunction(g)
    BY <2>3
  <2> QED BY <2>1, <2>2, <2>7, <2>8 DEF Tally
<1>4. CASE ~WorkerRecv(b)
  <2>1. Mine' = Mine
    <3>1. \A c \in Bucket : Load(worker'[c], rows'[c]) = Load(worker[c], rows[c])
      BY <1>2, <1>4, LoadStays
    <3> QED BY <3>1 DEF Mine
  <2>2. UNCHANGED <<fed, inputQ, tok, bucketQ, processed, skipped, hits>>
    BY <1>4 DEF WorkerStep, WorkerFlush, WorkerInfer, WorkerSend, WorkerExit, frontVars
  <2>3. Counted' = Counted /\ Received' = Received
    BY <2>2, CountsStay
  <2>4. SumFunction(Mine)' = SumFunction(Mine)
    BY <2>1
  <2> QED BY <2>3, <2>4 DEF Tally
<1> QED BY <1>3, <1>4

LEMMA StepTally == TypeInv /\ Tally /\ [Next]_vars => Tally'
<1> SUFFICES ASSUME TypeInv, Tally, [Next]_vars PROVE Tally'
  OBVIOUS
<1>1. finished' => (ToksDone /\ WorkersDone)'
  <2>1. ToksDone => ToksDone'
    BY ToksStayDone
  <2>2. WorkersDone => WorkersDone'
    <3>1. ASSUME WorkersDone PROVE worker' = worker
      BY <3>1 DEF WorkersDone, Next, Stopped, Finish, vars, workerVars, WorkerRecv,
                  WorkerFlush, WorkerInfer, WorkerSend, WorkerExit
    <3> QED BY <3>1 DEF WorkersDone
  <2>3. finished' => finished \/ Finish
    BY DEF Next, Stopped, vars, workerVars, WorkerRecv, WorkerFlush, WorkerInfer,
           WorkerSend, WorkerExit
  <2> QED BY <2>1, <2>2, <2>3 DEF Tally, Finish
<1>2. ASSUME UNCHANGED workerVars PROVE SumFunction(Mine)' = SumFunction(Mine)
  <2>1. Mine' = Mine
    BY <1>2 DEF Mine, workerVars
  <2> QED BY <2>1
<1>3. CASE FrontStep(Alive, NoSender) /\ UNCHANGED workerVars
  <2>1. Counted' /\ Received' = Received
    BY <1>3, FrontStepCounts DEF TypeInv, TypeOK, FrontInv, Tally
  <2> QED BY <1>1, <1>2, <1>3, <2>1 DEF Tally
<1>4. ASSUME NEW b \in Bucket, WorkerStep(b) PROVE Tally'
  BY <1>1, <1>4, WorkerTally DEF Tally
<1>5. CASE Finish \/ UNCHANGED vars
  <2>1. UNCHANGED <<fed, inputQ, tok, bucketQ, processed, skipped, hits>>
    BY <1>5 DEF Finish, vars, frontVars
  <2>2. Mine' = Mine
    BY <1>5 DEF Finish, vars, workerVars, Mine
  <2>3. SumFunction(Mine)' = SumFunction(Mine)
    BY <2>2
  <2> QED BY <1>1, <2>1, <2>3, CountsStay DEF Tally
<1> QED BY <1>3, <1>4, <1>5 DEF Next, FrontStep, WorkerStep, Stopped

LEMMA TallyInvariant == Spec => []Tally
<1>1. TypeInv /\ Tally /\ [Next]_vars => Tally'
  BY StepTally
<1> QED BY <1>1, InitTally, TypeInvariant, PTL DEF Spec

\* The counters finish() reports account for every message of the input,
\* whichever of the threads counted it, and also if the caller dropped the
\* receiver half-way.
THEOREM ReportIsComplete == Spec => []ReportAddsUp
<1>1. TypeInv /\ Closing /\ Tally => ReportAddsUp
  <2> SUFFICES ASSUME TypeInv, Closing, Tally, finished
               PROVE  /\ processed + skipped = NMsg
                      /\ processed = hits + SumFunction(rows)
    BY DEF ReportAddsUp
  <2>1. ToksDone /\ WorkersDone
    BY DEF Tally
  <2>2. fed = NMsg /\ inputQ = <<>>
    BY <2>1, ConfigAssumption DEF Closing, ToksDone
  <2>3. \A b \in Bucket : /\ bucketQ[b] = <<>> /\ worker[b].acc.rows = <<>>
                          /\ worker[b].batch = EmptyBatch
    BY <2>1 DEF Closing, WorkersDone, TypeInv, WorkerShape
  <2>4. Mine = rows
    <3>1. \A b \in Bucket : Load(worker[b], rows[b]) = rows[b]
      BY <2>3, NothingHeld DEF TypeInv, TypeOK
    <3>2. rows = [b \in Bucket |-> rows[b]]
      BY DEF TypeInv, TypeOK
    <3>3. Mine = [b \in Bucket |-> rows[b]]
      BY <3>1 DEF Mine
    <3> QED BY <3>2, <3>3
  <2>5. processed + skipped = fed /\ processed = hits + Received
    BY <2>1, <2>2, <2>3, CountsAtEnd DEF Tally, TypeInv, TypeOK
  <2> QED BY <2>2, <2>4, <2>5 DEF Tally
<1> QED BY <1>1, TypeInvariant, ClosingInvariant, TallyInvariant, PTL
=============================================================================
