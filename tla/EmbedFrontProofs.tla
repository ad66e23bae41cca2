-------------------------- MODULE EmbedFrontProofs --------------------------
(***************************************************************************)
(* Lemmas about the actions of EmbedFront, for both paths that extend it:  *)
(* every action preserves the types and the shape of what is on its way to *)
(* the caller (a result has a row per id, or none at all), and none but    *)
(* ConsumerDrop loses a message.                                           *)
(***************************************************************************)
EXTENDS EmbedFront, BatchingProofs, FiniteSetTheorems

\* A result carries a row for each of its ids or no row at all.
WellFormed(o) == o.vecs = <<>> \/ Len(o.vecs) = Len(o.ids)

FrontShape ==
    /\ \A w \in Tok : /\ WellFormed(tok[w].out)
                      /\ tok[w].pc = "emit" => tok[w].out.ids = <<tok[w].id>>
    /\ \A i \in DOMAIN outQ : WellFormed(outQ[i])

FrontInv == FrontTypeOK /\ FrontShape

-----------------------------------------------------------------------------
(* Values. *)

LEMMA NoBatchType == NoBatch \in OutMsg /\ WellFormed(NoBatch)
BY EmptySeq DEF NoBatch, OutMsg, WellFormed

LEMMA SkippedBatchType ==
    ASSUME NEW m \in Msg
    PROVE  SkippedBatch(m) \in OutMsg /\ WellFormed(SkippedBatch(m))
BY DEF SkippedBatch, OutMsg, WellFormed

LEMMA HitBatchType ==
    ASSUME NEW m \in Msg, NEW v \in SUBSET Text
    PROVE  HitBatch(m, v) \in OutMsg /\ WellFormed(HitBatch(m, v))
BY DEF HitBatch, OutMsg, WellFormed

LEMMA HitVectorsType ==
    ASSUME inserted \in [Slot -> SUBSET Entry], NEW h \in Nat
    PROVE  HitVectors(h) \in SUBSET (SUBSET Text)
<1>1. CASE Capacity > 0 /\ h # 0
  <2>1. SlotOf(h) \in Slot
    BY <1>1, ConfigAssumption DEF SlotOf, Slot
  <2>2. \A e \in inserted[SlotOf(h)] : e.text \in Text
    BY <2>1 DEF Entry
  <2> QED BY <2>2 DEF HitVectors
<1>2. CASE ~(Capacity > 0 /\ h # 0)
  BY <1>2 DEF HitVectors
<1> QED BY <1>1, <1>2

\* A text is sent to an existing bucket.
LEMMA BucketOfText ==
    ASSUME NEW t \in Text
    PROVE  AssignBucket(BucketLen, TokLen[t]) \in Bucket
BY AssignBucketType, ConfigAssumption, TextAssumption DEF Bucket

LEMMA ItemType ==
    ASSUME FrontTypeOK, NEW m \in Msg
    PROVE  Item(m) \in BucketItem
BY TextAssumption DEF FrontTypeOK, Item, BucketItem

\* The number of times a batch names a message, and what it says about it.
LEMMA AnswerType ==
    ASSUME NEW o \in OutMsg, WellFormed(o), NEW m \in Msg
    PROVE  /\ Cardinality(Places(o, m)) \in Nat
           /\ Places(o, m) # {} => /\ Cardinality(Places(o, m)) > 0
                                   /\ OutcomeAt(o, Max(Places(o, m))) \in Outcome
<1>1. /\ o.ids \in Seq(Msg) /\ o.vecs \in Seq(SUBSET Text)
      /\ o.failed \in BOOLEAN
  BY DEF OutMsg
<1>2. /\ Len(o.ids) \in Nat /\ DOMAIN o.ids = 1..Len(o.ids)
      /\ DOMAIN o.vecs = 1..Len(o.vecs)
      /\ \A i \in DOMAIN o.vecs : o.vecs[i] \in SUBSET Text
  BY <1>1, LenProperties
<1>3. Places(o, m) \in SUBSET (1..Len(o.ids))
  BY <1>2 DEF Places
<1>4. IsFiniteSet(Places(o, m)) /\ Cardinality(Places(o, m)) \in Nat
  <2>1. IsFiniteSet(1..Len(o.ids))
    BY <1>2, FS_Interval
  <2>2. IsFiniteSet(Places(o, m))
    BY <1>3, <2>1, FS_Subset
  <2> QED BY <2>2, FS_CardinalityType
<1>5. ASSUME Places(o, m) # {}
      PROVE  /\ Cardinality(Places(o, m)) > 0
             /\ OutcomeAt(o, Max(Places(o, m))) \in Outcome
  <2>1. Max(Places(o, m)) \in Places(o, m)
    <3>1. Places(o, m) \in SUBSET (0..Len(o.ids))
      BY <1>2, <1>3
    <3> QED BY <1>2, <1>5, <3>1, MaxInSet
  <2>2. Cardinality(Places(o, m)) > 0
    BY <1>4, <1>5, FS_EmptySet
  <2>3. o.vecs # <<>> => o.vecs[Max(Places(o, m))] \in SUBSET Text
    BY <1>2, <1>3, <2>1 DEF WellFormed
  <2>4. OutcomeAt(o, Max(Places(o, m))) \in Outcome
    BY <2>3 DEF OutcomeAt, Outcome
  <2> QED BY <2>2, <2>4
<1> QED BY <1>4, <1>5
-----------------------------------------------------------------------------
(* The actions. *)

LEMMA FrontInitInv == FrontInit => FrontInv
<1> SUFFICES ASSUME FrontInit PROVE FrontInv
  OBVIOUS
<1>1. text \in [Msg -> Text]
  BY TextAssumption DEF FrontInit, Msg
<1>2. fed \in 0..NMsg
  BY SizeAssumption DEF FrontInit
<1>3. FrontTypeOK
  BY <1>1, <1>2, NoBatchType, EmptySeq DEF FrontInit, FrontTypeOK, NoAnswer, Outcome
<1>4. FrontShape
  BY NoBatchType DEF FrontInit, FrontShape
<1> QED BY <1>3, <1>4 DEF FrontInv

LEMMA FeederSendInv == ASSUME FrontInv, FeederSend PROVE FrontInv'
<1>1. fed + 1 \in 0..NMsg /\ fed + 1 \in Msg
  BY SizeAssumption DEF FrontInv, FrontTypeOK, FeederSend, Msg
<1>2. Append(inputQ, fed + 1) \in Seq(Msg)
  BY <1>1, AppendProperties DEF FrontInv, FrontTypeOK
<1> QED BY <1>1, <1>2 DEF FrontInv, FrontTypeOK, FrontShape, FeederSend

LEMMA FeederStopInv == ASSUME FrontInv, FeederEnd \/ FeederBreak PROVE FrontInv'
BY DEF FrontInv, FrontTypeOK, FrontShape, FeederEnd, FeederBreak

\* A tokenizer worker's record may be replaced by any good one.
TokRecord == [pc : {"recv", "got", "emit", "route", "done"}, id : Msg \cup {0}, out : OutMsg]
GoodTok(r) == /\ r.pc \in {"got", "emit", "route"} => r.id \in Msg
              /\ WellFormed(r.out)
              /\ r.pc = "emit" => r.out.ids = <<r.id>>

LEMMA TokUpdate ==
    ASSUME FrontInv, NEW w \in Tok, NEW r \in TokRecord, GoodTok(r),
           tok' = [tok EXCEPT ![w] = r]
    PROVE  /\ tok' \in [Tok -> TokRecord]
           /\ \A v \in Tok : GoodTok(tok'[v])
BY DEF FrontInv, FrontTypeOK, FrontShape, GoodTok, TokRecord

LEMMA TokRecvInv == ASSUME FrontInv, NEW w \in Tok, TokRecv(w) PROVE FrontInv'
<1>1. inputQ \in Seq(Msg) /\ inputQ # <<>>
  BY DEF FrontInv, FrontTypeOK, TokRecv
<1>2. Head(inputQ) \in Msg /\ Tail(inputQ) \in Seq(Msg)
  BY <1>1, HeadTailProperties
<1> QED BY <1>2, NoBatchType DEF FrontInv, FrontTypeOK, FrontShape, TokRecv

LEMMA TokSkipInv == ASSUME FrontInv, NEW w \in Tok, TokSkip(w) PROVE FrontInv'
<1>1. tok[w].id \in Msg
  BY DEF FrontInv, FrontTypeOK, TokSkip
<1> DEFINE r == [pc |-> "emit", id |-> tok[w].id, out |-> SkippedBatch(tok[w].id)]
<1>2. tok' = [tok EXCEPT ![w] = r]
  BY DEF TokSkip
<1>3. r \in TokRecord /\ GoodTok(r)
  BY <1>1, SkippedBatchType DEF TokRecord, GoodTok, SkippedBatch
<1> HIDE DEF r
<1>4. tok' \in [Tok -> TokRecord] /\ \A v \in Tok : GoodTok(tok'[v])
  BY <1>2, <1>3, TokUpdate
<1> QED BY <1>4 DEF FrontInv, FrontTypeOK, FrontShape, TokSkip, TokRecord, GoodTok

LEMMA TokHitInv == ASSUME FrontInv, NEW w \in Tok, TokHit(w) PROVE FrontInv'
<1>1. tok[w].id \in Msg /\ text[tok[w].id] \in Text
  BY DEF FrontInv, FrontTypeOK, TokHit
<1>2. Hash[text[tok[w].id]] \in Nat
  BY <1>1, TextAssumption
<1>3. HitVectors(Hash[text[tok[w].id]]) \in SUBSET (SUBSET Text)
  BY <1>2, HitVectorsType DEF FrontInv, FrontTypeOK
<1>4. PICK v \in SUBSET Text :
        tok' = [tok EXCEPT ![w] = [pc |-> "emit", id |-> @.id, out |-> HitBatch(@.id, v)]]
  BY <1>3 DEF TokHit
<1> DEFINE r == [pc |-> "emit", id |-> tok[w].id, out |-> HitBatch(tok[w].id, v)]
<1>5. tok' = [tok EXCEPT ![w] = r]
  BY <1>4
<1>6. r \in TokRecord /\ GoodTok(r)
  BY <1>1, HitBatchType DEF TokRecord, GoodTok, HitBatch
<1> HIDE DEF r
<1>7. tok' \in [Tok -> TokRecord] /\ \A u \in Tok : GoodTok(tok'[u])
  BY <1>5, <1>6, TokUpdate
<1> QED BY <1>7 DEF FrontInv, FrontTypeOK, FrontShape, TokHit, TokRecord, GoodTok

LEMMA TokTokenizeInv == ASSUME FrontInv, NEW w \in Tok, TokTokenize(w) PROVE FrontInv'
<1> DEFINE r == [pc |-> "route", id |-> tok[w].id, out |-> NoBatch]
<1>1. tok' = [tok EXCEPT ![w] = r]
  BY DEF TokTokenize
<1>2. r \in TokRecord /\ GoodTok(r)
  BY NoBatchType DEF FrontInv, FrontTypeOK, FrontShape, TokTokenize, TokRecord, GoodTok
<1> HIDE DEF r
<1>3. tok' \in [Tok -> TokRecord] /\ \A v \in Tok : GoodTok(tok'[v])
  BY <1>1, <1>2, TokUpdate
<1> QED BY <1>3 DEF FrontInv, FrontTypeOK, FrontShape, TokTokenize, TokRecord, GoodTok

\* Sending a well-formed result keeps the output channel well formed.
LEMMA SendOutInv ==
    ASSUME FrontInv, NEW o \in OutMsg, WellFormed(o), SendOut(o)
    PROVE  outQ' \in Seq(OutMsg) /\ \A i \in DOMAIN outQ' : WellFormed(outQ'[i])
<1>1. outQ \in Seq(OutMsg) /\ \A i \in DOMAIN outQ : WellFormed(outQ[i])
  BY DEF FrontInv, FrontTypeOK, FrontShape
<1>2. CASE rx = "open"
  <2>1. outQ' = Append(outQ, o)
    BY <1>2 DEF SendOut
  <2>2. /\ outQ' \in Seq(OutMsg) /\ Len(outQ') = Len(outQ) + 1
        /\ \A i \in 1..Len(outQ) : outQ'[i] = outQ[i]
        /\ outQ'[Len(outQ) + 1] = o
    BY <1>1, <2>1, AppendProperties
  <2>3. /\ DOMAIN outQ = 1..Len(outQ) /\ DOMAIN outQ' = 1..Len(outQ')
        /\ Len(outQ) \in Nat
    BY <1>1, <2>2, LenProperties
  <2> QED BY <1>1, <2>2, <2>3
<1>3. CASE rx # "open"
  BY <1>1, <1>3 DEF SendOut
<1> QED BY <1>2, <1>3

LEMMA TokSendOutInv == ASSUME FrontInv, NEW w \in Tok, TokSendOut(w) PROVE FrontInv'
<1>1. tok[w].out \in OutMsg /\ WellFormed(tok[w].out)
  BY DEF FrontInv, FrontTypeOK, FrontShape
<1>2. outQ' \in Seq(OutMsg) /\ \A i \in DOMAIN outQ' : WellFormed(outQ'[i])
  BY <1>1, SendOutInv DEF TokSendOut
<1> QED BY <1>2, NoBatchType DEF FrontInv, FrontTypeOK, FrontShape, TokSendOut

LEMMA TokSendBucketInv ==
    ASSUME FrontInv, NEW w \in Tok, NEW alive, TokSendBucket(w, alive) PROVE FrontInv'
<1> DEFINE m == tok[w].id
           b == AssignBucket(BucketLen, TokLen[text[m]])
<1>1. m \in Msg /\ text[m] \in Text
  BY DEF FrontInv, FrontTypeOK, TokSendBucket
<1>2. b \in Bucket /\ Item(m) \in BucketItem
  BY <1>1, BucketOfText, ItemType DEF FrontInv
<1>3. Append(bucketQ[b], Item(m)) \in Seq(BucketItem)
  BY <1>2, AppendProperties DEF FrontInv, FrontTypeOK
<1>4. bucketQ' = [bucketQ EXCEPT ![b] = Append(bucketQ[b], Item(m))]
  BY DEF TokSendBucket
<1>5. bucketQ' \in [Bucket -> Seq(BucketItem)]
  BY <1>3, <1>4 DEF FrontInv, FrontTypeOK
<1> QED BY <1>5, NoBatchType DEF FrontInv, FrontTypeOK, FrontShape, TokSendBucket

LEMMA TokBreakInv ==
    ASSUME FrontInv, NEW w \in Tok, NEW alive, TokBreak(w, alive) PROVE FrontInv'
<1>1. inputQ' \in Seq(Msg)
  BY EmptySeq DEF FrontInv, FrontTypeOK, TokBreak
<1> QED BY <1>1, NoBatchType DEF FrontInv, FrontTypeOK, FrontShape, TokBreak

LEMMA TokExitInv == ASSUME FrontInv, NEW w \in Tok, TokExit(w) PROVE FrontInv'
BY NoBatchType DEF FrontInv, FrontTypeOK, FrontShape, TokExit

LEMMA ConsumerRecvInv == ASSUME FrontInv, ConsumerRecv PROVE FrontInv'
<1> DEFINE o == Head(outQ)
<1>1. outQ \in Seq(OutMsg) /\ outQ # <<>>
  BY DEF FrontInv, FrontTypeOK, ConsumerRecv
<1>2. /\ o \in OutMsg /\ Tail(outQ) \in Seq(OutMsg)
      /\ Len(Tail(outQ)) = Len(outQ) - 1
      /\ \A i \in 1..Len(Tail(outQ)) : Tail(outQ)[i] = outQ[i + 1]
  BY <1>1, HeadTailProperties
<1>3. /\ DOMAIN outQ = 1..Len(outQ) /\ Len(outQ) \in Nat /\ Len(outQ) > 0
      /\ DOMAIN Tail(outQ) = 1..Len(Tail(outQ))
  BY <1>1, <1>2, LenProperties, EmptySeq
<1>4. o = outQ[1]
  BY <1>1
<1>5. WellFormed(o) /\ \A i \in DOMAIN Tail(outQ) : WellFormed(Tail(outQ)[i])
  BY <1>2, <1>3, <1>4 DEF FrontInv, FrontShape
<1>6. \A m \in Msg : /\ Cardinality(Places(o, m)) \in Nat
                     /\ Places(o, m) # {} => OutcomeAt(o, Max(Places(o, m))) \in Outcome
  BY <1>2, <1>5, AnswerType
<1> HIDE DEF o
<1>7. answers' \in [Msg -> Nat] /\ answer' \in [Msg -> Outcome]
  BY <1>6 DEF FrontInv, FrontTypeOK, ConsumerRecv, o
<1> QED BY <1>2, <1>5, <1>7 DEF FrontInv, FrontTypeOK, FrontShape, ConsumerRecv

LEMMA ConsumerEndInv == ASSUME FrontInv, NEW noSender, ConsumerEnd(noSender) PROVE FrontInv'
BY DEF FrontInv, FrontTypeOK, FrontShape, ConsumerEnd

LEMMA ConsumerDropInv == ASSUME FrontInv, ConsumerDrop PROVE FrontInv'
BY EmptySeq DEF FrontInv, FrontTypeOK, FrontShape, ConsumerDrop

\* A step of the threads EmbedFront models, or of the caller, in which no
\* thread gives up.
FrontStep(alive, noSender) ==
    \/ FeederSend \/ FeederEnd
    \/ \E w \in Tok : \/ TokRecv(w) \/ TokSkip(w) \/ TokHit(w) \/ TokTokenize(w)
                      \/ TokSendOut(w) \/ TokSendBucket(w, alive) \/ TokExit(w)
    \/ ConsumerRecv \/ ConsumerEnd(noSender) \/ ConsumerDrop

LEMMA FrontStepInv ==
    ASSUME FrontInv, NEW alive, NEW noSender, FrontStep(alive, noSender) PROVE FrontInv'
BY FeederSendInv, FeederStopInv, TokRecvInv, TokSkipInv, TokHitInv, TokTokenizeInv,
   TokSendOutInv, TokSendBucketInv, TokExitInv, ConsumerRecvInv, ConsumerEndInv,
   ConsumerDropInv DEF FrontStep

-----------------------------------------------------------------------------
(* No action but ConsumerDrop loses a message while the caller listens:    *)
(* what waits in a place of EmbedFront, or has been answered, does so or   *)
(* is so afterwards.                                                       *)

\* Steps that leave the queues alone and move a message within a worker.
LEMMA TokStaysInHand ==
    ASSUME FrontInv, NEW w \in Tok, tok[w].pc \in {"got", "emit", "route"},
           NEW pc \in {"emit", "route"}, NEW out,
           tok' = [tok EXCEPT ![w] = [pc |-> pc, id |-> @.id, out |-> out]],
           UNCHANGED <<inputQ, bucketQ, outQ, answers>>,
           NEW m, InFront(m)
    PROVE  InFront(m)'
<1>1. InTok(m) => InTok(m)'
  BY DEF InTok, FrontInv, FrontTypeOK
<1>2. InInput(m)' = InInput(m) /\ InBucket(m)' = InBucket(m) /\ InOut(m)' = InOut(m)
  BY DEF InInput, InBucket, InOut
<1> QED BY <1>1, <1>2 DEF InFront

LEMMA FeederSendKeeps ==
    ASSUME FrontInv, FeederSend, NEW m \in 1..fed', m \in 1..fed => InFront(m)
    PROVE  InFront(m)'
<1>1. m \in 1..fed \/ m = fed + 1
  BY DEF FeederSend, FrontInv, FrontTypeOK
<1>2. inputQ \in Seq(Msg) /\ fed + 1 \in Msg
  BY SizeAssumption DEF FeederSend, FrontInv, FrontTypeOK, Msg
<1>3. CASE m = fed + 1
  <2>1. \E j \in DOMAIN inputQ' : inputQ'[j] = m
    BY <1>2, <1>3, AppendElements DEF FeederSend
  <2> QED BY <2>1 DEF InFront, InInput, Range
<1>4. CASE InFront(m)
  <2>1. InInput(m) => InInput(m)'
    <3>1. \A i \in DOMAIN inputQ : \E j \in DOMAIN inputQ' : inputQ'[j] = inputQ[i]
      <4>1. inputQ' = Append(inputQ, fed + 1)
        BY DEF FeederSend
      <4> QED BY <1>2, <4>1, AppendKeeps
    <3> QED BY <3>1 DEF InInput, Range
  <2>2. InTok(m)' = InTok(m) /\ InBucket(m)' = InBucket(m) /\ InOut(m)' = InOut(m)
    BY DEF InTok, InBucket, InOut, FeederSend
  <2> QED BY <1>4, <2>1, <2>2 DEF InFront, FeederSend
<1> QED BY <1>1, <1>3, <1>4

LEMMA TokRecvKeeps ==
    ASSUME FrontInv, NEW w \in Tok, TokRecv(w), NEW m, InFront(m)
    PROVE  InFront(m)'
<1>1. inputQ \in Seq(Msg) /\ inputQ # <<>> /\ tok[w].pc = "recv"
  BY DEF FrontInv, FrontTypeOK, TokRecv
<1>2. InInput(m) => InInput(m)' \/ m = Head(inputQ)
  <2>1. \A i \in DOMAIN inputQ :
          inputQ[i] = Head(inputQ) \/ \E j \in DOMAIN inputQ' : inputQ'[j] = inputQ[i]
    BY <1>1, TailElements DEF TokRecv
  <2> QED BY <2>1 DEF InInput, Range
<1>3. m = Head(inputQ) => InTok(m)'
  BY DEF TokRecv, InTok, FrontInv, FrontTypeOK
<1>4. InTok(m) => InTok(m)'
  BY <1>1 DEF TokRecv, InTok, FrontInv, FrontTypeOK
<1>5. InBucket(m)' = InBucket(m) /\ InOut(m)' = InOut(m)
  BY DEF InBucket, InOut, TokRecv
<1> QED BY <1>2, <1>3, <1>4, <1>5 DEF InFront, TokRecv

\* A result sent while the caller listens is in the output channel, and so
\* is everything that was there.
LEMMA SendOutKeeps ==
    ASSUME FrontInv, NEW o \in OutMsg, rx = "open", SendOut(o), NEW m
    PROVE  /\ m \in Range(o.ids) => InOut(m)'
           /\ InOut(m) => InOut(m)'
<1>1. outQ \in Seq(OutMsg) /\ outQ' = Append(outQ, o)
  BY DEF FrontInv, FrontTypeOK, SendOut
<1>2. \E j \in DOMAIN outQ' : outQ'[j] = o
  BY <1>1, AppendElements
<1>3. \A i \in DOMAIN outQ : \E j \in DOMAIN outQ' : outQ'[j] = outQ[i]
  BY <1>1, AppendElements
<1> QED BY <1>2, <1>3 DEF InOut

LEMMA TokSendBucketKeeps ==
    ASSUME FrontInv, NEW w \in Tok, NEW alive, TokSendBucket(w, alive),
           NEW m, InFront(m)
    PROVE  InFront(m)'
<1> DEFINE k == tok[w].id
           b == AssignBucket(BucketLen, TokLen[text[k]])
<1>1. k \in Msg /\ text[k] \in Text
  BY DEF FrontInv, FrontTypeOK, TokSendBucket
<1>2. b \in Bucket /\ Item(k) \in BucketItem
  BY <1>1, BucketOfText, ItemType DEF FrontInv
<1>3. bucketQ' = [bucketQ EXCEPT ![b] = Append(bucketQ[b], Item(k))]
  BY DEF TokSendBucket
<1> HIDE DEF b
<1>4. /\ bucketQ \in [Bucket -> Seq(BucketItem)]
      /\ bucketQ'[b] = Append(bucketQ[b], Item(k))
      /\ \A c \in Bucket : c # b => bucketQ'[c] = bucketQ[c]
  BY <1>2, <1>3 DEF FrontInv, FrontTypeOK
<1>5. /\ \E j \in DOMAIN bucketQ'[b] : bucketQ'[b][j] = Item(k)
      /\ \A i \in DOMAIN bucketQ[b] : \E j \in DOMAIN bucketQ'[b] : bucketQ'[b][j] = bucketQ[b][i]
  <2>1. bucketQ[b] \in Seq(BucketItem)
    BY <1>2, <1>4
  <2> DEFINE q == bucketQ[b]
             e == Item(k)
  <2>2. q \in Seq(BucketItem) /\ e \in BucketItem
    BY <1>2, <2>1
  <2> HIDE DEF q, e
  <2>3. \E j \in DOMAIN Append(q, e) : Append(q, e)[j] = e
    BY <2>2, AppendElements
  <2>4. \A i \in DOMAIN q : \E j \in DOMAIN Append(q, e) : Append(q, e)[j] = q[i]
    BY <2>2, AppendKeeps
  <2> QED BY <1>4, <2>3, <2>4 DEF q, e
<1>6. m = k => InBucket(m)'
  BY <1>2, <1>5 DEF InBucket, Item
<1>7. InBucket(m) => InBucket(m)'
  <2> SUFFICES ASSUME InBucket(m) PROVE InBucket(m)'
    OBVIOUS
  <2>0. PICK c \in Bucket : \E i \in DOMAIN bucketQ[c] : bucketQ[c][i].id = m
    BY DEF InBucket
  <2>1. PICK i \in DOMAIN bucketQ[c] : bucketQ[c][i].id = m
    BY <2>0
  <2>2. CASE c = b
    <3>1. PICK j \in DOMAIN bucketQ'[b] : bucketQ'[b][j] = bucketQ[b][i]
      BY <1>5, <2>1, <2>2
    <3>2. bucketQ'[b][j].id = m
      BY <2>1, <2>2, <3>1
    <3> QED BY <1>2, <3>2 DEF InBucket
  <2>3. CASE c # b
    <3>1. bucketQ'[c] = bucketQ[c]
      BY <1>4, <2>1, <2>3
    <3> QED BY <2>1, <3>1 DEF InBucket
  <2> QED BY <2>2, <2>3
<1>8. InTok(m) => InTok(m)' \/ m = k
  BY DEF TokSendBucket, InTok, FrontInv, FrontTypeOK
<1>9. InInput(m)' = InInput(m) /\ InOut(m)' = InOut(m)
  BY DEF InInput, InOut, TokSendBucket
<1> QED BY <1>6, <1>7, <1>8, <1>9 DEF InFront, TokSendBucket

LEMMA ConsumerRecvKeeps ==
    ASSUME FrontInv, ConsumerRecv, NEW m \in Msg, InFront(m)
    PROVE  InFront(m)'
<1> DEFINE o == Head(outQ)
<1>1. outQ \in Seq(OutMsg) /\ outQ # <<>> /\ outQ' = Tail(outQ)
  BY DEF FrontInv, FrontTypeOK, ConsumerRecv
<1>2. /\ \E i \in DOMAIN outQ : outQ[i] = o
      /\ \A i \in DOMAIN outQ : outQ[i] = o \/ \E j \in DOMAIN outQ' : outQ'[j] = outQ[i]
  BY <1>1, TailElements
<1>3. o \in OutMsg /\ WellFormed(o)
  BY <1>1, <1>2, HeadTailProperties DEF FrontInv, FrontShape
<1>4. /\ Cardinality(Places(o, m)) \in Nat
      /\ Places(o, m) # {} => Cardinality(Places(o, m)) > 0
  BY <1>3, AnswerType
<1>5. answers' = [k \in Msg |-> answers[k] + Cardinality(Places(o, k))]
  BY DEF ConsumerRecv
<1> HIDE DEF o
<1>6. InOut(m) => InOut(m)' \/ m \in Range(o.ids)
  BY <1>2 DEF InOut
<1>7. m \in Range(o.ids) => Places(o, m) # {}
  BY DEF Places, Range
<1>8. answers[m] \in Nat /\ answers'[m] = answers[m] + Cardinality(Places(o, m))
  BY <1>5 DEF FrontInv, FrontTypeOK
<1>9. InInput(m)' = InInput(m) /\ InTok(m)' = InTok(m) /\ InBucket(m)' = InBucket(m)
  BY DEF InInput, InTok, InBucket, ConsumerRecv
<1>10. answers[m] > 0 \/ m \in Range(o.ids) => answers'[m] > 0
  BY <1>4, <1>7, <1>8
<1> QED BY <1>6, <1>9, <1>10 DEF InFront

\* The steps of EmbedFront's threads and of the caller, unless it drops the
\* receiver, keep a message that waits somewhere waiting or answer it.
LEMMA FrontKeeps ==
    ASSUME FrontInv, NEW alive, NEW noSender, FrontStep(alive, noSender),
           rx' # "dropped", rx = "ended" => ToksDone, NEW m \in Msg, InFront(m)
    PROVE  InFront(m)'
<1>1. CASE FeederSend
  <2>1. fed + 1 \in Nat /\ fed' = fed + 1 /\ fed \in 0..NMsg
    BY <1>1, SizeAssumption DEF FeederSend, FrontInv, FrontTypeOK
  <2>2. CASE m \in 1..fed'
    BY <1>1, <2>2, FeederSendKeeps
  <2>3. InInput(m) => InInput(m)'
    <3>1. inputQ \in Seq(Msg) /\ fed + 1 \in Msg
      BY <1>1, SizeAssumption DEF FeederSend, FrontInv, FrontTypeOK, Msg
    <3>2. \A i \in DOMAIN inputQ : \E j \in DOMAIN inputQ' : inputQ'[j] = inputQ[i]
      BY <1>1, <3>1, AppendKeeps DEF FeederSend
    <3> QED BY <3>2 DEF InInput, Range
  <2> QED BY <1>1, <2>3 DEF InFront, FeederSend, InTok, InBucket, InOut
<1>2. CASE FeederEnd
  BY <1>2 DEF FeederEnd, InFront, InInput, InTok, InBucket, InOut
<1>3. ASSUME NEW w \in Tok, TokRecv(w) PROVE InFront(m)'
  BY <1>3, TokRecvKeeps
<1>4. ASSUME NEW w \in Tok, TokSkip(w) \/ TokHit(w) \/ TokTokenize(w) PROVE InFront(m)'
  <2>1. /\ tok[w].pc \in {"got", "emit", "route"}
        /\ UNCHANGED <<inputQ, bucketQ, outQ, answers>>
    BY <1>4 DEF TokSkip, TokHit, TokTokenize
  <2>2. PICK pc \in {"emit", "route"} : \E out :
          tok' = [tok EXCEPT ![w] = [pc |-> pc, id |-> @.id, out |-> out]]
    BY <1>4 DEF TokSkip, TokHit, TokTokenize
  <2> QED BY <2>1, <2>2, TokStaysInHand
<1>5. ASSUME NEW w \in Tok, TokSendOut(w) PROVE InFront(m)'
  <2>1. tok[w].pc = "emit" /\ tok[w].out \in OutMsg /\ tok[w].out.ids = <<tok[w].id>>
    BY <1>5 DEF TokSendOut, FrontInv, FrontTypeOK, FrontShape
  <2>2. rx = "open"
    BY <1>5, <2>1 DEF ToksDone, TokSendOut, FrontInv, FrontTypeOK
  <2>3. /\ m \in Range(tok[w].out.ids) => InOut(m)'
        /\ InOut(m) => InOut(m)'
    BY <1>5, <2>1, <2>2, SendOutKeeps DEF TokSendOut
  <2>4. m = tok[w].id => m \in Range(tok[w].out.ids)
    BY <2>1 DEF Range
  <2>5. InTok(m) => InTok(m)' \/ m = tok[w].id
    BY <1>5 DEF InTok, TokSendOut, FrontInv, FrontTypeOK
  <2>6. InInput(m)' = InInput(m) /\ InBucket(m)' = InBucket(m) /\ answers' = answers
    BY <1>5 DEF InInput, InBucket, TokSendOut
  <2> QED BY <2>3, <2>4, <2>5, <2>6 DEF InFront
<1>6. ASSUME NEW w \in Tok, TokSendBucket(w, alive) PROVE InFront(m)'
  BY <1>6, TokSendBucketKeeps
<1>7. ASSUME NEW w \in Tok, TokExit(w) PROVE InFront(m)'
  <2>1. InTok(m) => InTok(m)'
    BY <1>7 DEF InTok, TokExit, FrontInv, FrontTypeOK
  <2> QED BY <1>7, <2>1 DEF InFront, InInput, InBucket, InOut, TokExit
<1>8. CASE ConsumerRecv
  BY <1>8, ConsumerRecvKeeps
<1>9. CASE ConsumerEnd(noSender)
  BY <1>9 DEF ConsumerEnd, InFront, InInput, InTok, InBucket, InOut
<1>10. CASE ConsumerDrop
  BY <1>10 DEF ConsumerDrop
<1> QED BY <1>1, <1>2, <1>3, <1>4, <1>5, <1>6, <1>7, <1>8, <1>9, <1>10 DEF FrontStep

-----------------------------------------------------------------------------
(* What the threads behind the bucket channels need. *)

\* The result sent for a batch has a row for each id, or no row at all.
LEMMA OutBatchType ==
    ASSUME NEW batch \in BatchType, Aligned(batch), NEW ok \in BOOLEAN
    PROVE  OutBatch(batch, ok) \in OutMsg /\ WellFormed(OutBatch(batch, ok))
<1>1. batch.ids \in Seq(Msg) /\ batch.rows \in Seq(Text)
  BY DEF BatchType
<1>2. /\ Len(batch.ids) \in Nat /\ Len(batch.rows) = Len(batch.ids)
      /\ DOMAIN batch.ids = 1..Len(batch.ids)
      /\ DOMAIN batch.rows = 1..Len(batch.ids)
      /\ \A i \in 1..Len(batch.ids) : batch.rows[i] \in Text
  BY <1>1, LenProperties DEF Aligned
<1> DEFINE v == [i \in DOMAIN batch.ids |-> {batch.rows[i]}]
<1>3. v \in [1..Len(batch.ids) -> SUBSET Text]
  BY <1>2
<1>4. v \in Seq(SUBSET Text) /\ Len(v) = Len(batch.ids)
  BY <1>2, <1>3, SeqDef
<1> QED BY <1>1, <1>4, EmptySeq DEF OutBatch, OutMsg, WellFormed

\* Storing a batch in the dedup cache stores texts under natural numbers.
LEMMA InsertAllType ==
    ASSUME FrontTypeOK, NEW batch \in BatchType, Aligned(batch), InsertAll(batch)
    PROVE  inserted' \in [Slot -> SUBSET Entry]
<1>1. batch.hashes \in Seq(Nat) /\ batch.rows \in Seq(Text)
  BY DEF BatchType
<1>2. \A i \in DOMAIN batch.rows : batch.hashes[i] \in Nat /\ batch.rows[i] \in Text
  BY <1>1, LenProperties DEF Aligned
<1>3. \A i \in DOMAIN batch.rows : [key |-> batch.hashes[i], text |-> batch.rows[i]] \in Entry
  BY <1>2 DEF Entry
<1>4. inserted \in [Slot -> SUBSET Entry]
  BY DEF FrontTypeOK
<1> QED BY <1>3, <1>4 DEF InsertAll

LEMMA EmptyBatchType == EmptyBatch \in BatchType /\ Aligned(EmptyBatch)
BY EmptySeq DEF EmptyBatch, BatchType, Aligned

\* The first item of a bucket channel.
LEMMA HeadOfBucket ==
    ASSUME FrontTypeOK, NEW b \in Bucket, bucketQ[b] # <<>>,
           bucketQ' = [bucketQ EXCEPT ![b] = Tail(@)]
    PROVE  /\ Head(bucketQ[b]) \in BucketItem
           /\ bucketQ' \in [Bucket -> Seq(BucketItem)]
<1>1. bucketQ \in [Bucket -> Seq(BucketItem)]
  BY DEF FrontTypeOK
<1>2. Head(bucketQ[b]) \in BucketItem /\ Tail(bucketQ[b]) \in Seq(BucketItem)
  BY <1>1, HeadTailProperties
<1> QED BY <1>1, <1>2

\* Receiving from a bucket channel takes away the item received only.
LEMMA BucketRecvKeeps ==
    ASSUME FrontTypeOK, NEW b \in Bucket, bucketQ[b] # <<>>,
           bucketQ' = [bucketQ EXCEPT ![b] = Tail(@)], NEW m, InBucket(m)
    PROVE  InBucket(m)' \/ m = Head(bucketQ[b]).id
<1> DEFINE item == Head(bucketQ[b])
<1>1. bucketQ \in [Bucket -> Seq(BucketItem)]
  BY DEF FrontTypeOK
<1>2. /\ bucketQ'[b] = Tail(bucketQ[b])
      /\ \A c \in Bucket : c # b => bucketQ'[c] = bucketQ[c]
  BY <1>1
<1>3. \A i \in DOMAIN bucketQ[b] :
          bucketQ[b][i] = item \/ \E j \in DOMAIN bucketQ'[b] : bucketQ'[b][j] = bucketQ[b][i]
  <2> DEFINE q == bucketQ[b]
  <2>1. q \in Seq(BucketItem) /\ q # <<>>
    BY <1>1
  <2> HIDE DEF q
  <2>2. \A i \in DOMAIN q : q[i] = Head(q) \/ \E j \in DOMAIN Tail(q) : Tail(q)[j] = q[i]
    BY <2>1, TailElements
  <2> QED BY <1>2, <2>2 DEF q
<1> SUFFICES ASSUME m # item.id PROVE InBucket(m)'
  OBVIOUS
<1>4. PICK c \in Bucket : \E i \in DOMAIN bucketQ[c] : bucketQ[c][i].id = m
  BY DEF InBucket
<1>5. PICK i \in DOMAIN bucketQ[c] : bucketQ[c][i].id = m
  BY <1>4
<1>6. CASE c = b
  <2>1. bucketQ[b][i] # item
    BY <1>5, <1>6
  <2>2. PICK j \in DOMAIN bucketQ'[b] : bucketQ'[b][j] = bucketQ[b][i]
    BY <1>3, <1>5, <1>6, <2>1
  <2> QED BY <1>5, <1>6, <2>2 DEF InBucket
<1>7. CASE c # b
  <2>1. bucketQ'[c] = bucketQ[c]
    BY <1>2, <1>7
  <2> QED BY <1>5, <2>1 DEF InBucket
<1> QED BY <1>6, <1>7

\* The item a thread receives joins its aligned buffers.
LEMMA PushItem ==
    ASSUME NEW acc \in Acc, Aligned(acc), NEW item \in BucketItem
    PROVE  /\ Push(acc, item) \in Acc
           /\ Aligned(Push(acc, item))
           /\ Len(Push(acc, item).rows) = Len(acc.rows) + 1
           /\ Range(Push(acc, item).ids) = Range(acc.ids) \cup {item.id}
<1>1. /\ acc \in AccOf(Text, Msg, Nat) /\ Acc = AccOf(Text, Msg, Nat)
      /\ item \in ItemOf(Text, Msg, Nat)
  BY DEF Acc, AccOf, BucketItem, ItemOf
<1>2. acc.ids \in Seq(Msg) /\ item.id \in Msg
  BY DEF Acc, BucketItem
<1>3. Range(Append(acc.ids, item.id)) = Range(acc.ids) \cup {item.id}
  BY <1>2, AppendRange
<1>4. Push(acc, item).ids = Append(acc.ids, item.id)
  BY DEF Push
<1>5. Range(Push(acc, item).ids) = Range(acc.ids) \cup {item.id}
  BY <1>3, <1>4
<1> QED BY <1>1, <1>5, PushType

\* What a thread has in hand once it has built a batch.
LEMMA BatchInHand ==
    ASSUME NEW acc \in Acc, Aligned(acc), NEW b \in Bucket
    PROVE  /\ BuildBatch(acc, b) \in BatchType /\ Aligned(BuildBatch(acc, b))
           /\ Drain(acc) = EmptyAcc /\ EmptyAcc \in Acc /\ Aligned(EmptyAcc)
<1>1. acc \in AccOf(Text, Msg, Nat) /\ Acc = AccOf(Text, Msg, Nat)
  BY DEF Acc, AccOf
<1>2. BuildBatch(acc, b) = [shape |-> b, bucket |-> b, rows |-> acc.rows,
                            ids |-> acc.ids, hashes |-> acc.hashes]
  BY <1>1, BuildBatchTakesAll
<1>3. BuildBatch(acc, b) \in BatchType /\ Aligned(BuildBatch(acc, b))
  BY <1>2 DEF Acc, BatchType, Aligned
<1> QED BY <1>1, <1>3, DrainLeavesNothing, EmptyAccType

\* Counting rows per bucket stays counting, whatever bucket a batch names.
LEMMA CountRows ==
    ASSUME NEW f \in [Bucket -> Nat], NEW k, NEW n \in Nat
    PROVE  [f EXCEPT ![k] = @ + n] \in [Bucket -> Nat]
<1>1. CASE k \in Bucket
  BY <1>1
<1>2. CASE k \notin Bucket
  BY <1>2
<1> QED BY <1>1, <1>2

-----------------------------------------------------------------------------
(* What is on its way belongs together.  An item in the channel of bucket b *)
(* is a text that was not filtered, is sent to b, and travels with its own  *)
(* id and hash; a result holds, for each of its ids, an answer the message  *)
(* may get; the dedup cache holds under a hash texts with that hash.        *)

ItemsOf(b) ==
    {Item(m) : m \in {k \in Msg : /\ text[k] \notin TooShort
                                  /\ AssignBucket(BucketLen, TokLen[text[k]]) = b}}

EntriesOf(s) ==
    {e \in Entry : /\ e.text \notin TooShort /\ e.key = Hash[e.text]
                   /\ e.key # 0 /\ SlotOf(e.key) = s}

\* The answers message m may get.
Rightful(m) ==
    IF text[m] \in TooShort THEN {[kind |-> "skipped", vec |-> {}]}
    ELSE {[kind |-> "failed", vec |-> {}]}
         \cup {[kind |-> "row", vec |-> v] : v \in (SUBSET SlotMates(text[m])) \ {{}}}

RightOut(o) == \A i \in DOMAIN o.ids : OutcomeAt(o, i) \in Rightful(o.ids[i])

TokContent == \A w \in Tok : /\ tok[w].pc = "route" => text[tok[w].id] \notin TooShort
                             /\ RightOut(tok[w].out)
BucketContent == \A b \in Bucket : \A i \in DOMAIN bucketQ[b] : bucketQ[b][i] \in ItemsOf(b)
OutContent    == \A i \in DOMAIN outQ : RightOut(outQ[i])
CacheContent  == \A s \in Slot : inserted[s] \subseteq EntriesOf(s)
AnswerContent == \A m \in Msg : IF answers[m] = 0 THEN answer[m] = NoAnswer
                                ELSE answer[m] \in Rightful(m)

FrontContent == TokContent /\ BucketContent /\ OutContent /\ CacheContent /\ AnswerContent

\* The parts that a step does not touch.
LEMMA ContentStays ==
    ASSUME text' = text, FrontContent
    PROVE  /\ tok' = tok => TokContent'
           /\ bucketQ' = bucketQ => BucketContent'
           /\ outQ' = outQ => OutContent'
           /\ inserted' = inserted => CacheContent'
           /\ answers' = answers /\ answer' = answer => AnswerContent'
<1>1. /\ \A m : Rightful(m)' = Rightful(m)
      /\ \A b : ItemsOf(b)' = ItemsOf(b)
  BY DEF Rightful, ItemsOf, Item
<1>2. \A o : RightOut(o)' = RightOut(o)
  BY <1>1 DEF RightOut
<1>3. tok' = tok => TokContent'
  BY <1>2 DEF TokContent, FrontContent
<1>4. bucketQ' = bucketQ => BucketContent'
  BY <1>1 DEF BucketContent, FrontContent
<1>5. outQ' = outQ => OutContent'
  BY <1>2 DEF OutContent, FrontContent
<1>6. inserted' = inserted => CacheContent'
  BY DEF CacheContent, FrontContent
<1>7. answers' = answers /\ answer' = answer => AnswerContent'
  BY <1>1 DEF AnswerContent, FrontContent
<1> QED BY <1>3, <1>4, <1>5, <1>6, <1>7

LEMMA NoBatchRight == RightOut(NoBatch)
BY DEF RightOut, NoBatch

LEMMA FrontInitContent == FrontInit => FrontContent
<1> SUFFICES ASSUME FrontInit PROVE FrontContent
  OBVIOUS
<1> QED BY NoBatchRight DEF FrontInit, FrontContent, TokContent, BucketContent, OutContent,
                            CacheContent, AnswerContent

\* A tokenizer worker's record may be replaced by any rightful one.
LEMMA TokContentUpdate ==
    ASSUME FrontInv, FrontContent, text' = text, NEW w \in Tok, NEW r, RightOut(r.out),
           r.pc = "route" => text[r.id] \notin TooShort,
           tok' = [tok EXCEPT ![w] = r]
    PROVE  TokContent'
<1>1. \A o : RightOut(o)' = RightOut(o)
  BY DEF RightOut, Rightful
<1>2. tok'[w] = r /\ \A v \in Tok : v # w => tok'[v] = tok[v]
  BY DEF FrontInv, FrontTypeOK
<1> QED BY <1>1, <1>2 DEF TokContent, FrontContent

\* A filtered message may be told so.
LEMMA SkippedRight ==
    ASSUME NEW m \in Msg, text[m] \in TooShort
    PROVE  RightOut(SkippedBatch(m))
BY DEF RightOut, SkippedBatch, OutcomeAt, Rightful

\* What a hit returns mixes texts that share the message's slot.
LEMMA HitRight ==
    ASSUME FrontInv, FrontContent, NEW m \in Msg, text[m] \notin TooShort,
           NEW v \in HitVectors(Hash[text[m]])
    PROVE  RightOut(HitBatch(m, v))
<1> DEFINE t == text[m]
           h == Hash[t]
<1>1. t \in Text /\ h \in Nat
  BY TextAssumption DEF FrontInv, FrontTypeOK
<1>2. /\ Capacity > 0 /\ h # 0
      /\ v \in (SUBSET {e.text : e \in inserted[SlotOf(h)]}) \ {{}}
  BY DEF HitVectors
<1>3. SlotOf(h) \in Slot
  BY <1>1, <1>2, ConfigAssumption DEF SlotOf, Slot
<1>4. inserted[SlotOf(h)] \subseteq EntriesOf(SlotOf(h))
  BY <1>3 DEF FrontContent, CacheContent
<1>5. \A e \in EntriesOf(SlotOf(h)) : e.text \in SlotMates(t)
  <2>1. \A e \in EntriesOf(SlotOf(h)) :
          /\ e.text \in Text \ TooShort /\ Hash[e.text] # 0
          /\ SlotOf(Hash[e.text]) = SlotOf(h)
    BY DEF EntriesOf, Entry
  <2>2. SlotMates(t) = {u \in Text \ TooShort : Hash[u] # 0 /\ SlotOf(Hash[u]) = SlotOf(h)}
    BY <1>2, ConfigAssumption DEF SlotMates
  <2> QED BY <2>1, <2>2
<1>6. v \in (SUBSET SlotMates(t)) \ {{}}
  BY <1>2, <1>4, <1>5
<1>7. OutcomeAt(HitBatch(m, v), 1) = [kind |-> "row", vec |-> v]
  BY DEF OutcomeAt, HitBatch
<1>8. [kind |-> "row", vec |-> v] \in Rightful(m)
  BY <1>6 DEF Rightful
<1> QED BY <1>7, <1>8 DEF RightOut, HitBatch

\* Sending a rightful result keeps the output channel rightful.
LEMMA SendOutRight ==
    ASSUME FrontInv, FrontContent, text' = text, NEW o \in OutMsg, RightOut(o), SendOut(o)
    PROVE  OutContent'
<1>1. \A p : RightOut(p)' = RightOut(p)
  BY DEF RightOut, Rightful
<1>2. outQ \in Seq(OutMsg) /\ \A i \in DOMAIN outQ : RightOut(outQ[i])
  BY DEF FrontInv, FrontTypeOK, FrontContent, OutContent
<1>3. \A j \in DOMAIN outQ' : outQ'[j] = o \/ \E i \in DOMAIN outQ : outQ'[j] = outQ[i]
  BY <1>2, AppendOnly DEF SendOut
<1> QED BY <1>1, <1>2, <1>3 DEF OutContent

\* A text goes to its own bucket, with its own id and hash.
LEMMA SendBucketRight ==
    ASSUME FrontInv, FrontContent, NEW w \in Tok, NEW alive, TokSendBucket(w, alive)
    PROVE  BucketContent'
<1> DEFINE m == tok[w].id
           b == AssignBucket(BucketLen, TokLen[text[m]])
<1>1. m \in Msg /\ text[m] \in Text /\ text[m] \notin TooShort
  BY DEF FrontInv, FrontTypeOK, TokSendBucket, FrontContent, TokContent
<1>2. b \in Bucket /\ Item(m) \in BucketItem /\ Item(m) \in ItemsOf(b)
  BY <1>1, BucketOfText, ItemType DEF FrontInv, ItemsOf
<1>3. bucketQ' = [bucketQ EXCEPT ![b] = Append(bucketQ[b], Item(m))] /\ text' = text
  BY DEF TokSendBucket
<1>4. bucketQ \in [Bucket -> Seq(BucketItem)]
  BY DEF FrontInv, FrontTypeOK
<1>5. \A c : ItemsOf(c)' = ItemsOf(c)
  BY <1>3 DEF ItemsOf, Item
<1> DEFINE q == bucketQ[b]
           e == Item(m)
<1>6. q \in Seq(BucketItem) /\ e \in BucketItem /\ e \in ItemsOf(b)
      /\ \A i \in DOMAIN q : q[i] \in ItemsOf(b)
  BY <1>2, <1>4 DEF FrontContent, BucketContent
<1>7. /\ bucketQ'[b] = Append(q, e)
      /\ \A c \in Bucket : c # b => bucketQ'[c] = bucketQ[c]
  BY <1>2, <1>3, <1>4
<1> HIDE DEF q, e, b, m
<1>8. \A j \in DOMAIN Append(q, e) : Append(q, e)[j] \in ItemsOf(b)
  <2>1. \A j \in DOMAIN Append(q, e) :
          Append(q, e)[j] = e \/ \E i \in DOMAIN q : Append(q, e)[j] = q[i]
    BY <1>6, AppendOnly
  <2> QED BY <1>6, <2>1
<1> QED BY <1>5, <1>7, <1>8 DEF FrontContent, BucketContent

\* The caller hears of each message what the batch says of it.
LEMMA RecvRight ==
    ASSUME FrontInv, FrontContent, ConsumerRecv
    PROVE  OutContent' /\ AnswerContent'
<1> DEFINE o == Head(outQ)
<1>1. /\ outQ \in Seq(OutMsg) /\ outQ # <<>> /\ outQ' = Tail(outQ) /\ text' = text
      /\ \A i \in DOMAIN outQ : RightOut(outQ[i])
  BY DEF FrontInv, FrontTypeOK, ConsumerRecv, FrontContent, OutContent
<1>2. /\ \E i \in DOMAIN outQ : outQ[i] = o
      /\ \A j \in DOMAIN outQ' : \E i \in DOMAIN outQ : outQ'[j] = outQ[i]
  BY <1>1, TailElements
<1>3. o \in OutMsg /\ WellFormed(o) /\ RightOut(o)
  BY <1>1, <1>2, HeadTailProperties DEF FrontInv, FrontShape
<1>4. /\ answers' = [m \in Msg |-> answers[m] + Cardinality(Places(o, m))]
      /\ answer' = [m \in Msg |-> IF Places(o, m) = {} THEN answer[m]
                                  ELSE OutcomeAt(o, Max(Places(o, m)))]
  BY DEF ConsumerRecv
<1> HIDE DEF o
<1>5. OutContent'
  <2>1. \A p : RightOut(p)' = RightOut(p)
    BY <1>1 DEF RightOut, Rightful
  <2> QED BY <1>1, <1>2, <2>1 DEF OutContent
<1>6. ASSUME NEW m \in Msg
      PROVE  IF answers'[m] = 0 THEN answer'[m] = NoAnswer ELSE answer'[m] \in Rightful(m)
  <2>1. IF answers[m] = 0 THEN answer[m] = NoAnswer ELSE answer[m] \in Rightful(m)
    BY DEF FrontContent, AnswerContent
  <2>2. answers[m] \in Nat
    BY DEF FrontInv, FrontTypeOK
  <2>3. CASE Places(o, m) = {}
    <3>1. Cardinality(Places(o, m)) = 0
      BY <2>3, FS_EmptySet
    <3>2. answers'[m] = answers[m] + Cardinality(Places(o, m)) /\ answer'[m] = answer[m]
      BY <1>4, <2>3
    <3>3. answers'[m] = answers[m]
      BY <2>2, <3>1, <3>2
    <3> QED BY <2>1, <3>2, <3>3
  <2>4. CASE Places(o, m) # {}
    <3>1. Cardinality(Places(o, m)) \in Nat /\ Cardinality(Places(o, m)) > 0
      BY <1>3, <2>4, AnswerType
    <3>2. Max(Places(o, m)) \in Places(o, m)
      <4>1. /\ o.ids \in Seq(Msg) /\ Len(o.ids) \in Nat /\ DOMAIN o.ids = 1..Len(o.ids)
        BY <1>3, LenProperties DEF OutMsg
      <4>2. Places(o, m) \in SUBSET (0..Len(o.ids))
        BY <4>1 DEF Places
      <4> QED BY <2>4, <4>1, <4>2, MaxInSet
    <3>3. OutcomeAt(o, Max(Places(o, m))) \in Rightful(m)
      BY <1>3, <3>2 DEF RightOut, Places
    <3>4. answers'[m] # 0
      BY <1>4, <2>2, <3>1
    <3> QED BY <1>4, <2>4, <3>3, <3>4
  <2> QED BY <2>3, <2>4
<1>7. AnswerContent'
  <2>1. \A m : Rightful(m)' = Rightful(m)
    BY <1>1 DEF Rightful
  <2> QED BY <1>6, <2>1 DEF AnswerContent
<1> QED BY <1>5, <1>7

LEMMA FrontStepContent ==
    ASSUME FrontInv, FrontContent, NEW alive, NEW noSender,
           \/ FrontStep(alive, noSender) \/ FeederBreak
           \/ \E w \in Tok : TokBreak(w, alive)
    PROVE  FrontContent'
<1>1. text' = text /\ inserted' = inserted
  BY DEF FrontStep, FeederSend, FeederEnd, FeederBreak, TokRecv, TokSkip, TokHit, TokTokenize,
     TokSendOut, TokSendBucket, TokBreak, TokExit, ConsumerRecv, ConsumerEnd, ConsumerDrop
<1>2. /\ tok' = tok => TokContent'
      /\ bucketQ' = bucketQ => BucketContent'
      /\ outQ' = outQ => OutContent'
      /\ CacheContent'
      /\ answers' = answers /\ answer' = answer => AnswerContent'
  BY <1>1, ContentStays
<1>3. CASE FeederSend \/ FeederEnd \/ FeederBreak \/ ConsumerEnd(noSender)
  BY <1>2, <1>3 DEF FrontContent, FeederSend, FeederEnd, FeederBreak, ConsumerEnd
<1>4. CASE ConsumerRecv
  BY <1>2, <1>4, RecvRight DEF FrontContent, ConsumerRecv
<1>5. CASE ConsumerDrop
  <2>1. OutContent'
    BY <1>5 DEF OutContent, ConsumerDrop
  <2> QED BY <1>2, <1>5, <2>1 DEF FrontContent, ConsumerDrop
<1>6. ASSUME NEW w \in Tok, TokRecv(w) \/ TokBreak(w, alive) \/ TokExit(w)
      PROVE  FrontContent'
  <2>1. PICK r : r.out = NoBatch /\ r.pc # "route" /\ tok' = [tok EXCEPT ![w] = r]
    BY <1>6 DEF TokRecv, TokBreak, TokExit
  <2>2. TokContent'
    BY <1>1, <2>1, NoBatchRight, TokContentUpdate
  <2> QED BY <1>2, <1>6, <2>2 DEF FrontContent, TokRecv, TokBreak, TokExit
<1>7. ASSUME NEW w \in Tok, TokSkip(w) PROVE FrontContent'
  <2> DEFINE r == [pc |-> "emit", id |-> tok[w].id, out |-> SkippedBatch(tok[w].id)]
  <2>1. tok[w].id \in Msg /\ text[tok[w].id] \in TooShort
    BY <1>7 DEF TokSkip, FrontInv, FrontTypeOK
  <2>2. tok' = [tok EXCEPT ![w] = r] /\ RightOut(r.out) /\ r.pc # "route"
    BY <1>7, <2>1, SkippedRight DEF TokSkip
  <2> HIDE DEF r
  <2>3. TokContent'
    BY <1>1, <2>2, TokContentUpdate
  <2> QED BY <1>2, <1>7, <2>3 DEF FrontContent, TokSkip
<1>8. ASSUME NEW w \in Tok, TokHit(w) PROVE FrontContent'
  <2> DEFINE m == tok[w].id
  <2>1. m \in Msg /\ text[m] \notin TooShort
    BY <1>8 DEF TokHit, FrontInv, FrontTypeOK
  <2>2. PICK v \in HitVectors(Hash[text[m]]) :
          tok' = [tok EXCEPT ![w] = [pc |-> "emit", id |-> @.id, out |-> HitBatch(@.id, v)]]
    BY <1>8 DEF TokHit
  <2> DEFINE r == [pc |-> "emit", id |-> m, out |-> HitBatch(m, v)]
  <2>3. tok' = [tok EXCEPT ![w] = r]
    BY <2>2
  <2>4. RightOut(r.out) /\ r.pc # "route"
    BY <2>1, HitRight
  <2> HIDE DEF r
  <2>5. TokContent'
    BY <1>1, <2>3, <2>4, TokContentUpdate
  <2> QED BY <1>2, <1>8, <2>5 DEF FrontContent, TokHit
<1>9. ASSUME NEW w \in Tok, TokTokenize(w) PROVE FrontContent'
  <2> DEFINE r == [pc |-> "route", id |-> tok[w].id, out |-> NoBatch]
  <2>1. tok' = [tok EXCEPT ![w] = r] /\ RightOut(r.out) /\ text[r.id] \notin TooShort
    BY <1>9, NoBatchRight DEF TokTokenize
  <2> HIDE DEF r
  <2>2. TokContent'
    BY <1>1, <2>1, TokContentUpdate
  <2> QED BY <1>2, <1>9, <2>2 DEF FrontContent, TokTokenize
<1>10. ASSUME NEW w \in Tok, TokSendOut(w) \/ TokSendBucket(w, alive) PROVE FrontContent'
  <2> DEFINE r == [pc |-> "recv", id |-> 0, out |-> NoBatch]
  <2>1. tok' = [tok EXCEPT ![w] = r] /\ RightOut(r.out) /\ r.pc # "route"
    BY <1>10, NoBatchRight DEF TokSendOut, TokSendBucket
  <2> HIDE DEF r
  <2>2. TokContent'
    BY <1>1, <2>1, TokContentUpdate
  <2>3. CASE TokSendOut(w)
    <3>1. tok[w].out \in OutMsg /\ RightOut(tok[w].out) /\ SendOut(tok[w].out)
      BY <2>3 DEF TokSendOut, FrontInv, FrontTypeOK, FrontContent, TokContent
    <3>2. OutContent'
      BY <1>1, <3>1, SendOutRight
    <3> QED BY <1>2, <2>2, <2>3, <3>2 DEF FrontContent, TokSendOut
  <2>4. CASE TokSendBucket(w, alive)
    <3>1. BucketContent'
      BY <2>4, SendBucketRight
    <3> QED BY <1>2, <2>2, <2>4, <3>1 DEF FrontContent, TokSendBucket
  <2> QED BY <1>10, <2>3, <2>4
<1> QED BY <1>3, <1>4, <1>5, <1>6, <1>7, <1>8, <1>9, <1>10 DEF FrontStep

(* ... and behind the bucket channels. *)

\* What a thread takes from the channel of bucket b was meant for b.
LEMMA BucketRecvRight ==
    ASSUME FrontInv, FrontContent, NEW b \in Bucket, bucketQ[b] # <<>>, text' = text,
           bucketQ' = [bucketQ EXCEPT ![b] = Tail(@)]
    PROVE  Head(bucketQ[b]) \in ItemsOf(b) /\ BucketContent'
<1> DEFINE q == bucketQ[b]
<1>1. /\ q \in Seq(BucketItem) /\ q # <<>>
      /\ \A i \in DOMAIN q : q[i] \in ItemsOf(b)
  BY DEF FrontInv, FrontTypeOK, FrontContent, BucketContent
<1>2. /\ bucketQ'[b] = Tail(q)
      /\ \A c \in Bucket : c # b => bucketQ'[c] = bucketQ[c]
  BY DEF FrontInv, FrontTypeOK
<1>3. \A c : ItemsOf(c)' = ItemsOf(c)
  BY DEF ItemsOf, Item
<1> HIDE DEF q
<1>4. /\ \E i \in DOMAIN q : q[i] = Head(q)
      /\ \A j \in DOMAIN Tail(q) : \E i \in DOMAIN q : Tail(q)[j] = q[i]
  BY <1>1, TailElements
<1>5. Head(q) \in ItemsOf(b)
  BY <1>1, <1>4
<1>6. BucketContent'
  BY <1>1, <1>2, <1>3, <1>4 DEF FrontContent, BucketContent
<1> QED BY <1>5, <1>6 DEF q

\* A buffer of items of bucket b: each row is the text of the id beside it,
\* was not filtered, has the hash beside it and fits b.
LEMMA ItemsFit ==
    ASSUME FrontTypeOK, NEW batch, NEW b \in Bucket, Holds(batch, ItemsOf(b)),
           NEW i \in DOMAIN batch.rows
    PROVE  /\ batch.ids[i] \in Msg /\ batch.rows[i] = text[batch.ids[i]]
           /\ batch.rows[i] \in Text \ TooShort
           /\ batch.hashes[i] = Hash[batch.rows[i]]
           /\ TokLen[batch.rows[i]] <= BucketLen[b]
<1>1. PICK m \in Msg : /\ text[m] \notin TooShort
                       /\ AssignBucket(BucketLen, TokLen[text[m]]) = b
                       /\ batch.ids[i] = m /\ batch.rows[i] = text[m]
                       /\ batch.hashes[i] = Hash[text[m]]
  BY DEF Holds, ItemsOf, Item
<1>2. text[m] \in Text
  BY DEF FrontTypeOK
<1>3. TokLen[text[m]] <= BucketLen[b]
  BY <1>1, <1>2, AssignBucketFits, ConfigAssumption, TextAssumption
<1> QED BY <1>1, <1>2, <1>3

\* A batch of such items is answered rightfully, whether inference succeeds
\* or fails.
LEMMA OutBatchRight ==
    ASSUME FrontTypeOK, NEW batch \in BatchType, Aligned(batch), NEW b \in Bucket,
           Holds(batch, ItemsOf(b)), NEW ok \in BOOLEAN
    PROVE  RightOut(OutBatch(batch, ok))
<1> DEFINE o == OutBatch(batch, ok)
<1>1. /\ o.ids = batch.ids /\ o.failed = ~ok
      /\ o.vecs = IF ok THEN [i \in DOMAIN batch.ids |-> {batch.rows[i]}] ELSE <<>>
  BY DEF OutBatch
<1>2. DOMAIN batch.ids = DOMAIN batch.rows
  BY LenProperties DEF BatchType, Aligned
<1> HIDE DEF o
<1> SUFFICES ASSUME NEW i \in DOMAIN batch.ids
             PROVE  OutcomeAt(o, i) \in Rightful(batch.ids[i])
  BY <1>1 DEF RightOut, o
<1> DEFINE m == batch.ids[i]
           t == batch.rows[i]
<1>3. m \in Msg /\ t = text[m] /\ t \in Text \ TooShort
  BY <1>2, ItemsFit
<1>4. CASE ~ok
  <2>1. OutcomeAt(o, i) = [kind |-> "failed", vec |-> {}]
    BY <1>1, <1>4 DEF OutcomeAt
  <2> QED BY <1>3, <2>1 DEF Rightful
<1>5. CASE ok
  <2>1. o.vecs[i] = {t} /\ o.vecs # <<>>
    <3>1. o.vecs = [j \in DOMAIN batch.ids |-> {batch.rows[j]}]
      BY <1>1, <1>5
    <3>2. DOMAIN o.vecs = DOMAIN batch.ids
      BY <3>1
    <3>3. o.vecs # <<>>
      BY <3>2
    <3> QED BY <3>1, <3>3
  <2>2. OutcomeAt(o, i) = [kind |-> "row", vec |-> {t}]
    BY <1>1, <1>5, <2>1 DEF OutcomeAt
  <2>3. t \in SlotMates(t)
    BY <1>3 DEF SlotMates
  <2>4. {t} \in (SUBSET SlotMates(text[m])) \ {{}}
    BY <1>3, <2>3
  <2>5. text[m] \notin TooShort
    BY <1>3
  <2> HIDE DEF t, m
  <2> QED BY <2>2, <2>4, <2>5 DEF Rightful, m
<1> QED BY <1>4, <1>5

\* The rows of a batch are stored under their own hashes.
LEMMA InsertAllRight ==
    ASSUME FrontInv, FrontContent, NEW batch \in BatchType, Aligned(batch), NEW b \in Bucket,
           Holds(batch, ItemsOf(b)), InsertAll(batch)
    PROVE  CacheContent'
<1>1. \A i \in DOMAIN batch.rows :
        /\ batch.rows[i] \in Text \ TooShort /\ batch.hashes[i] = Hash[batch.rows[i]]
  BY ItemsFit DEF FrontInv
<1>2. \A i \in DOMAIN batch.rows, s \in Slot :
        batch.hashes[i] # 0 /\ SlotOf(batch.hashes[i]) = s =>
            [key |-> batch.hashes[i], text |-> batch.rows[i]] \in EntriesOf(s)
  BY <1>1, TextAssumption DEF EntriesOf, Entry
<1>3. ASSUME NEW s \in Slot PROVE inserted'[s] \subseteq EntriesOf(s)
  <2>1. inserted'[s] = inserted[s] \cup
          {[key |-> batch.hashes[i], text |-> batch.rows[i]] :
              i \in {j \in DOMAIN batch.rows :
                        batch.hashes[j] # 0 /\ SlotOf(batch.hashes[j]) = s}}
    BY DEF InsertAll
  <2>2. inserted[s] \subseteq EntriesOf(s)
    BY DEF FrontContent, CacheContent
  <2> QED BY <1>2, <2>1, <2>2
<1> QED BY <1>3 DEF CacheContent

\* The steps behind the bucket channels change at most what the last three
\* lemmas are about.
LEMMA BackContentStays ==
    ASSUME FrontContent, text' = text, tok' = tok, answers' = answers, answer' = answer,
           bucketQ' = bucketQ \/ BucketContent', outQ' = outQ \/ OutContent',
           inserted' = inserted \/ CacheContent'
    PROVE  FrontContent'
BY ContentStays DEF FrontContent
-----------------------------------------------------------------------------
(* No message is in two places.  A map h tells where each message is: at    *)
(* its source, in a channel, in a thread's hands, with the caller.  That    *)
(* there is one such map for all places keeps them apart, and a step moves  *)
(* what it moves by changing h.                                             *)

At(kind, x) == <<kind, x>>
Source == At("source", 0)
Input  == At("input", 0)
Out    == At("out", 0)
Caller == At("caller", 0)
FrontPlace ==
    {Source, Input, Out, Caller} \cup {At("tok", w) : w \in Tok}
                                 \cup {At("bucket", b) : b \in Bucket}

\* The ids in a sequence, of the items in a bucket channel, of the batches in
\* a channel are different ones, all at place p.
IdsAt(s, h, p) ==
    /\ \A i \in DOMAIN s : h[s[i]] = p
    /\ \A i, j \in DOMAIN s : s[i] = s[j] => i = j
ItemsAt(q, h, p) ==
    /\ \A i \in DOMAIN q : h[q[i].id] = p
    /\ \A i, j \in DOMAIN q : q[i].id = q[j].id => i = j
BatchesAt(q, h, p) ==
    /\ \A i \in DOMAIN q : IdsAt(q[i].ids, h, p)
    /\ \A i, j \in DOMAIN q : \A k \in DOMAIN q[i].ids, l \in DOMAIN q[j].ids :
          q[i].ids[k] = q[j].ids[l] => i = j

Holding == {"got", "emit", "route"}

FrontAt(h) ==
    /\ \A m \in Msg : m > fed => h[m] = Source
    /\ IdsAt(inputQ, h, Input)
    /\ \A w \in Tok : tok[w].pc \in Holding => h[tok[w].id] = At("tok", w)
    /\ \A b \in Bucket : ItemsAt(bucketQ[b], h, At("bucket", b))
    /\ BatchesAt(outQ, h, Out)
    /\ \A m \in Msg : answers[m] = 0 \/ (answers[m] = 1 /\ h[m] = Caller)

\* Messages moved to place p: one, or those that s names.
Moved(h, e, p) == [m \in Msg |-> IF m = e THEN p ELSE h[m]]
MovedAll(h, s, p) == [m \in Msg |-> IF m \in Range(s) THEN p ELSE h[m]]

\* Who is at p stays there.
Stays(h, g, p) == \A m \in Msg : h[m] = p => g[m] = p

LEMMA PlacesDiffer ==
    /\ \A k, l, x, y : At(k, x) = At(l, y) <=> k = l /\ x = y
    /\ \A k, x : k \notin {"source", "input", "out", "caller", "tok", "bucket"} =>
          At(k, x) \notin FrontPlace
BY DEF At, FrontPlace, Source, Input, Out, Caller

\* What the elements of a channel's contents name are messages.
LEMMA IdsType ==
    /\ \A q \in Seq(BucketItem) : \A i \in DOMAIN q : q[i].id \in Msg
    /\ \A q \in Seq(OutMsg) \cup Seq(BatchType) : \A i \in DOMAIN q : q[i].ids \in Seq(Msg)
<1>1. ASSUME NEW S, NEW q \in Seq(S), NEW i \in DOMAIN q PROVE q[i] \in S
  BY <1>1, LenProperties, ElementOfSeq
<1>2. ASSUME NEW q \in Seq(BucketItem), NEW i \in DOMAIN q PROVE q[i].id \in Msg
  <2>1. q[i] \in BucketItem
    BY <1>1
  <2> QED BY <2>1 DEF BucketItem
<1>3. ASSUME NEW q \in Seq(OutMsg), NEW i \in DOMAIN q PROVE q[i].ids \in Seq(Msg)
  <2>1. q[i] \in OutMsg
    BY <1>1
  <2> QED BY <2>1 DEF OutMsg
<1>4. ASSUME NEW q \in Seq(BatchType), NEW i \in DOMAIN q PROVE q[i].ids \in Seq(Msg)
  <2>1. q[i] \in BatchType
    BY <1>1
  <2> QED BY <2>1 DEF BatchType
<1> QED BY <1>2, <1>3, <1>4

LEMMA StaysAt ==
    ASSUME NEW h, NEW g, NEW p, Stays(h, g, p)
    PROVE  /\ \A s \in Seq(Msg) : IdsAt(s, h, p) => IdsAt(s, g, p)
           /\ \A q \in Seq(BucketItem) : ItemsAt(q, h, p) => ItemsAt(q, g, p)
           /\ \A q \in Seq(OutMsg) \cup Seq(BatchType) : BatchesAt(q, h, p) => BatchesAt(q, g, p)
<1>1. ASSUME NEW s \in Seq(Msg), IdsAt(s, h, p) PROVE IdsAt(s, g, p)
  <2>1. \A i \in DOMAIN s : s[i] \in Msg
    OBVIOUS
  <2> QED BY <1>1, <2>1 DEF IdsAt, Stays
<1>2. ASSUME NEW q \in Seq(BucketItem), ItemsAt(q, h, p) PROVE ItemsAt(q, g, p)
  <2>1. \A i \in DOMAIN q : q[i].id \in Msg
    BY IdsType
  <2> QED BY <1>2, <2>1 DEF ItemsAt, Stays
<1>3. ASSUME NEW q \in Seq(OutMsg) \cup Seq(BatchType), BatchesAt(q, h, p)
      PROVE  BatchesAt(q, g, p)
  <2>1. \A i \in DOMAIN q : q[i].ids \in Seq(Msg)
    BY IdsType
  <2> QED BY <1>1, <1>3, <2>1 DEF BatchesAt
<1> QED BY <1>1, <1>2, <1>3

\* One id more in a channel: it comes from elsewhere.
LEMMA AppendId ==
    ASSUME NEW s \in Seq(Msg), NEW e \in Msg, NEW h, NEW p, IdsAt(s, h, p), h[e] # p
    PROVE  IdsAt(Append(s, e), Moved(h, e, p), p)
<1> DEFINE t == Append(s, e)
<1>1. /\ t \in Seq(Msg) /\ Len(t) = Len(s) + 1
      /\ \A i \in 1..Len(s) : t[i] = s[i]
      /\ t[Len(s) + 1] = e
  BY AppendProperties
<1>2. /\ Len(s) \in Nat /\ DOMAIN s = 1..Len(s) /\ DOMAIN t = 1..(Len(s) + 1)
      /\ \A i \in DOMAIN s : s[i] \in Msg /\ s[i] # e
  BY <1>1, LenProperties DEF IdsAt
<1> HIDE DEF t
<1>3. \A i \in DOMAIN t : t[i] = e \/ (i \in DOMAIN s /\ t[i] = s[i])
  BY <1>1, <1>2
<1>4. \A i \in DOMAIN t : Moved(h, e, p)[t[i]] = p
  BY <1>2, <1>3 DEF Moved, IdsAt
<1>5. \A i, j \in DOMAIN t : t[i] = t[j] => i = j
  BY <1>1, <1>2 DEF IdsAt
<1> QED BY <1>4, <1>5 DEF IdsAt, t

LEMMA AppendItem ==
    ASSUME NEW q \in Seq(BucketItem), NEW e \in BucketItem, NEW h, NEW p,
           ItemsAt(q, h, p), h[e.id] # p
    PROVE  ItemsAt(Append(q, e), Moved(h, e.id, p), p)
<1> DEFINE t == Append(q, e)
<1>1. /\ t \in Seq(BucketItem) /\ Len(t) = Len(q) + 1
      /\ \A i \in 1..Len(q) : t[i] = q[i]
      /\ t[Len(q) + 1] = e
  BY AppendProperties
<1>2. /\ Len(q) \in Nat /\ DOMAIN q = 1..Len(q) /\ DOMAIN t = 1..(Len(q) + 1)
      /\ e.id \in Msg
      /\ \A i \in DOMAIN q : q[i].id \in Msg /\ q[i].id # e.id
  BY <1>1, LenProperties, IdsType DEF ItemsAt, BucketItem
<1> HIDE DEF t
<1>3. \A i \in DOMAIN t : t[i] = e \/ (i \in DOMAIN q /\ t[i] = q[i])
  BY <1>1, <1>2
<1>4. \A i \in DOMAIN t : Moved(h, e.id, p)[t[i].id] = p
  BY <1>2, <1>3 DEF Moved, ItemsAt
<1>5. \A i, j \in DOMAIN t : t[i].id = t[j].id => i = j
  BY <1>1, <1>2 DEF ItemsAt
<1> QED BY <1>4, <1>5 DEF ItemsAt, t

LEMMA AppendBatch ==
    ASSUME NEW S, S = OutMsg \/ S = BatchType, NEW q \in Seq(S), NEW o \in S,
           NEW h, NEW p, NEW r, r # p, BatchesAt(q, h, p), IdsAt(o.ids, h, r)
    PROVE  BatchesAt(Append(q, o), MovedAll(h, o.ids, p), p)
<1> DEFINE t == Append(q, o)
           g == MovedAll(h, o.ids, p)
<1>1. /\ t \in Seq(S) /\ Len(t) = Len(q) + 1
      /\ \A i \in 1..Len(q) : t[i] = q[i]
      /\ t[Len(q) + 1] = o
  BY AppendProperties
<1>2. /\ Len(q) \in Nat /\ DOMAIN q = 1..Len(q) /\ DOMAIN t = 1..(Len(q) + 1)
  BY <1>1, LenProperties
<1>3. /\ o.ids \in Seq(Msg) /\ \A i \in DOMAIN q : q[i].ids \in Seq(Msg)
  <2>1. o.ids \in Seq(Msg)
    <3>1. CASE S = OutMsg
      BY <3>1 DEF OutMsg
    <3>2. CASE S = BatchType
      BY <3>2 DEF BatchType
    <3> QED BY <3>1, <3>2
  <2> QED BY <2>1, IdsType
<1>4. Stays(h, g, p) /\ \A k \in DOMAIN o.ids : o.ids[k] \in Msg /\ g[o.ids[k]] = p
  BY <1>3 DEF MovedAll, Stays, Range
<1> HIDE DEF t, g
<1>5. IdsAt(o.ids, g, p)
  BY <1>4 DEF IdsAt
<1>6. \A i \in DOMAIN q : IdsAt(q[i].ids, g, p)
  BY <1>3, <1>4, StaysAt DEF BatchesAt
<1>7. \A i \in DOMAIN t : IdsAt(t[i].ids, g, p)
  BY <1>1, <1>2, <1>5, <1>6
<1>8. \A i \in DOMAIN q : \A k \in DOMAIN q[i].ids, l \in DOMAIN o.ids :
        q[i].ids[k] # o.ids[l]
  BY DEF BatchesAt, IdsAt
<1>9. ASSUME NEW i \in DOMAIN t, NEW j \in DOMAIN t,
             NEW k \in DOMAIN t[i].ids, NEW l \in DOMAIN t[j].ids, t[i].ids[k] = t[j].ids[l]
      PROVE  i = j
  <2>1. CASE i \in DOMAIN q /\ j \in DOMAIN q
    BY <1>1, <1>2, <1>9, <2>1 DEF BatchesAt
  <2>2. CASE i \in DOMAIN q /\ j = Len(q) + 1
    BY <1>1, <1>2, <1>8, <1>9, <2>2
  <2>3. CASE i = Len(q) + 1 /\ j \in DOMAIN q
    BY <1>1, <1>2, <1>8, <1>9, <2>3
  <2>4. CASE i = Len(q) + 1 /\ j = Len(q) + 1
    BY <2>4
  <2> QED BY <1>2, <2>1, <2>2, <2>3, <2>4
<1> QED BY <1>7, <1>9 DEF BatchesAt, t, g

\* One less: it goes elsewhere, what is behind it stays.
LEMMA TailId ==
    ASSUME NEW s \in Seq(Msg), s # <<>>, NEW h, NEW p, NEW r, IdsAt(s, h, p)
    PROVE  IdsAt(Tail(s), Moved(h, Head(s), r), p) /\ Head(s) \in Msg /\ h[Head(s)] = p
<1> DEFINE t == Tail(s)
<1>1. /\ t \in Seq(Msg) /\ Len(t) = Len(s) - 1
      /\ \A i \in 1..Len(t) : t[i] = s[i + 1]
      /\ Head(s) = s[1] /\ Len(s) \in Nat \ {0}
  BY HeadTailProperties, LenProperties, EmptySeq
<1>2. DOMAIN s = 1..Len(s) /\ DOMAIN t = 1..Len(t) /\ \A i \in DOMAIN s : s[i] \in Msg
  BY <1>1, LenProperties
<1> HIDE DEF t
<1>3. \A i \in DOMAIN t : i + 1 \in DOMAIN s /\ t[i] = s[i + 1] /\ t[i] # Head(s)
  BY <1>1, <1>2 DEF IdsAt
<1>4. \A i \in DOMAIN t : Moved(h, Head(s), r)[t[i]] = p
  BY <1>2, <1>3 DEF Moved, IdsAt
<1>5. \A i, j \in DOMAIN t : t[i] = t[j] => i = j
  BY <1>1, <1>2, <1>3 DEF IdsAt
<1>6. 1 \in DOMAIN s
  BY <1>1, <1>2
<1> QED BY <1>1, <1>2, <1>4, <1>5, <1>6 DEF IdsAt, t

LEMMA TailItem ==
    ASSUME NEW q \in Seq(BucketItem), q # <<>>, NEW h, NEW p, NEW r, ItemsAt(q, h, p)
    PROVE  /\ ItemsAt(Tail(q), Moved(h, Head(q).id, r), p)
           /\ Head(q).id \in Msg /\ h[Head(q).id] = p
<1> DEFINE t == Tail(q)
           e == Head(q).id
<1>1. /\ t \in Seq(BucketItem) /\ Len(t) = Len(q) - 1
      /\ \A i \in 1..Len(t) : t[i] = q[i + 1]
      /\ Head(q) = q[1] /\ Len(q) \in Nat \ {0}
  BY HeadTailProperties, LenProperties, EmptySeq
<1>2. DOMAIN q = 1..Len(q) /\ DOMAIN t = 1..Len(t) /\ \A i \in DOMAIN q : q[i].id \in Msg
  BY <1>1, LenProperties, IdsType
<1>3. 1 \in DOMAIN q /\ e = q[1].id
  BY <1>1, <1>2
<1> HIDE DEF t, e
<1>4. \A i \in DOMAIN t : i + 1 \in DOMAIN q /\ t[i] = q[i + 1] /\ t[i].id # e
  BY <1>1, <1>2, <1>3 DEF ItemsAt
<1>5. \A i \in DOMAIN t : Moved(h, e, r)[t[i].id] = p
  BY <1>2, <1>4 DEF Moved, ItemsAt
<1>6. \A i, j \in DOMAIN t : t[i].id = t[j].id => i = j
  BY <1>1, <1>2, <1>4 DEF ItemsAt
<1> QED BY <1>2, <1>3, <1>5, <1>6 DEF ItemsAt, t, e

LEMMA TailBatch ==
    ASSUME NEW S, S = OutMsg \/ S = BatchType, NEW q \in Seq(S), q # <<>>,
           NEW h, NEW p, NEW r, BatchesAt(q, h, p)
    PROVE  /\ BatchesAt(Tail(q), MovedAll(h, Head(q).ids, r), p)
           /\ Head(q) \in S /\ IdsAt(Head(q).ids, h, p)
<1> DEFINE t == Tail(q)
           o == Head(q)
           g == MovedAll(h, o.ids, r)
<1>1. /\ t \in Seq(S) /\ Len(t) = Len(q) - 1
      /\ \A i \in 1..Len(t) : t[i] = q[i + 1]
      /\ o = q[1] /\ Len(q) \in Nat \ {0} /\ o \in S
  BY HeadTailProperties, LenProperties, EmptySeq
<1>2. /\ DOMAIN q = 1..Len(q) /\ DOMAIN t = 1..Len(t)
      /\ \A i \in DOMAIN q : q[i].ids \in Seq(Msg)
  BY <1>1, LenProperties, IdsType
<1>3. 1 \in DOMAIN q
  BY <1>1, <1>2
<1> HIDE DEF t, o
<1>4. \A i \in DOMAIN t : i + 1 \in DOMAIN q /\ t[i] = q[i + 1]
  BY <1>1, <1>2
<1>5. ASSUME NEW i \in DOMAIN t PROVE IdsAt(t[i].ids, g, p)
  <2>1. t[i].ids \in Seq(Msg) /\ IdsAt(t[i].ids, h, p)
    BY <1>2, <1>4 DEF BatchesAt
  <2>2. \A k \in DOMAIN t[i].ids : t[i].ids[k] \in Msg /\ t[i].ids[k] \notin Range(o.ids)
    <3>1. i + 1 # 1 /\ i + 1 \in DOMAIN q /\ t[i] = q[i + 1]
      BY <1>2, <1>4
    <3>2. \A k \in DOMAIN q[i + 1].ids, l \in DOMAIN q[1].ids : q[i + 1].ids[k] # q[1].ids[l]
      BY <1>3, <3>1 DEF BatchesAt
    <3> QED BY <1>1, <2>1, <3>1, <3>2 DEF Range
  <2> QED BY <2>1, <2>2 DEF IdsAt, MovedAll
<1>6. \A i, j \in DOMAIN t : \A k \in DOMAIN t[i].ids, l \in DOMAIN t[j].ids :
        t[i].ids[k] = t[j].ids[l] => i = j
  <2> SUFFICES ASSUME NEW i \in DOMAIN t, NEW j \in DOMAIN t,
                      NEW k \in DOMAIN t[i].ids, NEW l \in DOMAIN t[j].ids,
                      t[i].ids[k] = t[j].ids[l]
               PROVE  i = j
    OBVIOUS
  <2>1. i + 1 = j + 1
    BY <1>4 DEF BatchesAt
  <2> QED BY <1>2, <2>1
<1>7. IdsAt(o.ids, h, p)
  BY <1>1, <1>3 DEF BatchesAt
<1> HIDE DEF g
<1>8. BatchesAt(t, g, p)
  BY <1>5, <1>6 DEF BatchesAt
<1> QED BY <1>1, <1>7, <1>8 DEF t, o, g

\* A move disturbs only where it comes from.
LEMMA MoveStays ==
    ASSUME NEW h, NEW p, NEW r
    PROVE  /\ \A e : r = p \/ h[e] # r => Stays(h, Moved(h, e, p), r)
           /\ \A s, q : IdsAt(s, h, q) /\ (r = p \/ r # q) => Stays(h, MovedAll(h, s, p), r)
BY DEF Stays, Moved, MovedAll, IdsAt, Range

\* The front's places after a move that leaves its variables alone but for those named.
LEMMA FrontStays ==
    ASSUME FrontInv, NEW h, NEW g, FrontAt(h)
    PROVE  /\ fed' = fed /\ Stays(h, g, Source) => \A m \in Msg : m > fed' => g[m] = Source
           /\ inputQ' = inputQ /\ Stays(h, g, Input) => IdsAt(inputQ', g, Input)
           /\ tok' = tok /\ (\A w \in Tok : Stays(h, g, At("tok", w)))
                => \A w \in Tok : tok'[w].pc \in Holding => g[tok'[w].id] = At("tok", w)
           /\ bucketQ' = bucketQ /\ (\A b \in Bucket : Stays(h, g, At("bucket", b)))
                => \A b \in Bucket : ItemsAt(bucketQ'[b], g, At("bucket", b))
           /\ outQ' = outQ /\ Stays(h, g, Out) => BatchesAt(outQ', g, Out)
           /\ answers' = answers /\ Stays(h, g, Caller)
                => \A m \in Msg : answers'[m] = 0 \/ (answers'[m] = 1 /\ g[m] = Caller)
<1>1. fed' = fed /\ Stays(h, g, Source) => \A m \in Msg : m > fed' => g[m] = Source
  BY DEF FrontAt, Stays
<1>2. inputQ' = inputQ /\ Stays(h, g, Input) => IdsAt(inputQ', g, Input)
  BY StaysAt DEF FrontAt, FrontInv, FrontTypeOK
<1>3. tok' = tok /\ (\A w \in Tok : Stays(h, g, At("tok", w)))
        => \A w \in Tok : tok'[w].pc \in Holding => g[tok'[w].id] = At("tok", w)
  BY DEF FrontAt, FrontInv, FrontTypeOK, Stays, Holding
<1>4. bucketQ' = bucketQ /\ (\A b \in Bucket : Stays(h, g, At("bucket", b)))
        => \A b \in Bucket : ItemsAt(bucketQ'[b], g, At("bucket", b))
  BY StaysAt DEF FrontAt, FrontInv, FrontTypeOK
<1>5. outQ' = outQ /\ Stays(h, g, Out) => BatchesAt(outQ', g, Out)
  BY StaysAt DEF FrontAt, FrontInv, FrontTypeOK
<1>6. answers' = answers /\ Stays(h, g, Caller)
        => \A m \in Msg : answers'[m] = 0 \/ (answers'[m] = 1 /\ g[m] = Caller)
  BY DEF FrontAt, Stays
<1> QED BY <1>1, <1>2, <1>3, <1>4, <1>5, <1>6

\* What is behind the front stays where it is.
Leaves(h, g) == \A m \in Msg : g[m] = h[m] \/ h[m] \in FrontPlace

LEMMA LeavesStays ==
    ASSUME NEW h, NEW g, Leaves(h, g), NEW p, p \notin FrontPlace PROVE Stays(h, g, p)
BY DEF Leaves, Stays

LEMMA FrontPlaces ==
    /\ Source \in FrontPlace /\ Input \in FrontPlace /\ Out \in FrontPlace
    /\ \A w \in Tok : At("tok", w) \in FrontPlace
    /\ \A b \in Bucket : At("bucket", b) \in FrontPlace
    /\ Source # Input /\ Source # Out /\ Source # Caller
    /\ Input # Out /\ Input # Caller /\ Out # Caller
    /\ \A w : /\ At("tok", w) # Source /\ At("tok", w) # Input
              /\ At("tok", w) # Out /\ At("tok", w) # Caller
    /\ \A b : /\ At("bucket", b) # Source /\ At("bucket", b) # Input
              /\ At("bucket", b) # Out /\ At("bucket", b) # Caller
    /\ \A b, w : At("bucket", b) # At("tok", w)
BY PlacesDiffer DEF FrontPlace, Source, Input, Out, Caller

LEMMA MoveLeaves ==
    ASSUME NEW h, NEW p, NEW q \in FrontPlace
    PROVE  /\ \A e : h[e] = q => Leaves(h, Moved(h, e, p))
           /\ \A s : IdsAt(s, h, q) => Leaves(h, MovedAll(h, s, p))
BY DEF Leaves, Moved, MovedAll, IdsAt, Range

LEMMA FrontInitAt == FrontInit => FrontAt([m \in Msg |-> Source])
BY DEF FrontInit, FrontAt, IdsAt, ItemsAt, BatchesAt, Holding

LEMMA FeederSendAt ==
    ASSUME FrontInv, FeederSend, NEW h, FrontAt(h)
    PROVE  \E g : FrontAt(g)' /\ Leaves(h, g)
<1>1. PICK e : e = fed + 1
  OBVIOUS
<1>2. PICK g : g = Moved(h, e, Input)
  OBVIOUS
<1>3. e \in Msg /\ h[e] = Source /\ inputQ \in Seq(Msg) /\ fed \in 0..NMsg
  BY <1>1, SizeAssumption DEF FeederSend, FrontAt, FrontInv, FrontTypeOK, Msg
<1>4. IdsAt(inputQ', g, Input)
  BY <1>1, <1>2, <1>3, AppendId, FrontPlaces DEF FeederSend, FrontAt
<1>5. \A m \in Msg : m > fed' => g[m] = Source
  BY <1>1, <1>2, <1>3, SizeAssumption DEF FeederSend, FrontAt, Moved, Msg
<1>6. \A r : r # Source => Stays(h, g, r)
  BY <1>2, <1>3, MoveStays
<1>7. Leaves(h, g)
  BY <1>2, <1>3, MoveLeaves, FrontPlaces
<1>8. UNCHANGED <<tok, bucketQ, outQ, answers>>
  BY DEF FeederSend
<1> QED BY <1>4, <1>5, <1>6, <1>7, <1>8, FrontStays, FrontPlaces DEF FrontAt

LEMMA TokRecvAt ==
    ASSUME FrontInv, NEW w \in Tok, TokRecv(w), NEW h, FrontAt(h)
    PROVE  \E g : FrontAt(g)' /\ Leaves(h, g)
<1>1. PICK e : e = Head(inputQ)
  OBVIOUS
<1>2. PICK g : g = Moved(h, e, At("tok", w))
  OBVIOUS
<1>3. inputQ \in Seq(Msg) /\ inputQ # <<>> /\ inputQ' = Tail(inputQ) /\ IdsAt(inputQ, h, Input)
  BY DEF TokRecv, FrontAt, FrontInv, FrontTypeOK
<1>4. IdsAt(inputQ', g, Input) /\ e \in Msg /\ h[e] = Input
  BY <1>1, <1>2, <1>3, TailId
<1>5. \A r : r # Input => Stays(h, g, r)
  BY <1>2, <1>4, MoveStays
<1>6. Leaves(h, g)
  BY <1>2, <1>4, MoveLeaves, FrontPlaces
<1>7. UNCHANGED <<fed, bucketQ, outQ, answers>>
  BY DEF TokRecv
<1>8. ASSUME NEW v \in Tok, tok'[v].pc \in Holding PROVE g[tok'[v].id] = At("tok", v)
  <2>1. CASE v = w
    <3>1. tok'[w].id = e
      BY <1>1 DEF TokRecv, FrontInv, FrontTypeOK
    <3> QED BY <1>2, <1>4, <2>1, <3>1 DEF Moved
  <2>2. CASE v # w
    <3>1. tok'[v] = tok[v]
      BY <2>2 DEF TokRecv, FrontInv, FrontTypeOK
    <3>2. h[tok[v].id] = At("tok", v) /\ tok[v].id \in Msg
      BY <1>8, <3>1 DEF FrontAt, FrontInv, FrontTypeOK, Holding
    <3>3. Stays(h, g, At("tok", v))
      BY <1>5, FrontPlaces
    <3> QED BY <3>1, <3>2, <3>3 DEF Stays
  <2> QED BY <2>1, <2>2
<1> QED BY <1>4, <1>5, <1>6, <1>7, <1>8, FrontStays, FrontPlaces DEF FrontAt

\* The steps that move no message: a worker works on the one it holds, or is
\* told that there is none; a channel may lose what is in it.
LEMMA FrontSameAt ==
    ASSUME FrontInv, NEW alive, NEW noSender, NEW h, FrontAt(h),
           \/ FeederEnd \/ FeederBreak \/ ConsumerEnd(noSender) \/ ConsumerDrop
           \/ \E w \in Tok : \/ TokSkip(w) \/ TokHit(w) \/ TokTokenize(w)
                             \/ TokBreak(w, alive) \/ TokExit(w)
    PROVE  FrontAt(h)'
<1>1. fed' = fed /\ bucketQ' = bucketQ /\ answers' = answers
  BY DEF FeederEnd, FeederBreak, ConsumerEnd, ConsumerDrop, TokSkip, TokHit, TokTokenize,
         TokBreak, TokExit
<1>2. (inputQ' = inputQ \/ inputQ' = <<>>) /\ (outQ' = outQ \/ outQ' = <<>>)
  BY DEF FeederEnd, FeederBreak, ConsumerEnd, ConsumerDrop, TokSkip, TokHit, TokTokenize,
         TokBreak, TokExit
<1>3. ASSUME NEW v \in Tok, tok'[v].pc \in Holding
      PROVE  tok'[v].id = tok[v].id /\ tok[v].pc \in Holding
  <2>1. CASE tok' = tok
    BY <1>3, <2>1
  <2>2. ASSUME NEW w \in Tok, NEW pc, NEW o, tok[w].pc \in Holding,
               tok' = [tok EXCEPT ![w] = [pc |-> pc, id |-> @.id, out |-> o]]
        PROVE  tok'[v].id = tok[v].id /\ tok[v].pc \in Holding
    BY <1>3, <2>2 DEF FrontInv, FrontTypeOK
  <2>3. ASSUME NEW w \in Tok, TokSkip(w) \/ TokHit(w) \/ TokTokenize(w)
        PROVE  tok'[v].id = tok[v].id /\ tok[v].pc \in Holding
    <3>1. /\ tok[w].pc \in Holding
          /\ \E pc, o : tok' = [tok EXCEPT ![w] = [pc |-> pc, id |-> @.id, out |-> o]]
      BY <2>3 DEF TokSkip, TokHit, TokTokenize, Holding
    <3> QED BY <2>2, <3>1
  <2>4. ASSUME NEW w \in Tok, TokBreak(w, alive) \/ TokExit(w)
        PROVE  tok'[v].id = tok[v].id /\ tok[v].pc \in Holding
    <3>1. tok' = [tok EXCEPT ![w] = [pc |-> "done", id |-> 0, out |-> NoBatch]]
      BY <2>4 DEF TokBreak, TokExit
    <3> QED BY <1>3, <3>1 DEF FrontInv, FrontTypeOK, Holding
  <2> QED BY <2>1, <2>3, <2>4 DEF FeederEnd, FeederBreak, ConsumerEnd, ConsumerDrop
<1>4. IdsAt(inputQ', h, Input) /\ BatchesAt(outQ', h, Out)
  BY <1>2 DEF FrontAt, IdsAt, BatchesAt
<1> QED BY <1>1, <1>3, <1>4 DEF FrontAt

\* What a thread sends to the caller moves from its hands to the output channel.
LEMMA SendOutAt ==
    ASSUME FrontInv, NEW h, FrontAt(h), NEW o \in OutMsg, NEW p, p # Out, IdsAt(o.ids, h, p),
           SendOut(o)
    PROVE  BatchesAt(outQ', MovedAll(h, o.ids, Out), Out)
<1>1. outQ \in Seq(OutMsg) /\ BatchesAt(outQ, h, Out)
  BY DEF FrontInv, FrontTypeOK, FrontAt
<1>2. CASE rx = "open"
  <2>1. outQ' = Append(outQ, o)
    BY <1>2 DEF SendOut
  <2> QED BY <1>1, <2>1, AppendBatch
<1>3. CASE rx # "open"
  <2>1. outQ' = outQ /\ Stays(h, MovedAll(h, o.ids, Out), Out)
    BY <1>3, MoveStays DEF SendOut
  <2> QED BY <1>1, <2>1, StaysAt
<1> QED BY <1>2, <1>3

\* A step that names new places for messages behind the front only.
LEMMA BackMoveAt ==
    ASSUME FrontInv, NEW h, NEW g, FrontAt(h), \A p \in FrontPlace : Stays(h, g, p),
           Stays(h, g, Caller),
           UNCHANGED <<fed, inputQ, tok, bucketQ, outQ, answers>>
    PROVE  FrontAt(g)'
<1>1. /\ Stays(h, g, Source) /\ Stays(h, g, Input) /\ Stays(h, g, Out)
      /\ \A w \in Tok : Stays(h, g, At("tok", w))
      /\ \A b \in Bucket : Stays(h, g, At("bucket", b))
  BY FrontPlaces
<1>2. /\ fed' = fed /\ inputQ' = inputQ /\ tok' = tok /\ bucketQ' = bucketQ /\ outQ' = outQ
      /\ answers' = answers
  OBVIOUS
<1> QED BY <1>1, <1>2, FrontStays DEF FrontAt

\* A thread behind the front sends a result.
LEMMA BackSendAt ==
    ASSUME FrontInv, NEW h, FrontAt(h), NEW o \in OutMsg, NEW p, p \notin FrontPlace,
           IdsAt(o.ids, h, p), SendOut(o),
           UNCHANGED <<fed, inputQ, tok, bucketQ, answers>>
    PROVE  \E g : g = MovedAll(h, o.ids, Out) /\ FrontAt(g)'
<1>1. PICK g : g = MovedAll(h, o.ids, Out)
  OBVIOUS
<1>2. \A r \in FrontPlace : Stays(h, g, r)
  BY <1>1, MoveStays
<1>3. BatchesAt(outQ', g, Out)
  BY <1>1, SendOutAt, FrontPlaces
<1>4. /\ Stays(h, g, Source) /\ Stays(h, g, Input) /\ Stays(h, g, Caller)
      /\ \A w \in Tok : Stays(h, g, At("tok", w))
      /\ \A b \in Bucket : Stays(h, g, At("bucket", b))
  BY <1>2, FrontPlaces DEF FrontPlace
<1>5. fed' = fed /\ inputQ' = inputQ /\ tok' = tok /\ bucketQ' = bucketQ /\ answers' = answers
  OBVIOUS
<1>6. FrontAt(g)'
  BY <1>3, <1>4, <1>5, FrontStays DEF FrontAt
<1> QED BY <1>1, <1>6

\* A thread behind the front takes an item from the channel of bucket b.
LEMMA BucketRecvAt ==
    ASSUME FrontInv, NEW h, FrontAt(h), NEW b \in Bucket, bucketQ[b] # <<>>,
           bucketQ'[b] = Tail(bucketQ[b]), \A c \in Bucket : c # b => bucketQ'[c] = bucketQ[c],
           UNCHANGED <<fed, inputQ, tok, outQ, answers>>, NEW p, p \notin FrontPlace
    PROVE  \E e, g : /\ e = Head(bucketQ[b]).id /\ e \in Msg /\ h[e] = At("bucket", b)
                     /\ g = Moved(h, e, p) /\ FrontAt(g)'
<1>1. PICK e : e = Head(bucketQ[b]).id
  OBVIOUS
<1>2. PICK g : g = Moved(h, e, p)
  OBVIOUS
<1>3. /\ bucketQ[b] \in Seq(BucketItem) /\ ItemsAt(bucketQ[b], h, At("bucket", b))
      /\ bucketQ'[b] = Tail(bucketQ[b]) /\ \A c \in Bucket : c # b => bucketQ'[c] = bucketQ[c]
  BY DEF FrontInv, FrontTypeOK, FrontAt
<1>4. ItemsAt(bucketQ'[b], g, At("bucket", b)) /\ e \in Msg /\ h[e] = At("bucket", b)
  <2>1. PICK q : q = bucketQ[b]
    OBVIOUS
  <2>2. /\ ItemsAt(Tail(q), Moved(h, Head(q).id, p), At("bucket", b))
        /\ Head(q).id \in Msg /\ h[Head(q).id] = At("bucket", b)
    <3>1. q \in Seq(BucketItem) /\ q # <<>> /\ ItemsAt(q, h, At("bucket", b))
      BY <1>3, <2>1
    <3> QED BY <3>1, TailItem
  <2> QED BY <1>1, <1>2, <1>3, <2>1, <2>2
<1>5. \A r : r # At("bucket", b) => Stays(h, g, r)
  BY <1>2, <1>4, MoveStays
<1>6. ASSUME NEW c \in Bucket PROVE ItemsAt(bucketQ'[c], g, At("bucket", c))
  <2>1. CASE c = b
    BY <1>4, <2>1
  <2>2. CASE c # b
    <3>1. Stays(h, g, At("bucket", c))
      BY <1>5, <2>2, PlacesDiffer
    <3>2. bucketQ[c] \in Seq(BucketItem) /\ ItemsAt(bucketQ[c], h, At("bucket", c))
      BY DEF FrontInv, FrontTypeOK, FrontAt
    <3> QED BY <1>3, <2>2, <3>1, <3>2, StaysAt
  <2> QED BY <2>1, <2>2
<1>7. fed' = fed /\ inputQ' = inputQ /\ tok' = tok /\ outQ' = outQ /\ answers' = answers
  OBVIOUS
<1>8. /\ Stays(h, g, Source) /\ Stays(h, g, Input) /\ Stays(h, g, Out) /\ Stays(h, g, Caller)
      /\ \A w \in Tok : Stays(h, g, At("tok", w))
  BY <1>5, FrontPlaces
<1>9. FrontAt(g)'
  BY <1>6, <1>7, <1>8, FrontStays DEF FrontAt
<1> QED BY <1>1, <1>2, <1>4, <1>9

\* Who holds a message that is not touched holds it still.
LEMMA TokFreeAt ==
    ASSUME FrontInv, NEW h, FrontAt(h), NEW g, NEW v \in Tok, tok'[v].pc \in Holding,
           tok'[v] = tok[v], Stays(h, g, At("tok", v))
    PROVE  g[tok'[v].id] = At("tok", v)
<1>1. h[tok[v].id] = At("tok", v) /\ tok[v].id \in Msg
  BY DEF FrontAt, FrontInv, FrontTypeOK, Holding
<1> QED BY <1>1 DEF Stays

LEMMA TokSendOutAt ==
    ASSUME FrontInv, NEW w \in Tok, TokSendOut(w), NEW h, FrontAt(h)
    PROVE  \E g : FrontAt(g)' /\ Leaves(h, g)
<1>1. PICK o : o = tok[w].out
  OBVIOUS
<1>2. PICK g : g = MovedAll(h, o.ids, Out)
  OBVIOUS
<1>3. o \in OutMsg /\ SendOut(o) /\ o.ids = <<tok[w].id>> /\ h[tok[w].id] = At("tok", w)
  BY <1>1 DEF TokSendOut, FrontInv, FrontTypeOK, FrontShape, FrontAt, Holding
<1>4. IdsAt(o.ids, h, At("tok", w))
  BY <1>3 DEF IdsAt
<1>5. BatchesAt(outQ', g, Out)
  BY <1>2, <1>3, <1>4, SendOutAt, FrontPlaces
<1>6. \A r : r # At("tok", w) => Stays(h, g, r)
  BY <1>2, <1>4, MoveStays
<1>7. Leaves(h, g)
  BY <1>2, <1>4, MoveLeaves, FrontPlaces
<1>8. \A v \in Tok : v # w => Stays(h, g, At("tok", v))
  BY <1>6, PlacesDiffer
<1>9. \A v \in Tok : tok'[v].pc \in Holding => g[tok'[v].id] = At("tok", v)
  <2>1. tok' = [tok EXCEPT ![w] = [pc |-> "recv", id |-> 0, out |-> NoBatch]]
    BY DEF TokSendOut
  <2>2. ASSUME NEW v \in Tok, tok'[v].pc \in Holding PROVE g[tok'[v].id] = At("tok", v)
    <3>1. v # w /\ tok'[v] = tok[v]
      BY <2>1, <2>2 DEF FrontInv, FrontTypeOK, Holding
    <3>2. Stays(h, g, At("tok", v))
      BY <1>8, <3>1
    <3> QED BY <2>2, <3>1, <3>2, TokFreeAt
  <2> QED BY <2>2
<1>10. fed' = fed /\ inputQ' = inputQ /\ bucketQ' = bucketQ /\ answers' = answers
  BY DEF TokSendOut
<1>11. /\ Stays(h, g, Source) /\ Stays(h, g, Input) /\ Stays(h, g, Caller)
       /\ \A b \in Bucket : Stays(h, g, At("bucket", b))
  BY <1>6, FrontPlaces
<1>12. FrontAt(g)'
  BY <1>5, <1>9, <1>10, <1>11, FrontStays DEF FrontAt
<1> QED BY <1>7, <1>12

LEMMA TokSendBucketAt ==
    ASSUME FrontInv, NEW w \in Tok, NEW alive, TokSendBucket(w, alive), NEW h, FrontAt(h)
    PROVE  \E g : FrontAt(g)' /\ Leaves(h, g)
<1>1. PICK e : e = tok[w].id
  OBVIOUS
<1>2. PICK b : b = AssignBucket(BucketLen, TokLen[text[e]])
  OBVIOUS
<1>3. PICK g : g = Moved(h, e, At("bucket", b))
  OBVIOUS
<1>4. e \in Msg /\ text[e] \in Text /\ h[e] = At("tok", w)
  BY <1>1 DEF FrontInv, FrontTypeOK, TokSendBucket, FrontAt, Holding
<1>5. b \in Bucket /\ Item(e) \in BucketItem /\ Item(e).id = e
  BY <1>2, <1>4, BucketOfText, ItemType DEF FrontInv, Item
<1>6. bucketQ' = [bucketQ EXCEPT ![b] = Append(bucketQ[b], Item(e))]
  BY <1>1, <1>2 DEF TokSendBucket
<1>7. /\ bucketQ'[b] = Append(bucketQ[b], Item(e))
      /\ \A c \in Bucket : c # b => bucketQ'[c] = bucketQ[c]
  BY <1>5, <1>6 DEF FrontInv, FrontTypeOK
<1>8. bucketQ[b] \in Seq(BucketItem) /\ ItemsAt(bucketQ[b], h, At("bucket", b))
  BY <1>5 DEF FrontInv, FrontTypeOK, FrontAt
<1>9. h[Item(e).id] # At("bucket", b)
  BY <1>4, <1>5, FrontPlaces
<1>10. ItemsAt(bucketQ'[b], g, At("bucket", b))
  <2>1. ItemsAt(Append(bucketQ[b], Item(e)), Moved(h, Item(e).id, At("bucket", b)), At("bucket", b))
    BY <1>5, <1>8, <1>9, AppendItem
  <2> QED BY <1>3, <1>5, <1>7, <2>1
<1>11. \A r : r # At("tok", w) => Stays(h, g, r)
  BY <1>3, <1>4, MoveStays
<1>12. Leaves(h, g)
  BY <1>3, <1>4, MoveLeaves, FrontPlaces
<1>13. ASSUME NEW c \in Bucket PROVE ItemsAt(bucketQ'[c], g, At("bucket", c))
  <2>1. CASE c = b
    BY <1>10, <2>1
  <2>2. CASE c # b
    <3>1. Stays(h, g, At("bucket", c))
      BY <1>11, FrontPlaces
    <3>2. bucketQ[c] \in Seq(BucketItem) /\ ItemsAt(bucketQ[c], h, At("bucket", c))
      BY DEF FrontInv, FrontTypeOK, FrontAt
    <3> QED BY <1>7, <2>2, <3>1, <3>2, StaysAt
  <2> QED BY <2>1, <2>2
<1>14. \A v \in Tok : v # w => Stays(h, g, At("tok", v))
  BY <1>11, PlacesDiffer
<1>15. \A v \in Tok : tok'[v].pc \in Holding => g[tok'[v].id] = At("tok", v)
  <2>1. tok' = [tok EXCEPT ![w] = [pc |-> "recv", id |-> 0, out |-> NoBatch]]
    BY DEF TokSendBucket
  <2>2. ASSUME NEW v \in Tok, tok'[v].pc \in Holding PROVE g[tok'[v].id] = At("tok", v)
    <3>1. v # w /\ tok'[v] = tok[v]
      BY <2>1, <2>2 DEF FrontInv, FrontTypeOK, Holding
    <3>2. Stays(h, g, At("tok", v))
      BY <1>14, <3>1
    <3> QED BY <2>2, <3>1, <3>2, TokFreeAt
  <2> QED BY <2>2
<1>16. fed' = fed /\ inputQ' = inputQ /\ outQ' = outQ /\ answers' = answers
  BY DEF TokSendBucket
<1>17. Stays(h, g, Source) /\ Stays(h, g, Input) /\ Stays(h, g, Out) /\ Stays(h, g, Caller)
  BY <1>11, FrontPlaces
<1>18. FrontAt(g)'
  BY <1>13, <1>15, <1>16, <1>17, FrontStays DEF FrontAt
<1> QED BY <1>12, <1>18

\* A message is named at most once by a batch whose ids are different ones.
LEMMA PlaceOnce ==
    ASSUME NEW o, NEW h, NEW p, IdsAt(o.ids, h, p), NEW m
    PROVE  Cardinality(Places(o, m)) = IF m \in Range(o.ids) THEN 1 ELSE 0
<1>1. CASE m \in Range(o.ids)
  <2>1. PICK i \in DOMAIN o.ids : o.ids[i] = m
    BY <1>1 DEF Range
  <2>2. Places(o, m) = {i}
    BY <2>1 DEF Places, IdsAt
  <2> QED BY <1>1, <2>2, FS_Singleton
<1>2. CASE m \notin Range(o.ids)
  <2>1. Places(o, m) = {}
    BY <1>2 DEF Places, Range
  <2> QED BY <1>2, <2>1, FS_EmptySet
<1> QED BY <1>1, <1>2

\* What the caller receives answers messages that had no answer, once.
LEMMA RecvOnce ==
    ASSUME FrontInv, ConsumerRecv, NEW h, FrontAt(h), NEW m \in Msg
    PROVE  IF m \in Range(Head(outQ).ids)
           THEN h[m] = Out /\ answers[m] = 0 /\ answers'[m] = 1
           ELSE answers'[m] = answers[m] /\ answer'[m] = answer[m]
<1>1. PICK o : o = Head(outQ)
  OBVIOUS
<1>2. outQ \in Seq(OutMsg) /\ outQ # <<>> /\ BatchesAt(outQ, h, Out)
  BY DEF ConsumerRecv, FrontInv, FrontTypeOK, FrontAt
<1>3. o \in OutMsg /\ IdsAt(o.ids, h, Out)
  BY <1>1, <1>2, TailBatch
<1>4. answers'[m] = answers[m] + Cardinality(Places(o, m)) /\ answers[m] \in Nat
  BY <1>1 DEF ConsumerRecv, FrontInv, FrontTypeOK
<1>5. Cardinality(Places(o, m)) = IF m \in Range(o.ids) THEN 1 ELSE 0
  BY <1>3, PlaceOnce
<1>6. CASE m \in Range(o.ids)
  <2>1. h[m] = Out
    BY <1>3, <1>6 DEF IdsAt, Range
  <2>2. answers[m] = 0
    BY <2>1, FrontPlaces DEF FrontAt
  <2> QED BY <1>1, <1>4, <1>5, <1>6, <2>1, <2>2
<1>7. CASE m \notin Range(o.ids)
  <2>1. Places(o, m) = {}
    BY <1>7 DEF Places, Range
  <2>2. answer'[m] = answer[m]
    BY <1>1, <2>1 DEF ConsumerRecv
  <2> QED BY <1>1, <1>4, <1>5, <1>7, <2>2
<1> QED BY <1>6, <1>7

LEMMA ConsumerRecvAt ==
    ASSUME FrontInv, ConsumerRecv, NEW h, FrontAt(h)
    PROVE  \E g : FrontAt(g)' /\ Leaves(h, g)
<1>1. PICK o : o = Head(outQ)
  OBVIOUS
<1>2. PICK g : g = MovedAll(h, o.ids, Caller)
  OBVIOUS
<1>3. outQ \in Seq(OutMsg) /\ outQ # <<>> /\ outQ' = Tail(outQ) /\ BatchesAt(outQ, h, Out)
  BY DEF ConsumerRecv, FrontInv, FrontTypeOK, FrontAt
<1>4. BatchesAt(outQ', g, Out) /\ IdsAt(o.ids, h, Out)
  BY <1>1, <1>2, <1>3, TailBatch
<1>5. \A r : r # Out => Stays(h, g, r)
  BY <1>2, <1>4, MoveStays
<1>6. Leaves(h, g)
  BY <1>2, <1>4, MoveLeaves, FrontPlaces
<1>7. ASSUME NEW m \in Msg PROVE answers'[m] = 0 \/ (answers'[m] = 1 /\ g[m] = Caller)
  <2>1. CASE m \in Range(o.ids)
    BY <1>1, <1>2, <2>1, RecvOnce DEF MovedAll
  <2>2. CASE m \notin Range(o.ids)
    <3>1. answers'[m] = answers[m] /\ g[m] = h[m]
      BY <1>1, <1>2, <2>2, RecvOnce DEF MovedAll
    <3> QED BY <3>1 DEF FrontAt
  <2> QED BY <2>1, <2>2
<1>8. fed' = fed /\ inputQ' = inputQ /\ tok' = tok /\ bucketQ' = bucketQ
  BY DEF ConsumerRecv
<1>9. /\ Stays(h, g, Source) /\ Stays(h, g, Input)
      /\ \A w \in Tok : Stays(h, g, At("tok", w))
      /\ \A b \in Bucket : Stays(h, g, At("bucket", b))
  BY <1>5, FrontPlaces
<1>10. FrontAt(g)'
  BY <1>4, <1>7, <1>8, <1>9, FrontStays DEF FrontAt
<1> QED BY <1>6, <1>10

\* Every step of the front moves messages so that none is in two places.
LEMMA FrontStepAt ==
    ASSUME FrontInv, NEW alive, NEW noSender, NEW h, FrontAt(h),
           \/ FrontStep(alive, noSender) \/ FeederBreak
           \/ \E w \in Tok : TokBreak(w, alive)
    PROVE  \E g : FrontAt(g)' /\ Leaves(h, g)
<1>1. Leaves(h, h)
  BY DEF Leaves
<1>2. CASE FeederSend
  BY <1>2, FeederSendAt
<1>3. CASE \E w \in Tok : TokRecv(w)
  BY <1>3, TokRecvAt
<1>4. CASE \E w \in Tok : TokSendOut(w)
  BY <1>4, TokSendOutAt
<1>5. CASE \E w \in Tok : TokSendBucket(w, alive)
  BY <1>5, TokSendBucketAt
<1>6. CASE ConsumerRecv
  BY <1>6, ConsumerRecvAt
<1>7. CASE \/ FeederEnd \/ FeederBreak \/ ConsumerEnd(noSender) \/ ConsumerDrop
           \/ \E w \in Tok : \/ TokSkip(w) \/ TokHit(w) \/ TokTokenize(w)
                             \/ TokBreak(w, alive) \/ TokExit(w)
  <2>1. FrontAt(h)'
    BY <1>7, FrontSameAt
  <2> QED BY <1>1, <2>1
<1> QED BY <1>2, <1>3, <1>4, <1>5, <1>6, <1>7 DEF FrontStep

\* What the caller receives is, seen from outside, the delivery of rightful
\* answers to a set of messages that had none.
LEMMA RecvDelivers ==
    ASSUME FrontInv, FrontContent, ConsumerRecv, NEW h, FrontAt(h)
    PROVE  \E S \in SUBSET Msg :
              /\ \A m \in S : answers[m] = 0 /\ answer'[m] \in Rightful(m)
              /\ answers' = [m \in Msg |-> IF m \in S THEN 1 ELSE answers[m]]
              /\ answer' = [m \in Msg |-> IF m \in S THEN answer'[m] ELSE answer[m]]
<1>1. PICK S : S = {m \in Msg : m \in Range(Head(outQ).ids)}
  OBVIOUS
<1>2. \A m \in Msg : IF m \in S THEN answers[m] = 0 /\ answers'[m] = 1
                     ELSE answers'[m] = answers[m] /\ answer'[m] = answer[m]
  BY <1>1, RecvOnce
<1>3. answers' = [m \in Msg |-> answers'[m]] /\ answer' = [m \in Msg |-> answer'[m]]
  BY DEF ConsumerRecv
<1>4. answers' = [m \in Msg |-> IF m \in S THEN 1 ELSE answers[m]]
  BY <1>2, <1>3
<1>5. answer' = [m \in Msg |-> IF m \in S THEN answer'[m] ELSE answer[m]]
  BY <1>2, <1>3
<1>6. \A m \in S : answer'[m] \in Rightful(m)
  <2>1. AnswerContent' /\ text' = text
    BY RecvRight DEF ConsumerRecv
  <2>2. \A m : Rightful(m)' = Rightful(m)
    BY <2>1 DEF Rightful
  <2> QED BY <1>1, <1>2, <2>1, <2>2 DEF AnswerContent
<1> QED BY <1>1, <1>2, <1>4, <1>5, <1>6

\* What has been moved to p is there.
LEMMA MovedIdsAt ==
    ASSUME NEW s \in Seq(Msg), NEW h, NEW q, NEW p, IdsAt(s, h, q)
    PROVE  IdsAt(s, MovedAll(h, s, p), p)
<1>1. \A i \in DOMAIN s : s[i] \in Msg
  OBVIOUS
<1> QED BY <1>1 DEF IdsAt, MovedAll, Range

-----------------------------------------------------------------------------
(* Counting.  Every message taken from the iterator is counted once, as    *)
(* processed or as skipped, when a tokenizer worker is done looking at it; *)
(* and of the processed ones, those that are no hits are on their way to a *)
(* bucket or have been handed to its thread.                               *)

WorkersAt(pc) == [w \in Tok |-> IF tok[w].pc = pc THEN 1 ELSE 0]
Queued      == [b \in Bucket |-> Len(bucketQ[b])]

Counted == fed = processed + skipped + Len(inputQ) + SumFunction(WorkersAt("got"))

\* How many messages have been received from the bucket channels.
Received == processed - hits - SumFunction(WorkersAt("route")) - SumFunction(Queued)

LEMMA BucketsFinite == IsFiniteSet(Bucket)
<1>1. Len(BucketLen) \in Nat /\ Bucket = 1..Len(BucketLen)
  BY ConfigAssumption, LenProperties DEF Bucket
<1> QED BY <1>1, FS_Interval

LEMMA WorkersAtType ==
    ASSUME NEW pc
    PROVE  WorkersAt(pc) \in [Tok -> Int] /\ SumFunction(WorkersAt(pc)) \in Int
<1>1. PICK f : f = WorkersAt(pc)
  OBVIOUS
<1>2. f \in [Tok -> Int]
  BY <1>1 DEF WorkersAt
<1>3. SumFunctionOnSet(f, Tok) \in Int
  BY <1>2, ConfigAssumption, SumOfNumbers
<1> QED BY <1>1, <1>2, <1>3 DEF SumFunction

LEMMA QueuedType ==
    ASSUME bucketQ \in [Bucket -> Seq(BucketItem)]
    PROVE  Queued \in [Bucket -> Int] /\ SumFunction(Queued) \in Int
<1>1. PICK f : f = Queued
  OBVIOUS
<1>2. f \in [Bucket -> Int]
  <2>1. \A b \in Bucket : Len(bucketQ[b]) \in Nat
    BY LenProperties
  <2> QED BY <1>1, <2>1 DEF Queued
<1>3. SumFunctionOnSet(f, Bucket) \in Int
  BY <1>2, BucketsFinite, SumOfNumbers
<1> QED BY <1>1, <1>2, <1>3 DEF SumFunction

\* A worker that moves on leaves one group of workers and joins another.
LEMMA WorkersMove ==
    ASSUME NEW w \in Tok, tok \in [Tok -> TokRecord], NEW r,
           tok' = [tok EXCEPT ![w] = r], NEW pc
    PROVE  SumFunction(WorkersAt(pc))' =
              SumFunction(WorkersAt(pc)) + (IF r.pc = pc THEN 1 ELSE 0)
                                       - (IF tok[w].pc = pc THEN 1 ELSE 0)
<1>1. PICK f : f = WorkersAt(pc)
  OBVIOUS
<1>2. PICK g : g = WorkersAt(pc)'
  OBVIOUS
<1> DEFINE n == (IF r.pc = pc THEN 1 ELSE 0) - (IF tok[w].pc = pc THEN 1 ELSE 0)
<1>3. DOMAIN f = Tok /\ DOMAIN g = Tok /\ \A x \in Tok : f[x] \in Int
  BY <1>1, <1>2 DEF WorkersAt
<1>4. n \in Int /\ g[w] = f[w] + n /\ \A x \in Tok : x # w => g[x] = f[x]
  BY <1>1, <1>2 DEF WorkersAt
<1>5. f[w] \in Int /\ SumFunction(f) \in Int
  BY <1>1, <1>3, WorkersAtType
<1> HIDE DEF n
<1>6. SumFunction(g) = SumFunction(f) + n
  <2>1. Adds(f, g, w, n)
    BY <1>3, <1>4, ConfigAssumption DEF Adds
  <2> QED BY <2>1, SumAdds
<1>7. SumFunction(WorkersAt(pc))' = SumFunction(g)
  BY <1>2
<1> QED BY <1>1, <1>5, <1>6, <1>7 DEF n

\* A bucket channel that grows or shrinks.
LEMMA QueuedMoves ==
    ASSUME bucketQ \in [Bucket -> Seq(BucketItem)], bucketQ' \in [Bucket -> Seq(BucketItem)],
           NEW b \in Bucket, \A c \in Bucket : c # b => bucketQ'[c] = bucketQ[c]
    PROVE  SumFunction(Queued)' =
              SumFunction(Queued) + Len(bucketQ'[b]) - Len(bucketQ[b])
<1>1. PICK f : f = Queued
  OBVIOUS
<1>2. PICK g : g = Queued'
  OBVIOUS
<1>3. \A c \in Bucket : Len(bucketQ[c]) \in Nat /\ Len(bucketQ'[c]) \in Nat
  BY LenProperties
<1>4. DOMAIN f = Bucket /\ DOMAIN g = Bucket /\ \A c \in Bucket : f[c] \in Int
  BY <1>1, <1>2, <1>3 DEF Queued
<1>5. PICK n : n = Len(bucketQ'[b]) - Len(bucketQ[b])
  OBVIOUS
<1>6. n \in Int /\ g[b] = f[b] + n /\ \A x \in Bucket : x # b => g[x] = f[x]
  BY <1>1, <1>2, <1>3, <1>5 DEF Queued
<1>7. SumFunction(f) \in Int
  BY <1>1, QueuedType
<1>8. SumFunction(g) = SumFunction(f) + n
  <2>1. Adds(f, g, b, n)
    BY <1>4, <1>6, BucketsFinite DEF Adds
  <2> QED BY <2>1, SumAdds
<1>9. SumFunction(Queued)' = SumFunction(g)
  BY <1>2
<1> QED BY <1>1, <1>3, <1>5, <1>7, <1>8, <1>9

LEMMA CountsStay ==
    ASSUME UNCHANGED <<fed, inputQ, tok, bucketQ, processed, skipped, hits>>
    PROVE  Counted' = Counted /\ Received' = Received
<1>1. WorkersAt("got")' = WorkersAt("got") /\ WorkersAt("route")' = WorkersAt("route") /\ Queued' = Queued
  BY DEF WorkersAt, Queued
<1> QED BY <1>1 DEF Counted, Received

\* At the start nothing has been counted.
LEMMA FrontInitCounts == FrontInit => Counted /\ Received = 0
<1> SUFFICES ASSUME FrontInit PROVE Counted /\ Received = 0
  OBVIOUS
<1>1. \A pc \in {"got", "route"} : SumFunction(WorkersAt(pc)) = 0
  <2> SUFFICES ASSUME NEW pc \in {"got", "route"} PROVE SumFunction(WorkersAt(pc)) = 0
    OBVIOUS
  <2>1. PICK f : f = WorkersAt(pc)
    OBVIOUS
  <2>2. DOMAIN f = Tok /\ \A w \in Tok : f[w] = 0
    BY <2>1 DEF WorkersAt, FrontInit
  <2> QED BY <2>1, <2>2, ConfigAssumption, SumOfZeros
<1>2. SumFunction(Queued) = 0
  <2>1. PICK f : f = Queued
    OBVIOUS
  <2>2. DOMAIN f = Bucket /\ \A b \in Bucket : f[b] = 0
    BY <2>1, EmptySeq DEF Queued, FrontInit
  <2> QED BY <2>1, <2>2, BucketsFinite, SumOfZeros
<1>3. Len(inputQ) = 0
  BY EmptySeq DEF FrontInit
<1> QED BY <1>1, <1>2, <1>3 DEF FrontInit, Counted, Received

\* A step of a tokenizer worker in which it does not give up.
LEMMA TokStepCounts ==
    ASSUME FrontInv, Counted, NEW w \in Tok, NEW alive,
           \/ TokRecv(w) \/ TokSkip(w) \/ TokHit(w) \/ TokTokenize(w)
           \/ TokSendOut(w) \/ TokSendBucket(w, alive) \/ TokExit(w)
    PROVE  Counted' /\ Received' = Received
<1>1. /\ tok \in [Tok -> TokRecord] /\ inputQ \in Seq(Msg)
      /\ bucketQ \in [Bucket -> Seq(BucketItem)]
      /\ processed \in Int /\ skipped \in Int /\ hits \in Int /\ fed \in Int
  BY SizeAssumption DEF FrontInv, FrontTypeOK, TokRecord
<1>2. PICK r : tok' = [tok EXCEPT ![w] = r]
  BY DEF TokRecv, TokSkip, TokHit, TokTokenize, TokSendOut, TokSendBucket, TokExit
<1>3. tok'[w] = r
  BY <1>1, <1>2
<1>4. /\ SumFunction(WorkersAt("got")) \in Int /\ SumFunction(WorkersAt("route")) \in Int
      /\ SumFunction(Queued) \in Int /\ Len(inputQ) \in Int
  BY <1>1, WorkersAtType, QueuedType, LenProperties
<1>5. /\ SumFunction(WorkersAt("got"))' =
            SumFunction(WorkersAt("got")) + (IF r.pc = "got" THEN 1 ELSE 0)
                                        - (IF tok[w].pc = "got" THEN 1 ELSE 0)
      /\ SumFunction(WorkersAt("route"))' =
            SumFunction(WorkersAt("route")) + (IF r.pc = "route" THEN 1 ELSE 0)
                                          - (IF tok[w].pc = "route" THEN 1 ELSE 0)
  BY <1>1, <1>2, WorkersMove
<1>6. bucketQ' = bucketQ => SumFunction(Queued)' = SumFunction(Queued)
  <2>1. ASSUME bucketQ' = bucketQ PROVE Queued' = Queued
    BY <2>1 DEF Queued
  <2> QED BY <2>1
<1>7. CASE TokRecv(w)
  <2>1. /\ tok[w].pc = "recv" /\ r.pc = "got" /\ bucketQ' = bucketQ
        /\ UNCHANGED <<fed, processed, skipped, hits>>
    BY <1>1, <1>3, <1>7 DEF TokRecv
  <2>2. Len(inputQ') = Len(inputQ) - 1
    BY <1>1, <1>7, HeadTailProperties DEF TokRecv
  <2> QED BY <1>1, <1>4, <1>5, <1>6, <2>1, <2>2 DEF Counted, Received
<1>8. CASE TokSkip(w)
  <2>1. /\ tok[w].pc = "got" /\ r.pc = "emit" /\ bucketQ' = bucketQ
        /\ skipped' = skipped + 1
        /\ UNCHANGED <<fed, inputQ, processed, hits>>
    BY <1>1, <1>3, <1>8 DEF TokSkip
  <2> QED BY <1>1, <1>4, <1>5, <1>6, <2>1 DEF Counted, Received
<1>9. CASE TokHit(w)
  <2>1. /\ tok[w].pc = "got" /\ r.pc = "emit" /\ bucketQ' = bucketQ
        /\ processed' = processed + 1 /\ hits' = hits + 1
        /\ UNCHANGED <<fed, inputQ, skipped>>
    BY <1>1, <1>3, <1>9 DEF TokHit
  <2> QED BY <1>1, <1>4, <1>5, <1>6, <2>1 DEF Counted, Received
<1>10. CASE TokTokenize(w)
  <2>1. /\ tok[w].pc = "got" /\ r.pc = "route" /\ bucketQ' = bucketQ
        /\ processed' = processed + 1
        /\ UNCHANGED <<fed, inputQ, skipped, hits>>
    BY <1>1, <1>3, <1>10 DEF TokTokenize
  <2>2. Counted'
    BY <1>1, <1>4, <1>5, <2>1 DEF Counted
  <2>3. Received' = Received
    BY <1>1, <1>4, <1>5, <1>6, <2>1 DEF Received
  <2> QED BY <2>2, <2>3
<1>11. CASE TokSendOut(w) \/ TokExit(w)
  <2>1. /\ tok[w].pc \in {"emit", "recv"} /\ r.pc \in {"recv", "done"} /\ bucketQ' = bucketQ
        /\ UNCHANGED <<fed, inputQ, processed, skipped, hits>>
    BY <1>1, <1>3, <1>11 DEF TokSendOut, TokExit
  <2> QED BY <1>1, <1>4, <1>5, <1>6, <2>1 DEF Counted, Received
<1>12. CASE TokSendBucket(w, alive)
  <2>1. /\ tok[w].pc = "route" /\ r.pc = "recv"
        /\ UNCHANGED <<fed, inputQ, processed, skipped, hits>>
    BY <1>1, <1>3, <1>12 DEF TokSendBucket
  <2>2. PICK b \in Bucket : bucketQ' = [bucketQ EXCEPT ![b] = Append(@, Item(tok[w].id))]
    BY <1>12, BucketOfText DEF TokSendBucket, FrontInv, FrontTypeOK
  <2>3. bucketQ' \in [Bucket -> Seq(BucketItem)]
    BY <1>12, TokSendBucketInv DEF FrontInv, FrontTypeOK
  <2>4. Item(tok[w].id) \in BucketItem
    BY <1>12, ItemType DEF TokSendBucket, FrontInv, FrontTypeOK
  <2>5. Len(bucketQ'[b]) = Len(bucketQ[b]) + 1 /\ Len(bucketQ[b]) \in Nat
    BY <1>1, <2>2, <2>4, AppendProperties, LenProperties
  <2>6. SumFunction(Queued)' = SumFunction(Queued) + Len(bucketQ'[b]) - Len(bucketQ[b])
    BY <1>1, <2>2, <2>3, QueuedMoves
  <2> QED BY <1>1, <1>4, <1>5, <2>1, <2>5, <2>6 DEF Counted, Received
<1> QED BY <1>7, <1>8, <1>9, <1>10, <1>11, <1>12

LEMMA FrontStepCounts ==
    ASSUME FrontInv, Counted, NEW alive, NEW noSender, FrontStep(alive, noSender)
    PROVE  Counted' /\ Received' = Received
<1>1. CASE FeederSend
  <2>1. Len(inputQ') = Len(inputQ) + 1 /\ Len(inputQ) \in Nat
    <3>1. inputQ \in Seq(Msg) /\ fed + 1 \in Msg
      BY <1>1, SizeAssumption DEF FrontInv, FrontTypeOK, FeederSend, Msg
    <3> QED BY <1>1, <3>1, AppendProperties, LenProperties DEF FeederSend
  <2>2. WorkersAt("got")' = WorkersAt("got") /\ WorkersAt("route")' = WorkersAt("route") /\ Queued' = Queued
    BY <1>1 DEF FeederSend, WorkersAt, Queued
  <2>3. /\ fed' = fed + 1 /\ UNCHANGED <<processed, skipped, hits>>
        /\ fed \in Int /\ processed \in Int /\ skipped \in Int
    BY <1>1, SizeAssumption DEF FeederSend, FrontInv, FrontTypeOK
  <2>4. SumFunction(WorkersAt("got")) \in Int
    BY WorkersAtType
  <2>5. SumFunction(WorkersAt("got"))' = SumFunction(WorkersAt("got"))
    BY <2>2
  <2>6. Counted'
    BY <2>1, <2>3, <2>4, <2>5 DEF Counted
  <2> QED BY <2>2, <2>3, <2>6 DEF Received
<1>2. CASE FeederEnd \/ ConsumerRecv \/ ConsumerEnd(noSender) \/ ConsumerDrop
  BY <1>2, CountsStay DEF FeederEnd, ConsumerRecv, ConsumerEnd, ConsumerDrop
<1> QED BY <1>1, <1>2, TokStepCounts DEF FrontStep

\* The thread of bucket b takes an item out of its channel.
LEMMA BucketRecvCounts ==
    ASSUME FrontTypeOK, Counted, NEW b \in Bucket, bucketQ[b] # <<>>,
           bucketQ' = [bucketQ EXCEPT ![b] = Tail(@)],
           UNCHANGED <<fed, inputQ, tok, processed, skipped, hits>>
    PROVE  Counted' /\ Received' = Received + 1
<1>1. bucketQ \in [Bucket -> Seq(BucketItem)] /\ bucketQ' \in [Bucket -> Seq(BucketItem)]
  BY HeadOfBucket DEF FrontTypeOK
<1>2. Len(bucketQ'[b]) = Len(bucketQ[b]) - 1 /\ Len(bucketQ[b]) \in Nat
  BY <1>1, HeadTailProperties, LenProperties
<1>3. SumFunction(Queued)' = SumFunction(Queued) + Len(bucketQ'[b]) - Len(bucketQ[b])
  BY <1>1, QueuedMoves
<1>4. WorkersAt("got")' = WorkersAt("got") /\ WorkersAt("route")' = WorkersAt("route")
  BY DEF WorkersAt
<1>5. /\ SumFunction(WorkersAt("route")) \in Int /\ SumFunction(Queued) \in Int
      /\ processed \in Int /\ hits \in Int
  BY <1>1, WorkersAtType, QueuedType DEF FrontTypeOK
<1>6. Counted'
  BY <1>4 DEF Counted
<1>7. SumFunction(WorkersAt("route"))' = SumFunction(WorkersAt("route"))
  BY <1>4
<1>8. Received' = Received + 1
  BY <1>2, <1>3, <1>5, <1>7 DEF Received
<1> QED BY <1>6, <1>8

\* When the tokenizer workers are done, what they counted is the input.
LEMMA CountsAtEnd ==
    ASSUME FrontTypeOK, Counted, ToksDone, inputQ = <<>>, \A b \in Bucket : bucketQ[b] = <<>>
    PROVE  processed + skipped = fed /\ processed = hits + Received
<1>1. \A pc \in {"got", "route"} : SumFunction(WorkersAt(pc)) = 0
  <2> SUFFICES ASSUME NEW pc \in {"got", "route"} PROVE SumFunction(WorkersAt(pc)) = 0
    OBVIOUS
  <2>1. PICK f : f = WorkersAt(pc)
    OBVIOUS
  <2>2. DOMAIN f = Tok /\ \A w \in Tok : f[w] = 0
    BY <2>1 DEF WorkersAt, ToksDone
  <2> QED BY <2>1, <2>2, ConfigAssumption, SumOfZeros
<1>2. SumFunction(Queued) = 0
  <2>1. PICK f : f = Queued
    OBVIOUS
  <2>2. DOMAIN f = Bucket /\ \A b \in Bucket : f[b] = 0
    BY <2>1, EmptySeq DEF Queued
  <2> QED BY <2>1, <2>2, BucketsFinite, SumOfZeros
<1>3. Len(inputQ) = 0 /\ processed \in Int /\ skipped \in Int /\ hits \in Int
  BY EmptySeq DEF FrontTypeOK
<1> QED BY <1>1, <1>2, <1>3 DEF Counted, Received
=============================================================================
