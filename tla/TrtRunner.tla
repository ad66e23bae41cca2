------------------------------ MODULE TrtRunner ------------------------------
(***************************************************************************)
(* A TensorRT session (trt_runner.cpp, inference.rs): the host calls       *)
(* trt_infer and trt_get_output, and the two CUDA streams that carry out   *)
(* asynchronously what the calls have queued.                              *)
(*                                                                         *)
(* The vector of a row is named by what the model computes it from: the    *)
(* ids of the row that its attention mask selects.  The third input,       *)
(* token_type_ids, is always zero, is treated like the mask and left out.  *)
(***************************************************************************)
EXTENDS Subsequence, FiniteSets

CONSTANTS
    BatchSize, SeqLen,  \* the shape the session was created for
    Allocs,             \* the sets of buffers trt_create may have got
    MaxFaults           \* bound on device faults

Buffer == {"ids", "mask", "out", "pinned"}

ASSUME ShapeAssumption ==
    /\ BatchSize \in Nat \ {0} /\ SeqLen \in Nat \ {0}
    /\ Allocs \subseteq SUBSET Buffer /\ MaxFaults \in Nat

Slots == 1..BatchSize
Cells == 1..(BatchSize * SeqLen)
Cell(r, j) == (r - 1) * SeqLen + j

VARIABLES
    alloc,          \* the buffers that exist
    compute, copy,  \* what is queued on the two streams
    dev,            \* device memory: d_input_ids, d_attention_mask, d_output
    pinned,         \* host memory the results are copied to
    event,          \* compute_done: how often recorded, how many of these have completed
    broken,         \* the CUDA context is in its sticky error state
    faults          \* how many faults there have been

runnerVars == <<alloc, compute, copy, dev, pinned, event, broken, faults>>

\* The model: a vector for row r of the two input arrays.
Vector(ids, mask, r) ==
    LET used == Kept([j \in 1..SeqLen |-> j], {j \in 1..SeqLen : mask[Cell(r, j)] = 1})
    IN  [k \in DOMAIN used |-> ids[Cell(r, used[k])]]

Zeros  == [c \in Cells |-> 0]
NoRows == [r \in Slots |-> <<>>]

\* trt_create: the results of the allocations are not looked at.
Create ==
    /\ alloc \in Allocs
    /\ compute = <<>> /\ copy = <<>>
    /\ dev = [ids |-> Zeros, mask |-> Zeros, out |-> NoRows]
    /\ pinned = NoRows
    /\ event = [made |-> 0, done |-> 0] /\ broken = FALSE /\ faults = 0

Op(op, data) == [op |-> op, data |-> data]

\* enqueueV3 accepts the batch; it does not without its buffers.
EnqueueOk == ~broken /\ {"ids", "mask", "out"} \subseteq alloc

HasShape(ids, mask) == DOMAIN ids = Cells /\ DOMAIN mask = Cells

\* Mutant: the verdict of enqueueV3 is ignored.
InferOk_Unchecked(ids, mask) == HasShape(ids, mask)

\* What TrtSession::infer returns.
InferOk(ids, mask) == HasShape(ids, mask) /\ EnqueueOk

\* trt_infer.  Nobody looks at the results of the calls but enqueueV3's, so
\* that one the device refuses (`lost`) is left out without notice.
Infer(ids, mask) ==
    \E lost \in SUBSET {"ids", "mask", "record", "wait", "out"} :
        LET queued == IF broken \/ ~HasShape(ids, mask) THEN {}
                      ELSE ({"ids", "mask"} \cap alloc) \cup
                           (IF EnqueueOk THEN {"run", "record", "wait"} ELSE {}) \cup
                           (IF EnqueueOk /\ "pinned" \in alloc THEN {"out"} ELSE {})
            Given(o) == IF o.op \in queued \ lost THEN <<o>> ELSE <<>>
        IN  /\ lost \subseteq queued
            /\ faults + Cardinality(lost) <= MaxFaults
            /\ faults' = faults + Cardinality(lost)
            /\ event' = [event EXCEPT !.made = IF "record" \in queued \ lost THEN @ + 1 ELSE @]
            /\ compute' = compute \o Given(Op("ids", ids)) \o Given(Op("mask", mask))
                                  \o Given(Op("run", 0)) \o Given(Op("record", event'.made))
            /\ copy' = copy \o Given(Op("wait", event'.made)) \o Given(Op("out", 0))
            /\ UNCHANGED <<alloc, dev, pinned, broken>>

\* The compute stream carries out its next operation.
ComputeStep ==
    /\ compute # <<>> /\ ~broken
    /\ LET o == Head(compute)
       IN  /\ dev' = CASE o.op = "ids"  -> [dev EXCEPT !.ids = o.data]
                       [] o.op = "mask" -> [dev EXCEPT !.mask = o.data]
                       [] o.op = "run"  -> [dev EXCEPT !.out =
                                               [r \in Slots |-> Vector(dev.ids, dev.mask, r)]]
                       [] OTHER         -> dev
           /\ event' = IF o.op = "record" THEN [event EXCEPT !.done = o.data] ELSE event
    /\ compute' = Tail(compute)
    /\ UNCHANGED <<alloc, copy, pinned, broken, faults>>

\* The copy stream passes the event or copies the results to the host.
CopyStep ==
    /\ copy # <<>> /\ ~broken
    /\ Head(copy).op = "wait" => event.done >= Head(copy).data
    /\ pinned' = IF Head(copy).op = "out" THEN dev.out ELSE pinned
    /\ copy' = Tail(copy)
    /\ UNCHANGED <<alloc, compute, dev, event, broken, faults>>

\* The device breaks for good, perhaps in the middle of a copy to the host.
Break ==
    /\ ~broken /\ faults < MaxFaults
    /\ broken' = TRUE
    /\ faults' = faults + 1
    /\ \E R \in SUBSET Slots :
         /\ R # {} => copy # <<>> /\ Head(copy).op = "out"
         /\ pinned' = [r \in Slots |-> IF r \in R THEN dev.out[r] ELSE pinned[r]]
    /\ UNCHANGED <<alloc, compute, copy, dev, event>>

\* cudaStreamSynchronize returns: the copy stream is idle, or broken.
Synced == copy = <<>> \/ broken

\* trt_destroy; freeing a buffer waits for the device.
Destroy ==
    /\ alloc' = {}
    /\ compute' = <<>> /\ copy' = <<>>
    /\ UNCHANGED <<dev, pinned, event, broken, faults>>

RunnerTypeOK ==
    /\ alloc \subseteq Buffer
    /\ compute \in Seq([op : {"ids", "mask"}, data : [Cells -> Nat]]
                        \cup [op : {"run", "record"}, data : Nat])
    /\ copy \in Seq([op : {"wait", "out"}, data : Nat])
    /\ dev.ids \in [Cells -> Nat] /\ dev.mask \in [Cells -> {0, 1}]
    /\ dev.out \in [Slots -> Seq(Nat)] /\ pinned \in [Slots -> Seq(Nat)]
    /\ event.made \in Nat /\ event.done \in 0..event.made /\ broken \in BOOLEAN
    /\ faults \in 0..MaxFaults
=============================================================================
