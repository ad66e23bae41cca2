# A TLA+ model of IgniteMS

IgniteMS is a batch text-embedding engine: the caller hands `Engine::embed` an
iterator of messages and a `Receiver` of embedding batches comes back, filled by
a pipeline of OS threads and bounded crossbeam channels that tokenizes, groups
messages of similar length into batches, runs them on one or more GPUs and
re-uses the vectors of duplicate texts.  This directory holds TLA+ models of that
pipeline, of the way of one text through it down to the device, of the lock-free
dedup cache inside it, of the command line program that consumes it and of the
provisioning of its model files, TLC configurations that check them on small instances, and
proofs, checked by TLAPS, of what matters most for instances of any size.

Paths below are relative to the repository; `engine.rs` is
`crates/ignite-ms/src/engine.rs`, `embed.rs` and `reorder.rs` are in
`crates/ignite-ms-embed/src/`.

## 1. Inventory

| Component | State it keeps | Operations | Module |
|---|---|---|---|
| Feeder thread (`engine.rs:754-765`) | position in the caller's iterator | number and send a message; end; give up when no tokenizer worker is left | `EmbedFront` |
| Tokenizer workers (`engine.rs:773-857`) | the message in hand, shared counters | receive, filter, look up the dedup cache, tokenize, choose a bucket, send | `EmbedFront` |
| Channels (`engine.rs:713-751`, `1040`) | input 4096, bucket 8192 each, ready batches 64, output 32; who still holds an end | blocking send and receive; fail when the other end is gone | `EmbedFront`, `MultiGpu` |
| Batch accumulation (`bucket.rs`, `engine.rs:904-913`) | pending rows, ids, hashes (three separate buffers) | push, build a batch, flush, drain; choose a bucket; cut and pad rows into flat arrays | `Batching`, arrays in `RowPath` |
| Bucket threads, one GPU (`engine.rs:859-1038`) | buffers, batch, statistics | receive, infer, fill the dedup cache, send, flush, exit | `SingleGpu` |
| Batchers and GPU workers, several GPUs (`engine.rs:1040-1256`) | buffers; batch and result per GPU | the same in two stages, with a timeout for partial batches; refusal when no GPU has all sessions | `MultiGpu` |
| `EmbedHandle::finish` (`engine.rs:1407-1497`) | thread handles, counters | join, sum up | `SingleGpu`, `MultiGpu` |
| Dedup cache (`engine.rs:232-289`) | per slot a key and a vector of relaxed atomics | `get`, `insert`, component by component | `DedupCache`, `LossyCache` |
| Consumer loop, reorder buffer, writers (`embed.rs:154-276`, `reorder.rs`, `output/*.rs`) | next number, pending rows, skipped numbers, file, exit code | receive, pop in order, write, finish the header, fail | `EmbedCli` |
| Input readers (`input.rs`) | next number, messages, users' ids | collect files, read, filter, number | `EmbedCli` (`Files`, `Read`, `ReadLine`) |
| Engine construction (`engine.rs:421-690`) | engine files, sessions | scale batch sizes, fetch or compile engines, create sessions | files, engine and session in `Provision`; the sessions `embed` finds are the constant `SessionSets` |
| Provisioning and engine cache (`provision.rs`, `trt_runner.cpp:201-350`) | files in a shared cache directory | download, export, build, compile; crash; children that outlive their program | `Provision` |
| TensorRT runner (`trt_runner.cpp:359-543`, `inference.rs`) | device and pinned buffers, two CUDA streams, an event | create, copy, enqueue, synchronise, destroy | `TrtRunner` |
| Tokenizer with word cache (`tokenize.rs`, `cache.rs`) | shared vocabulary cache, bounded runtime word cache, counters | look up a word, tokenize, truncate, add special tokens | `Tokenize` |
| Normalizer (`normalize.rs`) | none | clean, cut or reject a text, add the prefix | `Tokenize`; only its verdict, `TooShort`, in the pipelines |
| Progress monitor (`engine.rs:1300-1400`) | last counters | print, stop when idle | not modelled |
| Benchmark, export scripts | none | measurement, graph surgery | not modelled |

Components interact by channels (feeder -> tokenizer workers -> bucket threads or
batchers -> GPU workers -> caller), by the shared dedup cache (GPU workers write,
tokenizer workers read), by the disappearance of channel ends (the only way an
end of input or a failure is signalled), and by thread joins in `finish`.

What is hard here: any hand-over can lose a message; the stream is closed by
*absence* of senders, so a thread that ends too early truncates it silently and
one that keeps a clone hangs the caller; three parallel buffers must be drained in
step; all channels are bounded and block; the caller may drop the receiver at any
moment; a call may be refused after its threads run; the cache has no locks; rows
come back out of order and must leave in order.  Each such hazard is listed with
its line, and the properties that watch it, in `PROJECT.json`.

## 2. Modules

```
Batching --- EmbedFront --+-- SingleGpu --- MCSingle
                          |       |  implements EmbedContract
                          +-- MultiGpu  --- MCMulti, MCRefused
                                  |  implements EmbedContract
LossyCache <== implemented by DedupCache --- MCDedup
Subsequence --- Tokenize, TrtRunner;  these and Batching --- RowPath --- MCRows
EmbedCli (its input is any stream EmbedContract allows) --- MCCli
Provision --- MCProvision
proofs: BatchingProofs --- EmbedFrontProofs --+-- SingleGpuProofs
                       |                      +-- MultiGpuProofs
                       +-- RowPathProofs
        DedupCacheProofs;  EmbedCliProofs;  ProvisionProofs
```

* **`Batching`**: `Bucketizer` plus the id and hash buffer beside it as operators
  on a record of three sequences (`Push`, `Filled`, `BuildBatch`, `Drain`), and
  `AssignBucket`.  What a row is, is left to its users: its text in the pipelines, its
  tokens in `RowPath`.
* **`EmbedFront`**: everything the two paths of `embed` share.  `fed`/`feeder` is
  the feeder, `inputQ`, `bucketQ`, `outQ` are channels, `tok[w]` a tokenizer worker
  with its program counter (`recv`, `got`, `emit`, `route`, `done`), `rx` the
  caller's `Receiver`, `answers`/`answer` what the caller has received.  A blocking
  send is one action guarded by room in the channel; `let _ = out_tx.send(..)` to a
  dropped receiver is a no-op (`SendOut`).  A channel end exists as long as the
  thread that owns it has not ended (`ToksDone`, `NoSender`, the `alive` parameter).
  The dedup cache appears as its users may see it, which is what `LossyCache`
  promises: a hit needs an insertion under the same hash into the slot, may miss at
  any time, and its vector may mix everything ever stored in the slot.
* **`SingleGpu`**: adds a thread per bucket (`worker[b]`) and `Finish`.  Inference
  may fail at any time and always fails for a bucket without a session.
* **`MultiGpu`**: adds the rest of `embed` as a thread of its own (`embed`), since
  feeder, tokenizer workers and batchers already run when it discovers that no GPU is
  usable; batchers with their timeout; the ready-batch channel; GPU workers, of which
  only those with a session for every bucket are started.
* **`EmbedContract`**: what a caller of `embed` may rely on: every message answered
  at most once, as filtered, failed, or with a vector that is its own or, through the
  dedup cache, made of texts of its slot (`SlotMates`); the stream ends only when all
  are answered.
* **`DedupCache`**: `get` and `insert` as sequences of single atomic loads and
  stores.  All are `Relaxed` but the key (Release/Acquire), so the components may be
  stored and loaded in any order between the key accesses; data stores may not move
  behind the key store nor data loads before the key load.  **`LossyCache`** is its
  abstract specification.
* **`Tokenize`**: the normalizer and the tokenizer with its two caches as operators on
  texts that are sequences of words.  `Clean` says what the noise patterns, lowercasing
  and the letter test leave of a word; joining, the cut at a number of bytes that may fall
  into a word or a character, the minimum and the prefix are computed.  `AddWord` is one
  turn of `tokenize_one`'s loop, with the look-up order vocabulary, runtime cache, encoder
  and the limits of the runtime cache.  `RefTokens` is what all this is meant to compute.
  `Subsequence` holds its one helper: `SelectSeq` with a set for a test, which unlike
  `SelectSeq` can be reasoned about in a proof.
* **`TrtRunner`**: a session.  `trt_infer` queues copies, kernel, event and copy back on
  two streams (`compute`, `copy`), which `ComputeStep` and `CopyStep` work off on their
  own.  A call whose result nobody looks at may be refused (`lost`), an allocation may be
  missing (`alloc`), and the device may break for good, also in the middle of a copy
  (`Break`).  Only `enqueueV3` and the array sizes are checked; `Synced` is all
  `trt_get_output` waits for.  The vector of a row is named by the ids its mask selects,
  so that a stale, shifted or mixed row differs from the right one.
* **`RowPath`**: composes the two with `Batching` into the way of a text through the
  multi-GPU path: one worker, bucket, batcher and GPU.  `Arrays` is the padding of
  `build_batch`; `Tick` lets time pass for `recv_timeout`, whose wait (`idle`) starts
  anew with each message while the rows it holds grow older (`ages`); `Report` brings
  the live counters of the word cache up to date.  The caller always listens.
* **`EmbedCli`**: from the reading of the input to the exit code.  `Files` is the choice
  of the input files, `Read` a turn of the loop of `read_sequential` and `ReadLine` its body,
  which filters, numbers and keeps the user's id; a line that is blank, unreadable or without
  a text is of kind "nothing".  `Embed` hands all of it to the engine.  The batches arrive as any stream that keeps `EmbedContract`, the reorder buffer pops, the writer
  appends, the header is completed at the end; any write may fail.
* **`Provision`**: the files of a model directory, written by calls of `Engine::new` and
  by their children.  A path exists or not (`present`) and a file is the set
  of blocks written (`blocks`), so that empty, begun, finished files and files with a
  hole differ.  `proc[p]` follows a call through `ensure_model` and the rest of `Engine::new`,
  from "off" (no program at place `p`) to "up" or "failed"; `job[p][n]` is the thread and
  the child that provide file `n`, with the path the child has open.  Renaming and removing
  a path moves the open files along (`Moved`).
  The actions are one per test or system call whose order matters: `DownloadCheck`,
  `DownloadOpen`, `Write`, `DownloadSize`, `DownloadRename`; the scripts' and
  the compiler's in-place writing; the joins; removal of the raw model; search, fetch,
  compilation, upload of the engine.  One engine file stands for those of all buckets.
  `curl`, the scripts and `aws` run under `Command::output()` and nothing ends them with
  their program: after a kill (`Killed`) or the exit of a program (`Exits`) any subset of them
  goes on as orphans at that place (`Ends`, `Children`), opens its file late, retries, fails
  and writes beside the next call, which starts at another place.  A call that returns at
  the first failed join (`JoinErr`) leaves its other threads and children at work as long
  as its program lives, and the next call may start meanwhile.  With `Shared` two calls may
  overlap in full.  `mixed` is a history variable: the files on which two places have been
  at work at the same time.

Operators named `X_Y`, marked "Mutant", are seeded faults: plausible bugs of the
definition `X`.  No specification uses them; substituted for `X` each makes the
property it is listed with in `PROJECT.json` fail, which shows that the property
watches the code and does not hold by the shape of the model.

## 3. Runs

| Run | Instance | What it shows |
|---|---|---|
| `single` | 3 messages over 4 texts (one filtered, two sharing a bucket, two sharing a dedup slot), 2 tokenizer workers, 2 buckets of batch size 2, channels of capacity 1, sessions for both or one bucket | `NothingLost`, `EndMeansAnswered`, `RightVector`, `ReceiverOutlivesSenders`, `ReportAddsUp`, `FullUntilFlush`, implements `EmbedContract`, `Terminates` |
| `single_idle_source` | the same | violation: `PartialBatchFires` |
| `multi` | 3 messages over 3 texts, 2 tokenizer workers, batch sizes 2 and 1, 2 GPUs, sessions for all, for one GPU only, or for no GPU completely; all channels of capacity 1 | the same promises over the shared batch channel, `BatchMeetsItsSession`, `PartialBatchFires`, and a refused call winds down |
| `multi_refused` | 4 messages, 2 workers, each GPU with a session for one bucket only | a refused call lets all its threads go although messages keep coming (`Terminates`); this is where `FeederBreak` happens |
| `dedup` | 2 writers and a reader, 4 texts (one with the hash 0 that is never cached), 2 slots, vectors of 2 components | `DedupCache` implements `LossyCache`; look-ups that overlap nothing are exact |
| `dedup_torn`, `dedup_stuck` | the same | violations: `HitIsAWholeVector`, `OnlyOverlapGoesWrong` |
| `rows` | two inputs of 4 and 3 messages over 6 words, texts of at most 8 bytes, rows of 5 cells, batches of 3, timeout 2, 2 faults, sessions with all buffers, without a mask buffer or without pinned memory | `ArraysAreTheText`, `FaultCostsOneBatch`, `WaitIsBounded`, `SkippedAreShort`, `CountersAddUp` |
| `cli` | 4 messages in two files with filtered lines, one file named twice; both input and output formats, every stream `EmbedContract` allows, row groups of 2 | `RowsInOrder`, `RowNamesItsLine`, `NothingHeldBack`, `NoGapAtEnd`, `ReadableIsComplete`, `OkMeansAllThere` |
| `cli_row_n` | the same | violation: `RowNIsInputN` |
| `provision` | one program at a time, its next start and what is left of an earlier one in 2 places, files of 2 blocks, 2 faults (kill, failing child or script, retried transfer, lost write, refusing GPU), the config and the raw model there already, S3 cache empty or filled | `PartialOnlyIfMixed`, `ReadyIsComplete`, `RemoteDamageIsALostWrite`, `FinishedWorkStays`, `ComesUpAgain` |
| `provision_orphan` | the same with 1 fault | violation: `DownloadsAreWhole` |

**Bounds.**  Capacities of 1 make every bounded channel full and empty in turn; with
batch size 2 and three messages there are full batches, partial batches, flushes and
empty buckets; two workers per stage give every reordering of two; two texts in one
dedup slot and one outside give hits, misses, overwrites and wrong hits.  Larger
numbers repeat these cases; for the single-GPU path the proofs remove the bounds.
The number of messages (`NMsg`) bounds every counter of the pipelines.  In
`Provision` two faults (`MaxFaults`) allow a kill and another one, or a failing child, while
its orphans and the next start are at work; a place takes a new call once the orphans there
have ended, so that with two places every start can meet those of the one before; two blocks
tell empty, half and whole files apart; of the three downloads, which run the same code,
two are finished at the beginning (`Earlier`), and the raw model is downloaded again by
every start after the one that removed it.  Places, blocks, faults and `Earlier` are free in
the proofs.  In `rows` the
texts are chosen so that a text is cut in a word and in a two-byte character, a word is
met first where a single token of it fits and later where more do, the runtime cache
(`RuntimeMax` = 2 words) is full, and noise comes before the words; two faults allow a
lost copy on top of another or of a broken device; with `Timeout` = 2 and batches of 3 a
row can outlive its own timeout but not a third.  The `Timeout` and the batch size are
free in the proof.

**Fairness.**  Weak fairness per thread that `embed` starts (the OS schedules them; a
thread blocked in a channel operation is not enabled), for the caller's loop and for
its call of `finish`, in `Provision` for what runs at a place (program, threads and
children, orphans included: `curl` and `aws` get an answer or give up) and for starting a
failed program again.  None for the feeder, because the iterator it drives is the
caller's code and may pause for ever: `Terminates` therefore starts from the end of
the input.  None for dropping the receiver, and none that picks an outcome: inference
may fail every time.  Faults are never fair; `ComesUpAgain` speaks of the time after
the last one.  `finish` is only called once the stream has been drained or
dropped, as its documentation demands.

**Disagreements found.**  Each is a run that expects a violation:

* `batch_timeout_ms` is documented as firing partial batches, but the single-GPU
  threads wait in `recv` and never time out (`engine.rs:907`).
* The dedup cache's comment promises that the worst case is another text's valid
  vector; a look-up that overlaps an insertion can return a mix of two
  (`engine.rs:267`).
* The same comment blames look-ups overlapping a write only; two overlapping writes
  leave a slot whose key and data disagree for all later look-ups (`engine.rs:285`).
* `download_hf_file` promises no partial cache entries by renaming a temporary file, but
  the temporary name is the same in every start: the `curl` of a program that was killed
  truncates what the next start has downloaded and is about to rename (`provision.rs:295`),
  with one program at a time; two programs do the same to each other.
* `reorder.rs:4` promises that output row N is input row N; filtered and failed
  messages have no row, so later rows move up (`reorder.rs:36`).

Smaller ones that no run is spent on, because the passing runs say what holds instead:

* `batch_timeout_ms` is said to bound the wait for a full batch (`engine.rs:64`); on the
  multi-GPU path every message restarts it, so a row may wait for up to
  `batch_size - 1` timeouts.  `WaitIsBounded` is the bound that is left.
* `trt_get_output` "returns 0 on success, -1 on failure" (`trt_runner.cpp:514`) and
  `inference.rs:286` has a message for it; no CUDA error makes it return -1.  A fault can
  thus pass for a result.  `FaultCostsOneBatch` says how far that goes.
* `input.rs:47-48` says the filter is there "so the engine never skips messages"; the
  engine filters after cleaning, which makes long texts short, and its consumer copes.
* The input files are sorted, so that with several arguments the rows come in the order
  of the paths and not of the command line; and a line without an id gets its number as
  id in Parquet, which may be another line's own id.
* `--truncation` is documented in characters and applied to bytes (`normalize.rs:118`).

## 4. Proofs

Every theorem is about the specification itself, for all values of the constants that
the named assumptions of its module allow; there is no bound on messages, texts, threads,
buckets, GPUs, capacities, slots, lines or blocks.

| Module | Theorem | Statement |
|---|---|---|
| `SingleGpuProofs` | `TypeInvariant`, `TypeCorrect` | `Spec => []TypeInv`, `Spec => []TypeOK` |
| | `ReceiversOutliveSenders` | `Spec => []ReceiverOutlivesSenders` |
| | `NoMessageLost` | `Spec => []NothingLost` |
| | `StreamEndIsComplete` | `Spec => []EndMeansAnswered` |
| | `BatchesAreFull` | `Spec => FullUntilFlush` |
| | `VectorsAreRight` | `Spec => []RightVector` |
| | `ReportIsComplete` | `Spec => []ReportAddsUp` |
| | `SingleGpuKeepsContract` | `Spec => ContractHolds`, the refinement of `EmbedContract` |
| `MultiGpuProofs` | `TypeInvariant`, `TypeCorrect` | `Spec => []TypeInv`, `Spec => []TypeOK` |
| | `ReceiversOutliveSenders` | `Spec => []ReceiverOutlivesSenders` |
| | `NoMessageLost` | `Spec => []NothingLost` |
| | `StreamEndIsComplete` | `rx = "ended"` only when every message is answered |
| | `BatchesMeetTheirSessions` | `Spec => []BatchMeetsItsSession` |
| | `AnswersAreRight` | every answer given is a `Rightful` one |
| | `ReportIsComplete` | `Spec => []ReportAddsUp` |
| | `MultiGpuKeepsContract` | `Spec => ContractHolds`, the refinement of `EmbedContract` |
| `DedupCacheProofs` | `TypeCorrect` | `Spec => []TypeOK` |
| | `UndisturbedIsExact` | `Spec => []UndisturbedHitIsExact` |
| | `CacheIsLossyCache` | `Spec => ImplementsLossyCache`, the refinement |
| `EmbedCliProofs` | `TypeCorrect` | `Spec => []TypeOK` |
| | `InputOrder`, `RowsNameTheirLines` | `Spec => []RowsInOrder`, `Spec => []RowNamesItsLine` |
| | `HeldBackOnlyForTheNext`, `EndLeavesNoGap` | `Spec => []NothingHeldBack`, `Spec => []NoGapAtEnd` |
| | `NoPartialFile`, `SuccessIsComplete` | `Spec => []ReadableIsComplete`, `Spec => []OkMeansAllThere` |
| `ProvisionProofs` | `TypeCorrect` | `Spec => []TypeOK` |
| | `DownloadsWhole` | `Spec => []PartialOnlyIfMixed` |
| | `ReadyComplete` | `Spec => []ReadyIsComplete` |
| | `FinishedIsKept` | `Spec => FinishedWorkStays` |
| | `RemoteIsSound` | `Spec => []RemoteDamageIsALostWrite`, if `~Shared` |
| `RowPathProofs` | `WaitBound` | `Spec => []WaitIsBounded` |
| | `TokensAreTheEncoders` | what `TokenizeOne` returns is `RefTokens`, and its cache stays sound |
| | `TypeCorrect`, `CountersCorrect` | `Spec => []TypeOK`, `Spec => []CountersAddUp` |
| | `SkippedCorrect` | `Spec => []SkippedAreShort`, if `RoomForShortest` |
| | `ArraysCorrect` | `Spec => []ArraysAreTheText`, if `MaxLen > 1` |
| | `FaultsContained` | `Spec => []FaultCostsOneBatch`, if `MaxLen > 1` |

The assumptions are those of the modules: what `Config::validate` demands
(`ConfigAssumption`), positive capacities, the types of the constant functions, a finite
number of threads and of GPUs, that the input has as many texts as there are messages
(`InputAssumption`), that there is a text to cache (`CacheAssumption`), that words have
bytes (`TextAssumption`) and that the vocabulary file was written with the encoder
(`EncoderAssumption`).  A hypothesis of its own is in a theorem of `ProvisionProofs` and in
three of `RowPathProofs`, see below.

**Both paths of `embed`.**  `TypeOK` is not inductive: if the id buffer were shorter than
the rows, `SubSeq` of it would not be a sequence of ids.  `TypeInv` adds that the three
buffers are aligned, that a result has a row per id or none, and that a thread holds
a batch or result only at the program counter where it should.

`Closing` describes the wind-down.  On one GPU it is a chain: the feeder ends after the last
message, a tokenizer worker only when the feeder has ended and the input channel is empty,
a bucket thread only when all tokenizer workers have, its channel is empty and nothing is
pending, and the stream only when all of them have.  On several GPUs the chain is longer by
the batchers, the shared channel and the GPU workers, and holds only for a running call:
`Phases` says what each phase of `embed` (starting, running, refused) leaves of it, `Winding`
is the chain itself.  While the call is starting no GPU worker is there yet; once refused,
the receivers go first and the chain runs the other way.  Relative to both, each action
moves a message from one place to the next and drops none (`FrontKeeps`, `WorkerKeeps` and
their counterparts for batchers and GPU workers), which gives `NoMessageLost`; with the
chain, at the end of the stream there is no place left but "answered", which is
`StreamEndIsComplete`.  `BatchSizes` (pending rows stay below the batch size) gives
`BatchesAreFull`.

`Content` says that items belong together: in every buffer, batch and channel the i-th id,
row and hash are those of one message, and that message was routed to this bucket
(`Holds(acc, ItemsOf(b))`); in the cache every entry is filed under its own hash; every
result on its way says something its messages may rightly be told (`RightOut`).  Pushing,
building a batch and draining keep it because the buffers are aligned (`PushHolds`,
`BuildBatchHolds`).  `VectorsAreRight`, `AnswersAreRight` and `BatchesMeetTheirSessions`
are what it says at the two ends: of an answer, and of a batch in front of a session.

`Once` says that no message is in two places.  Compared pair by pair, the places (source,
channels, the hands of each thread, the caller) would be too many; instead there *is* a map
`h` from messages to places, and `FrontAt(h)`, `WorkerAt(h)`, `BackAt(h)` say that what a
place contains is different messages that `h` puts there, and that a message with an answer
is at the caller and has had one.  A step that hands messages over changes `h` for these
messages only (`Moved`, `MovedAll`), so every other place is left alone because none of its
messages moves (`Stays`).  A thread that gives up leaves its messages where `h` had them,
which is no longer checked against anything: they are nowhere.  A batch the caller
receives therefore consists of messages that had no answer (`RecvOnce`), and with `Content`
it is a `Deliver` of the contract.  The end of the stream is its `End` by
`StreamEndIsComplete`, a dropped receiver and a refused call are its `Drop`, and every other
step leaves what the caller sees as it is: `SingleGpuKeepsContract` and
`MultiGpuKeepsContract`.

`Tally` is the bookkeeping behind the report of `finish()`.  Everything a tokenizer worker
has counted is on its way to a bucket or has been received by one (`Counted`), and everything
the buckets have received is in some thread's buffers, in a batch in somebody's hands, in the
shared channel, or in the counters of rows (`Received = Everywhere`).  After the wind-down
only the counters are left.  The parts are sums over threads, buckets, GPUs and the entries
of a channel, each a fold over a function; a step changes one entry of one of them
(`WorkersMove`, `PendingMoves`, `OnGpuMoves`, `RowsOfAppend`, `RowsOfTail`).

A fold is defined by recursion over the subsets of the domain, and the library's induction
theorems cannot be instantiated.  `BatchingProofs` proves by a smallest counterexample
instead what the sums need: among the subsets for which a statement fails there is a
smallest one (`SmallestSet`, from the well-foundedness of inclusion), and one unfolding of
the recursion contradicts it.  In this way there is a table of partial sums (`TableExists`,
`SumStep`), any element may be split off (`SumWithout`), sums depend only on the values
(`SumOfEqual`, `SumShifted`), and changing an entry by `n` changes the sum by `n` (`SumAdds`).

`EmbedFrontProofs` has one lemma per shared action, which both paths use;
`BatchingProofs` the lemmas on the buffers and on `AssignBucket` (every text has a bucket,
and it is the first that holds it).

**Dedup cache.**  A slot is filled before its key says so, and stays full: the key is
stored last, and no component ever returns to `Zero`.  So a reader that has seen the key
reads nothing but components of texts stored in the slot (`Slots`, `Writers`, `Readers`), and
the refinement maps the first step of an insertion to the abstract store and the last step of a
look-up to the abstract answer.  For exactness `Alone` adds that a slot in which no two
insertions have ever overlapped has at most one writer, whose finished components are its own
text's, and holds one text when nobody writes; `Undisturbed` that a reader no insertion
has overlapped since its first load is still looking at that text.

**Command line program.**  `Inv` has a part per stage: `Reading`, `Handed`, `Answering`,
`Buffer`, `Writing` and the end.  The number of a message is the number of texts before its
line (`Cardinality(Before(l))`); that a later line has a larger rank is why a row's number
names one line (`RowNamesItsLine`), and why `Read` is a step per line in the model: the whole
loop at once would be a fold over the input, of which nothing can be proved here.  `Buffer` is
the reorder buffer's promise as an equation: it holds exactly the answered numbers from
`next_seq` on, and between two batches `next_seq` itself is not among them.

**Provisioning.**  `Inv` goes file by file and speaks of files that are not `mixed`: on these
at most one place is at work, so what its child or thread has seen is still true
(`OnlyWorker`).  `Good` says that what is written and what is left make up the whole and that
what was found missing is still missing, `Found` what there is under the final name, `Seen`
that what a thread reported or a join has passed is there.  A step works on one file
(`Works`), and leaves all others, with the files their children hold open, as they are
(`Same`); calls that start, end or pass a join only drop jobs or begin new ones
(`Resets`).  This holds whether or not calls overlap (`Shared`), for any number of
places, orphans and faults.  `mixed` is needed: the run `provision_orphan` shows a partial
download on a file that is.  `RemoteIsSound` needs no word about it, but calls one after
the other: what compiles is not a child and ends with its program, so at most one
place compiles (`OneLive`, `OneCompiles`), and the engine with what is left to write is whole
unless a write was lost (`Compiled`), wherever its name has gone.

**Waiting.**  `WaitIsBounded` is not inductive: that the oldest row has seen one timeout
per row after it does not say that a timer which is about to restart has not run for
longer.  `Clocks` adds the wait in progress: a row with `n` rows after it is at most
`n * Timeout + idle` old, `idle` never exceeds the timeout, there is an age for every
row, and fewer rows than a batch.  A tick adds one to both sides, a message turns `idle`
into one more timeout (`RecvClocks`), a full batch, a timeout and the flush empty the
buffers (`NonePending`), and nothing else touches them.

**Tokens.**  A row must not depend on what the caches learned from other messages.
`CacheOk` says that an entry of the runtime cache is what the encoder returns for its word;
the entries of the vocabulary file are by assumption.  `Follows(ids, f)` relates the ids
collected so far to `f`, everything the encoder says of the words so far: they are the start
marker and a prefix of `f`, all of it unless the row is full.  One word keeps both
(`TurnIsFaithful`), whichever of the three sources answers and whether the answer is stored
or does not fit; the end marker makes a prefix that was cut where the room ended into
`RefTokens` (`FollowsAll`).  The loop is a fold over the words, so the step from one word to
all is again a smallest counterexample, over the length of the part that has been folded.

**A text's way.**  `TypeInv` is `TypeOK` and what its preservation needs: a sound word cache, aligned
buffers, the shape of the arrays, the clocks above, what may be queued on which stream and
that no event is done before it is made.  That the live counters are what was last reported,
and all of it once the worker has ended, is part of it and gives `CountersCorrect`.  `RowsInv` says that every row
between tokenizer and arrays is `RefTokens` of its message and no longer than the bucket
(`RightItems`), and that arrays in the ready slot, in the channel or at the GPU are `Spelled` out
right.  That `build_batch` puts rows of any length at offsets that do not overlap is
`EmitSpells`, with arithmetic on `\div` and `%` that TLC can only sample.  `MaxLen > 1` says
that the longest bucket holds the two markers; with a bucket of one token
`tokenize_one`, whose content limit is then 0, returns both all the same and the row is cut.

`SkippedCorrect` needs `RoomForShortest`: the byte limit (`truncation`, by default 256) exceeds
the minimum (`min_chars`, by default 10) by the bytes of a character less one.  A cut inside
a character takes the whole character, so with limits closer together a long text could fall
below the minimum by the cut alone.  `Config::validate` does not compare the two.

**Faults.**  `FaultCostsOneBatch` speaks of answers only, a fault happens long before.
`FaultInv` charges it to the batch in hand: the spoilt answers, plus one if the batch in
hand is no longer certain (`Risky`), are at most the faults so far.  `OnTrack(b)` is what
certain means: the device is not broken, and either everything still queued on the compute
stream is, in this order and behind leftovers of earlier batches, the uploads of `b`, its
run and the record of its event, with what has already been done visible on the device, and the
copy stream waits for that very event before it copies; or the copy is all that is left
and the results are there; or the results have arrived.  Steps of the two streams keep a
batch on track (`ComputeOnTrack`, `CopyOnTrack`), and enqueueing without a lost call puts it
there (`InferOnTrack`).  The second half of `FaultInv` is why a fault does not reach the next
batch: unless the device is broken for good, the copy stream is empty whenever the next batch
is enqueued, so a copy of the batch before cannot land on top of its results.  The proof uses
`RowsInv`, since a vector is right only if the arrays were.

**Only model-checked.**  The liveness properties `Terminates`, `PartialBatchFires` and
`ComesUpAgain`: liveness under fairness and ENABLED are out of the prover's reach.  Every
other property a passing run checks is the statement of a theorem.

## 5. Plan

In order of importance, what later work adds:

1. Sessions over several `embed` calls on one engine: the second call finds none, which
   on one GPU is the session-less thread of run `single` for all buckets.

Assumptions of `Provision`: what a process
has written survives it (kills, not power failures), a script or TensorRT rejects an
input that is not whole, `aws s3 cp` leaves the whole object or nothing, and the `aws` that
uploads an engine, which only reads, ends with its program.  A script tests its input and
opens its output in one step.  The files `.export_pooling.py` and `.build_vocab_cache.py`, written
before and removed after each run of a script, are left out: at worst a script fails.  `Stuck`, which
`ComesUpAgain` excludes, is real: a `model.onnx`, `vocab_cache.bin` or engine that has been left
half-written passes the existence tests of every later start.  It is not the state of a
file that is still being written, and a program that is for ever writing anew does not
satisfy `ComesUpAgain`.  A truncated `config.json` would not even be noticed (`detect_hidden_dim`
then assumes 384), which is why `ReadyIsComplete` demands it whole.

Assumptions of `RowPath`: an entry of the vocabulary file is what the encoder returns for
the word (`EncoderAssumption`; the file is built with the same tokenizer); the encoder is a function of the
word; a broken CUDA context stays broken and refuses every later call, which is CUDA's
rule for sticky errors; memory that was never allocated makes `enqueueV3` refuse.

## 6. Not modelled

* The patterns of the normalizer as regular expressions, and patterns that match across
  words: text processing without state; `Clean` is their effect on a word.
* The progress monitor: it prints differences of counters and nothing depends on it.
* Batch scaling in `Engine::new` (`engine.rs:440-450`): one statement of arithmetic on
  the configuration.  It never goes below 64, so smaller batches asked for become larger.
* The benchmark: it drains the same stream the command line program drains.  Its parallel
  readers compare a shared counter with the limit before they add to it
  (`main.rs:215`, `244`), so it may send up to readers - 1 messages more.
* The export scripts, TensorRT and CUDA themselves, Parquet and NumPy encodings beyond
  "header says how many rows", option parsing, opening and decompressing input files (a
  decompressor that fails for ever keeps `read_sequential` in its loop, `input.rs:64`).
* Panics of a thread: the models' threads end only where the code returns.
