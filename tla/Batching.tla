------------------------------ MODULE Batching ------------------------------
(***************************************************************************)
(* The length-bucketed batcher (bucket.rs) together with the two buffers   *)
(* that every thread of engine.rs keeps beside it: one for the message ids *)
(* and one for the hashes.  The three sequences are separate objects in    *)
(* the code and are pushed and drained by separate statements, so they are *)
(* three separate fields here: that row i, id i and hash i belong to the   *)
(* same message is something to check, not something to build in.          *)
(*                                                                         *)
(* A row is the tokenized text; only its identity matters here.            *)
(***************************************************************************)
EXTENDS Naturals, Sequences, FiniteSetsExt

\* A Bucketizer with nothing pending, and the two empty buffers.
EmptyAcc == [rows |-> <<>>, ids |-> <<>>, hashes |-> <<>>]

\* ids_buffer.push, hashes_buffer.push and Bucketizer::push, without the
\* batch that push builds when the bucket has filled up (Filled, BuildBatch).
Push(acc, item) ==
    [rows   |-> Append(acc.rows, item.row),
     ids    |-> Append(acc.ids, item.id),
     hashes |-> Append(acc.hashes, item.hash)]

\* Bucketizer::push returns a batch.
Filled(acc, batchSize) == Len(acc.rows) >= batchSize

\* Mutant: every batch carries the index its own Bucketizer gave it.
BuildBatch_OwnIndex(acc, b) ==
    LET n == Len(acc.rows)
    IN  [shape  |-> b,
         bucket |-> 1,
         rows   |-> acc.rows,
         ids    |-> SubSeq(acc.ids, 1, n),
         hashes |-> SubSeq(acc.hashes, 1, n)]

\* build_batch takes all pending rows; the caller drains the first n_real
\* entries of the two buffers.  `shape` is the bucket whose batch_size and
\* bucket_len the padded arrays have, `bucket` the index stored in the batch.
BuildBatch(acc, b) ==
    LET n == Len(acc.rows)
    IN  [shape  |-> b,
         bucket |-> b,
         rows   |-> acc.rows,
         ids    |-> SubSeq(acc.ids, 1, n),
         hashes |-> SubSeq(acc.hashes, 1, n)]

\* What build_batch and the two drain(..n_real) calls leave behind.
Drain(acc) ==
    LET n == Len(acc.rows)
    IN  [rows   |-> <<>>,
         ids    |-> SubSeq(acc.ids, n + 1, Len(acc.ids)),
         hashes |-> SubSeq(acc.hashes, n + 1, Len(acc.hashes))]

\* The first bucket long enough for a text of len tokens, else the last one.
AssignBucket(bucketLen, len) ==
    LET fits == {b \in DOMAIN bucketLen : len <= bucketLen[b]}
    IN  IF fits = {} THEN Len(bucketLen) ELSE Min(fits)
=============================================================================
