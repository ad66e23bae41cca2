------------------------------ MODULE MCSingle ------------------------------
(* A small instance of SingleGpu: three messages over four texts, two       *)
(* tokenizer workers, two buckets, channels of capacity one.                *)
EXTENDS SingleGpu

\* "short" is filtered; "a" and "b" share a bucket but not a dedup slot, "a"
\* and the long "c" share a dedup slot but not a bucket.
MCTexts     == {"a", "b", "c", "short"}
MCTooShort  == {"short"}
MCInputs    == [1..3 -> MCTexts]
MCTokLen    == [t \in MCTexts |-> IF t = "c" THEN 5 ELSE 3]
MCHash      == [t \in MCTexts |-> CASE t = "a" -> 1 [] t = "b" -> 2
                                    [] t = "c" -> 3 [] OTHER -> 4]
MCBucketLen == <<3, 6>>
MCBatchSize == <<2, 2>>
MCSessions  == {{1, 2}, {1}}
=============================================================================
