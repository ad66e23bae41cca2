------------------------------ MODULE MCRefused ------------------------------
(* A call that no GPU can serve: each has a session for one bucket only.     *)
(* Four messages, so that the feeder can find its workers gone.              *)
EXTENDS MultiGpu

MCTexts     == {"a", "b", "short"}
MCTooShort  == {"short"}
MCInputs    == {<<"b", "b", "b", "a">>, <<"a", "a", "b", "b">>, <<"b", "short", "short", "b">>}
MCTokLen    == [t \in MCTexts |-> IF t = "b" THEN 5 ELSE 3]
MCHash      == [t \in MCTexts |-> CASE t = "a" -> 1 [] t = "b" -> 2 [] OTHER -> 4]
MCBucketLen == <<3, 6>>
MCBatchSize == <<2, 1>>
MCSessions  == {{<<1, 1>>, <<2, 2>>}}
MCGpu       == {1, 2}
=============================================================================
