------------------------------- MODULE MCMulti -------------------------------
(* A small instance of MultiGpu: three messages over three texts, two       *)
(* buckets, two GPUs; both, one or none of them with a full set of sessions.*)
EXTENDS MultiGpu

MCTexts     == {"a", "b", "short"}
MCTooShort  == {"short"}
MCInputs    == {<<"a", "a", "b">>, <<"a", "b", "short">>, <<"short", "a", "a">>}
MCTokLen    == [t \in MCTexts |-> IF t = "b" THEN 5 ELSE 3]
MCHash      == [t \in MCTexts |-> CASE t = "a" -> 1 [] t = "b" -> 2 [] OTHER -> 4]
MCBucketLen == <<3, 6>>
MCBatchSize == <<2, 1>>
MCSessions  == {{1, 2} \X {1, 2}, {<<1, 1>>, <<2, 1>>, <<1, 2>>}, {<<1, 1>>, <<2, 2>>}}
MCGpu       == {1, 2}
=============================================================================
