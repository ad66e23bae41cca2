------------------------------- MODULE MCRows -------------------------------
(* Two inputs of four and three messages over six words: "go" and its       *)
(* capitalized form, a word of two-byte characters that takes three tokens, *)
(* one in the vocabulary file, a short one that is also the prefix, and a   *)
(* link.  Texts are cut between words, in a word and in a character; rows   *)
(* hold three word tokens; batches three rows; the runtime cache two words. *)
EXTENDS RowPath

MCStem  == {"go", "Go", "caf", "vec", "x", "url"}
MCClean == [s \in MCStem |-> CASE s = "url" -> "none" [] s = "Go" -> "go" [] OTHER -> s]
MCBytes == [s \in MCStem |-> CASE s \in {"go", "Go"} -> 2 [] s = "caf" -> 6
                               [] s = "vec" -> 3 [] s = "x" -> 1 [] OTHER -> 9]
MCWidth == [s \in MCStem |-> IF s = "caf" THEN 2 ELSE 1]
MCWord  == {w \in MCStem \X (1..9) : w[2] <= MCBytes[w[1]]}
MCEncode ==
    [w \in MCWord |-> CASE w[1] = "go"  -> <<11>>
                        [] w[1] = "caf" -> IF w[2] = 6 THEN <<21, 22, 23>> ELSE <<20 + w[2]>>
                        [] w[1] = "vec" -> IF w[2] = 3 THEN <<31, 32>> ELSE <<3>>
                        [] OTHER        -> <<41>>]
MCVocab  == << << <<"vec", 3>>, <<31, 32>> >> >>
MCPrefix == << <<"x", 1>> >>
MCInputs ==
    {<< <<"x", "caf">>, <<"url", "go", "caf">>, <<"caf", "go">>, <<"url", "x">> >>,
     << <<"Go", "vec">>, <<"caf">>, <<"go", "vec", "caf">> >>}
MCAllocs == {Buffer, Buffer \ {"mask"}, Buffer \ {"pinned"}}
=============================================================================
