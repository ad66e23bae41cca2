------------------------------- MODULE MCCli -------------------------------
(* Four messages in two files, one of which is named twice on the command    *)
(* line; two texts that get a vector and one that normalization rejects      *)
(* although it was long enough for read_sequential.  Some lines have no id,  *)
(* one has the number of another line, and each file has one without a text. *)
EXTENDS EmbedCli

MCMates == [t \in {"a", "b", "short"} |-> {t}]
Line(t, id) == [kind |-> "text", text |-> t, id |-> id]
MCDropped == {[kind |-> k, text |-> "short", id |-> "d"] : k \in {"short", "nothing"}}
MCInputs ==
    {[args    |-> <<"late", "dir">>,
      below   |-> [late |-> {2}, dir |-> {1, 2}],
      content |-> << <<Line(t[1], "p"), d, Line(t[2], "")>>,
                     <<d, Line(t[3], "1"), Line(t[4], "q")>> >>] :
        t \in [1..4 -> {"a", "b", "short"}], d \in MCDropped}
=============================================================================
