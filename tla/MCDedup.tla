------------------------------- MODULE MCDedup -------------------------------
(* Two writers and a reader on a table of two slots: texts 1 and 2 share a  *)
(* slot, text 3 has the other one, text 4 has the hash that is never cached.*)
EXTENDS DedupCache

MCHash == [t \in {1, 2, 3, 4} |-> CASE t = 1 -> 1 [] t = 2 -> 3 [] t = 3 -> 2 [] t = 4 -> 0]
=============================================================================
