----------------------------- MODULE MCProvision -----------------------------
(* Files of two blocks: absent, empty, begun, with a hole, and whole.  Of the *)
(* two places one can hold what a killed or failed call has left behind while *)
(* the other holds the next call.                                             *)
EXTENDS Provision
=============================================================================
