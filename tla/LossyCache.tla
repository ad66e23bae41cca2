----------------------------- MODULE LossyCache -----------------------------
(***************************************************************************)
(* What the users of the dedup cache may rely on: a direct-mapped, lossy   *)
(* cache.  A look-up under hash h either misses, or h has been stored in   *)
(* its slot at some time and every component of the vector it returns was  *)
(* stored in that slot at some time.  EmbedFront uses the cache this way.  *)
(***************************************************************************)
EXTENDS Naturals

CONSTANTS Text, Hash, Capacity, Dim, Reader

VARIABLES
    stored,     \* per slot, the entries ever inserted
    result      \* per reader, what its last look-up returned

cacheVars == <<stored, result>>

Slot == 0..(Capacity - 1)
SlotOf(h) == h % Capacity
Entry == [key : Nat, text : Text]
Miss == [hit |-> FALSE, hash |-> 0, vec |-> <<>>]

Init ==
    /\ stored = [s \in Slot |-> {}]
    /\ result = [r \in Reader |-> Miss]

Insert(t) ==
    /\ Hash[t] # 0
    /\ stored' = [stored EXCEPT ![SlotOf(Hash[t])] = @ \cup {[key |-> Hash[t], text |-> t]}]
    /\ UNCHANGED result

\* Looking up hash h: every way a hit may look.
HitResults(h) ==
    LET here == stored[SlotOf(h)]
    IN  IF h # 0 /\ \E e \in here : e.key = h
        THEN {[hit |-> TRUE, hash |-> h, vec |-> v] : v \in [1..Dim -> {e.text : e \in here}]}
        ELSE {}

Get(r, h) ==
    /\ result' \in {[result EXCEPT ![r] = x] : x \in {Miss} \cup HitResults(h)}
    /\ UNCHANGED stored

Next ==
    \/ \E t \in Text : Insert(t)
    \/ \E r \in Reader, t \in Text : Get(r, Hash[t])

Spec == Init /\ [][Next]_cacheVars
=============================================================================
