---------------------------- MODULE EmbedContract ----------------------------
(***************************************************************************)
(* What Engine::embed promises its caller, without threads, channels or    *)
(* batches: "every message ID still gets a result" (Config in engine.rs).  *)
(* Messages are answered in any order and in groups of any size, each      *)
(* message at most once; the stream ends only when all are answered.       *)
(***************************************************************************)
EXTENDS Naturals

CONSTANTS
    NMsg,       \* number of messages
    Text,       \* their possible texts
    TooShort,   \* texts that get no vector
    Mates       \* Mates[t]: texts whose vectors may be mixed up with t's

VARIABLES text, answers, answer, stream

cvars == <<text, answers, answer, stream>>

Msg == 1..NMsg

\* The answers message m may get.
Rightful(m) ==
    IF text[m] \in TooShort THEN {[kind |-> "skipped", vec |-> {}]}
    ELSE {[kind |-> "failed", vec |-> {}]}
         \cup {[kind |-> "row", vec |-> v] : v \in (SUBSET Mates[text[m]]) \ {{}}}

Init ==
    /\ text \in [Msg -> Text]
    /\ answers = [m \in Msg |-> 0]
    /\ answer = [m \in Msg |-> [kind |-> "none", vec |-> {}]]
    /\ stream = "open"

\* One batch: a set of unanswered messages gets its answers.
Deliver(S) ==
    /\ stream = "open"
    /\ S # {} /\ \A m \in S : answers[m] = 0
    /\ answers' = [m \in Msg |-> IF m \in S THEN 1 ELSE answers[m]]
    /\ \E a \in [S -> UNION {Rightful(m) : m \in S}] :
         /\ \A m \in S : a[m] \in Rightful(m)
         /\ answer' = [m \in Msg |-> IF m \in S THEN a[m] ELSE answer[m]]
    /\ UNCHANGED <<text, stream>>

End ==
    /\ stream = "open"
    /\ \A m \in Msg : answers[m] = 1
    /\ stream' = "ended"
    /\ UNCHANGED <<text, answers, answer>>

\* The caller stops listening, or the call was refused before it began.
Drop ==
    /\ stream = "open"
    /\ stream' = "dropped"
    /\ UNCHANGED <<text, answers, answer>>

Next == (\E S \in SUBSET Msg : Deliver(S)) \/ End \/ Drop

Spec == Init /\ [][Next]_cvars
=============================================================================
