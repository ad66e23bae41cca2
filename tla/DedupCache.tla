----------------------------- MODULE DedupCache -----------------------------
(***************************************************************************)
(* EmbedCacheInner (engine.rs), the lock-free direct-mapped cache of       *)
(* finished embeddings.  GPU workers insert, tokenizer workers look up, at *)
(* the same time and without locks: `data` is read and written component   *)
(* by component with Relaxed accesses, `keys` with an Acquire load before  *)
(* and a Release store after them.                                         *)
(*                                                                         *)
(* Relaxed accesses to different components are not ordered among          *)
(* themselves, so a thread takes its components in any order; what orders  *)
(* them against the key is the Acquire and the Release.                    *)
(***************************************************************************)
EXTENDS Naturals, FiniteSets

CONSTANTS
    Text,       \* texts with an embedding; the name of a text stands for its vector
    Hash,       \* fnv1a
    Capacity,   \* Config::dedup_capacity
    Dim,        \* hidden_dim
    Writer,     \* GPU workers
    Reader,     \* tokenizer workers
    Zero        \* a component nobody has written

ASSUME CacheAssumption ==
    /\ Text # {}
    /\ Hash \in [Text -> Nat]
    /\ Capacity \in Nat \ {0}
    /\ Dim \in Nat \ {0}
    /\ Zero \notin Text

Slot == 0..(Capacity - 1)
SlotOf(h) == h % Capacity
Component == 1..Dim

VARIABLES
    keys,       \* per slot: AtomicU64, 0 = empty
    data,       \* per slot: hidden_dim AtomicU32
    writer,     \* per writer: pc, the text it inserts, components still to store
    reader,     \* per reader: pc, the hash it looks up, components still to load, out
    result,     \* per reader: what the last get returned
    \* History, read by no action:
    stored,     \* per slot: entries whose insertion has begun
    clashed,    \* slots on which two insertions have overlapped
    disturbed   \* readers that an insertion into their slot has overlapped

codeVars == <<keys, data, writer, reader, result>>
vars == <<codeVars, stored, clashed, disturbed>>

Idle == [pc |-> "idle", hash |-> 0, todo |-> {}, out |-> [i \in Component |-> Zero]]
Miss == [hit |-> FALSE, hash |-> 0, vec |-> <<>>]

Init ==
    /\ keys = [s \in Slot |-> 0]
    /\ data = [s \in Slot |-> [i \in Component |-> Zero]]
    /\ writer = [w \in Writer |-> [pc |-> "idle", text |-> CHOOSE t \in Text : TRUE, todo |-> {}]]
    /\ reader = [r \in Reader |-> Idle]
    /\ result = [r \in Reader |-> Miss]
    /\ stored = [s \in Slot |-> {}]
    /\ clashed = {}
    /\ disturbed = {}

WriterSlot(w) == SlotOf(Hash[writer[w].text])
ReaderSlot(r) == SlotOf(reader[r].hash)
Writing(s) == \E w \in Writer : writer[w].pc # "idle" /\ WriterSlot(w) = s

-----------------------------------------------------------------------------
(* insert(hash, embedding) by writer w. *)
\* Hash 0 marks an empty slot: such a text is never cached.
InsertBegin(w, t) ==
    /\ writer[w].pc = "idle" /\ Hash[t] # 0
    /\ writer' = [writer EXCEPT ![w] = [pc |-> "data", text |-> t, todo |-> Component]]
    /\ LET s == SlotOf(Hash[t])
       IN  /\ stored' = [stored EXCEPT ![s] = @ \cup {[key |-> Hash[t], text |-> t]}]
           /\ clashed' = IF Writing(s) THEN clashed \cup {s} ELSE clashed
           /\ disturbed' = disturbed \cup
                  {r \in Reader : reader[r].pc # "idle" /\ ReaderSlot(r) = s}
    /\ UNCHANGED <<keys, data, reader, result>>

\* Mutant: the key is published before the data.
InsertData_KeyFirst(w, i) ==
    /\ writer[w].pc = "data" /\ i \in writer[w].todo
    /\ data' = [data EXCEPT ![WriterSlot(w)][i] = writer[w].text]
    /\ keys' = [keys EXCEPT ![WriterSlot(w)] = Hash[writer[w].text]]
    /\ writer' = [writer EXCEPT ![w].todo = @ \ {i}]
    /\ UNCHANGED <<reader, result, stored, clashed, disturbed>>

\* One Relaxed store of a component.
InsertData(w, i) ==
    /\ writer[w].pc = "data" /\ i \in writer[w].todo
    /\ data' = [data EXCEPT ![WriterSlot(w)][i] = writer[w].text]
    /\ writer' = [writer EXCEPT ![w].todo = @ \ {i}]
    /\ UNCHANGED <<keys, reader, result, stored, clashed, disturbed>>

\* The Release store of the key, after all components.
InsertKey(w) ==
    /\ writer[w].pc = "data" /\ writer[w].todo = {}
    /\ keys' = [keys EXCEPT ![WriterSlot(w)] = Hash[writer[w].text]]
    /\ writer' = [writer EXCEPT ![w].pc = "idle"]
    /\ UNCHANGED <<data, reader, result, stored, clashed, disturbed>>

-----------------------------------------------------------------------------
(* get(hash, out) by reader r. *)
GetBegin(r, t) ==
    /\ reader[r].pc = "idle"
    /\ reader' = [reader EXCEPT ![r] = [Idle EXCEPT !.pc = "key", !.hash = Hash[t]]]
    /\ disturbed' = IF Writing(SlotOf(Hash[t])) THEN disturbed \cup {r} ELSE disturbed \ {r}
    /\ UNCHANGED <<keys, data, writer, result, stored, clashed>>

\* Mutant: any occupied slot counts as a hit.
GetKey_AnyKey(r) ==
    LET h == reader[r].hash
    IN  /\ reader[r].pc = "key"
        /\ IF keys[SlotOf(h)] # 0 /\ h # 0
           THEN /\ reader' = [reader EXCEPT ![r].pc = "data", ![r].todo = Component]
                /\ UNCHANGED result
           ELSE /\ reader' = [reader EXCEPT ![r] = Idle]
                /\ result' = [result EXCEPT ![r] = Miss]
        /\ UNCHANGED <<keys, data, writer, stored, clashed, disturbed>>

\* Mutant: one component too many is copied.
GetKey_OneMore(r) ==
    LET h == reader[r].hash
    IN  /\ reader[r].pc = "key"
        /\ IF keys[SlotOf(h)] = h /\ h # 0
           THEN /\ reader' = [reader EXCEPT ![r].pc = "data",
                                            ![r].todo = Component \cup {Dim + 1}]
                /\ UNCHANGED result
           ELSE /\ reader' = [reader EXCEPT ![r] = Idle]
                /\ result' = [result EXCEPT ![r] = Miss]
        /\ UNCHANGED <<keys, data, writer, stored, clashed, disturbed>>

\* The Acquire load of the key decides between hit and miss.
GetKey(r) ==
    LET h == reader[r].hash
    IN  /\ reader[r].pc = "key"
        /\ IF keys[SlotOf(h)] = h /\ h # 0
           THEN /\ reader' = [reader EXCEPT ![r].pc = "data", ![r].todo = Component]
                /\ UNCHANGED result
           ELSE /\ reader' = [reader EXCEPT ![r] = Idle]
                /\ result' = [result EXCEPT ![r] = Miss]
        /\ UNCHANGED <<keys, data, writer, stored, clashed, disturbed>>

\* One Relaxed load of a component.
GetData(r, i) ==
    /\ reader[r].pc = "data" /\ i \in reader[r].todo
    /\ reader' = [reader EXCEPT ![r].todo = @ \ {i}, ![r].out[i] = data[ReaderSlot(r)][i]]
    /\ UNCHANGED <<keys, data, writer, result, stored, clashed, disturbed>>

GetEnd(r) ==
    /\ reader[r].pc = "data" /\ reader[r].todo = {}
    /\ result' = [result EXCEPT ![r] =
                     [hit |-> TRUE, hash |-> reader[r].hash, vec |-> reader[r].out]]
    /\ reader' = [reader EXCEPT ![r] = Idle]
    /\ UNCHANGED <<keys, data, writer, stored, clashed, disturbed>>

Next ==
    \/ \E w \in Writer :
         \/ \E t \in Text : InsertBegin(w, t)
         \/ \E i \in Component : InsertData(w, i)
         \/ InsertKey(w)
    \/ \E r \in Reader :
         \/ \E t \in Text : GetBegin(r, t)
         \/ GetKey(r)
         \/ \E i \in Component : GetData(r, i)
         \/ GetEnd(r)

Spec == Init /\ [][Next]_vars

-----------------------------------------------------------------------------
\* Every variable holds a value of its type.
TypeOK ==
    /\ keys \in [Slot -> Nat]
    /\ data \in [Slot -> [Component -> Text \cup {Zero}]]
    /\ writer \in [Writer -> [pc : {"idle", "data"}, text : Text, todo : SUBSET Component]]
    /\ reader \in [Reader -> [pc : {"idle", "key", "data"}, hash : Nat,
                              todo : SUBSET Component,
                              out : [Component -> Text \cup {Zero}]]]
    /\ result \in [Reader -> {Miss} \cup
                     [hit : {TRUE}, hash : Nat, vec : [Component -> Text \cup {Zero}]]]
    /\ stored \in [Slot -> SUBSET [key : Nat, text : Text]]
    /\ clashed \subseteq Slot
    /\ disturbed \subseteq Reader

\* The lock-free cache does what EmbedFront assumes of it: whatever the
\* interleaving, a hit returns components stored in that slot, never one of
\* the zeroes the table starts with, and only under a hash once stored.
Lossy == INSTANCE LossyCache
ImplementsLossyCache == Lossy!Spec

\* In the absence of the races the comment on the cache accepts -- no two
\* insertions into the slot have ever overlapped, none overlapped this get --
\* a hit returns exactly the vector of a text with the hash looked up.
UndisturbedHitIsExact ==
    \A r \in Reader :
        /\ reader[r].pc = "data" /\ reader[r].todo = {}
        /\ r \notin disturbed /\ ReaderSlot(r) \notin clashed
        => \E t \in Text : /\ Hash[t] = reader[r].hash
                           /\ \A i \in Component : reader[r].out[i] = t

\* "Worst case: one embedding gets a neighbor's vector (both valid embeddings,
\* just from a different text)": every vector returned is that of some text.
HitIsAWholeVector ==
    \A r \in Reader : result[r].hit =>
        \E t \in Text : \A i \in Component : result[r].vec[i] = t

\* "a concurrent overwrite between key-check and data-read can return stale
\* data": a get that no insertion overlaps returns the right vector.
OnlyOverlapGoesWrong ==
    \A r \in Reader :
        reader[r].pc = "data" /\ reader[r].todo = {} /\ r \notin disturbed
        => \E t \in Text : /\ Hash[t] = reader[r].hash
                           /\ \A i \in Component : reader[r].out[i] = t
=============================================================================
