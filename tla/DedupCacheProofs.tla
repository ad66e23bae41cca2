-------------------------- MODULE DedupCacheProofs --------------------------
(***************************************************************************)
(* Proofs about DedupCache: it implements LossyCache, for any number of    *)
(* threads, texts, slots and components, and a look-up that no insertion   *)
(* disturbed is exact.                                                     *)
(*                                                                         *)
(* The first needs that nothing but stored components is ever seen: a slot *)
(* is full, has no component left at Zero, before its key says so, and it  *)
(* stays full.  The second needs to know who is writing: where insertions  *)
(* have never overlapped, a slot no one writes holds one text, and an      *)
(* undisturbed reader is in such a slot from its first load to its last.   *)
(***************************************************************************)
EXTENDS DedupCache, TLAPS

\* The texts ever stored in slot s.
TextsIn(s) == {e.text : e \in stored[s]}

\* Every component of slot s has been written.
Full(s) == \A i \in Component : data[s][i] # Zero

\* Slot s holds text t.
Holds(s, t) == \A i \in Component : data[s][i] = t

\* An entry is stored where its hash belongs.
Storing ==
    \A s \in Slot : \A e \in stored[s] : e.key = Hash[e.text] /\ e.key # 0 /\ SlotOf(e.key) = s

\* Key and components of a slot have been stored there.
Slots ==
    \A s \in Slot :
        /\ \A i \in Component : data[s][i] # Zero => data[s][i] \in TextsIn(s)
        /\ keys[s] # 0 => Full(s) /\ \E e \in stored[s] : e.key = keys[s]

\* What a writer has yet to store.
Writers ==
    \A w \in Writer : writer[w].pc = "data" =>
        /\ Hash[writer[w].text] # 0
        /\ [key |-> Hash[writer[w].text], text |-> writer[w].text] \in stored[WriterSlot(w)]
        /\ \A i \in Component \ writer[w].todo : data[WriterSlot(w)][i] # Zero

\* What a reader has loaded.
Readers ==
    \A r \in Reader :
        /\ reader[r].pc # "idle" => \E t \in Text : reader[r].hash = Hash[t]
        /\ reader[r].pc = "data" =>
             /\ reader[r].hash # 0 /\ Full(ReaderSlot(r))
             /\ \E e \in stored[ReaderSlot(r)] : e.key = reader[r].hash
             /\ \A i \in Component \ reader[r].todo : reader[r].out[i] \in TextsIn(ReaderSlot(r))

\* Where insertions have never overlapped: one writer, and a slot in one piece.
Alone ==
    \A s \in Slot \ clashed :
        /\ \A w, v \in Writer :
             /\ writer[w].pc = "data" /\ WriterSlot(w) = s
             /\ writer[v].pc = "data" /\ WriterSlot(v) = s
             => w = v
        /\ \A w \in Writer : writer[w].pc = "data" /\ WriterSlot(w) = s =>
             \A i \in Component \ writer[w].todo : data[s][i] = writer[w].text
        /\ ~Writing(s) /\ keys[s] # 0 => \E t \in Text : Hash[t] = keys[s] /\ Holds(s, t)

\* An undisturbed reader, in a slot where insertions have never overlapped.
Undisturbed ==
    \A r \in Reader \ disturbed : reader[r].pc # "idle" =>
        /\ ~Writing(ReaderSlot(r))
        /\ reader[r].pc = "data" /\ ReaderSlot(r) \notin clashed =>
             \E t \in Text :
                 /\ Hash[t] = reader[r].hash /\ Holds(ReaderSlot(r), t)
                 /\ \A i \in Component \ reader[r].todo : reader[r].out[i] = t

Inv == TypeOK /\ Storing /\ Slots /\ Writers /\ Readers /\ Alone /\ Undisturbed
-----------------------------------------------------------------------------
LEMMA SlotIsASlot == ASSUME NEW h \in Nat PROVE SlotOf(h) \in Slot
BY CacheAssumption DEF SlotOf, Slot

\* The first text of Init is a text.
LEMMA SomeText == (CHOOSE t \in Text : TRUE) \in Text
BY CacheAssumption

LEMMA InitInv == Init => Inv
<1> SUFFICES ASSUME Init PROVE Inv
    OBVIOUS
<1>1. Zero \notin Text /\ Capacity \in Nat \ {0}
      BY CacheAssumption
<1>2. TypeOK
      BY SomeText DEF Init, TypeOK, Idle, Miss
<1>3. \A r \in Reader : reader[r].pc = "idle"
      BY DEF Init, Idle
<1>4. \A w \in Writer : writer[w].pc = "idle"
      BY DEF Init
<1>5. Storing /\ Slots
      BY DEF Storing, Slots, Init
<1>6. Writers
      BY <1>4 DEF Writers
<1>7. Readers /\ Undisturbed
      BY <1>3 DEF Readers, Undisturbed
<1>8. Alone
      BY <1>4 DEF Alone, Init
<1> QED BY <1>2, <1>5, <1>6, <1>7, <1>8 DEF Inv

\* A thread at work is in a slot.
LEMMA SlotsOfThreads ==
    ASSUME TypeOK
    PROVE  /\ \A w \in Writer : WriterSlot(w) \in Slot /\ Hash[writer[w].text] \in Nat
           /\ \A r \in Reader : ReaderSlot(r) \in Slot
           /\ \A t \in Text : Hash[t] \in Nat /\ SlotOf(Hash[t]) \in Slot
BY SlotIsASlot, CacheAssumption DEF TypeOK, WriterSlot, ReaderSlot

\* A step that leaves the slots and the writers alone leaves these parts too.
LEMMA ReadersOnly ==
    ASSUME Inv, UNCHANGED <<keys, data, writer, stored, clashed>>
    PROVE  Storing' /\ Slots' /\ Writers' /\ Alone'
BY DEF Inv, Storing, Slots, Writers, Alone, TextsIn, Full, Holds, Writing, WriterSlot

\* InsertBegin: a new entry in a slot, whose key and components stay as they are.
LEMMA InsertBeginKeepsInv ==
    ASSUME Inv, NEW w \in Writer, NEW t \in Text, InsertBegin(w, t)
    PROVE  Inv'
<1> DEFINE p == SlotOf(Hash[t])
           new == [key |-> Hash[t], text |-> t]
<1>1. /\ p \in Slot /\ Hash[t] \in Nat /\ Hash[t] # 0
      /\ \A v \in Writer : WriterSlot(v) \in Slot
      /\ \A r \in Reader : ReaderSlot(r) \in Slot
      BY SlotsOfThreads DEF Inv, InsertBegin
<1>2. /\ writer[w].pc = "idle"
      /\ writer' = [writer EXCEPT ![w] = [pc |-> "data", text |-> t, todo |-> Component]]
      /\ stored' = [stored EXCEPT ![p] = @ \cup {new}]
      /\ clashed' = IF Writing(p) THEN clashed \cup {p} ELSE clashed
      /\ disturbed' = disturbed \cup {r \in Reader : reader[r].pc # "idle" /\ ReaderSlot(r) = p}
      /\ UNCHANGED <<keys, data, reader, result>>
      BY DEF InsertBegin
<1>3. TypeOK'
      <2> HIDE DEF p
      <2>1. new \in [key : Nat, text : Text]
            BY <1>1
      <2>2. stored' \in [Slot -> SUBSET [key : Nat, text : Text]]
            <3> HIDE DEF new
            <3> QED BY <1>1, <1>2, <2>1 DEF Inv, TypeOK
      <2>3. writer' \in [Writer -> [pc : {"idle", "data"}, text : Text, todo : SUBSET Component]]
            BY <1>2 DEF Inv, TypeOK
      <2>4. clashed' \subseteq Slot /\ disturbed' \subseteq Reader
            BY <1>1, <1>2 DEF Inv, TypeOK
      <2> QED BY <1>2, <2>2, <2>3, <2>4 DEF Inv, TypeOK
<1>4. /\ writer'[w].pc = "data" /\ writer'[w].text = t /\ writer'[w].todo = Component
      /\ WriterSlot(w)' = p
      /\ \A v \in Writer \ {w} : writer'[v] = writer[v] /\ WriterSlot(v)' = WriterSlot(v)
      BY <1>2 DEF Inv, TypeOK, WriterSlot
<1>5. /\ new \in stored'[p] /\ new.key = Hash[t] /\ new.text = t
      /\ \A s \in Slot : stored[s] \subseteq stored'[s]
      /\ \A s \in Slot : \A e \in stored'[s] : e \in stored[s] \/ (s = p /\ e = new)
      BY <1>1, <1>2 DEF Inv, TypeOK
<1>6. \A s \in Slot : TextsIn(s) \subseteq TextsIn(s)'
      BY <1>5 DEF TextsIn
<1>7. /\ \A r \in Reader : ReaderSlot(r)' = ReaderSlot(r)
      /\ \A s \in Slot : Full(s)' <=> Full(s)
      /\ \A s \in Slot, u \in Text : Holds(s, u)' <=> Holds(s, u)
      BY <1>2 DEF ReaderSlot, Full, Holds
<1> HIDE DEF p, new
<1>8. Storing'
      <2> SUFFICES ASSUME NEW s \in Slot, NEW e \in stored'[s]
                   PROVE  e.key = Hash[e.text] /\ e.key # 0 /\ SlotOf(e.key) = s
          BY DEF Storing
      <2>1. CASE e \in stored[s]
            BY <2>1 DEF Inv, Storing
      <2>2. CASE s = p /\ e = new
            BY <2>2, <1>1, <1>5 DEF p
      <2> QED BY <2>1, <2>2, <1>5
<1>9. Slots'
      BY <1>2, <1>5, <1>6, <1>7 DEF Inv, Slots
<1>10. Writers'
      <2> SUFFICES ASSUME NEW v \in Writer, writer'[v].pc = "data"
                   PROVE  /\ Hash[writer'[v].text] # 0
                          /\ [key |-> Hash[writer'[v].text], text |-> writer'[v].text]
                                 \in stored'[WriterSlot(v)']
                          /\ \A i \in Component \ writer'[v].todo :
                                 data'[WriterSlot(v)'][i] # Zero
          BY DEF Writers
      <2>1. CASE v = w
            BY <2>1, <1>1, <1>4, <1>5 DEF new
      <2>2. CASE v # w
            BY <2>2, <1>1, <1>2, <1>4, <1>5 DEF Inv, Writers
      <2> QED BY <2>1, <2>2
<1>11. Readers'
      BY <1>1, <1>2, <1>5, <1>6, <1>7 DEF Inv, Readers
<1>12. /\ Writing(p)'
       /\ \A s \in Slot \ {p} : Writing(s)' <=> Writing(s)
       /\ clashed \subseteq clashed'
       /\ p \notin clashed' => ~Writing(p) /\ p \notin clashed
      <2>1. Writing(p)'
            BY <1>4 DEF Writing
      <2>2. \A s \in Slot \ {p} : Writing(s)' <=> Writing(s)
            BY <1>2, <1>4 DEF Writing
      <2> QED BY <1>2, <2>1, <2>2
<1>13. Alone'
      <2> SUFFICES ASSUME NEW s \in Slot, s \notin clashed'
                   PROVE  /\ \A u, v \in Writer :
                               /\ writer'[u].pc = "data" /\ WriterSlot(u)' = s
                               /\ writer'[v].pc = "data" /\ WriterSlot(v)' = s
                               => u = v
                          /\ \A v \in Writer : writer'[v].pc = "data" /\ WriterSlot(v)' = s =>
                               \A i \in Component \ writer'[v].todo :
                                   data'[s][i] = writer'[v].text
                          /\ ~Writing(s)' /\ keys'[s] # 0 =>
                               \E u \in Text : Hash[u] = keys'[s] /\ Holds(s, u)'
          BY DEF Alone
      <2>1. CASE s = p
            <3>1. \A v \in Writer \ {w} : ~(writer'[v].pc = "data" /\ WriterSlot(v)' = s)
                  BY <2>1, <1>4, <1>12 DEF Writing
            <3> QED BY <2>1, <3>1, <1>4, <1>12
      <2>2. CASE s # p
            <3>1. WriterSlot(w)' # s
                  BY <2>2, <1>4
            <3>2. s \notin clashed
                  BY <1>12
            <3> QED BY <2>2, <3>1, <3>2, <1>2, <1>4, <1>7, <1>12 DEF Inv, Alone
      <2> QED BY <2>1, <2>2
<1>14. Undisturbed'
      <2> SUFFICES ASSUME NEW r \in Reader, r \notin disturbed', reader[r].pc # "idle"
                   PROVE  /\ ~Writing(ReaderSlot(r))'
                          /\ reader[r].pc = "data" /\ ReaderSlot(r) \notin clashed' =>
                               \E u \in Text :
                                 /\ Hash[u] = reader[r].hash /\ Holds(ReaderSlot(r), u)'
                                 /\ \A i \in Component \ reader[r].todo : reader[r].out[i] = u
          BY <1>2, <1>7 DEF Undisturbed, ReaderSlot, Holds, Writing
      <2>1. r \notin disturbed /\ ReaderSlot(r) # p
            BY <1>2
      <2> QED BY <2>1, <1>1, <1>7, <1>12 DEF Inv, Undisturbed
<1> QED BY <1>3, <1>8, <1>9, <1>10, <1>11, <1>13, <1>14 DEF Inv

\* InsertData: one more component of a slot that is being written.
LEMMA InsertDataKeepsInv ==
    ASSUME Inv, NEW w \in Writer, NEW c \in Component, InsertData(w, c)
    PROVE  Inv'
<1> DEFINE p == WriterSlot(w)
           mine == writer[w].text
<1>1. /\ p \in Slot /\ mine \in Text /\ mine # Zero
      /\ \A v \in Writer : WriterSlot(v) \in Slot
      /\ \A r \in Reader : ReaderSlot(r) \in Slot
      <2>1. TypeOK
            BY DEF Inv
      <2>2. mine \in Text /\ mine # Zero
            BY <2>1, CacheAssumption DEF TypeOK
      <2> QED BY <2>1, <2>2, SlotsOfThreads
<1>2. /\ writer[w].pc = "data" /\ c \in writer[w].todo
      /\ data' = [data EXCEPT ![p][c] = mine]
      /\ writer' = [writer EXCEPT ![w].todo = @ \ {c}]
      /\ UNCHANGED <<keys, reader, result, stored, clashed, disturbed>>
      BY DEF InsertData
<1>3. /\ data'[p][c] = mine
      /\ \A s \in Slot, i \in Component : s # p \/ i # c => data'[s][i] = data[s][i]
      BY <1>1, <1>2 DEF Inv, TypeOK
<1>4. /\ \A v \in Writer : /\ writer'[v].pc = writer[v].pc /\ writer'[v].text = writer[v].text
                           /\ WriterSlot(v)' = WriterSlot(v)
      /\ writer'[w].todo = writer[w].todo \ {c}
      /\ \A v \in Writer \ {w} : writer'[v].todo = writer[v].todo
      BY <1>2 DEF Inv, TypeOK, WriterSlot
<1>5. mine \in TextsIn(p)
      <2>1. [key |-> Hash[mine], text |-> mine] \in stored[p]
            BY <1>2 DEF Inv, Writers
      <2> QED BY <2>1 DEF TextsIn
<1>6. /\ Writing(p)
      /\ \A s \in Slot : Writing(s)' <=> Writing(s)
      BY <1>2, <1>4 DEF Writing
<1>7. /\ \A r \in Reader : ReaderSlot(r)' = ReaderSlot(r)
      /\ \A s \in Slot : TextsIn(s)' = TextsIn(s)
      /\ \A s \in Slot \ {p}, u \in Text : Holds(s, u)' <=> Holds(s, u)
      BY <1>2, <1>3 DEF ReaderSlot, TextsIn, Holds
<1> HIDE DEF p, mine
<1>8. TypeOK'
      <2>1. data' \in [Slot -> [Component -> Text \cup {Zero}]]
            BY <1>1, <1>2 DEF Inv, TypeOK
      <2>2. writer' \in [Writer -> [pc : {"idle", "data"}, text : Text, todo : SUBSET Component]]
            BY <1>2 DEF Inv, TypeOK
      <2> QED BY <1>2, <2>1, <2>2 DEF Inv, TypeOK
<1>9. Storing'
      BY <1>2 DEF Inv, Storing
<1>10. \A s \in Slot, i \in Component : data[s][i] # Zero => data'[s][i] # Zero
       BY <1>1, <1>3
<1>11. Slots'
       <2>1. \A s \in Slot : Full(s) => Full(s)'
             BY <1>10 DEF Full
       <2>2. \A s \in Slot, i \in Component : data'[s][i] # Zero => data'[s][i] \in TextsIn(s)'
             BY <1>3, <1>5, <1>7 DEF Inv, Slots
       <2> QED BY <2>1, <2>2, <1>2 DEF Inv, Slots
<1>12. Writers'
       <2> SUFFICES ASSUME NEW v \in Writer, writer[v].pc = "data"
                    PROVE  \A i \in Component \ writer'[v].todo : data'[WriterSlot(v)][i] # Zero
           BY <1>2, <1>4 DEF Inv, Writers
       <2> SUFFICES ASSUME NEW i \in Component, i \notin writer'[v].todo
                    PROVE  data'[WriterSlot(v)][i] # Zero
           OBVIOUS
       <2>1. CASE v = w /\ i = c
             BY <2>1, <1>1, <1>3 DEF p
       <2>2. CASE ~(v = w /\ i = c)
             BY <2>2, <1>1, <1>4, <1>10 DEF Inv, Writers
       <2> QED BY <2>1, <2>2
<1>13. Readers'
       <2>1. \A s \in Slot : Full(s) => Full(s)'
             BY <1>10 DEF Full
       <2> QED BY <2>1, <1>1, <1>2, <1>7 DEF Inv, Readers
<1>14. Alone'
       <2> SUFFICES ASSUME NEW s \in Slot, s \notin clashed
                    PROVE  /\ \A u, v \in Writer :
                                /\ writer'[u].pc = "data" /\ WriterSlot(u)' = s
                                /\ writer'[v].pc = "data" /\ WriterSlot(v)' = s
                                => u = v
                           /\ \A v \in Writer : writer'[v].pc = "data" /\ WriterSlot(v)' = s =>
                                \A i \in Component \ writer'[v].todo :
                                    data'[s][i] = writer'[v].text
                           /\ ~Writing(s)' /\ keys'[s] # 0 =>
                                \E u \in Text : Hash[u] = keys'[s] /\ Holds(s, u)'
           BY <1>2 DEF Alone
       <2>1. \A u, v \in Writer :
                 /\ writer'[u].pc = "data" /\ WriterSlot(u)' = s
                 /\ writer'[v].pc = "data" /\ WriterSlot(v)' = s
                 => u = v
             BY <1>4 DEF Inv, Alone
       <2>2. ASSUME NEW v \in Writer, writer[v].pc = "data", WriterSlot(v) = s,
                    NEW i \in Component, i \notin writer'[v].todo
             PROVE  data'[s][i] = writer[v].text
             <3>1. CASE v = w /\ i = c
                   BY <3>1, <2>2, <1>3 DEF p, mine
             <3>2. CASE v = w /\ i # c
                   BY <3>2, <2>2, <1>3, <1>4 DEF Inv, Alone
             <3>3. CASE v # w
                   <4>1. s # p
                         BY <3>3, <2>2, <1>2 DEF Inv, Alone, p
                   <4> QED BY <3>3, <4>1, <2>2, <1>3, <1>4 DEF Inv, Alone
             <3> QED BY <3>1, <3>2, <3>3
       <2>3. ASSUME ~Writing(s)', keys'[s] # 0
             PROVE  \E u \in Text : Hash[u] = keys'[s] /\ Holds(s, u)'
             BY <2>3, <1>2, <1>6, <1>7 DEF Inv, Alone
       <2> QED BY <2>1, <2>2, <2>3, <1>4
<1>15. Undisturbed'
       <2> SUFFICES ASSUME NEW r \in Reader, r \notin disturbed, reader[r].pc # "idle"
                    PROVE  /\ ~Writing(ReaderSlot(r))'
                           /\ reader[r].pc = "data" /\ ReaderSlot(r) \notin clashed =>
                                \E u \in Text :
                                  /\ Hash[u] = reader[r].hash /\ Holds(ReaderSlot(r), u)'
                                  /\ \A i \in Component \ reader[r].todo : reader[r].out[i] = u
           BY <1>2, <1>7 DEF Undisturbed, ReaderSlot, Holds, Writing
       <2>1. ReaderSlot(r) # p
             BY <1>6 DEF Inv, Undisturbed
       <2> QED BY <2>1, <1>1, <1>6, <1>7 DEF Inv, Undisturbed
<1> QED BY <1>8, <1>9, <1>11, <1>12, <1>13, <1>14, <1>15 DEF Inv

\* InsertKey: the slot is whole, and says whose it is.
LEMMA InsertKeyKeepsInv ==
    ASSUME Inv, NEW w \in Writer, InsertKey(w)
    PROVE  Inv'
<1> DEFINE p == WriterSlot(w)
           mine == writer[w].text
<1>1. /\ p \in Slot /\ mine \in Text /\ Hash[mine] \in Nat
      /\ \A v \in Writer : WriterSlot(v) \in Slot
      /\ \A r \in Reader : ReaderSlot(r) \in Slot
      BY SlotsOfThreads, CacheAssumption DEF Inv, TypeOK
<1>2. /\ writer[w].pc = "data" /\ writer[w].todo = {}
      /\ keys' = [keys EXCEPT ![p] = Hash[mine]]
      /\ writer' = [writer EXCEPT ![w].pc = "idle"]
      /\ UNCHANGED <<data, reader, result, stored, clashed, disturbed>>
      BY DEF InsertKey
<1>3. /\ keys'[p] = Hash[mine]
      /\ \A s \in Slot \ {p} : keys'[s] = keys[s]
      BY <1>1, <1>2 DEF Inv, TypeOK
<1>4. /\ writer'[w].pc = "idle"
      /\ \A v \in Writer \ {w} : writer'[v].pc = writer[v].pc
      /\ \A v \in Writer : /\ writer'[v].text = writer[v].text /\ writer'[v].todo = writer[v].todo
                           /\ WriterSlot(v)' = WriterSlot(v)
      BY <1>2 DEF Inv, TypeOK, WriterSlot
<1>5. /\ Full(p)
      /\ \E e \in stored[p] : e.key = Hash[mine]
      BY <1>2 DEF Inv, Writers, Full
<1>6. p \notin clashed => Holds(p, mine)
      BY <1>1, <1>2 DEF Inv, Alone, Holds
<1>7. /\ Writing(p)
      /\ \A s \in Slot : Writing(s)' => Writing(s)
      /\ \A s \in Slot \ {p} : Writing(s)' <=> Writing(s)
      BY <1>2, <1>4 DEF Writing
<1>8. /\ \A r \in Reader : ReaderSlot(r)' = ReaderSlot(r)
      /\ \A s \in Slot : TextsIn(s)' = TextsIn(s) /\ (Full(s)' <=> Full(s))
      /\ \A s \in Slot, u \in Text : Holds(s, u)' <=> Holds(s, u)
      BY <1>2 DEF ReaderSlot, TextsIn, Full, Holds
<1> HIDE DEF p, mine
<1>9. TypeOK'
      <2>1. keys' \in [Slot -> Nat]
            BY <1>1, <1>2 DEF Inv, TypeOK
      <2>2. writer' \in [Writer -> [pc : {"idle", "data"}, text : Text, todo : SUBSET Component]]
            <3>1. writer' = [writer EXCEPT ![w] = [pc |-> "idle", text |-> mine, todo |-> {}]]
                  <4>1. writer[w] = [pc |-> "data", text |-> mine, todo |-> {}]
                        BY <1>2 DEF Inv, TypeOK, mine
                  <4>2. [writer[w] EXCEPT !.pc = "idle"] = [pc |-> "idle", text |-> mine,
                                                            todo |-> {}]
                        BY <4>1
                  <4> QED BY <4>2, <1>2
            <3> QED BY <3>1, <1>1 DEF Inv, TypeOK
      <2> QED BY <1>2, <2>1, <2>2 DEF Inv, TypeOK
<1>10. Storing'
       BY <1>2 DEF Inv, Storing
<1>11. Slots'
       BY <1>2, <1>3, <1>5, <1>8 DEF Inv, Slots
<1>12. Writers'
       BY <1>2, <1>4 DEF Inv, Writers
<1>13. Readers'
       BY <1>1, <1>2, <1>8 DEF Inv, Readers
<1>14. Alone'
       <2> SUFFICES ASSUME NEW s \in Slot, s \notin clashed
                    PROVE  /\ \A u, v \in Writer :
                                /\ writer'[u].pc = "data" /\ WriterSlot(u)' = s
                                /\ writer'[v].pc = "data" /\ WriterSlot(v)' = s
                                => u = v
                           /\ \A v \in Writer : writer'[v].pc = "data" /\ WriterSlot(v)' = s =>
                                \A i \in Component \ writer'[v].todo :
                                    data'[s][i] = writer'[v].text
                           /\ ~Writing(s)' /\ keys'[s] # 0 =>
                                \E u \in Text : Hash[u] = keys'[s] /\ Holds(s, u)'
           BY <1>2 DEF Alone
       <2>1. ASSUME ~Writing(s)', keys'[s] # 0
             PROVE  \E u \in Text : Hash[u] = keys'[s] /\ Holds(s, u)'
             <3>1. CASE s = p
                   BY <3>1, <1>1, <1>3, <1>6, <1>8
             <3>2. CASE s # p
                   BY <3>2, <2>1, <1>3, <1>7, <1>8 DEF Inv, Alone
             <3> QED BY <3>1, <3>2
       <2>2. \A v \in Writer : writer'[v].pc = "data" => writer[v].pc = "data"
             BY <1>4
       <2>3. \A u, v \in Writer :
                 /\ writer'[u].pc = "data" /\ WriterSlot(u)' = s
                 /\ writer'[v].pc = "data" /\ WriterSlot(v)' = s
                 => u = v
             BY <2>2, <1>4 DEF Inv, Alone
       <2>4. \A v \in Writer : writer'[v].pc = "data" /\ WriterSlot(v)' = s =>
                 \A i \in Component \ writer'[v].todo : data'[s][i] = writer'[v].text
             BY <2>2, <1>2, <1>4 DEF Inv, Alone
       <2> QED BY <2>1, <2>3, <2>4
<1>15. Undisturbed'
       <2> SUFFICES ASSUME NEW r \in Reader, r \notin disturbed, reader[r].pc # "idle"
                    PROVE  /\ ~Writing(ReaderSlot(r))'
                           /\ reader[r].pc = "data" /\ ReaderSlot(r) \notin clashed =>
                                \E u \in Text :
                                  /\ Hash[u] = reader[r].hash /\ Holds(ReaderSlot(r), u)'
                                  /\ \A i \in Component \ reader[r].todo : reader[r].out[i] = u
           BY <1>2, <1>8 DEF Undisturbed, ReaderSlot, Holds, Writing
       <2> QED BY <1>1, <1>7, <1>8 DEF Inv, Undisturbed
<1> QED BY <1>9, <1>10, <1>11, <1>12, <1>13, <1>14, <1>15 DEF Inv

\* What the actions of reader r have in common: the others are left alone.
LEMMA OneReader ==
    ASSUME Inv, NEW r \in Reader, NEW rec \in [pc : {"idle", "key", "data"}, hash : Nat,
                                               todo : SUBSET Component,
                                               out : [Component -> Text \cup {Zero}]],
           reader' = [reader EXCEPT ![r] = rec],
           UNCHANGED <<keys, data, writer, stored, clashed>>,
           NEW D \in SUBSET Reader, disturbed' = D, D \ {r} = disturbed \ {r},
           result' = result \/ \E res \in {Miss} \cup
                                  [hit : {TRUE}, hash : Nat,
                                   vec : [Component -> Text \cup {Zero}]] :
                                 result' = [result EXCEPT ![r] = res],
           \* What holds of every reader holds of r.
           rec.pc # "idle" => \E t \in Text : rec.hash = Hash[t],
           rec.pc = "data" =>
             /\ rec.hash # 0 /\ Full(SlotOf(rec.hash))
             /\ \E e \in stored[SlotOf(rec.hash)] : e.key = rec.hash
             /\ \A i \in Component \ rec.todo : rec.out[i] \in TextsIn(SlotOf(rec.hash)),
           rec.pc # "idle" /\ r \notin D =>
             /\ ~Writing(SlotOf(rec.hash))
             /\ rec.pc = "data" /\ SlotOf(rec.hash) \notin clashed =>
                  \E t \in Text : /\ Hash[t] = rec.hash /\ Holds(SlotOf(rec.hash), t)
                                  /\ \A i \in Component \ rec.todo : rec.out[i] = t
    PROVE  Inv'
<1>1. /\ reader'[r] = rec
      /\ \A q \in Reader \ {r} : reader'[q] = reader[q]
      BY DEF Inv, TypeOK
<1>2. TypeOK'
      <2>1. reader' \in [Reader -> [pc : {"idle", "key", "data"}, hash : Nat,
                                    todo : SUBSET Component,
                                    out : [Component -> Text \cup {Zero}]]]
            BY DEF Inv, TypeOK
      <2>2. result' \in [Reader -> {Miss} \cup
                           [hit : {TRUE}, hash : Nat, vec : [Component -> Text \cup {Zero}]]]
            <3> DEFINE R == {Miss} \cup
                              [hit : {TRUE}, hash : Nat, vec : [Component -> Text \cup {Zero}]]
            <3>1. result \in [Reader -> R]
                  BY DEF Inv, TypeOK
            <3> HIDE DEF R
            <3>2. result' = result \/ \E res \in R : result' = [result EXCEPT ![r] = res]
                  BY DEF R
            <3>3. result' \in [Reader -> R]
                  BY <3>1, <3>2
            <3> QED BY <3>3 DEF R
      <2> QED BY <2>1, <2>2 DEF Inv, TypeOK
<1>3. /\ \A s \in Nat : (Writing(s)' <=> Writing(s)) /\ (Full(s)' <=> Full(s))
                        /\ TextsIn(s)' = TextsIn(s)
      /\ \A s \in Nat, u \in Text : Holds(s, u)' <=> Holds(s, u)
      BY DEF Writing, WriterSlot, Full, TextsIn, Holds
<1>4. /\ ReaderSlot(r)' = SlotOf(rec.hash)
      /\ \A q \in Reader \ {r} : ReaderSlot(q)' = ReaderSlot(q)
      BY <1>1 DEF ReaderSlot
<1>5. /\ SlotOf(rec.hash) \in Nat
      /\ \A q \in Reader : ReaderSlot(q) \in Nat
      BY SlotsOfThreads, SlotIsASlot DEF Inv, Slot
<1>6. Readers'
      <2> SUFFICES ASSUME NEW q \in Reader
                   PROVE  /\ reader'[q].pc # "idle" => \E t \in Text : reader'[q].hash = Hash[t]
                          /\ reader'[q].pc = "data" =>
                               /\ reader'[q].hash # 0 /\ Full(ReaderSlot(q))'
                               /\ \E e \in stored'[ReaderSlot(q)'] : e.key = reader'[q].hash
                               /\ \A i \in Component \ reader'[q].todo :
                                      reader'[q].out[i] \in TextsIn(ReaderSlot(q))'
          BY DEF Readers
      <2>1. CASE q = r
            BY <2>1, <1>1, <1>3, <1>4, <1>5 DEF Full, TextsIn
      <2>2. CASE q # r
            BY <2>2, <1>1, <1>3, <1>4, <1>5 DEF Inv, Readers, Full, TextsIn
      <2> QED BY <2>1, <2>2
<1>7. Undisturbed'
      <2> SUFFICES ASSUME NEW q \in Reader, q \notin D, reader'[q].pc # "idle"
                   PROVE  /\ ~Writing(ReaderSlot(q))'
                          /\ reader'[q].pc = "data" /\ ReaderSlot(q)' \notin clashed =>
                               \E t \in Text :
                                 /\ Hash[t] = reader'[q].hash /\ Holds(ReaderSlot(q), t)'
                                 /\ \A i \in Component \ reader'[q].todo :
                                        reader'[q].out[i] = t
          BY DEF Undisturbed
      <2>1. CASE q = r
            BY <2>1, <1>1, <1>3, <1>4, <1>5 DEF Writing, WriterSlot, Holds
      <2>2. CASE q # r
            <3>1. q \notin disturbed
                  BY <2>2
            <3> QED BY <2>2, <3>1, <1>1, <1>3, <1>4, <1>5
                    DEF Inv, Undisturbed, Writing, WriterSlot, Holds
      <2> QED BY <2>1, <2>2
<1> QED BY ReadersOnly, <1>2, <1>6, <1>7 DEF Inv

\* A reader is a record of four fields.
LEMMA ReaderFields ==
    ASSUME TypeOK, NEW r \in Reader
    PROVE  reader[r] = [pc |-> reader[r].pc, hash |-> reader[r].hash, todo |-> reader[r].todo,
                        out |-> reader[r].out]
<1>1. reader[r] \in [pc : {"idle", "key", "data"}, hash : Nat, todo : SUBSET Component,
                     out : [Component -> Text \cup {Zero}]]
      BY DEF TypeOK
<1> QED BY <1>1

\* GetBegin: from here on, the slot is watched for insertions.
LEMMA GetBeginKeepsInv ==
    ASSUME Inv, NEW r \in Reader, NEW t \in Text, GetBegin(r, t)
    PROVE  Inv'
<1> DEFINE rec == [pc |-> "key", hash |-> Hash[t], todo |-> {}, out |-> [i \in Component |-> Zero]]
           D == IF Writing(SlotOf(Hash[t])) THEN disturbed \cup {r} ELSE disturbed \ {r}
<1>1. rec \in [pc : {"idle", "key", "data"}, hash : Nat, todo : SUBSET Component,
               out : [Component -> Text \cup {Zero}]]
      BY CacheAssumption
<1>2. /\ reader' = [reader EXCEPT ![r] = rec]
      /\ UNCHANGED <<keys, data, writer, stored, clashed>>
      /\ disturbed' = D /\ result' = result
      <2>1. [Idle EXCEPT !.pc = "key", !.hash = Hash[t]] = rec
            <3>1. PICK o, x : o = [i \in Component |-> Zero] /\ x = Idle
                  OBVIOUS
            <3>2. x = [pc |-> "idle", hash |-> 0, todo |-> {}, out |-> o]
                  BY <3>1 DEF Idle
            <3>3. PICK a : a = [x EXCEPT !.pc = "key", !.hash = Hash[t]]
                  OBVIOUS
            <3>4. a = [pc |-> "key", hash |-> Hash[t], todo |-> {}, out |-> o]
                  BY <3>2, <3>3
            <3> QED BY <3>1, <3>3, <3>4
      <2> HIDE DEF rec
      <2> QED BY <2>1 DEF GetBegin
<1>3. D \in SUBSET Reader /\ D \ {r} = disturbed \ {r}
      BY DEF Inv, TypeOK
<1>4. /\ rec.pc = "key" /\ rec.hash = Hash[t]
      /\ r \notin D => ~Writing(SlotOf(rec.hash))
      OBVIOUS
<1> HIDE DEF rec, D
<1> QED BY <1>1, <1>2, <1>3, <1>4, OneReader

\* GetKey: a hit is for the key of the slot.
LEMMA GetKeyKeepsInv ==
    ASSUME Inv, NEW r \in Reader, GetKey(r)
    PROVE  Inv'
<1> DEFINE h == reader[r].hash
           hit == keys[SlotOf(h)] = h /\ h # 0
<1>1. /\ reader[r].pc = "key" /\ h \in Nat /\ reader[r].out \in [Component -> Text \cup {Zero}]
      /\ \E t \in Text : h = Hash[t]
      /\ SlotOf(h) \in Slot
      BY SlotsOfThreads DEF Inv, TypeOK, Readers, GetKey, ReaderSlot
<1>2. /\ UNCHANGED <<keys, data, writer, stored, clashed, disturbed>>
      /\ disturbed \in SUBSET Reader
      BY DEF GetKey, Inv, TypeOK
<1>3. CASE hit
      <2> DEFINE rec == [pc |-> "data", hash |-> h, todo |-> Component, out |-> reader[r].out]
      <2>1. rec \in [pc : {"idle", "key", "data"}, hash : Nat, todo : SUBSET Component,
                     out : [Component -> Text \cup {Zero}]]
            BY <1>1
      <2>2. reader' = [reader EXCEPT ![r] = rec] /\ result' = result
            <3>1. reader' = [reader EXCEPT ![r].pc = "data", ![r].todo = Component]
                  BY <1>3 DEF GetKey
            <3>2. [reader[r] EXCEPT !.pc = "data", !.todo = Component] = rec
                  <4>1. PICK x, p, n, k, o : /\ x = reader[r] /\ p = reader[r].pc /\ n = h
                                             /\ k = reader[r].todo /\ o = reader[r].out
                        OBVIOUS
                  <4>2. x = [pc |-> p, hash |-> n, todo |-> k, out |-> o]
                        BY <4>1, ReaderFields DEF Inv
                  <4>3. PICK a : a = [x EXCEPT !.pc = "data", !.todo = Component]
                        OBVIOUS
                  <4>4. a = [pc |-> "data", hash |-> n, todo |-> Component, out |-> o]
                        BY <4>2, <4>3
                  <4> QED BY <4>1, <4>3, <4>4
            <3>3. reader' = [reader EXCEPT ![r] = rec]
                  <4> HIDE DEF rec
                  <4> QED BY <3>1, <3>2
            <3> QED BY <1>3, <3>3 DEF GetKey
      <2>3. /\ rec.pc = "data" /\ rec.hash = h /\ rec.todo = Component
            /\ h # 0 /\ Full(SlotOf(h)) /\ \E e \in stored[SlotOf(h)] : e.key = h
            BY <1>1, <1>3 DEF Inv, Slots
      <2>4. r \notin disturbed =>
               /\ ~Writing(SlotOf(h))
               /\ SlotOf(h) \notin clashed =>
                      \E t \in Text : Hash[t] = h /\ Holds(SlotOf(h), t)
            BY <1>1, <1>3 DEF Inv, Undisturbed, Alone, ReaderSlot
      <2> HIDE DEF rec, h
      <2> QED BY <1>1, <1>2, <2>1, <2>2, <2>3, <2>4, OneReader
<1>4. CASE ~hit
      <2>1. Idle \in [pc : {"idle", "key", "data"}, hash : Nat, todo : SUBSET Component,
                      out : [Component -> Text \cup {Zero}]]
            BY DEF Idle
      <2>2. reader' = [reader EXCEPT ![r] = Idle] /\ result' = [result EXCEPT ![r] = Miss]
            BY <1>4 DEF GetKey
      <2>3. Idle.pc = "idle"
            BY DEF Idle
      <2> QED BY <1>2, <2>1, <2>2, <2>3, OneReader
<1> QED BY <1>3, <1>4

\* GetData: what is loaded has been stored, and in one piece if undisturbed.
LEMMA GetDataKeepsInv ==
    ASSUME Inv, NEW r \in Reader, NEW c \in Component, GetData(r, c)
    PROVE  Inv'
<1> DEFINE h == reader[r].hash
           d == data[ReaderSlot(r)][c]
           rec == [pc |-> "data", hash |-> h, todo |-> reader[r].todo \ {c},
                   out |-> [reader[r].out EXCEPT ![c] = d]]
<1>1. /\ reader[r].pc = "data" /\ h \in Nat /\ reader[r].todo \subseteq Component
      /\ reader[r].out \in [Component -> Text \cup {Zero}]
      /\ ReaderSlot(r) = SlotOf(h) /\ SlotOf(h) \in Slot
      /\ d \in Text \cup {Zero}
      <2>1. TypeOK
            BY DEF Inv
      <2>2. SlotOf(h) \in Slot
            BY <2>1, SlotsOfThreads DEF ReaderSlot
      <2> QED BY <2>1, <2>2 DEF TypeOK, GetData, ReaderSlot
<1>2. /\ UNCHANGED <<keys, data, writer, stored, clashed, disturbed, result>>
      /\ disturbed \in SUBSET Reader
      BY DEF GetData, Inv, TypeOK
<1>3. /\ h # 0 /\ Full(SlotOf(h)) /\ \E e \in stored[SlotOf(h)] : e.key = h
      /\ \E t \in Text : h = Hash[t]
      /\ d \in TextsIn(SlotOf(h))
      /\ \A i \in Component \ reader[r].todo : reader[r].out[i] \in TextsIn(SlotOf(h))
      BY <1>1 DEF Inv, Readers, Slots, Full
<1>4. rec \in [pc : {"idle", "key", "data"}, hash : Nat, todo : SUBSET Component,
               out : [Component -> Text \cup {Zero}]]
      <2> HIDE DEF d
      <2> QED BY <1>1
<1>5. reader' = [reader EXCEPT ![r] = rec]
      <2>1. PICK o, k : o = reader[r].out /\ k = reader[r].todo
            OBVIOUS
      <2>2. reader[r] = [pc |-> "data", hash |-> h, todo |-> k, out |-> o]
            BY <1>1, <2>1, ReaderFields DEF Inv
      <2>3. [reader[r] EXCEPT !.todo = k \ {c}, !.out = [o EXCEPT ![c] = d]] = rec
            <3>1. PICK x : x = reader[r]
                  OBVIOUS
            <3>2. PICK f, l, n : f = [o EXCEPT ![c] = d] /\ l = k \ {c} /\ n = h
                  OBVIOUS
            <3>3. PICK a : a = [x EXCEPT !.todo = l, !.out = f]
                  OBVIOUS
            <3>4. x = [pc |-> "data", hash |-> n, todo |-> k, out |-> o]
                  BY <2>2, <3>1, <3>2
            <3>5. a = [pc |-> "data", hash |-> n, todo |-> l, out |-> f]
                  BY <3>3, <3>4
            <3> QED BY <2>1, <3>1, <3>2, <3>3, <3>5
      <2>4. reader' = [reader EXCEPT ![r] = [reader[r] EXCEPT !.todo = k \ {c},
                                                             !.out = [o EXCEPT ![c] = d]]]
            BY <2>1 DEF GetData
      <2> QED BY <2>3, <2>4
<1>6. /\ rec.pc = "data" /\ rec.hash = h /\ rec.todo = reader[r].todo \ {c}
      /\ rec.out[c] = d
      /\ \A i \in Component \ {c} : rec.out[i] = reader[r].out[i]
      <2> HIDE DEF d, h
      <2> QED BY <1>1
<1> HIDE DEF rec
<1>7. \A i \in Component \ rec.todo : rec.out[i] \in TextsIn(SlotOf(h))
      BY <1>3, <1>6
<1>8. r \notin disturbed =>
         /\ ~Writing(SlotOf(h))
         /\ SlotOf(h) \notin clashed =>
               \E t \in Text : /\ Hash[t] = h /\ Holds(SlotOf(h), t)
                               /\ \A i \in Component \ rec.todo : rec.out[i] = t
      <2> SUFFICES ASSUME r \notin disturbed
                   PROVE  /\ ~Writing(SlotOf(h))
                          /\ SlotOf(h) \notin clashed =>
                                \E t \in Text :
                                    /\ Hash[t] = h /\ Holds(SlotOf(h), t)
                                    /\ \A i \in Component \ rec.todo : rec.out[i] = t
          OBVIOUS
      <2>1. ~Writing(SlotOf(h))
            BY <1>1 DEF Inv, Undisturbed
      <2>2. ASSUME SlotOf(h) \notin clashed
            PROVE  \E t \in Text : /\ Hash[t] = h /\ Holds(SlotOf(h), t)
                                   /\ \A i \in Component \ rec.todo : rec.out[i] = t
            <3>1. PICK t \in Text : /\ Hash[t] = h /\ Holds(SlotOf(h), t)
                                    /\ \A i \in Component \ reader[r].todo : reader[r].out[i] = t
                  BY <2>2, <1>1 DEF Inv, Undisturbed
            <3>2. d = t
                  BY <3>1, <1>1 DEF Holds
            <3> QED BY <3>1, <3>2, <1>6
      <2> QED BY <2>1, <2>2
<1> HIDE DEF h, d
<1> QED BY <1>2, <1>3, <1>4, <1>5, <1>6, <1>7, <1>8, OneReader

LEMMA GetEndKeepsInv ==
    ASSUME Inv, NEW r \in Reader, GetEnd(r)
    PROVE  Inv'
<1> DEFINE res == [hit |-> TRUE, hash |-> reader[r].hash, vec |-> reader[r].out]
<1>1. /\ UNCHANGED <<keys, data, writer, stored, clashed, disturbed>>
      /\ disturbed \in SUBSET Reader
      /\ res \in [hit : {TRUE}, hash : Nat, vec : [Component -> Text \cup {Zero}]]
      BY DEF GetEnd, Inv, TypeOK
<1>2. Idle \in [pc : {"idle", "key", "data"}, hash : Nat, todo : SUBSET Component,
                out : [Component -> Text \cup {Zero}]]
      BY DEF Idle
<1>3. reader' = [reader EXCEPT ![r] = Idle] /\ result' = [result EXCEPT ![r] = res]
      BY DEF GetEnd
<1>4. Idle.pc = "idle"
      BY DEF Idle
<1> HIDE DEF res
<1> QED BY <1>1, <1>2, <1>3, <1>4, OneReader

LEMMA NextInv == Inv /\ [Next]_vars => Inv'
<1> SUFFICES ASSUME Inv, [Next]_vars PROVE Inv'
    OBVIOUS
<1>1. CASE \E w \in Writer : \E t \in Text : InsertBegin(w, t)
      BY <1>1, InsertBeginKeepsInv
<1>2. CASE \E w \in Writer : \E i \in Component : InsertData(w, i)
      BY <1>2, InsertDataKeepsInv
<1>3. CASE \E w \in Writer : InsertKey(w)
      BY <1>3, InsertKeyKeepsInv
<1>4. CASE \E r \in Reader : \E t \in Text : GetBegin(r, t)
      BY <1>4, GetBeginKeepsInv
<1>5. CASE \E r \in Reader : GetKey(r)
      BY <1>5, GetKeyKeepsInv
<1>6. CASE \E r \in Reader : \E i \in Component : GetData(r, i)
      BY <1>6, GetDataKeepsInv
<1>7. CASE \E r \in Reader : GetEnd(r)
      BY <1>7, GetEndKeepsInv
<1>8. CASE UNCHANGED vars
      <2>1. TypeOK'
            BY <1>8 DEF Inv, TypeOK, vars, codeVars
      <2>2. Storing' /\ Slots' /\ Writers' /\ Alone'
            BY <1>8, ReadersOnly DEF vars, codeVars
      <2>3. Readers' /\ Undisturbed'
            BY <1>8 DEF Inv, Readers, Undisturbed, vars, codeVars, ReaderSlot, Full, TextsIn,
                        Holds, Writing, WriterSlot
      <2> QED BY <2>1, <2>2, <2>3 DEF Inv
<1> QED BY <1>1, <1>2, <1>3, <1>4, <1>5, <1>6, <1>7, <1>8 DEF Next

\* The inductive invariant: what slots, writers and readers have stored and
\* loaded when neither `insert` nor `get` takes a lock.
THEOREM Invariant == Spec => []Inv
BY InitInv, NextInv, PTL DEF Spec

\* Every variable of the cache keeps its type, however its threads interleave.
THEOREM TypeCorrect == Spec => []TypeOK
<1>1. Inv => TypeOK
      BY DEF Inv
<1> QED BY <1>1, Invariant, PTL

\* A `get` that no `insert` into its slot overlaps, in a slot where no two
\* insertions ever have, copies exactly the vector of a text with its hash.
THEOREM UndisturbedIsExact == Spec => []UndisturbedHitIsExact
<1>1. Inv => UndisturbedHitIsExact
      <2> SUFFICES ASSUME Inv, NEW r \in Reader,
                          reader[r].pc = "data", reader[r].todo = {},
                          r \notin disturbed, ReaderSlot(r) \notin clashed
                   PROVE  \E t \in Text : /\ Hash[t] = reader[r].hash
                                          /\ \A i \in Component : reader[r].out[i] = t
          BY DEF UndisturbedHitIsExact
      <2> QED BY DEF Inv, Undisturbed
<1> QED BY <1>1, Invariant, PTL

LEMMA InitImplements == Init => Lossy!Init
BY DEF Init, Lossy!Init, Slot, Lossy!Slot, Miss, Lossy!Miss

\* Every step stores an entry, answers a look-up, or does nothing one can see.
LEMMA StepImplements == Inv /\ [Next]_vars => [Lossy!Next]_(Lossy!cacheVars)
<1> SUFFICES ASSUME Inv, [Next]_vars PROVE Lossy!Next \/ UNCHANGED Lossy!cacheVars
    OBVIOUS
<1> USE DEF Lossy!SlotOf, SlotOf, Lossy!Miss, Miss
<1>1. CASE \E w \in Writer : \E t \in Text : InsertBegin(w, t)
      BY <1>1 DEF InsertBegin, Lossy!Next, Lossy!Insert
<1>2. CASE \E w \in Writer : \E i \in Component : InsertData(w, i)
      BY <1>2 DEF InsertData, Lossy!cacheVars
<1>3. CASE \E w \in Writer : InsertKey(w)
      BY <1>3 DEF InsertKey, Lossy!cacheVars
<1>4. CASE \E r \in Reader : \E t \in Text : GetBegin(r, t)
      BY <1>4 DEF GetBegin, Lossy!cacheVars
<1>5. ASSUME NEW r \in Reader, GetKey(r)
      PROVE  Lossy!Next \/ UNCHANGED Lossy!cacheVars
      <2>1. CASE keys[SlotOf(reader[r].hash)] = reader[r].hash /\ reader[r].hash # 0
            BY <1>5, <2>1 DEF GetKey, Lossy!cacheVars
      <2>2. CASE ~(keys[SlotOf(reader[r].hash)] = reader[r].hash /\ reader[r].hash # 0)
            <3>1. result' = [result EXCEPT ![r] = Miss] /\ stored' = stored
                  BY <1>5, <2>2 DEF GetKey
            <3>2. \A h : Lossy!Get(r, h)
                  BY <3>1 DEF Lossy!Get
            <3> QED BY <3>2, CacheAssumption DEF Lossy!Next
      <2> QED BY <2>1, <2>2
<1>6. CASE \E r \in Reader : \E i \in Component : GetData(r, i)
      BY <1>6 DEF GetData, Lossy!cacheVars
<1>7. ASSUME NEW r \in Reader, GetEnd(r)
      PROVE  Lossy!Next
      <2> DEFINE h == reader[r].hash
                 v == reader[r].out
                 x == [hit |-> TRUE, hash |-> h, vec |-> v]
      <2>1. /\ reader[r].pc = "data" /\ reader[r].todo = {}
            /\ result' = [result EXCEPT ![r] = x] /\ stored' = stored
            /\ v \in [Component -> Text \cup {Zero}]
            BY <1>7 DEF GetEnd, Inv, TypeOK
      <2>2. /\ \E t \in Text : h = Hash[t]
            /\ h # 0 /\ \E e \in stored[SlotOf(h)] : e.key = h
            /\ \A i \in Component : v[i] \in TextsIn(SlotOf(h))
            BY <2>1 DEF Inv, Readers, ReaderSlot
      <2> HIDE DEF h, v
      <2>3. v \in [1..Dim -> {e.text : e \in stored[h % Capacity]}]
            BY <2>1, <2>2 DEF TextsIn, Component
      <2>4. x \in Lossy!HitResults(h)
            BY <2>2, <2>3 DEF Lossy!HitResults
      <2>5. Lossy!Get(r, h)
            <3> HIDE DEF x
            <3> QED BY <2>1, <2>4 DEF Lossy!Get
      <2> QED BY <2>2, <2>5 DEF Lossy!Next
<1>8. CASE UNCHANGED vars
      BY <1>8 DEF vars, codeVars, Lossy!cacheVars
<1> QED BY <1>1, <1>2, <1>3, <1>4, <1>5, <1>6, <1>7, <1>8 DEF Next

\* The lock-free cache does what EmbedFront assumes of it: whatever the
\* interleaving of `get` and `insert`, a hit returns components stored in its
\* slot, never one of the zeroes of the start, under a hash once stored there.
THEOREM CacheIsLossyCache == Spec => ImplementsLossyCache
BY Invariant, InitImplements, StepImplements, PTL DEF Spec, ImplementsLossyCache, Lossy!Spec
=============================================================================
