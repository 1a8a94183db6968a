-------------------------- MODULE MessagingProofs --------------------------
(***************************************************************************)
(* Proofs about Messaging.tla, for any number of messages, senders,        *)
(* requesters and prekeys: a one-time prekey is handed out once, with      *)
(* crashes and repeated uploads; and a key has one message unless requests *)
(* raced or its answer was not recorded, and a message is relayed once.    *)
(***************************************************************************)
EXTENDS Messaging, FiniteSetTheorems, TLAPS

\* What the proof needs to know of the types.
Request == [pc : {"idle", "lookup", "create", "record", "relay", "select", "update"},
            text : Text \cup {None}, via : Via, id : Nat]
KeysTypeOK == /\ given \in Seq(Nat)
              /\ prekeys \subseteq KeyId
              /\ consumed \subseteq KeyId
              /\ messages \in SUBSET [id : Nat, text : Text \cup {None}, via : Via]
              /\ IsFiniteSet(messages)
              /\ req \in [Procs -> Request]

\* A statement between its sub-select and its UPDATE holds the row it locked: the
\* prekey is not consumed yet, and no other statement holds it.
HeldPrekeys ==
    \A p \in Procs : At(p, "update") =>
      /\ req[p].id \in KeyId \ consumed
      /\ \A q \in Procs : At(q, "update") /\ req[q].id = req[p].id => q = p

\* What was handed out is consumed.
GivenAreConsumed == \A i \in DOMAIN given : given[i] # 0 => given[i] \in consumed

KeysInv == KeysTypeOK /\ HeldPrekeys /\ GivenAreConsumed /\ PrekeyGivenOnce

-----------------------------------------------------------------------------
(* One lemma per part of the system *)

\* The chat steps and the revocation of a device leave the prekeys alone and hold
\* none of them.
ChatStep == \/ CreateConversation
            \/ \E p \in Procs : \/ \E t \in Text, via \in Via, from, to \in Device :
                                     BeginSend(p, t, via, from, to)
                                \/ Lookup(p)
                                \/ Create(p)
                                \/ SaveRecord(p)
                                \/ RecordFails(p)
                                \/ Relay(p)
            \/ \E d \in Device : RevokeDevice(d)

\* The slot of an idle request is well typed.
LEMMA IdleType == Idle \in Request
BY DEF Idle, Request, Via

\* The number of the next message is a natural number.
LEMMA NextIdType == KeysTypeOK => NextId \in Nat
BY FS_CardinalityType DEF KeysTypeOK, NextId

\* A request that goes to a place other than "update" holds no prekey there, so
\* what the others hold stays as it was.
LEMMA GotoElsewhere ==
    ASSUME KeysInv, NEW p \in Procs, NEW r \in Request, r.pc # "update", Goto(p, r),
           UNCHANGED keys, IsFiniteSet(messages'),
           messages' \in SUBSET [id : Nat, text : Text \cup {None}, via : Via]
    PROVE  KeysInv'
<1>1. \A q \in Procs : q # p => req'[q] = req[q]
  BY DEF KeysInv, KeysTypeOK, Goto
<1>2. req'[p] = r /\ req' \in [Procs -> Request]
  BY DEF KeysInv, KeysTypeOK, Goto
<1>3. given' = given /\ prekeys' = prekeys /\ consumed' = consumed
  BY DEF keys
<1>4. KeysTypeOK'
  BY <1>2, <1>3 DEF KeysInv, KeysTypeOK
<1>5. HeldPrekeys'
  BY <1>1, <1>2, <1>3 DEF KeysInv, HeldPrekeys, At
<1>6. GivenAreConsumed' /\ PrekeyGivenOnce'
  BY <1>3 DEF KeysInv, GivenAreConsumed, PrekeyGivenOnce
<1> QED BY <1>4, <1>5, <1>6 DEF KeysInv

\* Sending messages and revoking devices keep the invariant.
LEMMA ChatKeeps == KeysInv /\ ChatStep => KeysInv'
<1> SUFFICES ASSUME KeysInv, ChatStep PROVE KeysInv'
  OBVIOUS
<1> USE DEF chat, keys
<1>1. CASE CreateConversation \/ \E d \in Device : RevokeDevice(d)
  <2>1. UNCHANGED <<given, prekeys, consumed, messages, req>>
    BY <1>1 DEF CreateConversation, RevokeDevice
  <2> QED BY <2>1 DEF KeysInv, KeysTypeOK, HeldPrekeys, GivenAreConsumed, PrekeyGivenOnce, At
<1>2. ASSUME NEW p \in Procs, NEW t \in Text, NEW via \in Via, NEW from \in Device,
             NEW to \in Device, BeginSend(p, t, via, from, to)
      PROVE  KeysInv'
  <2>1. [Idle EXCEPT !.pc = "lookup", !.text = t, !.via = via] \in Request
    BY DEF Idle, Request
  <2>2. [Idle EXCEPT !.pc = "lookup", !.text = t, !.via = via].pc # "update"
    BY DEF Idle
  <2> QED BY <1>2, <2>1, <2>2, GotoElsewhere DEF BeginSend, KeysInv, KeysTypeOK
<1>3. ASSUME NEW p \in Procs, Lookup(p) PROVE KeysInv'
  <2>1. [req[p] EXCEPT !.pc = "create"] \in Request /\ [req[p] EXCEPT !.pc = "create"].pc # "update"
    BY DEF KeysInv, KeysTypeOK, Request
  <2>2. Idle \in Request /\ Idle.pc # "update"
    BY IdleType DEF Idle
  <2> QED BY <1>3, <2>1, <2>2, GotoElsewhere DEF Lookup, Finish, KeysInv, KeysTypeOK
<1>4. ASSUME NEW p \in Procs, Create(p) PROVE KeysInv'
  <2> DEFINE m == [id |-> NextId, text |-> req[p].text, via |-> req[p].via]
             r == [req[p] EXCEPT !.id = NextId, !.pc = IF Keyed(p) THEN "record" ELSE "relay"]
  <2>1. NextId \in Nat /\ req[p] \in Request
    BY NextIdType DEF KeysInv, KeysTypeOK
  <2>2. r \in Request /\ r.pc # "update"
    BY <2>1 DEF Request
  <2>3. m \in [id : Nat, text : Text \cup {None}, via : Via]
    BY <2>1 DEF Request
  <2>4. messages' = messages \cup {m} /\ Goto(p, r) /\ UNCHANGED keys
    BY <1>4 DEF Create
  <2> HIDE DEF m, r
  <2>5. IsFiniteSet(messages')
    BY <2>4, FS_AddElement DEF KeysInv, KeysTypeOK
  <2>6. messages' \in SUBSET [id : Nat, text : Text \cup {None}, via : Via]
    BY <2>3, <2>4 DEF KeysInv, KeysTypeOK
  <2> QED BY <2>2, <2>4, <2>5, <2>6, GotoElsewhere
<1>5. ASSUME NEW p \in Procs, SaveRecord(p) \/ RecordFails(p) PROVE KeysInv'
  <2>1. [req[p] EXCEPT !.pc = "relay"] \in Request /\ [req[p] EXCEPT !.pc = "relay"].pc # "update"
    BY DEF KeysInv, KeysTypeOK, Request
  <2> QED BY <1>5, <2>1, GotoElsewhere DEF SaveRecord, RecordFails, KeysInv, KeysTypeOK
<1>6. ASSUME NEW p \in Procs, Relay(p) PROVE KeysInv'
  <2>1. Idle \in Request /\ Idle.pc # "update"
    BY IdleType DEF Idle
  <2> QED BY <1>6, <2>1, GotoElsewhere DEF Relay, Finish, KeysInv, KeysTypeOK
<1> QED BY <1>1, <1>2, <1>3, <1>4, <1>5, <1>6 DEF ChatStep

\* An upload adds prekeys and gives none back: what is consumed stays consumed.
LEMMA UploadKeeps == ASSUME KeysInv, NEW S \in SUBSET KeyId, UploadPrekeys(S) PROVE KeysInv'
<1>1. UNCHANGED <<given, consumed, messages, req>> /\ prekeys' = prekeys \cup S
  BY DEF UploadPrekeys, StillConsumed, chat
<1> QED BY <1>1 DEF KeysInv, KeysTypeOK, HeldPrekeys, GivenAreConsumed, PrekeyGivenOnce, At

\* The sub-select takes a row that no other statement holds, or answers without one.
LEMMA SelectKeeps == ASSUME KeysInv, NEW p \in Procs, SelectPrekey(p) PROVE KeysInv'
<1>1. UNCHANGED <<prekeys, consumed, messages>> /\ req[p] \in Request
  BY DEF SelectPrekey, chat, KeysInv, KeysTypeOK
<1>2. CASE Free = {} /\ given' = Append(given, 0) /\ Finish(p)
  <2>1. \A q \in Procs : q # p => req'[q] = req[q]
    BY <1>2 DEF KeysInv, KeysTypeOK, Goto, Finish
  <2>2. req'[p] = Idle /\ req' \in [Procs -> Request]
    BY <1>2, IdleType DEF KeysInv, KeysTypeOK, Goto, Finish
  <2>3. given' \in Seq(Nat) /\ DOMAIN given' = DOMAIN given \cup {Len(given) + 1}
        /\ given'[Len(given) + 1] = 0 /\ \A i \in DOMAIN given : given'[i] = given[i]
    BY <1>2 DEF KeysInv, KeysTypeOK
  <2>4. KeysTypeOK'
    BY <1>1, <2>2, <2>3 DEF KeysInv, KeysTypeOK
  <2>5. HeldPrekeys'
    BY <1>1, <2>1, <2>2 DEF KeysInv, HeldPrekeys, At, Idle
  <2>6. GivenAreConsumed'
    BY <1>1, <2>3 DEF KeysInv, GivenAreConsumed
  <2>7. PrekeyGivenOnce'
    BY <2>3 DEF KeysInv, PrekeyGivenOnce
  <2> QED BY <2>4, <2>5, <2>6, <2>7 DEF KeysInv
<1>3. ASSUME NEW k \in Free, Goto(p, [req[p] EXCEPT !.pc = "update", !.id = k]), UNCHANGED given
      PROVE  KeysInv'
  <2>1. k \in KeyId \ consumed /\ k \in Nat /\ \A q \in Procs : ~(At(q, "update") /\ req[q].id = k)
    BY MessagingAssumption DEF Free, Lockable, KeysInv, KeysTypeOK
  <2>2. \A q \in Procs : q # p => req'[q] = req[q]
    BY <1>3 DEF KeysInv, KeysTypeOK, Goto
  <2>3. req'[p].pc = "update" /\ req'[p].id = k /\ req' \in [Procs -> Request]
    BY <1>1, <1>3, <2>1 DEF KeysInv, KeysTypeOK, Goto, Request
  <2>4. KeysTypeOK'
    BY <1>1, <1>3, <2>3 DEF KeysInv, KeysTypeOK
  <2>5. HeldPrekeys'
    BY <1>1, <2>1, <2>2, <2>3 DEF KeysInv, HeldPrekeys, At
  <2>6. GivenAreConsumed' /\ PrekeyGivenOnce'
    BY <1>1, <1>3 DEF KeysInv, GivenAreConsumed, PrekeyGivenOnce
  <2> QED BY <2>4, <2>5, <2>6 DEF KeysInv
<1> QED BY <1>2, <1>3 DEF SelectPrekey

\* The UPDATE hands out the row it holds, which nobody was given before.
LEMMA ConsumeKeeps == ASSUME KeysInv, NEW p \in Procs, ConsumePrekey(p) PROVE KeysInv'
<1>1. UNCHANGED <<prekeys, messages>> /\ consumed' = consumed \cup {req[p].id}
      /\ given' = Append(given, req[p].id) /\ At(p, "update")
  BY DEF ConsumePrekey, chat
<1>2. req[p].id \in KeyId \ consumed /\ req[p].id \in Nat \ {0}
      /\ \A q \in Procs : At(q, "update") /\ req[q].id = req[p].id => q = p
  BY <1>1, MessagingAssumption DEF KeysInv, HeldPrekeys
<1>3. \A q \in Procs : q # p => req'[q] = req[q]
  BY DEF KeysInv, KeysTypeOK, Goto, Finish, ConsumePrekey
<1>4. req'[p] = Idle /\ req' \in [Procs -> Request]
  BY IdleType DEF KeysInv, KeysTypeOK, Goto, Finish, ConsumePrekey
<1>5. given' \in Seq(Nat) /\ DOMAIN given' = DOMAIN given \cup {Len(given) + 1}
      /\ given'[Len(given) + 1] = req[p].id /\ \A i \in DOMAIN given : given'[i] = given[i]
  BY <1>1, <1>2 DEF KeysInv, KeysTypeOK
<1>6. KeysTypeOK'
  BY <1>1, <1>2, <1>4, <1>5 DEF KeysInv, KeysTypeOK
<1>7. HeldPrekeys'
  BY <1>1, <1>2, <1>3, <1>4 DEF KeysInv, HeldPrekeys, At, Idle
<1>8. GivenAreConsumed'
  BY <1>1, <1>5 DEF KeysInv, GivenAreConsumed
<1>9. PrekeyGivenOnce'
  BY <1>2, <1>5 DEF KeysInv, GivenAreConsumed, PrekeyGivenOnce
<1> QED BY <1>6, <1>7, <1>8, <1>9 DEF KeysInv

\* A crash ends every statement before its UPDATE, and gives its lock back.
LEMMA CrashKeeps == KeysInv /\ Crash => KeysInv'
<1> SUFFICES ASSUME KeysInv, Crash PROVE KeysInv'
  OBVIOUS
<1>1. UNCHANGED <<given, prekeys, consumed, messages>> /\ req' = [p \in Procs |-> Idle]
  BY DEF Crash, chat, keys
<1>2. req' \in [Procs -> Request] /\ \A p \in Procs : req'[p].pc = "idle"
  BY <1>1, IdleType DEF Idle
<1> QED BY <1>1, <1>2 DEF KeysInv, KeysTypeOK, HeldPrekeys, GivenAreConsumed, PrekeyGivenOnce, At

-----------------------------------------------------------------------------
\* The inductive invariant of the prekeys holds in every reachable state.
LEMMA KeysInvariance == Spec => []KeysInv
<1>1. Init => KeysInv
  <2> SUFFICES ASSUME Init PROVE KeysInv
    OBVIOUS
  <2>1. req \in [Procs -> Request] /\ \A p \in Procs : req[p].pc = "idle"
    BY IdleType DEF Init, Idle
  <2>2. IsFiniteSet({})
    BY FS_EmptySet
  <2>3. KeysTypeOK
    BY <2>1, <2>2 DEF Init, KeysTypeOK
  <2>4. given = <<>> /\ DOMAIN given = {}
    BY DEF Init
  <2> QED BY <2>1, <2>3, <2>4 DEF KeysInv, HeldPrekeys, GivenAreConsumed, PrekeyGivenOnce, At
<1>2. KeysInv /\ [Next]_vars => KeysInv'
  <2> SUFFICES ASSUME KeysInv, [Next]_vars PROVE KeysInv'
    OBVIOUS
  <2>1. CASE ChatStep
    BY <2>1, ChatKeeps
  <2>2. CASE RegisterDeviceKeys
    <3>1. UNCHANGED <<given, prekeys, consumed, messages, req>>
      BY <2>2 DEF RegisterDeviceKeys, chat
    <3> QED BY <3>1 DEF KeysInv, KeysTypeOK, HeldPrekeys, GivenAreConsumed, PrekeyGivenOnce, At
  <2>3. ASSUME NEW p \in Procs, BeginBundle(p) PROVE KeysInv'
    <3>1. [Idle EXCEPT !.pc = "select"] \in Request /\ [Idle EXCEPT !.pc = "select"].pc # "update"
      BY DEF Idle, Request, Via
    <3> QED BY <2>3, <3>1, GotoElsewhere DEF BeginBundle, chat, KeysInv, KeysTypeOK
  <2>4. CASE UNCHANGED vars
    <3>1. UNCHANGED <<given, prekeys, consumed, messages, req>>
      BY <2>4 DEF vars, chat, keys
    <3> QED BY <3>1 DEF KeysInv, KeysTypeOK, HeldPrekeys, GivenAreConsumed, PrekeyGivenOnce, At
  <2> QED BY <2>1, <2>2, <2>3, <2>4, UploadKeeps, SelectKeeps, ConsumeKeeps, CrashKeeps
          DEF Next, Arrive, ChatStep
<1> QED BY <1>1, <1>2, PTL DEF Spec

\* consumePrekeyBundle (SKIP LOCKED and is_consumed in one statement) hands a
\* one-time prekey to one requester, for any number of requesters and prekeys.
THEOREM PrekeysCorrect == Spec => []PrekeyGivenOnce
<1>1. KeysInv => PrekeyGivenOnce
  BY DEF KeysInv
<1> QED BY <1>1, KeysInvariance, PTL

-----------------------------------------------------------------------------
(* Messages are stored and relayed once (SentOnce)                           *)

\* Messages are numbered in the order they are stored, what was relayed is stored,
\* and the answers in idempotency_records are kept per key and endpoint.
ChatTypeOK == /\ messages \in SUBSET [id : Nat \ {0}, text : Text, via : Via]
              /\ IsFiniteSet(messages)
              /\ \A m \in messages : m.id <= Cardinality(messages)
              /\ \A m, n \in messages : m.id = n.id => m = n
              /\ relayed \in Seq(Nat)
              /\ \A i \in DOMAIN relayed : relayed[i] <= Cardinality(messages)
              /\ record \in [Keys \X Via -> Nat]
              /\ crashed \in BOOLEAN
              /\ req \in [Procs -> Request]

\* The places of a request that sends a message.
SendPc == {"lookup", "create", "record", "relay"}
Holding(p) == req[p].pc \in {"record", "relay"}

\* A request that sends has a text; once its message is stored it has the number of
\* that message, which no other request has, and none before.
SendersHold ==
    \A p \in Procs :
      /\ req[p].text # None <=> req[p].pc \in SendPc
      /\ req[p].pc \in {"lookup", "create"} => req[p].id = 0
      /\ At(p, "record") => Keyed(p)
      /\ Holding(p) =>
           /\ \E m \in messages : m.id = req[p].id /\ m.text = req[p].text /\ m.via = req[p].via
           /\ \A q \in Procs : Holding(q) /\ req[q].id = req[p].id => q = p

\* A recorded answer names a message of its key.
RecordsAreTrue ==
    \A i \in Keys \X Via : record[i] # 0 =>
      \E m \in messages : m.id = record[i] /\ SlotOf(m) = i

\* A key for which no two requests raced and no answer was lost: one request at a
\* time is between its lookup and its record, the key is not recorded then, and
\* the only message of the key, if any, is the one it is about to record.
Undisturbed(i) ==
    /\ \A p, q \in Procs : Storing(p) /\ Storing(q) /\ Slot(p) = i /\ Slot(q) = i => p = q
    /\ \A p \in Procs : Storing(p) /\ Slot(p) = i => record[i] = 0
    /\ \A m \in messages : SlotOf(m) = i =>
         \/ record[i] # 0
         \/ \E p \in Procs : At(p, "record") /\ Storing(p) /\ Slot(p) = i /\ req[p].id = m.id
    /\ \A m, n \in messages : SlotOf(m) = i /\ SlotOf(n) = i => m = n
KeysAreOrderly == \A i \in Keys \X Via : i \notin raced \cup unrecorded => Undisturbed(i)

\* The message is on its way: its sender has not been answered.
Underway(m) == \E p \in Procs : req[p].text # None /\ req[p].id = m.id
Relays(m, dead) == IF m.via = "rest" \/ Underway(m) THEN {0} ELSE IF dead THEN {0, 1} ELSE {1}
RelayedOnce == \A m \in messages : Times(m.id) \in Relays(m, crashed)

SendInv == ChatTypeOK /\ SendersHold /\ RecordsAreTrue /\ KeysAreOrderly /\ RelayedOnce

-----------------------------------------------------------------------------
\* A request that goes elsewhere leaves the others where they are.
LEMMA GotoFacts ==
    ASSUME ChatTypeOK, NEW p \in Procs, NEW r \in Request, Goto(p, r)
    PROVE  /\ req'[p] = r
           /\ \A q \in Procs : q # p => req'[q] = req[q]
           /\ req' \in [Procs -> Request]
BY DEF ChatTypeOK, Goto

\* A step after which no request is storing that was not before, and none has left
\* its place before the record, leaves the keys orderly.
LEMMA SameStorers ==
    ASSUME SendInv, UNCHANGED <<messages, record>>, raced \subseteq raced',
           unrecorded \subseteq unrecorded',
           \A q \in Procs : \/ req'[q] = req[q]
                            \/ req[q].pc \notin {"create", "record"}
                               /\ req'[q].pc \notin {"create", "record"}
    PROVE  KeysAreOrderly'
<1> SUFFICES ASSUME NEW i \in Keys \X Via, i \notin raced \cup unrecorded PROVE Undisturbed(i)'
  BY DEF KeysAreOrderly
<1>1. Undisturbed(i)
  BY DEF SendInv, KeysAreOrderly
<1>2. \A q \in Procs : /\ Storing(q)' <=> Storing(q)
                       /\ Storing(q) => req'[q] = req[q]
  BY DEF Storing, Keyed
<1> QED BY <1>1, <1>2 DEF Undisturbed, Slot, SlotOf, At

\* A step that leaves the messages, and for each the requests that carry its number,
\* leaves the relays as they were.
LEMMA SameRelays ==
    ASSUME SendInv, UNCHANGED <<messages, relayed, crashed>>,
           \A m \in messages : Underway(m)' <=> Underway(m)
    PROVE  RelayedOnce'
BY DEF SendInv, RelayedOnce, Relays, Times

\* Steps that concern no message and no sender: the conversation, the devices and
\* the prekeys.
LEMMA SideKeeps ==
    ASSUME SendInv, UNCHANGED <<messages, record, relayed, raced, unrecorded, crashed>>,
           req' \in [Procs -> Request],
           \A q \in Procs : \/ req'[q] = req[q]
                            \/ /\ req[q].text = None /\ req'[q].text = None
                               /\ req'[q].pc \notin SendPc
    PROVE  SendInv'
<1>1. \A q \in Procs : \/ req'[q] = req[q]
                       \/ /\ req[q].text = None /\ req'[q].text = None
                          /\ req[q].pc \notin SendPc /\ req'[q].pc \notin SendPc
  BY DEF SendInv, SendersHold
<1>2. ChatTypeOK' /\ RecordsAreTrue'
  BY DEF SendInv, ChatTypeOK, RecordsAreTrue, SlotOf
<1>3. SendersHold'
  BY <1>1 DEF SendInv, SendersHold, SendPc, At, Keyed, Holding
<1>4. KeysAreOrderly'
  BY <1>1, SameStorers DEF SendPc
<1>5. RelayedOnce'
  BY <1>1, SameRelays DEF Underway
<1> QED BY <1>2, <1>3, <1>4, <1>5 DEF SendInv

\* A new send has no number yet.
LEMMA BeginSendKeeps ==
    ASSUME SendInv, NEW p \in Procs, NEW t \in Text, NEW via \in Via, NEW from, NEW to,
           BeginSend(p, t, via, from, to)
    PROVE  SendInv'
<1> DEFINE r == [Idle EXCEPT !.pc = "lookup", !.text = t, !.via = via]
<1>1. r \in Request /\ r.pc = "lookup" /\ r.text = t /\ r.id = 0 /\ t # None
  BY MessagingAssumption DEF Idle, Request
<1>2. Goto(p, r) /\ At(p, "idle")
      /\ UNCHANGED <<messages, record, relayed, raced, unrecorded, crashed>>
  BY DEF BeginSend, chat
<1> HIDE DEF r
<1>3. /\ req'[p] = r
      /\ \A q \in Procs : q # p => req'[q] = req[q]
      /\ req' \in [Procs -> Request]
  BY <1>1, <1>2, GotoFacts DEF SendInv
<1>4. ChatTypeOK' /\ RecordsAreTrue'
  BY <1>2, <1>3 DEF SendInv, ChatTypeOK, RecordsAreTrue, SlotOf
<1>5. SendersHold'
  BY <1>1, <1>2, <1>3 DEF SendInv, SendersHold, SendPc, At, Keyed, Holding
<1>6. KeysAreOrderly'
  BY <1>1, <1>2, <1>3, SameStorers DEF At
<1>7. req[p].text = None
  BY <1>2 DEF SendInv, SendersHold, SendPc, At
<1>8. ASSUME NEW m \in messages PROVE Underway(m)' <=> Underway(m)
  <2>1. m.id # 0
    BY DEF SendInv, ChatTypeOK
  <2> QED BY <1>1, <1>3, <1>7, <2>1 DEF Underway
<1>9. RelayedOnce'
  BY <1>2, <1>8, SameRelays
<1> QED BY <1>4, <1>5, <1>6, <1>9 DEF SendInv

\* A key that is found ends the send.  One that is not found and that nobody else is
\* storing has no message yet: there would be a record, or someone about to write it.
LEMMA LookupKeeps == ASSUME SendInv, NEW p \in Procs, Lookup(p) PROVE SendInv'
<1>1. At(p, "lookup") /\ UNCHANGED <<messages, record, relayed, unrecorded, crashed>>
  BY DEF Lookup
<1>2. req[p].id = 0 /\ req[p].text \in Text /\ req[p].via \in Via /\ req[p] \in Request
      /\ req[p].text # None
  BY <1>1 DEF SendInv, ChatTypeOK, SendersHold, SendPc, At, Request
<1>3. PICK r \in Request :
        /\ Goto(p, r)
        /\ \/ r = Idle /\ raced' = raced
           \/ /\ r = [req[p] EXCEPT !.pc = "create"] /\ ~Known(p)
              /\ raced' = IF Races(p) THEN raced \cup {Slot(p)} ELSE raced
  <2>1. [req[p] EXCEPT !.pc = "create"] \in Request
    BY <1>2 DEF Request
  <2> QED BY <2>1, IdleType DEF Lookup, Finish
<1>4. /\ req'[p] = r
      /\ \A q \in Procs : q # p => req'[q] = req[q]
      /\ req' \in [Procs -> Request]
  BY <1>3, GotoFacts DEF SendInv
<1>5. /\ r.id = 0
      /\ \/ r.pc = "idle" /\ r.text = None /\ raced' = raced
         \/ /\ r.pc = "create" /\ r.text = req[p].text /\ r.via = req[p].via /\ ~Known(p)
            /\ raced' = IF Races(p) THEN raced \cup {Slot(p)} ELSE raced
  BY <1>2, <1>3 DEF Idle, Request
<1>6. ChatTypeOK' /\ RecordsAreTrue'
  BY <1>1, <1>4 DEF SendInv, ChatTypeOK, RecordsAreTrue, SlotOf
<1>7. SendersHold'
  BY <1>1, <1>2, <1>4, <1>5 DEF SendInv, SendersHold, SendPc, At, Keyed, Holding
<1>8. KeysAreOrderly'
  <2>1. CASE r.pc = "idle"
    BY <1>1, <1>4, <1>5, <2>1, SameStorers DEF At
  <2>2. CASE r.pc = "create"
    <3> SUFFICES ASSUME NEW i \in Keys \X Via, i \notin raced' \cup unrecorded'
                 PROVE  Undisturbed(i)'
      BY DEF KeysAreOrderly
    <3>1. i \notin raced \cup unrecorded /\ Undisturbed(i)
      BY <1>1, <1>5, <2>2 DEF SendInv, KeysAreOrderly
    <3>2. \A q \in Procs : q # p => (Storing(q)' <=> Storing(q)) /\ Slot(q)' = Slot(q)
                                     /\ (At(q, "record")' <=> At(q, "record")) /\ req'[q].id = req[q].id
      BY <1>4 DEF Storing, Slot, Keyed, At
    <3>3. ~At(p, "record")' /\ ~At(p, "record") /\ ~Storing(p)
          /\ Slot(p)' = Slot(p) /\ (Storing(p)' <=> Keyed(p))
      BY <1>1, <1>4, <1>5, <2>2 DEF At, Storing, Slot, Keyed
    <3>4. CASE Keyed(p) /\ Slot(p) = i
      <4>1. ~Races(p) /\ record[i] = 0
        BY <1>5, <2>2, <3>4 DEF Known
      <4>2. \A q \in Procs : ~(Storing(q) /\ Slot(q) = i)
        BY <3>4, <4>1 DEF Races
      <4> QED BY <1>1, <3>1, <3>2, <3>3, <4>1, <4>2 DEF Undisturbed, SlotOf
    <3>5. CASE ~(Keyed(p) /\ Slot(p) = i)
      <4>1. \A q \in Procs : (Storing(q)' /\ Slot(q)' = i) <=> (Storing(q) /\ Slot(q) = i)
        BY <3>2, <3>3, <3>5
      <4>2. \A q \in Procs : (At(q, "record")' <=> At(q, "record"))
                              /\ (At(q, "record") => req'[q].id = req[q].id)
        BY <3>2, <3>3
      <4> QED BY <1>1, <3>1, <4>1, <4>2 DEF Undisturbed, SlotOf
    <3> QED BY <3>4, <3>5
  <2> QED BY <1>5, <2>1, <2>2
<1>9. ASSUME NEW m \in messages PROVE Underway(m)' <=> Underway(m)
  <2>1. m.id # 0
    BY DEF SendInv, ChatTypeOK
  <2> QED BY <1>2, <1>4, <1>5, <2>1 DEF Underway
<1>10. RelayedOnce'
  BY <1>1, <1>9, SameRelays
<1> QED BY <1>6, <1>7, <1>8, <1>10 DEF SendInv

\* A stored message gets the next number; nothing was relayed under it.  Its key, if
\* it is orderly, had no message: the request that stores it is the only one.
LEMMA CreateKeeps == ASSUME SendInv, NEW p \in Procs, Create(p) PROVE SendInv'
<1> DEFINE n == Cardinality(messages)
<1>1. At(p, "create") /\ UNCHANGED <<record, relayed, raced, unrecorded, crashed>>
  BY DEF Create
<1>2. req[p].id = 0 /\ req[p].text \in Text /\ req[p].via \in Via /\ req[p] \in Request
  BY <1>1 DEF SendInv, ChatTypeOK, SendersHold, SendPc, At, Request
<1>3. n \in Nat /\ NextId = n + 1
  BY FS_CardinalityType DEF SendInv, ChatTypeOK, NextId
<1> HIDE DEF n
<1>4. PICK r : /\ Goto(p, r) /\ r \in Request
               /\ r.id = n + 1 /\ r.text = req[p].text /\ r.via = req[p].via
               /\ r.pc = IF Keyed(p) THEN "record" ELSE "relay"
  <2>1. PICK pc : pc = IF Keyed(p) THEN "record" ELSE "relay"
    OBVIOUS
  <2>2. Goto(p, [req[p] EXCEPT !.id = n + 1, !.pc = pc])
    <3>1. Goto(p, [req[p] EXCEPT !.id = NextId, !.pc = IF Keyed(p) THEN "record" ELSE "relay"])
      BY DEF Create
    <3> QED BY <1>3, <2>1, <3>1, Zenon
  <2>3. [req[p] EXCEPT !.id = n + 1, !.pc = pc] \in Request
    <3>1. pc \in {"record", "relay"} /\ n + 1 \in Nat
      BY <1>3, <2>1
    <3> QED BY <1>2, <3>1 DEF Request
  <2>4. /\ [req[p] EXCEPT !.id = n + 1, !.pc = pc].id = n + 1
        /\ [req[p] EXCEPT !.id = n + 1, !.pc = pc].text = req[p].text
        /\ [req[p] EXCEPT !.id = n + 1, !.pc = pc].via = req[p].via
        /\ [req[p] EXCEPT !.id = n + 1, !.pc = pc].pc = pc
    BY <1>2 DEF Request
  <2> QED BY <2>1, <2>2, <2>3, <2>4
<1>5. PICK m0 : /\ m0 \in [id : Nat \ {0}, text : Text, via : Via]
                /\ m0.id = n + 1 /\ m0.text = req[p].text /\ m0.via = req[p].via
                /\ messages' = messages \cup {m0}
  <2>1. PICK m : m = [id |-> n + 1, text |-> req[p].text, via |-> req[p].via]
    OBVIOUS
  <2>2. m \in [id : Nat \ {0}, text : Text, via : Via]
        /\ m.id = n + 1 /\ m.text = req[p].text /\ m.via = req[p].via
    BY <1>2, <1>3, <2>1
  <2>3. messages' = messages \cup {[id |-> NextId, text |-> req[p].text, via |-> req[p].via]}
    BY DEF Create
  <2>4. messages' = messages \cup {m}
    BY <1>3, <2>1, <2>3, Zenon
  <2> QED BY <2>2, <2>4
<1>6. /\ req'[p] = r
      /\ \A q \in Procs : q # p => req'[q] = req[q]
      /\ req' \in [Procs -> Request]
  BY <1>4, GotoFacts DEF SendInv
<1>7. \A m \in messages : m.id \in Nat \ {0} /\ m.id <= n /\ m # m0
  BY <1>3, <1>5 DEF SendInv, ChatTypeOK, n
<1>8. IsFiniteSet(messages') /\ Cardinality(messages') = n + 1
  BY <1>5, <1>7, FS_AddElement DEF SendInv, ChatTypeOK, n
<1>9. ChatTypeOK'
  <2>1. messages' \in SUBSET [id : Nat \ {0}, text : Text, via : Via]
    BY <1>1, <1>5 DEF SendInv, ChatTypeOK
  <2>2. \A m \in messages' : m.id <= Cardinality(messages')
    BY <1>1, <1>3, <1>5, <1>7, <1>8
  <2>3. \A m, k \in messages' : m.id = k.id => m = k
    BY <1>1, <1>3, <1>5, <1>7 DEF SendInv, ChatTypeOK
  <2>4. relayed' \in Seq(Nat)
    BY <1>1, <1>5 DEF SendInv, ChatTypeOK
  <2>5. \A i \in DOMAIN relayed' : relayed'[i] <= Cardinality(messages')
    <3>1. \A i \in DOMAIN relayed : relayed[i] \in Nat /\ relayed[i] <= n
      BY DEF SendInv, ChatTypeOK, n
    <3> QED BY <1>1, <1>5, <1>3, <1>8, <3>1
  <2> QED BY <1>1, <1>5, <1>6, <1>8, <2>1, <2>2, <2>3, <2>4, <2>5 DEF SendInv, ChatTypeOK
<1>10. req[p].text # None
  BY <1>2, MessagingAssumption
<1>11. SendersHold'
  <2>0. \A q \in Procs : Holding(q) => req[q].id <= n
    BY <1>7 DEF SendInv, SendersHold
  <2>1. ASSUME NEW q \in Procs, q # p
        PROVE  /\ (req'[q].text # None <=> req'[q].pc \in SendPc)
               /\ req'[q].pc \in {"lookup", "create"} => req'[q].id = 0
               /\ At(q, "record")' => Keyed(q)'
               /\ Holding(q)' =>
                    \E m \in messages' : m.id = req'[q].id /\ m.text = req'[q].text /\ m.via = req'[q].via
    BY <1>1, <1>5, <1>6, <2>1 DEF SendInv, SendersHold, At, Keyed, Holding
  <2>2. /\ (req'[p].text # None <=> req'[p].pc \in SendPc)
        /\ req'[p].pc \notin {"lookup", "create"}
        /\ At(p, "record")' => Keyed(p)'
        /\ \E m \in messages' : m.id = req'[p].id /\ m.text = req'[p].text /\ m.via = req'[p].via
    BY <1>1, <1>4, <1>5, <1>6, <1>10 DEF SendPc, At, Keyed
  <2>3. ASSUME NEW q \in Procs, NEW s \in Procs, Holding(q)', Holding(s)', req'[s].id = req'[q].id
        PROVE  s = q
    <3>1. CASE q # p /\ s # p
      BY <1>6, <2>3, <3>1 DEF SendInv, SendersHold, Holding
    <3>2. CASE (q = p /\ s # p) \/ (q # p /\ s = p)
      BY <1>3, <1>4, <1>6, <2>0, <2>3, <3>2 DEF Holding
    <3> QED BY <3>1, <3>2
  <2> QED BY <2>1, <2>2, <2>3 DEF SendersHold
<1>12. RecordsAreTrue'
  BY <1>1, <1>5 DEF SendInv, RecordsAreTrue, SlotOf
<1>13. KeysAreOrderly'
  <2> SUFFICES ASSUME NEW i \in Keys \X Via, i \notin raced \cup unrecorded PROVE Undisturbed(i)'
    BY <1>1 DEF KeysAreOrderly
  <2>1. Undisturbed(i)
    BY DEF SendInv, KeysAreOrderly
  <2>2. \A q \in Procs : /\ Storing(q)' <=> Storing(q)
                         /\ Slot(q)' = Slot(q)
                         /\ q # p => (At(q, "record")' <=> At(q, "record")) /\ req'[q].id = req[q].id
    BY <1>1, <1>4, <1>6 DEF Storing, Slot, Keyed, At
  <2>3. ~At(p, "record") /\ SlotOf(m0) = Slot(p)
    BY <1>1, <1>5 DEF At, SlotOf, Slot
  <2>4. CASE Keyed(p) /\ Slot(p) = i
    <3>1. Storing(p) /\ At(p, "record")' /\ req'[p].id = m0.id
      BY <1>1, <1>4, <1>5, <1>6, <2>4 DEF Storing, At
    <3>2. \A m \in messages : SlotOf(m) # i
      BY <2>1, <2>3, <2>4, <3>1 DEF Undisturbed
    <3>3. \A m \in messages' : SlotOf(m) = i => m = m0
      BY <1>5, <3>2
    <3> QED BY <1>1, <2>1, <2>2, <2>4, <3>1, <3>3 DEF Undisturbed, SlotOf
  <2>5. CASE ~(Keyed(p) /\ Slot(p) = i)
    <3>1. SlotOf(m0) # i
      BY <2>3, <2>5 DEF Slot, Keyed, Keys
    <3>2. ~(Storing(p) /\ Slot(p) = i)
      BY <2>5 DEF Storing
    <3> QED BY <1>1, <1>5, <2>1, <2>2, <3>1, <3>2 DEF Undisturbed, SlotOf
  <2> QED BY <2>4, <2>5
<1>14. RelayedOnce'
  <2> SUFFICES ASSUME NEW m \in messages' PROVE Times(m.id)' \in Relays(m, crashed)'
    BY DEF RelayedOnce
  <2>1. CASE m = m0
    <3>1. {j \in DOMAIN relayed : relayed[j] = n + 1} = {}
      BY <1>3 DEF SendInv, ChatTypeOK, n
    <3>2. Times(m.id)' = 0
      BY <1>1, <1>5, <2>1, <3>1, FS_EmptySet DEF Times
    <3>3. Underway(m)'
      BY <1>4, <1>5, <1>6, <1>10, <2>1 DEF Underway
    <3> QED BY <3>2, <3>3 DEF Relays
  <2>2. CASE m # m0
    <3>1. m \in messages /\ m.id # n + 1 /\ m.id # 0
      BY <1>3, <1>5, <1>7, <2>2
    <3>2. Underway(m)' <=> Underway(m)
      BY <1>2, <1>4, <1>6, <3>1 DEF Underway
    <3> QED BY <1>1, <3>1, <3>2 DEF SendInv, RelayedOnce, Relays, Times
  <2> QED BY <2>1, <2>2
<1> QED BY <1>9, <1>11, <1>12, <1>13, <1>14 DEF SendInv

\* The record names the message of the request that was first; the key of the
\* others had been looked up in vain meanwhile, and a record that could not be
\* written leaves the key among the unrecorded.
LEMMA SaveRecordKeeps ==
    ASSUME SendInv, NEW p \in Procs, SaveRecord(p) \/ RecordFails(p)
    PROVE  SendInv'
<1> DEFINE r == [req[p] EXCEPT !.pc = "relay"]
<1>1. /\ At(p, "record") /\ UNCHANGED <<messages, relayed, raced, crashed>> /\ Goto(p, r)
      /\ unrecorded \subseteq unrecorded'
      /\ \/ record' = record
         \/ record[Slot(p)] = 0 /\ record' = [record EXCEPT ![Slot(p)] = req[p].id]
      /\ record'[Slot(p)] = 0 => Slot(p) \in unrecorded'
  <2>1. CASE RecordFails(p)
    BY <2>1 DEF RecordFails
  <2>2. CASE SaveRecord(p)
    <3>1. At(p, "record") /\ Slot(p) \in Keys \X Via /\ req[p].id \in Nat \ {0}
      BY <2>2 DEF SaveRecord, SendInv, SendersHold, ChatTypeOK, Slot, Keyed, Keys, At, Holding, SendPc, Request
    <3> QED BY <2>2, <3>1 DEF SaveRecord, SendInv, ChatTypeOK
  <2> QED BY <2>1, <2>2
<1>2. req[p] \in Request /\ Keyed(p) /\ Holding(p) /\ req[p].text # None /\ req[p].text \in Text
  BY <1>1 DEF SendInv, ChatTypeOK, SendersHold, SendPc, At, Holding, Request
<1>3. Slot(p) \in Keys \X Via
  BY <1>2 DEF Slot, Keyed, Keys, Request
<1>4. PICK m0 \in messages : m0.id = req[p].id /\ m0.text = req[p].text /\ m0.via = req[p].via
  BY <1>2 DEF SendInv, SendersHold
<1>5. m0.id \in Nat \ {0} /\ SlotOf(m0) = Slot(p)
  BY <1>4 DEF SendInv, ChatTypeOK, SlotOf, Slot
<1>6. r \in Request /\ r.pc = "relay" /\ r.text = req[p].text /\ r.via = req[p].via /\ r.id = req[p].id
  BY <1>2 DEF Request
<1> HIDE DEF r
<1>7. /\ req'[p] = r
      /\ \A q \in Procs : q # p => req'[q] = req[q]
      /\ req' \in [Procs -> Request]
  BY <1>1, <1>6, GotoFacts DEF SendInv
<1>8. record' \in [Keys \X Via -> Nat] /\ \A i \in Keys \X Via : i # Slot(p) => record'[i] = record[i]
  BY <1>1, <1>4, <1>5 DEF SendInv, ChatTypeOK
<1>9. record'[Slot(p)] \in {record[Slot(p)], m0.id}
  BY <1>1, <1>3, <1>4 DEF SendInv, ChatTypeOK
<1>10. ChatTypeOK'
  BY <1>1, <1>7, <1>8 DEF SendInv, ChatTypeOK
<1>11. SendersHold'
  BY <1>1, <1>2, <1>6, <1>7 DEF SendInv, SendersHold, SendPc, At, Keyed, Holding
<1>12. RecordsAreTrue'
  BY <1>1, <1>5, <1>8, <1>9 DEF SendInv, RecordsAreTrue, SlotOf
<1>13. KeysAreOrderly'
  <2> SUFFICES ASSUME NEW i \in Keys \X Via, i \notin raced' \cup unrecorded' PROVE Undisturbed(i)'
    BY DEF KeysAreOrderly
  <2>1. Undisturbed(i)
    BY <1>1 DEF SendInv, KeysAreOrderly
  <2>2. \A q \in Procs : q # p => /\ Storing(q)' <=> Storing(q)
                                  /\ Slot(q)' = Slot(q)
                                  /\ At(q, "record")' <=> At(q, "record")
                                  /\ req'[q].id = req[q].id
    BY <1>7 DEF Storing, Slot, Keyed, At
  <2>3. ~Storing(p)' /\ Storing(p)
    BY <1>1, <1>2, <1>6, <1>7 DEF Storing, At
  <2>4. CASE i = Slot(p)
    <3>1. record'[i] # 0
      BY <1>1, <2>4
    <3>2. \A q \in Procs : ~(Storing(q)' /\ Slot(q)' = i)
      BY <2>1, <2>2, <2>3, <2>4 DEF Undisturbed
    <3> QED BY <1>1, <2>1, <3>1, <3>2 DEF Undisturbed, SlotOf
  <2>5. CASE i # Slot(p)
    BY <1>1, <1>8, <2>1, <2>2, <2>3, <2>5 DEF Undisturbed, SlotOf
  <2> QED BY <2>4, <2>5
<1>14. \A m \in messages : Underway(m)' <=> Underway(m)
  BY <1>2, <1>6, <1>7 DEF Underway
<1>15. RelayedOnce'
  BY <1>1, <1>14, SameRelays
<1> QED BY <1>10, <1>11, <1>12, <1>13, <1>15 DEF SendInv

\* One more relay of an id is counted once, and leaves the count of the others.
LEMMA TimesAppend ==
    ASSUME relayed \in Seq(Nat), NEW id \in Nat, relayed' = Append(relayed, id), NEW j \in Nat
    PROVE  Times(j)' = (IF j = id THEN Times(j) + 1 ELSE Times(j)) /\ Times(j) \in Nat
<1> DEFINE n == Len(relayed)
           S == {i \in DOMAIN relayed : relayed[i] = j}
           T == {i \in DOMAIN relayed' : relayed'[i] = j}
<1>1. n \in Nat /\ DOMAIN relayed = 1..n /\ DOMAIN relayed' = 1..(n + 1)
      /\ relayed'[n + 1] = id /\ \A i \in 1..n : relayed'[i] = relayed[i]
  OBVIOUS
<1>2. IsFiniteSet(1..n) /\ S \subseteq 1..n
  BY <1>1, FS_Interval
<1>3. IsFiniteSet(S)
  BY <1>2, FS_Subset
<1>4. Times(j) = Cardinality(S) /\ Times(j)' = Cardinality(T) /\ Cardinality(S) \in Nat
  BY <1>3, FS_CardinalityType DEF Times
<1> HIDE DEF n
<1>5. CASE j = id
  <2>1. T = S \cup {n + 1} /\ n + 1 \notin S
    BY <1>1, <1>5
  <2> HIDE DEF S, T
  <2> QED BY <1>3, <1>4, <1>5, <2>1, FS_AddElement
<1>6. CASE j # id
  <2>1. T = S
    BY <1>1, <1>6
  <2> QED BY <1>4, <1>6, <2>1
<1> QED BY <1>5, <1>6

\* The answer: the message is relayed if it came through the socket, and nobody
\* else is about to relay it.
LEMMA RelayKeeps == ASSUME SendInv, NEW p \in Procs, Relay(p) PROVE SendInv'
<1>1. At(p, "relay") /\ UNCHANGED <<messages, record, raced, unrecorded, crashed>> /\ Goto(p, Idle)
      /\ relayed' = IF req[p].via = "socket" THEN Append(relayed, req[p].id) ELSE relayed
  BY DEF Relay, Finish
<1>2. req[p] \in Request /\ req[p].id \in Nat /\ req[p].text # None /\ relayed \in Seq(Nat)
  BY <1>1 DEF SendInv, ChatTypeOK, SendersHold, SendPc, At, Request
<1>3. /\ req'[p] = Idle
      /\ \A q \in Procs : q # p => req'[q] = req[q]
      /\ req' \in [Procs -> Request]
  BY <1>1, IdleType, GotoFacts DEF SendInv
<1>4. PICK m0 \in messages : m0.id = req[p].id /\ m0.text = req[p].text /\ m0.via = req[p].via
  BY <1>1 DEF SendInv, SendersHold, At, Holding
<1>5. Idle.pc = "idle" /\ Idle.text = None
  BY DEF Idle
<1>6. ChatTypeOK'
  <2>1. relayed' \in Seq(Nat) /\ \A i \in DOMAIN relayed' : relayed'[i] <= Cardinality(messages)
    <3>1. req[p].id <= Cardinality(messages) /\ \A i \in DOMAIN relayed : relayed[i] <= Cardinality(messages)
      BY <1>4 DEF SendInv, ChatTypeOK
    <3>2. CASE relayed' = relayed
      BY <1>2, <3>1, <3>2
    <3>3. CASE relayed' = Append(relayed, req[p].id)
      <4>1. relayed' \in Seq(Nat) /\ DOMAIN relayed' = DOMAIN relayed \cup {Len(relayed) + 1}
            /\ relayed'[Len(relayed) + 1] = req[p].id /\ \A i \in DOMAIN relayed : relayed'[i] = relayed[i]
        BY <1>2, <3>3
      <4> QED BY <3>1, <4>1
    <3> QED BY <1>1, <3>2, <3>3
  <2> QED BY <1>1, <1>3, <2>1 DEF SendInv, ChatTypeOK
<1>7. SendersHold'
  BY <1>1, <1>3, <1>5 DEF SendInv, SendersHold, SendPc, At, Keyed, Holding
<1>8. RecordsAreTrue'
  BY <1>1 DEF SendInv, RecordsAreTrue, SlotOf
<1>9. KeysAreOrderly'
  BY <1>1, <1>3, <1>5, SameStorers DEF At
<1>10. RelayedOnce'
  <2> SUFFICES ASSUME NEW m \in messages PROVE Times(m.id)' \in Relays(m, crashed)'
    BY <1>1 DEF RelayedOnce
  <2>1. m.id \in Nat \ {0} /\ m.via \in Via /\ Times(m.id) \in Relays(m, crashed)
    BY DEF SendInv, ChatTypeOK, RelayedOnce
  <2>2. CASE m.id = req[p].id
    <3>1. m = m0
      BY <1>4, <2>2 DEF SendInv, ChatTypeOK
    <3>2. Underway(m) /\ Times(m.id) = 0
      BY <1>2, <2>1, <2>2 DEF Underway, Relays
    <3>3. ~Underway(m)'
      <4> SUFFICES ASSUME NEW q \in Procs, req'[q].text # None, req'[q].id = m.id PROVE FALSE
        BY DEF Underway
      <4>1. q # p /\ req[q].text # None /\ req[q].id = m.id
        BY <1>3, <1>5
      <4>2. Holding(q)
        BY <2>1, <4>1 DEF SendInv, SendersHold, SendPc, Holding
      <4>3. Holding(p)
        BY <1>1 DEF At, Holding
      <4> QED BY <2>2, <4>1, <4>2, <4>3 DEF SendInv, SendersHold
    <3>4. CASE req[p].via = "socket"
      <4>1. relayed' = Append(relayed, req[p].id)
        BY <1>1, <3>4
      <4>2. Times(m.id)' = Times(m.id) + 1
        BY <1>2, <2>1, <2>2, <4>1, TimesAppend
      <4> QED BY <1>4, <3>1, <3>2, <3>3, <3>4, <4>2 DEF Relays
    <3>5. CASE req[p].via # "socket"
      <4>1. m.via = "rest" /\ relayed' = relayed
        BY <1>1, <1>4, <2>1, <3>1, <3>5 DEF Via
      <4> QED BY <3>2, <4>1 DEF Relays, Times
    <3> QED BY <3>4, <3>5
  <2>3. CASE m.id # req[p].id
    <3>1. Underway(m)' <=> Underway(m)
      BY <1>3, <1>5, <2>3 DEF Underway
    <3>2. Times(m.id)' = Times(m.id)
      <4>1. CASE relayed' = relayed
        BY <4>1 DEF Times
      <4>2. CASE relayed' = Append(relayed, req[p].id)
        BY <1>2, <2>1, <2>3, <4>2, TimesAppend
      <4> QED BY <1>1, <4>1, <4>2
    <3> QED BY <1>1, <2>1, <3>1, <3>2 DEF Relays
  <2> QED BY <2>2, <2>3
<1> QED BY <1>6, <1>7, <1>8, <1>9, <1>10 DEF SendInv

\* A crash ends every request.  The keys of those that had stored their message and
\* not recorded it are among the unrecorded; those that were about to store one
\* leave nothing.
LEMMA CrashKeepsSends == ASSUME SendInv, Crash PROVE SendInv'
<1>1. UNCHANGED <<messages, record, relayed, raced>> /\ crashed' = TRUE
      /\ req' = [p \in Procs |-> Idle]
      /\ unrecorded' = unrecorded \cup {Slot(p) : p \in {q \in Procs : At(q, "record")}}
  BY DEF Crash
<1>2. req' \in [Procs -> Request] /\ \A p \in Procs : req'[p].pc = "idle" /\ req'[p].text = None
  BY <1>1, IdleType DEF Idle
<1>3. ChatTypeOK' /\ RecordsAreTrue'
  BY <1>1, <1>2 DEF SendInv, ChatTypeOK, RecordsAreTrue, SlotOf
<1>4. SendersHold'
  BY <1>2 DEF SendersHold, SendPc, At, Holding
<1>5. KeysAreOrderly'
  <2> SUFFICES ASSUME NEW i \in Keys \X Via, i \notin raced' \cup unrecorded' PROVE Undisturbed(i)'
    BY DEF KeysAreOrderly
  <2>1. Undisturbed(i) /\ \A p \in Procs : At(p, "record") => Slot(p) # i
    BY <1>1 DEF SendInv, KeysAreOrderly
  <2>2. \A p \in Procs : ~Storing(p)'
    BY <1>2 DEF Storing
  <2> QED BY <1>1, <2>1, <2>2 DEF Undisturbed, SlotOf
<1>6. RelayedOnce'
  <2>1. \A m \in messages : ~Underway(m)'
    BY <1>2 DEF Underway
  <2>2. \A m \in messages : Times(m.id) \in {0, 1} /\ (m.via = "rest" => Times(m.id) = 0)
    BY DEF SendInv, RelayedOnce, Relays
  <2> QED BY <1>1, <2>1, <2>2 DEF RelayedOnce, Relays, Times
<1> QED BY <1>3, <1>4, <1>5, <1>6 DEF SendInv

\* The inductive invariant of the messages holds in every reachable state.
LEMMA SendInvariance == Spec => []SendInv
<1>1. Init => SendInv
  <2> SUFFICES ASSUME Init PROVE SendInv
    OBVIOUS
  <2>1. req \in [Procs -> Request] /\ \A p \in Procs : req[p].pc = "idle" /\ req[p].text = None
    BY IdleType DEF Init, Idle
  <2>2. IsFiniteSet({})
    BY FS_EmptySet
  <2>3. messages = {} /\ relayed = <<>> /\ DOMAIN relayed = {} /\ relayed \in Seq(Nat)
        /\ record \in [Keys \X Via -> Nat]
    BY DEF Init
  <2>4. ChatTypeOK
    BY <2>1, <2>2, <2>3 DEF Init, ChatTypeOK
  <2>5. SendersHold
    BY <2>1 DEF SendersHold, SendPc, At, Holding
  <2>6. RecordsAreTrue /\ KeysAreOrderly /\ RelayedOnce
    BY <2>1, <2>3 DEF Init, RecordsAreTrue, KeysAreOrderly, Undisturbed, RelayedOnce, Storing
  <2> QED BY <2>4, <2>5, <2>6 DEF SendInv
<1>2. SendInv /\ KeysInv /\ [Next]_vars => SendInv'
  <2> SUFFICES ASSUME SendInv, KeysInv, [Next]_vars PROVE SendInv'
    OBVIOUS
  <2>0. req \in [Procs -> Request] /\ \A q \in Procs : req[q].text = None <=> req[q].pc \notin SendPc
    BY DEF SendInv, ChatTypeOK, SendersHold
  <2>1. CASE \/ CreateConversation \/ RegisterDeviceKeys \/ UNCHANGED vars
             \/ \E S \in SUBSET KeyId : UploadPrekeys(S)
             \/ \E d \in Device : RevokeDevice(d)
    <3>1. UNCHANGED <<messages, record, relayed, raced, unrecorded, crashed, req>>
      BY <2>1 DEF CreateConversation, RegisterDeviceKeys, UploadPrekeys, RevokeDevice, vars, chat
    <3> QED BY <2>0, <3>1, SideKeeps
  <2>2. ASSUME NEW p \in Procs, BeginBundle(p) \/ SelectPrekey(p) \/ ConsumePrekey(p)
        PROVE  SendInv'
    <3>1. req[p].pc \notin SendPc /\ UNCHANGED <<messages, record, relayed, raced, unrecorded, crashed>>
      BY <2>2 DEF BeginBundle, SelectPrekey, ConsumePrekey, At, SendPc, chat
    <3>2. req[p].text = None /\ req[p] \in Request
      BY <2>0, <3>1
    <3>3. PICK r : req' = [req EXCEPT ![p] = r]
                   /\ \/ r = Idle
                      \/ r = [Idle EXCEPT !.pc = "select"]
                      \/ \E k \in Free : r = [req[p] EXCEPT !.pc = "update", !.id = k]
      BY <2>2 DEF BeginBundle, SelectPrekey, ConsumePrekey, Goto, Finish
    <3>4. \A k \in Free : k \in Nat
      BY MessagingAssumption DEF Free, KeysInv, KeysTypeOK
    <3>5. r \in Request /\ r.text = None /\ r.pc \notin SendPc
      <4>1. CASE r = Idle \/ r = [Idle EXCEPT !.pc = "select"]
        BY <4>1 DEF Idle, Request, SendPc, Via
      <4>2. ASSUME NEW k \in Free, r = [req[p] EXCEPT !.pc = "update", !.id = k]
            PROVE  r \in Request /\ r.text = None /\ r.pc \notin SendPc
        <5>1. k \in Nat
          BY <3>4
        <5> QED BY <3>2, <4>2, <5>1 DEF Request, SendPc
      <4> QED BY <3>3, <4>1, <4>2
    <3>6. req' \in [Procs -> Request] /\ req'[p] = r /\ \A q \in Procs : q # p => req'[q] = req[q]
      BY <2>0, <3>3, <3>5
    <3> QED BY <3>1, <3>2, <3>5, <3>6, SideKeeps
  <2> QED BY <2>1, <2>2, BeginSendKeeps, LookupKeeps, CreateKeeps, SaveRecordKeeps, RelayKeeps,
             CrashKeepsSends
          DEF Next, Arrive
<1> QED BY <1>1, <1>2, KeysInvariance, PTL DEF Spec

\* sendMessage looks an idempotency key up, stores the message, records the answer
\* and relays.  For any number of senders, messages and keys, retries that overlap,
\* records that could not be written and crashes: a second message of a key is the
\* work of one of these three, an answer from idempotency_records is true, and no
\* message is relayed twice.
THEOREM SendsCorrect == Spec => []SentOnce
<1>1. SendInv => SentOnce
  <2> SUFFICES ASSUME SendInv PROVE SentOnce
    OBVIOUS
  <2>1. ASSUME NEW m \in messages, NEW n \in messages, SlotOf(m) = SlotOf(n), KeyOf[m.text] # None,
               SlotOf(m) \notin raced \cup unrecorded
        PROVE  m = n
    <3>1. SlotOf(m) \in Keys \X Via
      BY <2>1 DEF SendInv, ChatTypeOK, SlotOf, Keys
    <3> QED BY <2>1, <3>1 DEF SendInv, KeysAreOrderly, Undisturbed
  <2>2. \A m \in messages : Underway(m) <=> Pending(m)
    BY DEF Underway, Pending, Sending
  <2> QED BY <2>1, <2>2 DEF SentOnce, SendInv, RecordsAreTrue, RelayedOnce, Relays
<1> QED BY <1>1, SendInvariance, PTL
=============================================================================
