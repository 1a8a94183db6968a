----------------------------- MODULE Messaging -----------------------------
(***************************************************************************)
(* Encrypted chat: messages.service.ts and conversations.service.ts over   *)
(* conversations, messages and idempotency_records, the relay of           *)
(* realtime.gateway.ts (chat.message.send), and the one-time prekeys of    *)
(* e2ee-keys.service.ts.  The server sees ciphertext only.                 *)
(*                                                                         *)
(* A request is a slot p of Procs; every await on the database is a step.  *)
(* A refused request changes nothing and is not a step: strangers to the   *)
(* conversation, devices of others, the rate limit.                        *)
(***************************************************************************)
EXTENDS Integers, Sequences, FiniteSets

CONSTANTS Device,            \* devices of the two participants
          Text,              \* messages that clients send
          KeyOf,             \* the idempotency key of a message, or None
          KeyId,             \* numbers of one-time prekeys of a device
          Procs, None,
          MaxMessages,       \* bound: messages stored or under way
          MaxBundles         \* bound: bundles handed out or under way

ASSUME MessagingAssumption == /\ KeyId \subseteq Nat \ {0} /\ None \notin Device \cup Text
                              /\ {MaxMessages, MaxBundles} \subseteq Nat

VARIABLES active,        \* devices that are not REVOKED
          conversation,  \* the conversation of the owner and the driver exists
          messages,      \* stored: [id, text, via]
          record,        \* idempotency_records: the id in the stored answer
          relayed,       \* ids sent to the room of the conversation, in order
          registered,    \* a device has published its identity (device_keys)
          prekeys,       \* keyIds of its prekeys
          consumed,      \* those with is_consumed
          given,         \* bundles handed out: a keyId, or 0 for none
          raced,         \* keys (per endpoint) looked up in vain while another request
                         \* had done so and had not recorded its answer yet
          unrecorded,    \* keys whose answer was sent, or lost in a crash, unrecorded
          crashed,
          req

chat == <<conversation, messages, record, relayed, raced, unrecorded>>
keys == <<registered, prekeys, consumed, given>>
vars == <<active, chat, keys, crashed, req>>

Via == {"rest", "socket"}       \* they are different endpoints of a key
Keys == {KeyOf[t] : t \in Text} \ {None}
Idle == [pc |-> "idle", text |-> None, via |-> "rest", id |-> 0]

Init == /\ active = Device /\ conversation = FALSE
        /\ messages = {} /\ record = [i \in Keys \X Via |-> 0] /\ relayed = <<>>
        /\ registered = FALSE /\ prekeys = {} /\ consumed = {} /\ given = <<>>
        /\ raced = {} /\ unrecorded = {} /\ crashed = FALSE
        /\ req = [p \in Procs |-> Idle]

Goto(p, r) == req' = [req EXCEPT ![p] = r]
Finish(p) == Goto(p, Idle)
At(p, pc) == req[p].pc = pc

-----------------------------------------------------------------------------
(* Conversations and messages *)

\* An upsert on the pair of the owner and the driver.
CreateConversation ==
    /\ ~conversation /\ conversation' = TRUE
    /\ UNCHANGED <<active, messages, record, relayed, raced, unrecorded, keys, crashed, req>>

\* The conversation, the sender's device, the recipient's device.
BeginSend(p, t, via, from, to) ==
    /\ At(p, "idle") /\ conversation
    /\ from \in active /\ to \in active
    /\ Goto(p, [Idle EXCEPT !.pc = "lookup", !.text = t, !.via = via])
    /\ UNCHANGED <<active, chat, keys, crashed>>

Slot(p) == <<KeyOf[req[p].text], req[p].via>>
Keyed(p) == KeyOf[req[p].text] # None
\* p has looked its key up in vain, and has not recorded its answer.
Storing(p) == req[p].pc \in {"create", "record"} /\ Keyed(p)

\* A stored answer goes back as it is; the socket's sender gets its ack, and the
\* room nothing.  Fault: the key is not looked up.
KnownNever(p) == FALSE
Known(p) == Keyed(p) /\ record[Slot(p)] # 0
Races(p) == Keyed(p) /\ \E q \in Procs : Storing(q) /\ Slot(q) = Slot(p)
Lookup(p) ==
    /\ At(p, "lookup")
    /\ IF Known(p)
         THEN Finish(p) /\ UNCHANGED raced
         ELSE /\ Goto(p, [req[p] EXCEPT !.pc = "create"])
              /\ raced' = IF Races(p) THEN raced \cup {Slot(p)} ELSE raced
    /\ UNCHANGED <<active, conversation, messages, record, relayed, unrecorded, keys, crashed>>

NextId == Cardinality(messages) + 1
Create(p) ==
    /\ At(p, "create")
    /\ messages' = messages \cup {[id |-> NextId, text |-> req[p].text, via |-> req[p].via]}
    /\ Goto(p, [req[p] EXCEPT !.id = NextId, !.pc = IF Keyed(p) THEN "record" ELSE "relay"])
    /\ UNCHANGED <<active, conversation, record, relayed, raced, unrecorded, keys, crashed>>

\* The record of a request that was faster stays, and so does the second message.
SaveRecord(p) ==
    /\ At(p, "record")
    /\ record' = IF record[Slot(p)] = 0 THEN [record EXCEPT ![Slot(p)] = req[p].id] ELSE record
    /\ Goto(p, [req[p] EXCEPT !.pc = "relay"])
    /\ UNCHANGED <<active, conversation, messages, relayed, raced, unrecorded, keys, crashed>>

\* Any other error of the INSERT is swallowed too: the sender is answered, and
\* nothing tells the next request of it.
RecordFails(p) ==
    /\ At(p, "record")
    /\ unrecorded' = unrecorded \cup {Slot(p)}
    /\ Goto(p, [req[p] EXCEPT !.pc = "relay"])
    /\ UNCHANGED <<active, conversation, messages, record, relayed, raced, keys, crashed>>

\* The answer; the socket handler also relays the message to the room.
Relay(p) ==
    /\ At(p, "relay")
    /\ relayed' = IF req[p].via = "socket" THEN Append(relayed, req[p].id) ELSE relayed
    /\ Finish(p)
    /\ UNCHANGED <<active, conversation, messages, record, raced, unrecorded, keys, crashed>>

-----------------------------------------------------------------------------
(* One-time prekeys of one device *)

\* An upsert of the keys; the prekeys of an older identity stay.
RegisterDeviceKeys ==
    /\ registered' = TRUE /\ ~registered
    /\ UNCHANGED <<active, chat, prekeys, consumed, given, crashed, req>>

\* createMany with skipDuplicates: a keyId that is there stays as it is.
\* Fault: the upload replaces it, as not consumed.
StillConsumedReset(S) == consumed \ S
StillConsumed(S) == consumed
UploadPrekeys(S) ==
    /\ prekeys' = prekeys \cup S /\ consumed' = StillConsumed(S)
    /\ UNCHANGED <<active, chat, registered, given, crashed, req>>

\* consumePrekeyBundle: the device key is read ...
BeginBundle(p) ==
    /\ At(p, "idle") /\ registered
    /\ Goto(p, [Idle EXCEPT !.pc = "select"])
    /\ UNCHANGED <<active, chat, keys, crashed>>

\* ... the sub-select locks the lowest prekey that is free and that no other
\* statement has locked ...
Lockable(k) == \A q \in Procs : ~(At(q, "update") /\ req[q].id = k)
Free == {k \in prekeys \ consumed : Lockable(k)}
SelectPrekey(p) ==
    /\ At(p, "select")
    /\ \/ /\ Free = {}
          /\ given' = Append(given, 0)
          /\ Finish(p)
       \/ \E k \in Free : /\ \A l \in Free : k <= l
                          /\ Goto(p, [req[p] EXCEPT !.pc = "update", !.id = k])
                          /\ UNCHANGED given
    /\ UNCHANGED <<active, chat, registered, prekeys, consumed, crashed>>

\* ... and the UPDATE consumes it.
ConsumePrekey(p) ==
    /\ At(p, "update")
    /\ consumed' = consumed \cup {req[p].id}
    /\ given' = Append(given, req[p].id)
    /\ Finish(p)
    /\ UNCHANGED <<active, chat, registered, prekeys, crashed>>

-----------------------------------------------------------------------------
\* A device is revoked (Sessions); a request that has checked it goes on.
RevokeDevice(d) ==
    /\ d \in active /\ active' = active \ {d}
    /\ UNCHANGED <<chat, keys, crashed, req>>

\* The process stops; clients send again what was not answered.
Crash ==
    /\ ~crashed /\ crashed' = TRUE
    /\ unrecorded' = unrecorded \cup {Slot(p) : p \in {q \in Procs : At(q, "record")}}
    /\ req' = [p \in Procs |-> Idle]
    /\ UNCHANGED <<active, conversation, messages, record, relayed, raced, keys>>

Sending == {p \in Procs : req[p].text # None}
Bundling == {p \in Procs : req[p].pc \in {"select", "update"}}
Arrive(p) ==
    \/ /\ Cardinality(messages) + Cardinality(Sending) < MaxMessages
       /\ \E t \in Text, via \in Via, from, to \in Device : from # to /\ BeginSend(p, t, via, from, to)
    \/ Len(given) + Cardinality(Bundling) < MaxBundles /\ BeginBundle(p)

Next == \/ CreateConversation
        \/ \E p \in Procs : \/ Arrive(p)
                            \/ Lookup(p)
                            \/ Create(p)
                            \/ SaveRecord(p)
                            \/ RecordFails(p)
                            \/ Relay(p)
                            \/ SelectPrekey(p)
                            \/ ConsumePrekey(p)
        \/ RegisterDeviceKeys
        \/ \E S \in SUBSET KeyId : UploadPrekeys(S)
        \/ \E d \in Device : RevokeDevice(d)
        \/ Crash

Spec == Init /\ [][Next]_vars

-----------------------------------------------------------------------------
Times(id) == Cardinality({i \in DOMAIN relayed : relayed[i] = id})

SlotOf(m) == <<KeyOf[m.text], m.via>>
Pending(m) == \E p \in Sending : req[p].id = m.id

\* Retries of a message, over either endpoint, overlapping or not, with errors and
\* a crash in between.  A key has a second message only if two requests missed
\* each other between lookup and record, or if its answer was never recorded; a
\* recorded answer names a message of its key; and whatever is stored is relayed
\* at most once, what came through the socket exactly once by the time it is
\* answered, unless a crash prevented the answer.
SentOnce ==
    /\ \A m, n \in messages :
         /\ SlotOf(m) = SlotOf(n) /\ KeyOf[m.text] # None
         /\ SlotOf(m) \notin raced \cup unrecorded
         => m = n
    /\ \A i \in Keys \X Via : record[i] # 0 =>
         \E m \in messages : m.id = record[i] /\ SlotOf(m) = i
    /\ \A m \in messages :
         Times(m.id) \in IF m.via = "rest" \/ Pending(m) THEN {0}
                        ELSE IF crashed THEN {0, 1} ELSE {1}

\* A one-time prekey is handed to one requester, however many ask at once and
\* whatever the device uploads again after a lost answer.
PrekeyGivenOnce ==
    \A i, j \in DOMAIN given : given[i] = given[j] /\ given[i] # 0 => i = j
=============================================================================
