# Verification of the distribution backend

TLA+ modules, TLC configurations and TLAPS proofs for the NestJS backend in `src/`: deliveries with their
stops, proofs and conflicts, login sessions, the WebSocket gateway with its heartbeat, calls, routes and their
optimizer, tracking, encrypted chat and emergencies.

The backend is one or more Node processes in front of PostgreSQL (through Prisma, at READ COMMITTED) and Redis.
A handler is a sequence of awaited statements; between any two of them every other request may run, so the
models take one step per statement, or per group of statements that no other request can tell apart.

## Inventory

| Component | State | Operations | What makes it hard |
|---|---|---|---|
| Deliveries (`deliveries.service.ts`) | `deliveries.status`, `driver_id`, audit entries | create, assign, accept, start, cancel, complete, automatic completion | status is read in one statement and written in another; completion evaluates stops that others change |
| Delivery stops (`delivery-stops.service.ts`) | `delivery_stops.status` | depart, arrive, unload, fail, skip | races of a stop update with cancel, completion and override |
| Proof of delivery (`pod.service.ts`) | `proof_of_delivery`, `delivery_events`, `idempotency_records` | submitPod | client retries, idempotency keys, locks taken in the opposite order of an override |
| Conflicts, offline outbox (`delivery-conflicts.service.ts`) | `delivery_conflicts` | syncOutbox, resolveConflict | several operators on one ticket, two overrides of one delivery, repeated batches |
| Sessions (`session.service.ts`) | `sessions`, Redis keys | createSession, rotateSession, revokeTokenFamily, revokeSession, revokeAllUserSessions | concurrent logins and refreshes, reuse of a token during a rotation, keys set before rows |
| Authentication (`auth.service.ts`, `jwt.strategy.ts`) | rate limits; no state of its own otherwise | login, refresh, logout, logoutAll, validate | the guard combines Redis keys and rows |
| Users, devices (`users.service.ts`, `device.service.ts`) | `users.status`, role, `devices.status` | status, role and password changes, register and revoke a device | revocation in several statements, overlapping logins |
| Redis service (`redis.service.ts`) | keys with expiry, the list of uncertain revocations | revocation, rate limit, sequence, SET NX | outages, a crash between INCR and EXPIRE, a bounded list |
| Realtime (`realtime.gateway.ts`, guard, connection manager, room authorizer) | sockets, rooms | connect, heartbeat, join, chat, signals, revocation messages | a lost revocation message, a socket superseded while it disconnects |
| Routes (`routes-domain.service.ts`) | routes, versions, stop sequences | select, reorder | two-phase renumbering under a lock, checks made before the lock, rows of stops that other services hold |
| Optimizer (`route-optimizer.service.ts`, two utilities) | none | permutation search, nearest neighbour with 2-opt | algorithmic edges: one stop, ties, unreachable pairs |
| Calls (`call-session.service.ts`) | `realtime_sessions`, timers in memory | initiate, respond, end, timeout | the timeout races the answer; a restart or an error of its callback loses it |
| Messages (`messages.service.ts`) | `messages` | send, mark | idempotent send under concurrent retries; errors that are swallowed |
| Tracking (`tracking.service.ts`, cache) | location points, latest location in Redis | ingest one, ingest a batch | concurrent retries, points out of order, get-then-set in the cache, errors that are swallowed |
| Emergencies (`emergencies.service.ts`) | `emergencies` | trigger, update | two triggers at once, stale status checks |
| End-to-end keys (`e2ee-keys.service.ts`) | prekeys | upload, consume | two consumers, the last prekey |
| File storage (`file-storage.service.ts`) | files, rows | save, read | object stored and row not |
| Notifications, fleet, health, guards, filters, image normalizer | rows that are written once, or none | I/O and stateless checks | nothing that a model would show |

Interactions: stop operations, submitPod and overrides all decide the outcome of the delivery; the outbox runs
stop operations and submitPod on behalf of an offline driver; logins, refreshes and administration share the
session rows and keys, which the HTTP guard and the gateway read.

The gateway is where most components meet: it reads the session rows (`Realtime` takes the services that
`Sessions` describes as its environment), relays chat after `messages.service.ts` has stored it (`Messaging`
has both), passes telemetry to tracking and signals to calls (`Calls` has the handlers and the service).

## Modules

| Module | Models | Instance for TLC | Theorems |
|---|---|---|---|
| `DeliveryLifecycle` | one delivery: deliveries, stops, proofs and conflicts under concurrent requests | `MCDelivery`, `MCDeliveryLive` (adds a history variable) | `DeliveryProofs` |
| `StopOutcome` | abstract: what is promised about a stop and its proof | | |
| `Sessions` | the sessions of one account under concurrent requests | `MCSessions` (adds a history variable) | `SessionsProofs` |
| `Realtime` | sockets, their validation, the connection manager's maps, rooms, revocations | `MCRealtime` | `RealtimeProofs` |
| `Heartbeat` | ping, pong and watchdog timers of the sockets | `MCHeartbeat.cfg` | `HeartbeatProofs` |
| `Calls` | calls from invitation to end, signals and their anti-replay keys | `MCCalls` | `CallsProofs` |
| `CallOutcome` | abstract: ringing ends once, by one decision | | |
| `Routes` | versions of routes, numbering of stops, idempotency records | `MCRoutes` | `RoutesProofs` |
| `Optimizer` | the two algorithms that order stops, and the choice between providers | `MCOptimizer` | `RoutesProofs` |
| `Tracking` | location points, single and in batches, and the cached latest location | `MCTracking` | `TrackingProofs` |
| `Messaging` | conversations, messages and their relay; one-time prekeys | `MCMessaging` | `MessagingProofs` |
| `Emergencies` | emergencies of a driver and the driver's operational status | `EmergenciesSingle.cfg` | |

Conventions. A request in flight is a slot of `Procs` with a record `req[p]` of what it has read and where it is
(`pc`). Operators whose comment says "Fault:" are plausible wrong versions of the definition that follows; no
specification uses them, they show that a property notices the difference. Checks that only refuse (access,
rate limits, malformed input) are guards: a refused request changes nothing and is no step.

### DeliveryLifecycle

Variables are columns (`dstatus`, `driver`, `sstatus`, `pod`, `idem`, `ticket`), `podEvents` (the number of
POD_SUBMITTED events in `delivery_events`), and `req`, what each request in flight has read and where it is.

* `Begin...` actions are the first read of a handler with its checks. A check that fails throws without effect
  and is therefore no step. Who may call an operation follows the controllers (`@Roles`).
* `AssignWrite`, `AcceptWrite` and `StartWrite` write by id whatever has happened since; `CancelWrite` and
  `ClaimCompletion` are conditional updates that test again, with `...Refused` and `ClaimLost` for zero rows.
* The conditional UPDATEs of a stop test two tables, and at READ COMMITTED the two tests differ: the sub-select
  on the delivery is made on the snapshot of the statement, the row of the stop is tested again once it is free.
  So they are two steps, `StopScan` and `StopWrite`, `PodScan` and `PodClaim`, and a cancellation may come between
  them.
* `PodScan`, `PodClaim` and `PodCommit` are submitPod's transaction, split where another request can meet its locks: the
  idempotency key is held from the scan and the stop from the claim to the commit. `OverrideClaim`, `OverrideStop` and
  `OverrideCommit` are resolveConflict's, which locks the ticket and the POD row first and the stop second.
  What a transaction writes becomes visible at its commit.
* After a stop is failed, skipped or delivered the same request goes on to `Evaluate` and `ClaimCompletion`.
* `Fail` ends a request anywhere (crash, error, timeout): its open transaction leaves nothing.
  `DeadlockVictim` is PostgreSQL's deadlock detector for submitPod against an override.

A ticket records the stop named by the client's event and whether the event has a receiver name, which is what
decides whether an override stores a proof. File ids, notes, names and times are left out.

### Sessions

Variables: `role` (a driver, or a role with a limited number of sessions), `status`, `dev` (device status), `sess` (state, token family, parent, device per session), the Redis
keys `sessKey` and `userKey`, and `req`.
Sessions are numbered in order of creation, which is also the order of `last_refreshed_at` among active ones,
since a refresh revokes its session and inserts another. The parent of a session is not a column: it observes
which token was exchanged for it.

* A multi-row UPDATE chooses its rows when it starts (`victims`) and then waits for rows that a rotation holds;
  rows inserted meanwhile are not touched. `StartRevocation`, `ReuseDetected`, `LoginUpdate` are the starts,
  `ApplyRevocation`, `LoginCommit` the ends.
* A driver's login holds the user row FOR UPDATE from `LoginLock` to `LoginCommit`. Every insert of a session
  takes FOR KEY SHARE on the user row for its foreign key, so `RotateCommit` and `LoginCreate` wait for it
  (`UserFree`). That lock, which the code does not mention, is what keeps a rotation from adding a second
  active session behind the back of a login.
* An expired refresh token is treated by the code as a reused one; `BeginRefresh` may find any active session
  expired.
* `BeginRevokeAll` stands for logoutAll, password reset and role changes. The role is either of the two and
  stays what it is within a behaviour: a change to or from DRIVER is not modelled.

### Realtime

Code between two awaits of a Node process runs to its end, so it is one step; each read of the validation is a
step of its own. `op[s]` is the handshake or handler in progress on socket `s`, with the reads still to come and
`fresh`, whether the session was live when it began (an observation, not a field of the code).

* `BeginHandshake`, `HandshakeRead`, `HandleConnection`: `validateHandshake` reads one after the other, then
  `registerSocket` supersedes an older socket of the driver. `BeginOp`, `ValidateRead`, `TokenExpired`, `Refuse`,
  `Validated`: `validateSocket` reads in parallel, and a refusal closes the socket.
* `KeyAnswers`: Redis out of reach or a key that expired answers as if there were no key, so only rows refuse
  for certain.
* `TearDown` is every way to close sockets with the removal from all maps; the five maps are variables.
* `BeginRevocation`, `FinishRevocation`: the services change devices or accounts first and sessions later;
  the message on `security:revocation` may be lost. `HandleRevocation` closes what the maps name.
* `Authorize` and `JoinRoom`: the row is read, then the room joined; the socket may be closed in between.

### Heartbeat

Timers count down in ticks; a timer that is due fires before time goes on, and what is due at one instant comes
in any order. A client is `prompt` (its pongs arrive in time), `slow` or `silent`. The module assumes the watchdog
shorter than the interval, as the defaults (10 s, 25 s) are: otherwise every ping would re-arm it.

### Calls, CallOutcome

`status`, `expiresAt` are columns of `realtime_sessions`; `timer` and `firing` are the `setTimeout` of a call and
its callback after it has read the row; `nonce` and `seqKey` are Redis keys with their expiry. Answer and timeout
are conditional UPDATEs on PENDING (`Respond`, `HandlePendingTimeout`); the hang-up is not (`EndCallSession`).
A signal goes through authorisation, the clock skew, `SET NX` of its nonce, the sequence script and the relay
(`BeginSignal`, `ClaimNonce`, `VerifySequence`, `RelayIce`). Redis may fail and recover, the process restart, and
the callback of a timeout meet a database error, which the code logs and forgets (`TimeoutFails`); `dropped` names
the calls whose timeout was lost that way.

### Routes

`selectRoute` and `reorderStops` share `Begin` (the read, the lookup of the key, the checks) and the transaction:
`LockRouteMutation`, `InsertKey`, `UpdateStop` (for each stop of `reorderStops`, the wait for its row), `ReadVersion`,
`Commit` (with what the parking and renumbering of stops leaves), `Conflict` for a request that lost the key,
`BroadcastRouteUpdated` after the commit. The first numbers of stops are a client's: positive and different, with
gaps or not. `TakeStop` and `LeaveStop` are the transactions of other services that hold a stop, some of which need
the row of the delivery before they end (submitPod for the foreign key of its event, an override to complete the
delivery): a circle with `reorderStops` is possible, and PostgreSQL rolls back either side (`Abort`,
`BreakDeadlock`). `Abort` is also Prisma's time limit of a transaction; with a key, the code takes it for a repeated
request (`isUniqueConstraintError` accepts every known error) and looks the stored answer up. `failed` collects the unique
constraints a request would run into. The endpoint stored with a key is the literal `:id` path, so a key is
shared by all deliveries: `record` is indexed by key and endpoint only.

### Optimizer

A deterministic computation (`OptSpec`), one step per phase, per order tried by the exhaustive search and per
2-opt round. Durations are whole numbers, so the improvement threshold of a millisecond is 0. The reference definitions (`ExhaustiveIsOptimal`: no order is
better, ties by distance and then ids; `TwoOptSettles`: no reversal improves, unless the cap on rounds was hit)
quantify over all orders and all reversals.

### Tracking

A report runs through lookup, rate limit, read of the previous point, validation, INSERT, record, read and write
of the cache, and broadcast; a batch sends its points through the same pipeline one after the other. REST, the
socket and the batch store different endpoints with a key, so each has its own record; REST and socket share a rate
limit. Any call may fail, and the module has what the code makes of it: a rate limit that cannot be counted admits
(and never ends if the error came between INCR and EXPIRE, `Admitted`), a GET that fails is a miss (`Read`), a SET
that fails is dropped (`CacheSet`), a record that cannot be written is forgotten (`RecordFails`), any other query
ends the point (`QueryFails`). `raced`, `unrecorded` and `setBack` observe when two requests missed each other, when
a stored row got no record and when the cache lost or did not get a point. Places are numbers on a line: the distance
is all the speed check uses.

### Messaging

`BeginSend`, `Lookup`, `Create`, `SaveRecord`, `Relay` are `sendMessage` and the gateway's handler around it; REST
and socket are different endpoints of a key. `RecordFails` is the error of the record that the code swallows.
`raced` and `unrecorded` observe the same as in `Tracking`. `SelectPrekey` and `ConsumePrekey` are the two halves of one
statement (sub-select with SKIP LOCKED, UPDATE).

### Emergencies

The read of open emergencies, then one transaction; updates read the status, then write it by id.

## Runs

| Run | Bounds | Checks |
|---|---|---|
| `delivery_safety` | 2 stops, 1 driver, 2 keys, 1 ticket, 2 requests, failures | types, outcome, finished stops stay, late updates under a closed delivery drain, one proof per stop, true stored answers, refinement of `StopOutcome` (1.1 million states) |
| `delivery_live` | 2 stops, 1 key, 1 ticket, 2 requests, fairness | every request ends; the last stop closes the delivery |
| `sessions_safety` | both roles, 4 sessions, limit 2, 2 requests, failures | types, one active session of a driver, a token is exchanged once, the newest of a family is the active one, requests one after another keep the limit |
| `realtime` | 2 sockets, 2 sessions (a driver's, an owner's), 1 room, 1 administrative event, 1 handler, fairness | types, exact maps, one socket per driver, refusal of what was over, revocations reach all, a revoked socket is closed on its next message |
| `heartbeat` | 2 sockets, interval 3, timeout 2, latency up to 5 | no timer without its socket, prompt clients stay, silent ones go |
| `calls` | 1 call, 3 signals of which 2 are sent, 2 handlers, clock to 3, 1 fault | types, no replay, order, acceptance, refinement of `CallOutcome`, ringing ends |
| `routes` | 2 deliveries of 2 stops numbered 1 and 3, lists in both orders, 1 key, 2 requests, 3 routes, 1 stop held by another service, roll-backs, 1 crash | complete and dense versions and numbers of stops, one route per key, no unique failure, no circle of waiting requests (1.8 million states) |
| `optimizer` | 0 to 5 waypoints; all symmetric matrices of two values, asymmetric ones for five | both algorithms against their references |
| `tracking` | 4 points, 3 endpoints, 2 batches, 2 requests, clock to 1, 3 rows, 1 failed call or crash | a second row of a key only by a race or a lost record, newest point in the cache until it is set back (4.0 million states) |
| `messaging` | 2 texts, 2 devices, 2 messages, 2 prekeys, 3 bundles, 2 requests, records that fail, 1 crash | a second message of a key only by a race or a lost record, relayed once, prekeys handed out once |

Two requests are enough for each race listed: every violation found involves at most two in flight. Two stops
let one be finished while the other is open. A limit of 2 in place of 5 lets eviction happen with few sessions;
the code uses the limit only as a number. Sessions of one device suffice because a device only selects which
rows a revocation touches. Two sockets let one supersede the other, of the driver or not. In `calls` the nonce
lives 2 ticks and the skew is 1, so a signal can be sent again after its nonce has expired; the hour of the
sequence key is longer than the clock runs. `MaxFaults` bounds failed calls: one is enough to break a conclusion that
depends on none. `MaxStopTx` is one, since a request waits for one stop at a time. In `optimizer` the exhaustive search serves up to 4 waypoints in
place of 5, so that 2-opt is reached with matrices that can be enumerated, and the cap of 2 rounds is hit by
some of them. Bounded ids, routes, messages and clocks run out, so the runs of those modules do not check
deadlock (`CHECK_DEADLOCK FALSE`); the delivery runs and the heartbeat do.

`sessions_safety` identifies states that differ only in Redis keys (`VIEW RowsOnly`). That is sound because
no action but the expiry of a key reads a key, and the properties checked mention keys only in the types of
`TypeOK`, which `SessionTypes` proves.

Fairness. Nothing is assumed about clients or administrators: no request is ever bound to arrive.

* Delivery (`Fairness`): a statement that has been sent to the database is executed in the end. Strong fairness
  per request, because a waiting statement can be overtaken again and again between tests of its guard, while
  PostgreSQL serves the queue of a row lock in order; weak fairness of the deadlock detector, which runs
  whenever a wait lasts. The liveness run has no failures: a crash between the commit of the last stop and its
  evaluation does leave the delivery EN_ROUTE, and no job in the code repairs it.
* Realtime: queries that were issued complete and a message that was received is handled (weak fairness).
* Heartbeat and Calls: the event loop runs timers that are due, and time passes (weak fairness). In `calls` the
  clock is bounded above the ring time; `RingingEnds` names the two losses of a timeout, a restart and a database
  error in the callback, as the only ways to ring on.

### Where code and documents disagree

Each of these runs checks one sentence of a document or a comment, and TLC finds a short counterexample.
PROJECT.json quotes the lines.

| Run | What happens |
|---|---|
| `delivery_stale_write` | an assignment that read the delivery before it was cancelled writes ASSIGNED over the cancellation; accept and start write by id in the same way |
| `emergencies_single` | two alarms of one driver both find no open emergency, and both are stored |

### Observations

Met while modelling, without a run of its own. Some are steps the models have (the properties say what remains
true), some are consequences of code the models take as it is.

* Deliveries: an acceptance whose check came before a reassignment leaves the delivery ACCEPTED with the new
  driver; two operators who both read an OPEN ticket both resolve it, and the second resolution replaces the
  first; two concurrent overrides can finish the last two stops and leave the delivery CANCELLED; an override of
  an event without a receiver name delivers a stop without storing a proof; a stop update or a submitPod that waits
  for the row of its stop still succeeds when the delivery is cancelled meanwhile, although the comment at
  `pod.service.ts:107` says "Claim the stop only while its parent delivery is operational" (`LateUpdatesDrain` says
  what is left of it); when all stops are skipped before
  the delivery is started, no later request evaluates its completion.
* Outbox and storage: a batch of outbox events that is repeated creates a second ticket for the same event; a
  stored object whose row failed stays behind when the compensating delete fails too; a crash or an
  error between INCR and EXPIRE leaves a rate limit without expiry, and the driver locked out for good.
* Sessions: two overlapping logins of a role other than DRIVER exceed the limit; the child of a rotation in
  flight survives the revocation of its family; the key `revoked:user` rejects tokens of a later login until it
  expires; createSession and revokeDevice set the key of a session before they revoke its row, and a failure in
  between leaves an active session whose tokens are rejected; registerPushToken makes a REVOKED device ACTIVE.
* Realtime: a revocation whose message is lost closes the socket only with its next message; until then the
  socket stays in its rooms. A socket that was closed while its join was authorised is added to a room again.
* Calls: the invitation goes to the room `driver:<id>`, which no client can join; the owner may accept the call
  he started; a hang-up overwrites DECLINED and TIMEOUT; a restart loses the timer, and an error in
  its callback is only logged (`call-session.service.ts:323`), so the call rings in the table; a signal that was
  authorised before a hang-up is relayed after it.
* Routes: the terminal check precedes the lock, so a route may be stored for a delivery that has ended;
  broadcasts may come out of the order of versions; because the stored endpoint is the literal path, the same key
  for another delivery returns the route of the first; selecting a route does not renumber the stops;
  `reorderStops` can deadlock with submitPod and with an override of the same delivery (delivery then stop, against
  stop then delivery), which PostgreSQL breaks by an error in one of them; the stops keep a client's numbers, gaps
  included, until the first manual order.
* Optimizer: legs that OSRM reports as null count as 0; the provider of the geometry may differ from the provider
  of the matrix that the answer names.
* Tracking: attempts that overlap store two rows and are both told of their own, although the code calls the lookup
  "Race-Safe" (`tracking.service.ts:104`) and `api/TELEMETRY-API-CONTRACT.md:46` says that the unique constraint
  "catches it and returns the original cached response"; a crash between INSERT and record, or any error of the
  record, makes a retry store another; the read of the driver at `tracking.service.ts:199` is outside the try, so its
  error rejects a point whose row is stored; an overlapping report or an error of the GET lets an older point replace
  a newer one in the cache; points marked as anomalies are cached as the latest location, while `02-SRS.md:259` has
  the backend "distinguish latest valid location from untrusted/raw submissions" and `06-API-REALTIME.md:352` has
  them flagged "rather than becoming the latest authoritative location"; the broadcast of a batch may name a point that
  was rejected.
* Messaging: sends that overlap, or that follow a send whose record failed, store and relay a second message, although
  `messages.service.ts:100` calls the check race-safe; a crash after a message is stored and before it is relayed loses the relay, and the retry is
  answered as sent; messages sent over REST are not relayed; prekeys of an older identity are still served after
  the keys were replaced; markMessageDelivered and markMessageRead have no caller.
* Emergencies: an acknowledgement that read an open emergency overwrites a resolution made meanwhile; resolving
  one emergency frees the driver although another is open; the alert is sent before the transaction commits.

## Proofs

The theorems hold for every value of the constants: any number of stops, drivers, keys, tickets, sessions,
devices, sockets, deliveries, signals, prekeys, messages, points, waypoints and request slots, with and without failures. They rest on the
named assumptions of the modules, which TLC evaluates on every run: `None` is none of the other values, functions
given as constants have their types, a driver belongs to one user (`drivers.user_id` is unique), the watchdog is
shorter than the interval, a batch of locations is not empty (`@ArrayMinSize(1)` of the DTO).

`DeliveryProofs`. The type invariant is strengthened by `RequestShape` (what a request carries at each point).
`OutcomeMatchesStops` is not inductive: the outcome is stored a step after the stops were read. It becomes so with
`DecisionsHold`: a decision in flight still fits the stops, because finished stops stay finished and a delivered
stop stays delivered. The proof-of-delivery invariants rest on the exclusion of open transactions
(`LocksExclusive`, from the types alone) and on what waits behind a claim (`ClaimedStopWaits`), since two claims of
one stop, or of one key, would both commit. `LateUpdatesDrain` needs `OutcomeMatchesStops`: under a COMPLETED or
FAILED delivery every stop is finished, so the second test of a late UPDATE refuses it. The action properties and the refinement of `StopOutcome` follow step by step from these;
the mapping is the identity on statuses and proofs.

`SessionsProofs`. The inductive invariant `IInv` has the table on its own (`RowsOK`: ids in order, an exchanged
token is revoked, at most the newest of a family is active), the agreement of requests with the table
(`RequestsFit`: a claimed session is still active, and a login that has started its UPDATE has seen every active
session) and the exclusion of locks. The last two are what `SingleActiveDriver` needs: nobody inserts while a
login holds the user row, so revoking what it saw revokes everything. The table is handled by three lemmas, one
per kind of write (none, revoke, revoke and insert), and each action is reduced to one of them.

`LimitHolds` is about `MCSpec`, which adds to `Sessions` the history variable `alone`: no two requests have
overlapped so far. The count of active sessions alone is not inductive, since the INSERT of a login follows its
eviction. `LimitInv` adds that while `alone` holds one request runs at a time, and that a login about to write
leaves, without the sessions it chose to revoke, at least one place free (`RoomForOne`). That the choice is large
enough is a lemma about `Oldest` on its own (`OldestBound`): without its k oldest a finite set has at most the
others left, since the number of earlier elements tells the remaining ones apart.

`RealtimeProofs`. `Places` says where a handshake or a handler may stand: a socket in a handshake is in no map,
and a session found over when the validation began stays over, so the read of its row, which is still to come,
refuses it (`RevokedBeforeIsRefused`). `DriverMap` adds that the driver map names a socket under its own driver;
without it, superseding one driver's socket could take another's entry away. The maps are handled by three lemmas:
a step that connects and closes nobody, a tear-down, a registration. `RevocationReachesAll` follows from the maps.

`HeartbeatProofs`. The pong of a prompt client always has less time to go than the watchdog armed with its ping.

`CallsProofs`. The refinement of `CallOutcome` needs only that requests name calls that exist, since each
decision is a conditional UPDATE. `SequenceInv` relates the relayed signals to the sequence keys: what a sender
has had relayed is at most its last number, ICE candidates waiting between the script and the relay included.
`ReplayCorrect` and `OrderCorrect` assume that the clock stays below the lifetime of the sequence key: after an
hour without a signal the key is gone, and only the clock skew protects then.

`RoutesProofs`. `Base` says that requests in a transaction carry a list that was checked, that row locks belong
to open transactions, that versions are dense and that a request about to commit has the next one. `KeyInv` adds
that records and routes match, and that a key not yet committed is held by one request. The row of the delivery is
taken first and one request holds it, so a request with a key or a stop waits for nobody that waits for its row,
which gives `NoCircularWait`: the order in which lists name the stops does not matter. `StopsAreNumbered` relates the
stops to the newest manual order, from any first numbers.

`RoutesProofs` extends `Optimizer` as well and holds the proofs about the recommendation. `TwoOptInv` says what each
phase has: a path without repetition while neighbours are added, a complete tour afterwards, and no improving
exchange once a round has found none. The work is in `SwapIsReversed`: the three slices `perform2OptSwap` joins are
the tour with one part reversed, element by element, so that it is still a tour and the search has looked at every
reversal. The lengths of tours are never computed: the result does not depend on the matrix.

`ExhaustiveCorrect` needs them. The loop keeps the best of the orders tried so far (the invariant), which says
something only because the comparison is a strict total order on the tours: `BetterTransitive` and `BetterTotal`,
from the same facts about lists of ids (`SeqLessTransitive`, `SeqLessTotal`), from the ids being different, and from
the length of a tour being a number (`AlongIsNumber`; the sum is a recursive function, whose existence is shown from
the least place where it could fail). `BetterIsFirst` then turns the nested comparison of the code into the
lexicographic one of the reference. Three assumptions of `Optimizer` are used: ids differ, a matrix has a whole
number for every leg, and `GeneratedAssumption`: for 2 to 5 waypoints `generatePermutations` makes every order that
starts at the origin. The last one has no constant in it and speaks of four sizes, so TLC decides it by evaluation
at the start of the run; more than five waypoints never reach that function.

`MessagingProofs`. Between its sub-select and its UPDATE a statement holds a prekey that is not consumed and that
no other statement holds (`HeldPrekeys`), and what was handed out is consumed; an upload gives nothing back.
`SendInv` is the invariant behind `SentOnce`: senders hold different messages (`SendersHold`), a recorded answer names
a message of its key, a message is relayed zero times while its sender is under way and at most once afterwards, and
of a key that was neither raced for nor left without its record at most one message exists, which is recorded or
about to be (`Undisturbed`). What makes the last part inductive is that a request which looked such a key up in vain
is the only one between lookup and record.

`TrackingProofs`. `TrackInv` has the same shape for location points (`KeysAreOrderly`, `ToldAreTrue`). For the cache,
every row is covered by the cached point or belongs to a request on its way to the cache (`CacheCovers`), and
what a request read of the cache is not newer than what is there (`SeenIsOld`), both until `setBack`: the comparison
and the SET are two calls to Redis, which is where overlapping requests lose the newer point.

### Liveness: what is proved of it

Every invariant and action property of the passing runs is stated by a theorem. The five liveness properties are
checked by TLC only, since the prover has no rules for fairness. For each of them the part that does not need
fairness is a theorem, for every value of the constants:

| property | theorem | what is left to fairness and TLC |
|---|---|---|
| `RequestsFinish` | `NeverAllStuck`, `CyclesAreBroken`: a request waits for a transaction further along in the lock order (`LockLevel`), or within a pair that the deadlock detector breaks, so of those in flight one can always go on | that it does go on |
| `LastStopCloses` | `CompletionIsNotLost`: after the last stop a request is on its way to close the delivery, and each step of it closes the delivery or leads to the step that does | that this request takes its next step |
| `RevokedSocketClosesOnUse` | `DoomedCorrect`: the handler of a session that was over when it began can only end its reads, be refused and close; `ClosedIsFinal`: a closed socket stays closed | that the reads are answered |
| `SilentClientCloses` | `SilenceIsBounded`: the time a silent client has left (`Left`) is at most an interval and a timeout, and each tick takes one off it | that time goes on and due timers fire |
| `RingingEnds` | `RingingIsBounded`: a ringing call has its timer or its callback, its expiry does not move, and only a restart or an error of the callback loses them | the same |

`CompletionIsNotLost` is stated for `Failures = FALSE`, as the run of `LastStopCloses` is: a crash between the commit of
the stop and the evaluation loses the completion (see the hazards), and the theorem is false with it. It is about
`LiveSpec`, so `DeliveryProofs` extends `MCDeliveryLive`, which adds the history variable `due`. `RingingIsTimed` needs
`FiringIsDue`: a callback that is on its way and still finds its call ringing comes after the expiry.
`SilenceIsBounded` needs `WatchdogFirst`: an armed watchdog ends before the next ping would arm it again, which is
where the assumption that the timeout is shorter than the interval is used.

## Not modelled

* Cryptography: token signatures, passwords, TURN credentials, ciphertext.
* The HTTP client of OSRM and great-circle geometry: `Optimizer` takes any matrix as their answer.
* Image decoding, file storage, notifications: one request that writes data nobody else changes, without retries.
* Fleet queries, lists, health checks: they only read. Guards, filters, formatting and logs: no state.
* `jwt.strategy.ts`: it reads the same rows and keys as the guard of the gateway, which `Realtime` has.
* The batch of the offline outbox with its acknowledgements: the client that repeats it is not in the repository.
* A change of a role to or from DRIVER, which would change the session policy of the account within a behaviour.
* The list of uncertain revocations in the Redis service: it only turns an answer into
  "unknown", after which the rows decide, and `Realtime` takes a key as found or as not found.

Still worth doing: properties of role changes in `Sessions`.
