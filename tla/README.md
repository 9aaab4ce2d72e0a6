# Formal models of autopush-rs

TLA+ models of Mozilla's Web Push service, with TLC runs that check them on
small instances and TLAPS proofs that hold for every size. Source paths below
are relative to the repository; `PROJECT.json` maps every definition to the
lines it models.

## The system and its parts

A push service stands between *application servers* (senders) and *user
agents* (clients).

| Part | Where | State it keeps | Operations | Module |
| --- | --- | --- | --- | --- |
| Push requests | `autoendpoint/src/extractors`, `routes/webpush.rs` | none between requests | check the token, the sender's key and claims, the headers; store; message ids; delete | `PushRequest` |
| WebPush router | `autoendpoint/src/routers/webpush.rs` | one request's copy of the user record | `PUT /push` to the user's node, store, look up again, `PUT /notif`, `remove_node_id` | `Delivery` |
| Mobile bridges | `autoendpoint/src/routers/{fcm,apns,adm}`, `routes/registration.rs` | the user's token in its record | register, update, unregister; send, handle the service's answer | `Bridge` |
| ADM client | `autoendpoint/src/routers/adm/client.rs` | a cached access token under a lock | get a token, send | `AdmToken` |
| Client registry | `autoconnect-common/src/registry.rs` | uaid -> channel of its session | `connect`, `notify`, `check_storage`, `disconnect` | `Delivery` |
| WebSocket handler | `autoconnect-ws/src/handler.rs`, `unidentified.rs` | notification stream, socket | hello, select loop, shutdown | `Delivery`, `UserRecord` |
| WebPush session | `autoconnect-ws-sm/src/identified` | flags, unacked direct and stored notifications, read pointer | check storage, ack, notification, increment, message limit, shutdown | `WebPushClient` |
| Ping manager | `autoconnect-ws/src/ping.rs` | ToPing / ForPong, a timer | tick, ping or broadcast, pong | `Broadcast` |
| Broadcast tracker | `autoconnect-common/src/broadcast.rs`, `megaphone.rs` | id table, versions, revision list, change count | add, update, deltas, subscribe; a task polls Megaphone | `Broadcast` |
| Bigtable client | `autopush-common/src/db/bigtable` | user rows, message rows | conditional writes, reads merged from chunks | `UserRecord`, `MessageTable`, `RowMerger` |
| Dual client, DynamoDB client | `autopush-common/src/db/{dual,dynamodb}` | a user in one database or both | migration at the first read, mirrored writes, fallbacks | `DualDb` |
| Legacy sessions | `autopush/src/client.rs`, `db`, `server/registry.rs` | state machine of a client, monthly tables | hello, deferred registration, storage, rotation, shutdown | `LegacySession` |
| Legacy connections | `autopush/src/server` | sockets, timers, ping manager, connection count | accept, handshakes, polls, pings, close | `LegacyServer` |

How they interact: autoendpoint reads the user record, calls the HTTP routes of
the autoconnect node it names, and writes the message table; a node's routes
push into the registered session's channel; a session reads and writes the user
record and the message table, and when it ends a detached task saves what it
had not got acked and calls the node the user has moved to. Nothing coordinates
these actors except the conditional writes to the user record.

What is hard about it: two connections of one user overlap, on one node or on
two; a request between servers can be applied and reported as failed; each
database call is a point where everybody else runs; messages expire while they
are unacked; a session's stream, its in-memory notifications and the storage
must hand over to each other without a gap; a user is copied from one database
to another while it is used. `PROJECT.json` lists these hazards at the lines
where they bite, with the properties that watch them.

What makes each part correct:

* delivery: a notification answered with 201 is never lost to any interleaving
  of sessions, only to a crash or a failed save; the registry and the sessions
  agree; a stale router never disconnects a new connection;
* session storage: the read pointer never passes a message the client has not
  had, a read always reaches the end of storage, acked messages are not sent
  again, topics keep their latest message;
* broadcasts: no change is lost to a subscriber, and every subscriber ends up
  with the current version;
* database: a record is never put back by an older one, what is read is what
  was written, a migration loses nothing and brings nothing back;
* endpoint: only the holder of the subscription's key is let in, no notification
  puts an older token of a device back, only a device that is gone is forgotten;
* legacy server: as autoconnect, and polls of the reactor's one thread return.

## Modules

### `Broadcast`: one node's broadcast tracker and its sessions

`table`, `broadcast_versions`, `broadcast_list` and `change_count` are the
fields of `BroadcastChangeTracker` (keys are 1-based). The updater task is
three steps: the poll answers, the write lock is obtained, and one
`add_broadcast` per broadcast of the response, in any order, during which no
session can read (`ReadLocked`). A session has its `BroadcastSubs`, the
`PingManager` state and `held`, the versions its client has once it has read
its socket. `Hello`, `Subscribe` and `Tick` ask the tracker for deltas exactly
as `broadcast_init`, `broadcast_subscribe` and `ws_ping_or_broadcast` do; a
tick in `ForPong` ends the session. Megaphone itself is external.

### `WebPushClient`: a user's sessions and its stored messages

Messages are numbered in the order in which they were stamped, with a
sortkey in milliseconds (`time`); rows of one millisecond are ordered by channel,
or are one row. A session is a record with the fields
of `WebPushClient`, `ClientFlags` and `AckState` and a `phase`, the database
call its handler is at: `check_storage_loop` is unrolled into `FetchTopics`,
`PurgeTopic`, `FetchTimestamps`, `IncrementStorage` and `ResetUser`, with the
publishers, the expiry of messages and the other sessions running between any
two. `AfterFetch`, `EnterLoop`, `PostProcess` and `AfterAck` are the control
flow between the calls. `unacked_stored` counts copies, because a CheckStorage
in the middle of a batch sends messages again and each copy is acked. A
timestamp message is stamped (`Stamp`, `StampSaved`) and written (`Store`) in
two steps, so that writes overtake each other and reads, and a read's limit may
cut a millisecond in two, of which the next read sees nothing more: the history
`overtaken` names the messages that either has happened to. `Expire` first makes a message expired for the session's filter and then unreadable. Any
database failure is `Drop`: the handler's error ends the session.

### `Delivery`: router, registry, sessions and the saving task

The user record (`exists`, `node_id`, `connected_at`, `version`), the message
table as a set, each node's registry, each connection and each request.
`Connect` is hello, one step per call: `connected_at` is taken, `get_user`,
the conditional `update_user`, the first check of storage, registration (which
ghosts an older session of the user on that node). `Route` is
`route_notification`, one step per call it awaits, with the three outcomes of
a `PUT`: accepted, refused, or an error of which the node may or may not know.
`Cleanup` is the end of `webpush_ws`: leave the registry, close and drain the
stream, save what is unacked, look the user up and notify its new node.
`Failures` enables errors of calls; `Crash` loses a node's memory. The version
of the record is a counter where the code draws a random UUID: both are unique
per update. Storage is abstract here (a check sends all rows, an ack deletes
one): `WebPushClient` is the detail of that.

### `Mailbox` and `DeliveryMailbox`: what delivery promises

`Mailbox` is the service as a sender sees it: a notification is taken in while
its sender waits, and from the answer on it is held until it is acked, its TTL
of 0 passes or a failure loses it; what is no longer held does not come back.
`DeliveryMailbox` maps `Delivery` to it: promised is what was answered, held is
what is in storage or in the memory of a session that is not done. TLC checks
`ImplementsMailbox`, the refinement, and `DeliveryProofs` proves it.

### `UserRecord`: the Bigtable row of a user

A row maps columns to cells with the time their request was built. A call is
built, applied and answered in three steps, either way may be lost, and it is
then sent again as it was (`retry_policy`). Tasks are sessions that say hello
(`get_user`, `add_user`/`update_user`), register channels and move
`current_timestamp`, routes that change a token, and endpoints that clear a
node or drop the user. `get_user` removes a row that only has what a late
`increment_storage` or `add_channels` wrote (`is_incomplete_router_record`).
`update_user` and `remove_node_id` compare the version; a write that gives the row
a new version generates it once and writes the same one at every attempt.
`AnswersLost` says whether a request that was applied may be tried again.
All clocks are one clock: with clocks that differ by more than the time between
two writes, a node that is behind writes cells nobody reads.

### `MessageTable`: the row of a topic

The messages of a topic share a row. The cells of a message carry its expiry as
their Bigtable timestamp; a read takes the highest of each column and then
drops what has expired, in this order. Saves are in flight together, are
applied in any order and may be applied twice.

### `RowMerger`: the chunks of a read

The state machine of `merge.rs`, one operator per method, fed by any stream the
ReadRows protocol allows: cells that leave out a repeated family or qualifier,
several versions, split values, rows that are reset and sent again, a stream
that fails or stops anywhere. The server is external.

### `DualDb`: migration from DynamoDB to Bigtable

`primary` and `secondary` hold one user with channels and messages. A dual
operation is a program, the sequence of calls `dual/mod.rs` makes (`Program`),
run one call per step by tasks that interleave; a call may fail (`Failures`),
done or not. `GetUser` to `AddMigrated` are the migration of `get_user`. The
calls of each database have its own conditions: a version in Bigtable,
`connected_at` in DynamoDB. The user's row in the DynamoDB message table is
taken to be there.

### `Bridge`: mobile users

One app, its device, the user's row and the notifications under way. The app
makes one request at a time: it leaves the app (`Register`, `Request`) with what
the app has then, the server reads the user (`RegistrationPathArgsWithUaid`),
and each route of `registration.rs` is an action with its calls, any of which
may fail or be applied and answered with an error. A notification reads the user (`Subscription`), is sent
(`route_notification`: `FcmSend`, `ApnsSend`, `AdmSend`), answered by the
service (external: `Accepted`, `Refused`, `Troubled`), and `HandleAnswer`
removes the user, stores a new ADM registration id, or reports an error. An app
id that was taken out of the configuration (`Troubles`) is refused by `register`
and by the router that should send: with 410 by FCM and ADM, 400 by APNS.

### `AdmToken`: the access token of ADM

Requests that share one cached token: `get_access_token` under the lock, the
request for another, its answer or failure, and the way of a notification to
ADM. Time passes in units; an answer or a notification is never longer on its
way than `MaxDelay`, and two ways fit the margin of 60 seconds.

### `PushRequest`: the extractors

A request on its way to the row of an offline WebPush user, one step per await:
the user, its channels, the body. `TokenResult`, `validate_vapid_jwt`,
`HeadersResult`, `ValidateFields` and `validate_encryption` keep the order of
the checks and the status each ends with; a database call or the body may fail
(`ExtractorFails`). Fernet, signatures and JSON are
external: a token is the value it encrypts. `Leeway` is the default 60 seconds
of `jsonwebtoken`; the TTL is cast to an unsigned type of `TTLWidth` bits.

### `LegacySession`: a user of the legacy server

`UnAuthClientState` and `AuthClientState` as one phase per awaited call; the
monthly message tables with their registry rows; `migrate_user` in its three
calls; a new user that is only written with its first channel; the registries
of the nodes and the two internal routes. The differences from autoconnect are
what it is for: storage is read only when all is acked, and a session keeps the
month it read at hello.

A message is given its key, a millisecond, in one step (`Stamps`) and its row is
written in a later one (`Write`), by the endpoint or by the session that saves
it. Messages of one millisecond share a row if their channel is the same, and a
limited read returns any of those that tie at its end (`RowsAfter`); the next
read starts after the whole millisecond, as `02:{ts}:z` does. `overtaken`
remembers the messages that a read had passed when they were written or that it
cut off in this way: `PointerHonest` excuses them, `PointerHonestToAll` does not.
A session ends through `ClientDropped`, which saves, or through
`PingManagerFails`, where an error of the socket drops the `Client` as it is and
leaves its entry in the registry.

### `LegacyServer`: connections of the legacy server

The accept loop with its limit, `dispatch`, the handshakes and their timeouts,
`PingManager::poll` step by step (`running` is the connection whose poll is
under way: only the world outside moves meanwhile), `WebpushSocket` and the
`MegaphoneUpdater`. The build is a release build, where `debug_assert!` is not
evaluated: two of them are properties. Which wake-ups the reactor is given is
not modelled, every task may be polled; nor is TLS, nor the byte replay of
`WebpushIo`. The legacy broadcast tracker is its `change_count` (its twin of
autoconnect is module `Broadcast`); a delta, and an answer of the client that
carries one, is the set of revisions in it, so that it shows which of them the
peer has been sent. `subs` moves where the code moves it: when the hello is
processed, before the registry has the client and the response is sent, when a
`BroadcastSubscribe` is read, and when the ping loop takes a delta - which may
pass a response that waits. Of the client's other messages only what they do to
the socket is here: they are answered, make a call, or need nothing. An error of
a send ends the task from wherever it happens, in the ping loop and the flush
without the client's own disconnect.

## Runs

`MCDatabase`, `MCEndpoint`, `MCLegacy` and `MCProgress` each check several
instances in one run: `part` names the instance a behaviour belongs to, the
variables of the others stay as they started, and nothing is shared. A property
of such a module is the property of its component's module, for the part it is
meant for. `MCDatabase` extends `UserRecord`, `MCEndpoint` `Bridge` and
`MCLegacy` `LegacySession`: the configuration gives the constants of one part,
and the properties of these modules are checked as they stand, the ones a
theorem is about. `MCWebPushClient` has four parts over the same variables.

| Run | What it checks | Bounds, and why they are enough |
| --- | --- | --- |
| `broadcast` | `NoMissedBroadcast`, `RevisionsOrdered`, `EventuallyInformed` | two broadcasts, two versions, four publications: a response can change one, both or none, a version can return, and a revision can move from any position of the list. One session: sessions only read the tracker. |
| `storage` | `NothingSkipped`, `NeverStuck`, `AckedNotRedeliveredAlone` | one session, three messages of which any may be of one topic, batches of one row (every message is a batch boundary, also within a millisecond), one CheckStorage, a limit of three; the same with two messages and a direct notification that is saved; three timestamp messages in batches of two; or two sessions and two messages, where both move the pointer and either resets the user under the other. In each of them a message is written late or cut off. Without symmetry, so that a property of one of the two is one of both. |
| `delivery` | `TypeOK`, `AcceptedNotLost`, `LiveIsRegistered`, `RegisteredListens`, `OnlyStaleNodeCleared`, `ImplementsMailbox`, `EndedIsSaved` | one message, two nodes, two connections, one crash, failing calls |
| `delivery_two_messages` | `ImplementsMailbox` | two requests at once, one of TTL 0, and ghosting on one node |
| `database` | `NoIntegrityError`, `RecordMovesOn`, `ReadIsWhole`, `NewestReplaces`, `ResultIsSent`, `ChannelsKept`, `RemovedStaysGone` | two tasks over a record, with a retry and lost answers (`NoIntegrityError`) or with every answer (`RecordMovesOn`: the proof covers the retries); three messages of a topic with mixed TTLs, with and without data; three rows of two columns and two versions; a user with or without a `current_timestamp`, written to both databases or to Bigtable only by one task whose calls do not fail (`ChannelsKept`, `RemovedStaysGone`), and by two tasks whose calls fail (`RecordMovesOn`) |
| `endpoint` | `TokenNeverGoesBack`, `BlamedIsGone`, `EndpointsUsable`, `NeverExpired`, `OnlyKeyHolder`, `AcceptedIsUsable` | two notifications and a device of each bridge; three tasks and one token; a request with every Authorization and Crypto-Key header, and with every combination of the others |
| `legacy` | `NeverStuck`, `PointerHonest`, `OverlapKeeps`, `RotationKeeps`, `DeltaKept`, `NoFalseTimeout`, `SlotsCounted` | one session and three messages; two that overlap on any of two nodes, with sockets that fail; two in turn from any month with failing calls; one connection with a full queue; two for one slot |
| `progress` | `StorageDrained`, `SilentIsDropped`, `PollReturns`, `UninstalledForgotten`, `Served` | smaller instances of the same, without symmetry |

Symmetry is used for sets whose members the specification does not tell apart
(sessions, nodes, tasks, channels, notifications), and not where liveness is
checked. Deadlock is checked in `broadcast` only: the bounds on messages,
connections and requests let the other systems really stop.

### Where the code disagrees with what it says

Four runs find a violation of something a comment or a document of the
repository says:

| Run | Property | What TLC finds |
| --- | --- | --- |
| `storage_pointer` | `PointerKnown` | A first batch expires unacked; a CheckStorage re-reads nothing from a record without a timestamp; `check_storage_loop` calls `increment_storage` without `unacked_stored_highest` and the session ends with an internal error. |
| `storage_topic` | `LatestTopicKept` | The ack of a topic message deletes by key the newer message that replaced it. |
| `dual_channels` | `ChannelsKept` | A migration that fails after the user is in Bigtable leaves its channels behind for good. |
| `row_merger_split` | `LegalStreamAccepted` | Every value split over several chunks is refused: a test in `cell_in_progress` lacks its negation. |

The modules state further properties that do not hold, as this code is. TLC
finds each within seconds (the three tasks of `UserRecord` take a minute or two)
under the module's `Spec` with the constants below; what is not named is the
smallest value that lets the case happen: one session, node, channel and task,
no failures.

| Module, property | Constants | What happens |
| --- | --- | --- |
| `Delivery`, `NoMissedStored` | one message, two sessions, one node, no failures | A message stored between a session's check of storage and its registration (`handler.rs:72`) stays unseen while the client is connected. |
| `WebPushClient`, `SavedNotLost` | two messages, `MaxDirect` 1 | A saved notification is stamped before it is written (`notification.rs:53`) and the pointer passes it in between, or it shares its millisecond with the last row of a batch. |
| `WebPushClient`, `NeverOvertaken` | two messages | The same for any message: one that is written after a row with a later sortkey was read is behind the pointer; and the next read starts after the last millisecond of a batch (`bigtable_client/mod.rs:1276`), so what the limit cut off there is behind the pointer, too. |
| `WebPushClient`, `AckedNotRedelivered` | two sessions, two messages, `TimestampLimit` 1 | One session is at the end of storage with nothing unacked while the pointer past what the other has just had acked is still to be written: a hello in between sends it again. |
| `UserRecord`, `ResultTellsApplied` | `RetryCount` 1, `AnswersLost` | A retried `check_and_mutate_row` whose first answer was lost reports the opposite of what happened. |
| `UserRecord`, `RemovedIfConnectedAtMatches`, `ConnectedAtGrows`, `OnlyReadNodeCleared` | three tasks, no channels, `RetryCount` 1, `AnswersLost`, `MaxClock` 2, `MaxVersion` 3, `MaxTimestamp` 1 | `increment_storage` generates its version once (`mod.rs:1192`) and the retry sends the same request: an attempt that was applied and whose answer was lost is applied again over a hello stamped with the same millisecond and brings back the version an endpoint read before it. That endpoint's `remove_node_id` clears the new node, although `client.rs:54` says it is removed only if `connected_at` matches; an `update_user` built on the older read gets through in the same way. It takes two requests of one millisecond, or clocks of two nodes that differ. |
| `MessageTable`, `NewestAlwaysReplaces` | `TTLs` {1, 3} | A newer topic message with a shorter TTL is hidden by the older one. |
| `MessageTable`, `BodyIsOwn` | `TTLs` {1, 3}, `Bodies` {TRUE, FALSE} | A message without a body is read with the body of the one it replaced. |
| `RowMerger`, `MergedIsSent` | columns of two families | `last_seen_cell_family` is only set by the first chunk of a row. No table here has rows of two families. |
| `DualDb`, `RemovedStaysGone` | `Failures` | A removal that fails on DynamoDB is ignored and the next `get_user` migrates the user back. |
| `DualDb`, `GivenBackStaysGone` | two tasks | A migration under way adds a channel that was given back meanwhile. |
| `DualDb`, `MirrorInSync` | messages {1}, `WriteToSecondary` | A migration does not copy the `current_timestamp` of the DynamoDB user (`dual/mod.rs:228-259`), so the databases disagree from then on. |
| `DualDb`, `ChannelsKept`, `RemovedStaysGone`, `AckedTopicGone` | two tasks, messages {1, 2}, topics {2}, `WriteToSecondary` | The calls of two operations of one user reach the two databases in different orders, or a channel is given back between an `add_channels` and its answer. All of them and `GivenBackStaysGone` fail for one task with `Failures`, too. |
| `DualDb`, `PendingNotSkipped` | messages {1, 2} | With a message in each database, the pointer passes the one in DynamoDB. |
| `Bridge`, `TokenOnlyAdvances` | "adm", `MaxToken` 2 | The app's request with an old token arrives after ADM's new id was stored: it reads the new version, passes `update_user` and puts the old token back (`registration.rs:118`). |
| `Bridge`, `GoneMeansGone` | "fcm", `Troubles` {"InvalidAppId"} | A notification for an app id that is gone from the configuration is told 410 (`fcm/error.rs:43`), and its user stays. |
| `Bridge`, `CurrentTokenKept` | "fcm", `MaxToken` 2 | A 404 for the old token removes the user that has stored the new one. |
| `Bridge`, `AcceptedIsSuccess` | "adm", two senders, `MaxToken` 2 | A notification ADM has accepted is answered 500 when the update of the new id loses a race. |
| `Bridge`, `RouterTypeFixed` | `OtherTypes` {"apns"} | A token update with another router type changes the type of the user (`db/client.rs:31` says it will not). |
| `Bridge`, `ApsHonoured` | "apns", `GivesAps` | The aps block is stored as a string in which `derive_aps` finds no key. |
| `Bridge`, `NoPanic` | "fcm", no authenticator | `send` unwraps the authenticator of a credential taken for a GCM one. |
| `PushRequest`, `DeletesItsOwn` | two requests of one topic | The id of a replaced topic message deletes the one that replaced it. |
| `PushRequest`, `NoTopicNoReplacement` | two requests without a topic | Two messages for a channel in one millisecond share a row. |
| `LegacySession`, `PointerHonestToAll` | two messages, `StartMonths` {4} | The endpoint's row is written after a row with a later key was read, or two rows share the millisecond at which a read was cut off (`commands.rs:152`): the pointer passes a message that was never sent. |
| `LegacySession`, `UnackedSaved` | two sessions on one node | The registry refuses to disconnect a replaced session, and the error skips its save (`client.rs:609`). |
| `LegacySession`, `UnackedSaved` | one session, `Failures` {"socket"} | An error of `send_ws_ping` or `poll_complete` ends `PingManager::poll` and drops the `Client` with what it has not got acked (`server/mod.rs:680`, `:765`). |
| `LegacySession`, `EndpointHasUser` | `StartMonths` {0} | A register that failed clears `deferred_user_registration`; the next hands out an endpoint without a user. |
| `LegacySession`, `ChannelsKept` | `StartMonths` {3}, `Failures` {"channels"} | `all_channels` turns an error into no channels, and the user is rotated without them. |
| `LegacySession`, `ChannelsKept` | two sessions on one node, two channels, `Overlap`, `StartMonths` {3} | A hello that read the record before a migration moved it writes the old month back, and a channel registered in between is only in the new one. |
| `LegacySession`, `SavedIsReadable` | two sessions on two nodes, `StartMonths` {3} | A session saves into the month it read at hello, which nobody reads after a rotation. |
| `LegacyServer`, `NoStalePong` | `Stalls`, no `CloseTimeout` | A ping that leaves through `start_send` or `poll_complete` is not noticed by the manager (`debug_assert!`, `server/mod.rs:707`). |
| `LegacyServer`, `NoTimeoutAtClose` | `CloseTimeout` | A pong timeout set before the client ended meets the `debug_assert!` of the close handshake (`:749`). |
| `LegacyServer`, `OldestFirst` | `Stalls` | A delta is taken and sent while the hello response, made before it, still waits for the registry or the send queue (`client.rs:491`, `server/mod.rs:672`): the older revisions arrive last. |
| `LegacyServer`, `StalledIsDropped` | `Stalls`, `FairSpec` | A peer that is gone and whose send queue stays full is never pinged, so the pong timer is never armed (`server/mod.rs:677`) and the slot is kept. |
| `LegacyServer`, `PollReturns` | `CloseTimeout`, `PollSpec` | The loop of `WaitingFor::Close` has no break and spins until the timer elapses. |

### Fairness

* `Broadcast`: the updater loop never ends, so a poll, the lock and each
  `add_broadcast` are weakly fair (a poll that fails for ever is outside the
  property); the timers of a session fire for ever and tokio's `RwLock` is
  fair to readers, so `Tick` is strongly fair - it is disabled whenever the
  updater holds the lock.
* `WebPushClient`: a started handler runs on, and the client acks what it was
  sent. Nothing is assumed of publishers, expiry, other sessions or failures.
* `Delivery`: only the steps of an ended session's own task are weakly fair.
* `LegacySession`: a started state machine is polled on; the user agent acks,
  strongly, since its other messages are read from the same socket.
* `LegacyServer`: for `PollReturns` only that a poll that has started runs; for
  `SilentIsDropped` also that the reactor polls every task again, timers
  elapse and a call of the client returns. Nothing is assumed of peers, nor that
  a full send queue drains: the property is then that the slot is given back or
  the queue is full.
* `Bridge`: notifications keep coming and requests run on; the service does not
  refuse to answer for ever, nor do all requests fail before the send.
* `AdmToken`: a free lock is taken by one of those who wait for it, whichever:
  futures' `Mutex` wakes a waiter and documents no fairness, so a newcomer may
  come first. A request for a token ends, because the HTTP client has a timeout
  (`autoendpoint/src/server.rs:96-99`). Each notification is sent once: what is
  shown is that finitely many are all served, and nothing for one that ever more
  of them overtake.

`MCProgress` states these conditions for its parts. A behaviour belongs to one
part, so strong fairness of a disjunction with one step of each part is strong
fairness of the step of that part.

## Proofs

Eight modules hold theorems, each for every value of the constants that its
component's named assumptions allow; a further hypothesis is in the statement of
the theorem. Each rests on an inductive invariant that TLC checked on a small
instance before it was proved.

| Module | Theorems | Hypotheses beyond the named assumptions |
| --- | --- | --- |
| `DeliveryProofs` | `TypeCorrect`, `NothingAcceptedIsLost`, `RegistryConsistent`, `RegisteredSessionsListen`, `OnlyStaleCleared`, `SentStaysKnown`, `DeliveryIsAMailbox` | none |
| `BroadcastProofs` | `ListOrdered`, `NothingMissed` | none |
| `WebPushClientProofs` | `ReadGoesOn`, `PointerPassesOnlySettled` | none |
| | `AckedIsRemembered` | one session at a time |
| `BigtableProofs`, of `UserRecord` | `RecordsReadable` | none |
| | `ConnectedAtNeverBack`, `ReadNodeIsCleared`, `ConnectedAtIsCompared` | `AnswersLost = FALSE`: no request is applied twice |
| of `MessageTable` | `RowsReadable`, `NoneReadExpired`, `NewestIsRead` | none |
| `DualDbProofs` | `OldRecordNeverReturns` | none |
| `BridgeProofs`, of `Bridge` | `TypeCorrect`, `TokensOnlyAdvance`, `ChannelsOfTheApp` | none |
| | `OnlyTheDeviceIsGone` | no router type is "gcm", whose users `validate_user` drops |
| | `ToldGoneIsGone` | `~DbFails`: `drop_user` ignores a failed removal |
| of `AdmToken` | `TokensInTime` | none (that two ways fit the margin is an assumption of `AdmToken`) |
| `PushRequestProofs` | `TypeCorrect`, `RestrictedIsSigned`, `SenderInTime`, `IdNamesRow`, `EncryptedOnce` | none |
| `LegacyProofs`, of `LegacySession` | `NeverWaitsInVain`, `PointerIsHonest`, `AcceptedIsKept` | none |
| | `MigrationLosesNone` | `~Overlap`: one session at a time; `"channels" \notin Failures` |
| of `LegacyServer` | `ServerTypeCorrect`, `SlotsAreCounted`, `DeltasReachPeers`, `TimeoutsAreHonest` | none |

A proof module extends the component it is about; `BigtableProofs`,
`BridgeProofs` and `LegacyProofs` have a second one as an instance (`Table`,
`Token`, `Server`), whose definitions carry its name as a prefix.

None of the hypotheses is for convenience: without it the property fails, as the
reason given or the constants named in the table of properties that do not hold
show.

**Delivery.** `AcceptedNotLost` alone is not inductive. `IInv` adds: a session
holds a stream or direct notifications only in the phases that still empty them
(`SessionsWellFormed`), so a session that is done holds nothing; a message is
safe from the moment a request has stored it or had it accepted, not only once
it is answered (`TakenIsSafe`); nodes about to be called are nodes
(`RequestsWellFormed`); and a request that saw the current version of the
record saw its current `connected_at` (`VersionTellsConnection`), from which
`OnlyStaleCleared` follows. Most session steps go through `SessionStep`, which
says what a step of one session must keep; the steps that push into a stream
through `PushKeeps`; the steps of a request through `RequestStep`. Registration,
deregistration and crash have proofs of their own because they change the
registry and several sessions at once.

**Mailbox.** The refinement is proved step by step: every action of `Delivery`
is mapped to an action of `Mailbox` or to a stutter, from `IInv` and one more
invariant, `SentIsKnown`: what a session has sent from storage is still stored
or was acked. Without it an ack of a copy could not be mapped to an ack. The
lemmas `HeldIs` and `HeldAfter` say what is held without the case of a session
that is done, and each action is then a question of what it adds to or takes
from one session's memory.

**Broadcasts.** `NoMissedBroadcast` speaks of what the next delta reports;
`Informed` says it of revisions newer than the session's `change_count`.
`DeltaIs` shows the two agree: on an ordered list the early exit of
`change_count_delta` misses nothing. That every key has a revision, that an id
has one key and that sessions subscribe to keys there are is what the updates of
the list need.

**Session storage.** Lemmas of the form `...Step` say what a handler's step
makes of its session, so that the invariants never look into `AfterFetch` or
`EnterLoop` again. `ReadInv` for the pointer: everything a session has read is
settled where it is about to read on or to write the pointer, and settled or
unacked in this session elsewhere (`ReadOK`), but for what was overtaken. A step
that writes no row keeps that (`Calm`); the row that `Store` writes is after every
pointer or is overtaken from then on (`Kept`, `StoredRows`); a batch leaves behind
its last millisecond what it has sent, what has expired and what its limit cut off
(`BatchReads`). `AloneInv` for `AckedIsRemembered`: a stored timestamp
message that was sent is before the stored pointer, will be when the increment
under way is done, or will be read again or covered by one (`Noted`), whichever
of ack, CheckStorage, topics and expiry come in between.

**User record.** `IInv`: a row is a whole user or has only the columns that a
late `increment_storage` or `add_channels` writes, and each request under way is
one of five kinds; every write keeps it so, whenever it is applied. `LInv`: a
task that holds the version of the row holds the row's `connected_at` and node,
and versions still to be written are in no row, no task and no other request. The
second is what a request applied twice breaks: the attempt to prove it without
the hypothesis led to the three tasks in the table above.

**Message row.** The required cells of a row are those of one message, the one
that expires last, so no other cell outlives them (`CoreTogether`). They have at least the
expiry of the newest message and were not sent later (`RowIsNewest`), and the data
cell is theirs if their message has data (`DataWithVersion`): its own data cell
can only be covered by a message that covers the required cells too.

**ADM token.** The cache may believe in a token for longer than ADM by the way
of the answer and no more (`CacheInTime`), and a notification leaves with a token
that outlives its way (`WaysInTime`).

**Push requests.** `Sound` says what the extractors have established at each
point: the subscription's key past the token, the signature and the times past
the claims, checked headers and the id made of them past the headers. `IdNamesRow`
needs what the key of a message with a topic is, its channel followed by the
topic (`TopicKey`), `EncryptedOnce` that `get_by_key` finds an item a section has.

**Dual database.** A migration is the one step that writes a record nobody
compared. That it never meets a newer one is a matter of versions: the record
about to be migrated has a version no other task and no row has (`MigrateOK`),
a record about to be updated is no newer than its update while the versions agree
(`UpdateOK`), and a fresh version exists, the least number nobody has
(`FreshIsFresh`, a pigeonhole argument over the tasks). A call goes through
`RecordChange`: the record is kept, removed, added where there was none, or
written by the task that had read this version.

**Bridge.** Every step is one of the device, of the app or of one notification
(`Turns`), and each keeps the stored user, removes it, or writes one with a fresh
version (`Written`); a notification writes an ADM id no older than the stored
token (`Renamed`), because its copy of the user has a token no older than the
stored one as long as its version is the stored one, which is what the conditional
`update_user` compares. A request of the app has a token no older than the one
stored unless ADM names ids (`AppOK`). `GoneInv` for `ToldGoneIsGone`:
a notification that has been told 410 means that the row is empty and that its app
will not register again.

**Legacy session.** `IInv` relates the session's memory to the table: its
`highest` is behind the clock; a session with `flags` that make it rely on storage
being read has sent, or let expire, every row up to what it may write to the
pointer, unless a read overtook it (`Relies`, `Passed`). A row that is written
late is in `overtaken` or sorts after what every session that relies on its
timestamp has read (`NewRows`), and no key is ahead of the clock from which the
next one is taken (`StampOK`). `KInv` adds for `AcceptedIsKept` that a node's
registry names a session that is connected to it or that ended without telling
it (`RegOK`), that only a session that is connected or saving holds notifications
(`HoldOK`), and that a direct notification is settled or in the memory of the
session that took it. `JInv` for
`MigrationLosesNone`: one session is not free, it works on the month of the
record, and what it is about to do leaves none of the user's channels out: the
ones it read include them all (`copy`), the current month has them already
(`month`), the one that goes is given back (`unreg`), and a record is only written
for the first time while there are none (`reguser`).

**Legacy server.** `open_connections` is the number of connections in the phases
that hold a slot (`Counted`, with the lemmas that say how one step moves a
cardinality by one). `SocketOK` says of every phase what `DeltaKept` says of one:
every revision up to the subscription's `change_count` is in the socket, with the
peer or in the message the client is to send; that the client holds revisions
only while it has a message to send, so that a `BroadcastSubscribe` overwrites
none; and that a connection that has read a pong has no pong timeout to report. `RunningIsActive`
rules out that a poll goes on after its connection has ended. A step is one
connection's (`ServerTurn`), the updater's or the world's, and keeps these of the
others because it leaves them alone.

Only model-checked:

* liveness (`EventuallyInformed`, `EndedIsSaved`, `StorageDrained`,
  `SilentIsDropped`, `PollReturns`, `UninstalledForgotten`, `Served`), which
  needs fairness and is out of the prover's reach;
* `ResultIsSent` of `RowMerger`: the rows are functions built with `:>` and `@@`,
  for which the provers have no support, and what was committed is compared with
  a whole stream;
* `ChannelsKept` and `RemovedStaysGone` of `DualDb`, which hold of one task whose
  calls do not fail;
* `StoredIsNoticed` (in `OverlapKeeps`) of `LegacySession`: not attempted so far.

## Plan

1. `Session`: register, unregister, nack, the client's ping limit and the close
   codes of autoconnect; the ping timers with real deadlines.
2. Proofs: `StoredIsNoticed` of `LegacySession`.
3. An in-order cursor as the abstract specification of `WebPushClient`.
4. Clocks that differ between nodes in `UserRecord` and `MessageTable`.

## Not modelled

Encryption, signatures and JSON (external to `PushRequest`), HTTP framing, TLS,
the byte replay of the legacy `WebpushIo`, metrics, logging, sentry, settings
and health endpoints: they change no state the properties are about. The
Bigtable connection pool and the admin call that drops rows; the query limit
and expiry of DynamoDB; hello of a new autoconnect user, which ends in another
uaid and so in another instance. The wrap of `change_count` at 2^32 and the
duration metric of the router are out of reach or without effect on state.
