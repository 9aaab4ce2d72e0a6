---------------------------- MODULE LegacySession ----------------------------
(***************************************************************************)
(* The legacy autopush server: the sessions of one user, its router        *)
(* record, and the monthly message tables in DynamoDB.                     *)
(*                                                                         *)
(* A session is the pair of state machines of client.rs: UnAuthClientState *)
(* (hello, registration, the end of the session) around AuthClientState    *)
(* (send, determine what is next, wait for input).  Its phase is the state *)
(* of the machine, one per call that is awaited.  What differs from        *)
(* autoconnect: storage is only read when everything is acked, users live  *)
(* in monthly message tables and are rotated to the current one, and a new *)
(* user is only written when its first channel is registered.              *)
(*                                                                         *)
(* A row is <<key, m>>: the key of a timestamp message is its sort key, of *)
(* a topic message 0 (topic rows sort before all of them).  0 also stands  *)
(* for an unset timestamp.  A sort key is the millisecond in which a       *)
(* message was given it (chidmessageid); its row is written some time      *)
(* later.  Messages of one millisecond are ordered by channel, and share a *)
(* row if that is the same.                                                *)
(***************************************************************************)
EXTENDS Naturals, FiniteSets, Sequences, FiniteSetsExt, SequencesExt

CONSTANTS
    Sessions,       \* connections of the user, each used once
    Nodes,          \* servers
    Channels,       \* channel ids
    Messages,       \* notifications, numbers
    TopicMessages,  \* the ones that have a topic
    ZeroTtl,        \* the ones with a TTL of 0
    Expiring,       \* the ones whose TTL may pass
    CurrentMonth,   \* number of the newest message table
    StartMonths,    \* months the user record may name at the start, 0: no user
    Batch,          \* rows a query for messages returns at most
    MsgLimit,       \* msg_limit
    Overlap,        \* whether a session may start before another has ended
    Failures        \* the kinds of calls that may fail

NoSession == "none"
NoNode == "none"

\* What the constants may be: assumed where the module is instantiated.
LegacyConstants ==
    /\ TopicMessages \subseteq Messages /\ ZeroTtl \cup Expiring \subseteq Messages
    /\ Messages \subseteq Nat \ {0} /\ IsFiniteSet(Messages)
    /\ CurrentMonth \in Nat \ {0}
    /\ StartMonths \subseteq 0..CurrentMonth
    /\ Batch \in Nat \ {0} /\ MsgLimit \in Nat
    /\ Overlap \in BOOLEAN
    /\ Failures \subseteq {"db", "channels", "save", "socket"}
    /\ NoSession \notin Sessions /\ NoNode \notin Nodes

VARIABLES
    router,    \* the user's record in the router table
    tbl,       \* the message tables: registry row (chids, pointer) and messages
    registry,  \* ClientRegistry of each node
    sess,      \* the sessions
    pub,       \* what has happened to each message on the publisher's side
    stamp,     \* the sort key and the table a message was given
    client,    \* what the user agent knows: channels it was given, messages
    clock,     \* the last millisecond in which a sort key was given
    time,      \* connected_at values given
    expired,   \* messages whose TTL has passed
    lost,      \* messages lost to a failed save, or to a row of the same key
    orphaned,  \* messages a session dropped when it ended without saving
    overtaken  \* history: messages a read has passed without returning them

vars == <<router, tbl, registry, sess, pub, stamp, client, clock, time,
          expired, lost, orphaned, overtaken>>

\* Valid message months are the current and last 2 months
Months == 1..CurrentMonth
ValidMonths == {mo \in Months : mo + 2 >= CurrentMonth}

Unauthenticated == {"idle", "lookup", "expire", "register", "connect"}
Authenticated == {"send", "input", "increment", "check", "fetch", "channels",
                  "copy", "month", "drop", "reguser", "savechan", "unreg",
                  "delete"}
Ended == {"ending", "store", "reconnect", "notify", "done"}

\* ServerNotification
CheckStorage == <<"check_storage">>
Disconnect == <<"disconnect">>
Notification(m) == <<"notification", m>>

Rows == {x \in (0..Cardinality(Messages)) \X Messages :
            (x[1] = 0) = (x[2] \in TopicMessages)}

SessionType ==
    [phase: Unauthenticated \cup Authenticated \cup Ended,
     node: Nodes \cup {NoNode}, connectedAt: Nat, month: 0..CurrentMonth,
     includeTopic: BOOLEAN, increment: BOOLEAN, check: BOOLEAN, old: BOOLEAN,
     rotate: BOOLEAN, deferred: BOOLEAN,
     queue: Seq({CheckStorage, Disconnect} \cup {Notification(m) : m \in Messages}),
     direct: SUBSET Messages, stored: SUBSET Rows, highest: Nat, sent: Nat,
     batch: SUBSET Messages, chids: SUBSET Channels, topics: SUBSET Rows]

\* ClientFlags::new and the fields WebPushClient::default gives
Fresh ==
    [phase |-> "idle", node |-> NoNode, connectedAt |-> 0, month |-> 0,
     includeTopic |-> TRUE, increment |-> FALSE, check |-> FALSE,
     old |-> FALSE, rotate |-> FALSE, deferred |-> FALSE, queue |-> <<>>,
     direct |-> {}, stored |-> {}, highest |-> 0, sent |-> 0, batch |-> {},
     chids |-> {}, topics |-> {}]

EmptyTable == [reg |-> FALSE, chids |-> {}, ptr |-> 0, rows |-> {}]

\* A user without a record has no uaid yet; an old one has a channel.
Init ==
    /\ \E mo \in StartMonths, old \in BOOLEAN :
         /\ router = [status |-> IF mo = 0 THEN "none" ELSE "full",
                      node |-> NoNode, connectedAt |-> 0, month |-> mo,
                      old |-> old /\ mo # 0]
         /\ \E c \in Channels :
              /\ tbl = [t \in Months |->
                          IF t = mo THEN [EmptyTable EXCEPT !.reg = TRUE,
                                                            !.chids = {c}]
                                    ELSE EmptyTable]
              /\ client = [known |-> mo # 0, gone |-> FALSE,
                           chans |-> IF mo = 0 THEN {} ELSE {c},
                           got |-> {}, acked |-> {}]
    /\ registry = [n \in Nodes |-> NoSession]
    /\ sess = [s \in Sessions |-> Fresh]
    /\ pub = [m \in Messages |-> "new"]
    /\ stamp = [m \in Messages |-> [key |-> 0, month |-> 0]]
    /\ clock = 0 /\ time = 0
    /\ expired = {} /\ lost = {} /\ orphaned = {} /\ overtaken = {}

-----------------------------------------------------------------------------
(***************************************************************************)
(* Helpers                                                                 *)
(***************************************************************************)
unacked_messages(r) == r.stored # {} \/ r.direct # {}

\* poll_determine_ack: what the session does next.
DetermineAck(r) ==
    [r EXCEPT !.phase =
        IF unacked_messages(r)           THEN "input"
        ELSE IF r.check /\ r.increment   THEN "increment"
        ELSE IF r.check                  THEN "check"
        ELSE IF r.rotate                 THEN "channels"
        ELSE IF r.old                    THEN "drop"
        ELSE                                  "input"]

\* poll_await_send once the socket took a message: drop a user that was sent
\* too many stored messages, else go on.
AfterSend(r) ==
    IF r.sent > MsgLimit THEN [r EXCEPT !.phase = "drop"] ELSE DetermineAck(r)

Step(s, r) == sess' = [sess EXCEPT ![s] = r]
At(s, p) == sess[s].phase = p

\* The node has an entry for the user, and its receiver is not dropped.
Connected(n) == registry[n] # NoSession /\ ~At(registry[n], "done")

\* What ClientRegistry::notify and check_storage do to the sessions.
Push(f, n, x) ==
    IF Connected(n) THEN [f EXCEPT ![registry[n]].queue = Append(@, x)] ELSE f

TopicRows(mo) == {x \in tbl[mo].rows : x[1] = 0}

\* The condition of the conditional put in register_user.
MayRegister(connected_at) ==
    \/ router.status # "full"
    \/ router.node = NoNode
    \/ router.connectedAt < connected_at

\* The first Batch rows after a sort key: of those in the last millisecond
\* that is read, which ones depends on their channels.
RowsAfter(mo, k) ==
    LET after == {x \in tbl[mo].rows : x[1] > k}
    IN  {rows \in SUBSET after :
            /\ Cardinality(rows) <= Batch
            /\ rows # after => Cardinality(rows) = Batch
            /\ \A x \in rows, y \in after \ rows : x[1] <= y[1]}

\* The session will go on from its timestamp or write it.
Relies(r) ==
    /\ r.phase \in Authenticated \ {"drop"}
    /\ r.increment \/ r.phase = "fetch" \/ (r.check /\ ~r.includeTopic)

\* A session that relies on its timestamp, or the pointer, is past this key.
PassedBy(mo, k) ==
    k # 0 /\ (\/ k <= tbl[mo].ptr
              \/ \E s \in Sessions : /\ sess[s].month = mo /\ Relies(sess[s])
                                     /\ k <= sess[s].highest)

\* chidmessageid: keys of messages stamped from the last millisecond on.
Stamps(ms, mo) ==
    \E now \in clock..(clock + Cardinality(ms)), key \in [ms -> 0..(clock + Cardinality(ms))] :
        /\ \A m \in ms : IF m \in TopicMessages THEN key[m] = 0
                         ELSE key[m] # 0 /\ key[m] \in clock..now
        /\ now = clock \/ \E m \in ms : key[m] = now
        /\ stamp' = [m \in Messages |-> IF m \in ms THEN [key |-> key[m], month |-> mo]
                                        ELSE stamp[m]]
        /\ clock' = now

\* Rows are written, over others of the same millisecond and channel; of the
\* messages that are not written nothing is left.
Write(mo, ms, unwritten) ==
    LET new == {<<stamp[m].key, m>> : m \in ms}
        tied == {x \in tbl[mo].rows : x[1] # 0 /\ \E y \in new : y[1] = x[1]}
    IN  \E over \in SUBSET tied :
            /\ Cardinality(over) <= Cardinality(ms)
            /\ tbl' = [tbl EXCEPT ![mo].rows = (@ \ over) \cup new]
            /\ lost' = lost \cup unwritten \cup {x[2] : x \in over}
            /\ overtaken' = overtaken \cup {m \in ms : PassedBy(mo, stamp[m].key)}

Elsewhere == UNCHANGED <<registry, pub, stamp, clock, time, expired, lost,
                         orphaned, overtaken>>

-----------------------------------------------------------------------------
(***************************************************************************)
(* UnAuthClientState: hello and registration                               *)
(***************************************************************************)

\* poll_await_hello.  Without a uaid the user record is deferred.
AwaitHello(s, n) ==
    /\ At(s, "idle") /\ ~client.gone
    /\ client.known \/ time = 0  \* each hello without a uaid is a new user
    /\ Overlap \/ \A q \in Sessions : sess[q].phase \in {"idle", "done"}
    /\ time' = time + 1
    /\ Step(s, [sess[s] EXCEPT !.node = n, !.connectedAt = time + 1,
                    !.phase = IF client.known THEN "lookup" ELSE "connect",
                    !.deferred = ~client.known,
                    !.month = IF client.known THEN 0 ELSE CurrentMonth])
    /\ UNCHANGED <<router, tbl, registry, pub, stamp, client, clock, expired,
                   lost, orphaned, overtaken>>

\* lookup_user and handle_user_result: an unusable record is dropped and the
\* user agent gets a new uaid, as it does when there is no record.
lookup_user(s) ==
    /\ At(s, "lookup")
    /\ \/ /\ router.status \in {"none", "dropped"}
          /\ Step(s, [sess[s] EXCEPT !.phase = "done"])
          /\ client' = [client EXCEPT !.gone = TRUE, !.chans = {}]
       \/ /\ \/ router.status = "partial"
             \/ router.status = "full" /\ router.month \notin ValidMonths
          /\ Step(s, [sess[s] EXCEPT !.phase = "expire"])
          /\ UNCHANGED client
       \/ /\ router.status = "full" /\ router.month \in ValidMonths
          /\ Step(s, [sess[s] EXCEPT !.phase = "register", !.check = TRUE,
                         !.rotate = (router.month # CurrentMonth),
                         !.month = router.month, !.old = router.old])
          /\ UNCHANGED client
    /\ UNCHANGED <<router, tbl, registry, pub, stamp, clock, time, expired,
                   lost, orphaned, overtaken>>

NoRecord == [status |-> "dropped", node |-> NoNode, connectedAt |-> 0,
             month |-> 0, old |-> FALSE]

\* drop_user for a record that cannot be used.
drop_user(s) ==
    /\ At(s, "expire")
    /\ router' = NoRecord
    /\ Step(s, [sess[s] EXCEPT !.phase = "done"])
    /\ client' = [client EXCEPT !.gone = TRUE, !.chans = {}]
    /\ UNCHANGED <<tbl, registry, pub, stamp, clock, time, expired, lost,
                   orphaned, overtaken>>

\* The record hello writes: the one it read, with this node and connection.
RecordOf(r) == [status |-> "full", node |-> r.node,
                connectedAt |-> r.connectedAt, month |-> r.month, old |-> r.old]

\* hello: register_user refuses when a later connection is recorded.
register_user(s) ==
    /\ At(s, "register")
    /\ IF MayRegister(sess[s].connectedAt)
       THEN /\ router' = RecordOf(sess[s])
            /\ Step(s, [sess[s] EXCEPT !.phase = "connect"])
       ELSE /\ Step(s, [sess[s] EXCEPT !.phase = "done"])
            /\ UNCHANGED router
    /\ UNCHANGED <<tbl, registry, pub, stamp, client, clock, time, expired,
                   lost, orphaned, overtaken>>

HelloFails(s) ==
    /\ "db" \in Failures
    /\ sess[s].phase \in {"lookup", "expire", "register"}
    /\ Step(s, [sess[s] EXCEPT !.phase = "done"])
    /\ UNCHANGED <<router, tbl, registry, pub, stamp, client, clock, time,
                   expired, lost, orphaned, overtaken>>

\* poll_await_process_hello, ClientRegistry::connect and the hello response.
RegistryConnect(s) ==
    LET n == sess[s].node IN
    /\ At(s, "connect")
    /\ registry' = [registry EXCEPT ![n] = s]
    /\ sess' = [Push(sess, n, Disconnect) EXCEPT ![s] = DetermineAck(sess[s])]
    /\ client' = [client EXCEPT !.known = TRUE]
    /\ UNCHANGED <<router, tbl, pub, stamp, clock, time, expired, lost,
                   orphaned, overtaken>>

-----------------------------------------------------------------------------
(***************************************************************************)
(* AuthClientState: storage                                                *)
(***************************************************************************)

\* poll_await_check_storage once the response is there: rows read, whether
\* they are topic messages, and the timestamp that came with them.
Received(s, rows, topic, ts) ==
    LET r == [sess[s] EXCEPT !.includeTopic = topic, !.highest = ts]
        live == {x \in rows : x[2] \notin expired}
    IN  IF rows = {}
        THEN DetermineAck([r EXCEPT !.check = FALSE, !.sent = 0])
        ELSE LET r2 == [r EXCEPT !.increment = ~topic /\ ts # 0]
             IN IF live = {} THEN DetermineAck(r2)
                ELSE [r2 EXCEPT !.stored = @ \cup live, !.phase = "send",
                                !.batch = {x[2] : x \in live},
                                !.sent = @ + Cardinality(live)]

\* Expired topic messages are deleted by a task of their own.
Purged(mo, rows) ==
    [tbl EXCEPT ![mo].rows =
        @ \ {x \in rows : x[1] = 0 /\ x[2] \in expired}]

\* check_storage with include_topic: fetch_topic_messages takes the first row
\* for the registry row, whatever it is.
check_storage(s) ==
    LET mo == sess[s].month
        all == TopicRows(mo)
        first == IF tbl[mo].reg \/ all = {} THEN {}
                 ELSE {CHOOSE x \in all : \A y \in all : x[2] <= y[2]}
        found == {x \in all \ first :
                    Cardinality({y \in all \ first : y[2] < x[2]}) < Batch}
        ts == IF tbl[mo].reg THEN tbl[mo].ptr ELSE 0
    IN
    /\ At(s, "check") /\ sess[s].includeTopic
    /\ IF found # {}
       THEN /\ Step(s, Received(s, found, TRUE, ts))
            /\ tbl' = Purged(mo, found)
       ELSE /\ Step(s, [sess[s] EXCEPT !.phase = "fetch", !.highest = ts])
            /\ UNCHANGED tbl
    /\ UNCHANGED <<router, client>> /\ Elsewhere

\* Messages that the limit cut off from others of their millisecond.
CutOff(mo, rows) ==
    {y[2] : y \in {z \in tbl[mo].rows \ rows : \E x \in rows : x[1] = z[1]}}

\* Mutant: the timestamp is the highest in storage, not in the response.
FetchHighestOfAll(s) ==
    LET r == sess[s] IN
    /\ At(s, "fetch") \/ (At(s, "check") /\ ~r.includeTopic)
    /\ \E rows \in RowsAfter(r.month, r.highest) :
         LET ts == IF rows = {} THEN r.highest
                   ELSE Max({x[1] : x \in tbl[r.month].rows})
         IN  /\ Step(s, Received(s, rows, FALSE, ts))
             /\ overtaken' = overtaken \cup CutOff(r.month, rows)
    /\ UNCHANGED <<router, tbl, registry, pub, stamp, client, clock, time,
                   expired, lost, orphaned>>

\* check_storage's second query; it starts at the timestamp of the first, or
\* at unacked_stored_highest when topics were not asked for.
fetch_timestamp_messages(s) ==
    LET r == sess[s] IN
    /\ At(s, "fetch") \/ (At(s, "check") /\ ~r.includeTopic)
    /\ \E rows \in RowsAfter(r.month, r.highest) :
         LET ts == IF rows = {} THEN r.highest ELSE Max({x[1] : x \in rows})
         IN  /\ Step(s, Received(s, rows, FALSE, ts))
             /\ overtaken' = overtaken \cup CutOff(r.month, rows)
    /\ UNCHANGED <<router, tbl, registry, pub, stamp, client, clock, time,
                   expired, lost, orphaned>>

\* poll_send and poll_await_send: the batch goes out one message at a time;
\* over the limit the user is dropped after the first.
Send(s) ==
    /\ At(s, "send")
    /\ \E sent \in IF sess[s].sent > MsgLimit
                   THEN {{m} : m \in sess[s].batch} ELSE {sess[s].batch} :
         client' = [client EXCEPT !.got = @ \cup sent]
    /\ Step(s, AfterSend([sess[s] EXCEPT !.batch = {}]))
    /\ UNCHANGED <<router, tbl>> /\ Elsewhere

\* poll_increment_storage and poll_await_increment_storage.
increment_storage(s) ==
    LET r == sess[s] IN
    /\ At(s, "increment")
    /\ IF r.highest = 0
       THEN /\ Step(s, [r EXCEPT !.phase = "ending"])
            /\ UNCHANGED tbl
       ELSE /\ tbl' = [tbl EXCEPT ![r.month].ptr = r.highest,
                                  ![r.month].reg = TRUE]
            /\ Step(s, DetermineAck([r EXCEPT !.increment = FALSE]))
    /\ UNCHANGED <<router, client>> /\ Elsewhere

\* Mutant: the record is moved before the channels are.
AllChannelsLater(s) ==
    /\ At(s, "channels")
    /\ Step(s, [sess[s] EXCEPT !.phase = "month"])
    /\ UNCHANGED <<router, tbl, client>> /\ Elsewhere

\* migrate_user: all_channels answers with no channel when it fails.
all_channels(s) ==
    LET found == tbl[sess[s].month].chids IN
    /\ At(s, "channels")
    /\ \E chids \in {found} \cup (IF "channels" \in Failures THEN {{}} ELSE {}) :
         Step(s, [sess[s] EXCEPT !.chids = chids,
                      !.phase = IF chids = {} THEN "month" ELSE "copy"])
    /\ UNCHANGED <<router, tbl, client>> /\ Elsewhere

save_channels(s) ==
    /\ At(s, "copy")
    /\ tbl' = [tbl EXCEPT ![CurrentMonth].chids = @ \cup sess[s].chids,
                          ![CurrentMonth].reg = TRUE]
    /\ Step(s, [sess[s] EXCEPT !.phase = "month", !.chids = {}])
    /\ UNCHANGED <<router, client>> /\ Elsewhere

\* An update of a record that is gone creates one with these fields only.
update_user_message_month(s) ==
    /\ At(s, "month")
    /\ router' = [router EXCEPT !.month = CurrentMonth,
                     !.status = IF @ = "full" THEN "full" ELSE "partial"]
    /\ Step(s, DetermineAck([sess[s] EXCEPT !.month = CurrentMonth,
                                            !.rotate = FALSE]))
    /\ UNCHANGED <<tbl, client>> /\ Elsewhere

drop_uaid(s) ==
    /\ At(s, "drop")
    /\ router' = NoRecord
    /\ Step(s, [sess[s] EXCEPT !.phase = "ending"])
    /\ UNCHANGED <<tbl, client>> /\ Elsewhere

\* The future of an awaited call fails: the session ends.
CallFails(s) ==
    /\ "db" \in Failures
    /\ sess[s].phase \in {"increment", "check", "fetch", "copy", "month",
                          "drop", "reguser", "delete"}
    /\ Step(s, [sess[s] EXCEPT !.phase = "ending"])
    /\ UNCHANGED <<router, tbl, client>> /\ Elsewhere

-----------------------------------------------------------------------------
(***************************************************************************)
(* AuthClientState: input                                                  *)
(***************************************************************************)

\* Mutant: a CheckStorage raises the flags and waits for the next input.
OnNotifWaits(s) ==
    LET r == [sess[s] EXCEPT !.queue = Tail(@)]
        x == Head(sess[s].queue)
    IN
    /\ At(s, "input") /\ sess[s].queue # <<>>
    /\ Step(s, IF x = Disconnect THEN [r EXCEPT !.phase = "ending"]
               ELSE IF x = CheckStorage
               THEN [r EXCEPT !.includeTopic = TRUE, !.check = TRUE]
               ELSE [r EXCEPT !.phase = "send", !.batch = {x[2]},
                        !.direct = @ \cup ({x[2]} \ ZeroTtl)])
    /\ UNCHANGED <<router, tbl, client>> /\ Elsewhere

\* input_or_notif takes from the channel first.
OnNotif(s) ==
    LET r == [sess[s] EXCEPT !.queue = Tail(@)]
        x == Head(sess[s].queue)
    IN
    /\ At(s, "input") /\ sess[s].queue # <<>>
    /\ Step(s, IF x = Disconnect THEN [r EXCEPT !.phase = "ending"]
               ELSE IF x = CheckStorage
               THEN DetermineAck([r EXCEPT !.includeTopic = TRUE,
                                           !.check = TRUE])
               ELSE [r EXCEPT !.phase = "send", !.batch = {x[2]},
                        !.direct = @ \cup ({x[2]} \ ZeroTtl)])
    /\ UNCHANGED <<router, tbl, client>> /\ Elsewhere

Input(s) == At(s, "input") /\ sess[s].queue = <<>>

\* An ack of several updates; direct notifications are looked for first.
Ack(s) ==
    LET r == sess[s] IN
    /\ Input(s)
    /\ \E acked \in SUBSET (r.direct \cup {x[2] : x \in r.stored}) :
         LET rows == {x \in r.stored : x[2] \in acked \ r.direct}
             topics == {x \in rows : x[1] = 0}
             r2 == [r EXCEPT !.direct = @ \ acked, !.stored = @ \ rows,
                             !.topics = topics]
         IN /\ acked # {}
            /\ Step(s, IF topics = {} THEN DetermineAck(r2)
                       ELSE [r2 EXCEPT !.phase = "delete"])
            /\ client' = [client EXCEPT !.acked = @ \cup acked]
    /\ UNCHANGED <<router, tbl>> /\ Elsewhere

delete_message(s) ==
    /\ At(s, "delete")
    /\ tbl' = [tbl EXCEPT ![sess[s].month].rows = @ \ sess[s].topics]
    /\ Step(s, DetermineAck([sess[s] EXCEPT !.topics = {}]))
    /\ UNCHANGED <<router, client>> /\ Elsewhere

\* Register: with a key that cannot be decoded make_endpoint fails, the answer
\* is 400, and poll_await_register forgets the deferred user all the same.
Register(s, c) ==
    /\ Input(s)
    /\ Step(s, [sess[s] EXCEPT !.chids = {c},
                   !.phase = IF sess[s].deferred THEN "reguser" ELSE "savechan"])
    /\ UNCHANGED <<router, tbl, client>> /\ Elsewhere

RegisterBadKey(s) ==
    /\ Input(s)
    /\ Step(s, AfterSend([sess[s] EXCEPT !.deferred = FALSE]))
    /\ UNCHANGED <<router, tbl, client>> /\ Elsewhere

RegisterDeferredUser(s) ==
    /\ At(s, "reguser")
    /\ IF MayRegister(sess[s].connectedAt)
       THEN /\ router' = RecordOf(sess[s])
            /\ Step(s, [sess[s] EXCEPT !.phase = "savechan"])
       ELSE /\ Step(s, [sess[s] EXCEPT !.phase = "ending"])
            /\ UNCHANGED router
    /\ UNCHANGED <<tbl, client>> /\ Elsewhere

\* register_channel's save_channels and poll_await_register: 200 or 503.
RegisterChannel(s) ==
    LET r == sess[s] IN
    /\ At(s, "savechan")
    /\ Step(s, AfterSend([r EXCEPT !.deferred = FALSE, !.chids = {}]))
    /\ \/ /\ tbl' = [tbl EXCEPT ![r.month].chids = @ \cup r.chids,
                                ![r.month].reg = TRUE]
          /\ client' = [client EXCEPT !.chans = @ \cup r.chids]
       \/ "db" \in Failures /\ UNCHANGED <<tbl, client>>
    /\ UNCHANGED router /\ Elsewhere

Unregister(s, c) ==
    /\ Input(s) /\ c \in client.chans
    /\ Step(s, [sess[s] EXCEPT !.phase = "unreg", !.chids = {c}])
    /\ client' = [client EXCEPT !.chans = @ \ {c}]
    /\ UNCHANGED <<router, tbl>> /\ Elsewhere

\* The removal of a channel also creates the registry row; 200 or 500.
unregister_channel_id(s) ==
    LET r == sess[s] IN
    /\ At(s, "unreg")
    /\ Step(s, AfterSend([r EXCEPT !.chids = {}]))
    /\ \/ tbl' = [tbl EXCEPT ![r.month].chids = @ \ r.chids,
                             ![r.month].reg = TRUE]
       \/ "db" \in Failures /\ UNCHANGED tbl
    /\ UNCHANGED <<router, client>> /\ Elsewhere

\* The socket closes or fails, a ping comes too early, a message is invalid.
ClientDropped(s) ==
    /\ sess[s].phase \in {"input", "send"}
    /\ Step(s, [sess[s] EXCEPT !.phase = "ending"])
    /\ UNCHANGED <<router, tbl, client>> /\ Elsewhere

-----------------------------------------------------------------------------
(***************************************************************************)
(* The end of a session                                                    *)
(***************************************************************************)

Queued(r) == {m \in Messages : Notification(m) \in ToSet(r.queue)}

\* Mutant: what is still in the channel is not saved.
DisconnectNoDrain(s) ==
    LET r == sess[s] IN
    /\ At(s, "ending")
    /\ IF registry[r.node] = s
       THEN /\ registry' = [registry EXCEPT ![r.node] = NoSession]
            /\ Step(s, [r EXCEPT !.queue = <<>>,
                          !.phase = IF r.direct = {} THEN "done" ELSE "store"])
            /\ Stamps(r.direct, r.month)
            /\ UNCHANGED orphaned
       ELSE /\ Step(s, [r EXCEPT !.direct = {}, !.queue = <<>>,
                                 !.phase = "done"])
            /\ orphaned' = orphaned \cup r.direct
            /\ UNCHANGED <<registry, stamp, clock>>
    /\ UNCHANGED <<router, tbl, pub, client, time, expired, lost, overtaken>>

\* ClientRegistry::disconnect fails for a session that was replaced, and
\* poll_await_registry_disconnect then returns before it saves anything;
\* else store_messages gives the notifications their keys at once.
RegistryDisconnect(s) ==
    LET r == sess[s]
        kept == r.direct \cup Queued(r)
    IN
    /\ At(s, "ending")
    /\ IF registry[r.node] = s
       THEN /\ registry' = [registry EXCEPT ![r.node] = NoSession]
            /\ Step(s, [r EXCEPT !.direct = kept, !.queue = <<>>,
                          !.phase = IF kept = {} THEN "done" ELSE "store"])
            /\ Stamps(kept, r.month)
            /\ UNCHANGED orphaned
       ELSE /\ Step(s, [r EXCEPT !.direct = {}, !.queue = <<>>,
                                 !.phase = "done"])
            /\ orphaned' = orphaned \cup kept
            /\ UNCHANGED <<registry, stamp, clock>>
    /\ UNCHANGED <<router, tbl, pub, client, time, expired, lost, overtaken>>

\* An error of send_ws_ping or poll_complete ends PingManager::poll, and the
\* client is dropped as it is: nothing is saved, and its node keeps its entry
\* for the user, whose receiver is gone.
PingManagerFails(s) ==
    LET r == sess[s] IN
    /\ "socket" \in Failures
    /\ r.phase \in (Unauthenticated \ {"idle"}) \cup Authenticated \cup {"ending"}
    /\ Step(s, [r EXCEPT !.direct = {}, !.queue = <<>>, !.phase = "done"])
    /\ orphaned' = orphaned \cup r.direct \cup Queued(r)
    /\ UNCHANGED <<router, tbl, registry, pub, stamp, client, clock, time,
                   expired, lost, overtaken>>

\* store_messages: a batch write, of which DynamoDB may leave items undone
\* without an error, or that fails; it refuses one with two items of a key.
store_messages(s) ==
    LET r == sess[s]
        twice == \E m, o \in r.direct : m # o /\ stamp[m].key = stamp[o].key
                                            /\ stamp[m].key # 0
    IN
    /\ At(s, "store")
    /\ \E done \in {r.direct} \cup (IF "save" \in Failures THEN SUBSET r.direct
                                  ELSE IF twice THEN {{}} ELSE {}) :
         /\ Write(r.month, done, r.direct \ done)
         /\ \E p \in {"reconnect"} \cup
                     (IF done = r.direct THEN {} ELSE {"done"}) :
              Step(s, [r EXCEPT !.direct = {}, !.phase = p])
    /\ UNCHANGED <<router, registry, pub, stamp, client, clock, time, expired,
                   orphaned>>

\* save_and_notify_undelivered_messages: get_user, then PUT /notif to the
\* node of a later connection.
CheckReconnect(s) ==
    /\ At(s, "reconnect")
    /\ Step(s, IF /\ router.status = "full" /\ router.node # NoNode
                  /\ router.connectedAt # sess[s].connectedAt
               THEN [sess[s] EXCEPT !.phase = "notify", !.node = router.node]
               ELSE [sess[s] EXCEPT !.phase = "done"])
    /\ UNCHANGED <<router, tbl, client>> /\ Elsewhere

NotifyReconnected(s) ==
    /\ At(s, "notify")
    /\ sess' = [Push(sess, sess[s].node, CheckStorage)
                  EXCEPT ![s].phase = "done"]
    /\ UNCHANGED <<router, tbl, client>> /\ Elsewhere

-----------------------------------------------------------------------------
(***************************************************************************)
(* Publishers: PUT /push and PUT /notif of http.rs, and the endpoint's     *)
(* store, which is not part of this server.                                *)
(***************************************************************************)
Delivered(m) ==
    /\ pub[m] = "new" /\ client.chans # {}
    /\ router.status = "full" /\ router.node # NoNode /\ Connected(router.node)
    /\ sess' = Push(sess, router.node, Notification(m))
    /\ pub' = [pub EXCEPT ![m] = "direct"]
    /\ UNCHANGED <<router, tbl, registry, stamp, client, clock, time, expired,
                   lost, orphaned, overtaken>>

StampMessage(m) ==
    /\ pub[m] = "new" /\ m \notin ZeroTtl /\ client.chans # {}
    /\ router.status = "full" /\ router.month # 0
    /\ Stamps({m}, router.month)
    /\ pub' = [pub EXCEPT ![m] = "stamped"]
    /\ UNCHANGED <<router, tbl, registry, sess, client, time, expired, lost,
                   orphaned, overtaken>>

StoreMessage(m) ==
    /\ pub[m] = "stamped"
    /\ Write(stamp[m].month, {m}, {})
    /\ pub' = [pub EXCEPT ![m] = "stored"]
    /\ UNCHANGED <<router, registry, sess, stamp, client, clock, time, expired,
                   orphaned>>

Trigger(m) ==
    /\ pub[m] = "stored"
    /\ sess' = IF router.status = "full" /\ router.node # NoNode
               THEN Push(sess, router.node, CheckStorage) ELSE sess
    /\ pub' = [pub EXCEPT ![m] = "done"]
    /\ UNCHANGED <<router, tbl, registry, stamp, client, clock, time, expired,
                   lost, orphaned, overtaken>>

Expire(m) ==
    /\ m \in Expiring \ expired /\ pub[m] # "new"
    /\ expired' = expired \cup {m}
    /\ UNCHANGED <<router, tbl, registry, sess, pub, stamp, client, clock,
                   time, lost, orphaned, overtaken>>

-----------------------------------------------------------------------------
SessionStep(s) ==
    \/ lookup_user(s) \/ drop_user(s) \/ register_user(s) \/ RegistryConnect(s)
    \/ check_storage(s) \/ fetch_timestamp_messages(s) \/ Send(s)
    \/ increment_storage(s) \/ all_channels(s) \/ save_channels(s)
    \/ update_user_message_month(s) \/ drop_uaid(s) \/ OnNotif(s)
    \/ delete_message(s) \/ RegisterDeferredUser(s) \/ RegisterChannel(s)
    \/ unregister_channel_id(s) \/ RegistryDisconnect(s) \/ store_messages(s)
    \/ CheckReconnect(s) \/ NotifyReconnected(s)

Next ==
    \/ \E s \in Sessions :
         \/ SessionStep(s) \/ Ack(s) \/ RegisterBadKey(s) \/ ClientDropped(s)
         \/ HelloFails(s) \/ CallFails(s) \/ PingManagerFails(s)
         \/ \E n \in Nodes : AwaitHello(s, n)
         \/ \E c \in Channels : Register(s, c) \/ Unregister(s, c)
    \/ \E m \in Messages :
         \/ Delivered(m) \/ StampMessage(m) \/ StoreMessage(m)
         \/ Trigger(m) \/ Expire(m)

Spec == Init /\ [][Next]_vars

\* A started state machine is polled on; the user agent acks, and its socket is
\* read in order, so that its other messages only delay an ack.
FairSpec == Spec /\ \A s \in Sessions :
                WF_vars(SessionStep(s)) /\ SF_vars(Ack(s))

-----------------------------------------------------------------------------
(***************************************************************************)
(* Properties                                                              *)
(***************************************************************************)
Live(s) == sess[s].phase \in Authenticated
Stored(m) == \E mo \in Months : \E x \in tbl[mo].rows : x[2] = m
Held(m) == \E s \in Sessions :
    sess[s].phase # "done" /\ (m \in sess[s].direct \/ Notification(m) \in ToSet(sess[s].queue))

\* The type of the state.
TypeOK ==
    /\ router \in [status: {"none", "dropped", "partial", "full"},
                   node: Nodes \cup {NoNode}, connectedAt: Nat,
                   month: 0..CurrentMonth, old: BOOLEAN]
    /\ tbl \in [Months -> [reg: BOOLEAN, chids: SUBSET Channels, ptr: Nat,
                           rows: SUBSET Rows]]
    /\ registry \in [Nodes -> Sessions \cup {NoSession}]
    /\ sess \in [Sessions -> SessionType]
    /\ pub \in [Messages -> {"new", "direct", "stamped", "stored", "done"}]
    /\ stamp \in [Messages -> [key: Nat, month: 0..CurrentMonth]]
    /\ client \in [known: BOOLEAN, gone: BOOLEAN, chans: SUBSET Channels,
                   got: SUBSET Messages, acked: SUBSET Messages]
    /\ clock \in Nat /\ time \in Nat
    /\ expired \subseteq Messages /\ lost \subseteq Messages
    /\ orphaned \subseteq Messages /\ overtaken \subseteq Messages

\* A session that waits for input with nothing unacked has nothing left to do:
\* no storage to check, no month to rotate to, no record to drop.  Only the
\* transitions back to DetermineAck start those (client.rs).  And one that is
\* to move the pointer knows how far: poll_increment_storage is only reached
\* with unacked_stored_highest set, so its "unacked_stored_highest unset" error
\* never ends a session.
NeverStuck ==
    \A s \in Sessions :
        /\ sess[s].phase = "input" /\ ~unacked_messages(sess[s]) =>
             ~sess[s].check /\ ~sess[s].rotate /\ ~sess[s].old
        /\ sess[s].phase = "increment" => sess[s].highest # 0

\* The pointer increment_storage writes has only passed messages that were
\* sent to the user agent, had expired, or were overtaken: written behind a
\* read that had passed their key, or cut off by its limit from others of the
\* same millisecond (the next read starts after the millisecond's last key).
PointerHonest ==
    \A mo \in Months : \A x \in tbl[mo].rows :
        x[1] # 0 /\ x[1] <= tbl[mo].ptr =>
            x[2] \in client.got \cup expired \cup overtaken

\* The same without the overtaken ones: a stored message is read or expires.
PointerHonestToAll ==
    \A mo \in Months : \A x \in tbl[mo].rows :
        x[1] # 0 /\ x[1] <= tbl[mo].ptr => x[2] \in client.got \cup expired

\* The registered session of the recorded connection knows of every stored
\* message of its month whose trigger has come: because storage is checked
\* after the client is registered, there is no gap between the two.  Only an
\* overtaken message it does not find when it looks.
StoredIsNoticed ==
    \A s \in Sessions :
        /\ Live(s) /\ sess[s].phase # "drop" /\ registry[sess[s].node] = s
        /\ router.status = "full" /\ router.connectedAt = sess[s].connectedAt
        => \A x \in tbl[sess[s].month].rows :
             \/ sess[s].check \/ x \in sess[s].stored \cup sess[s].topics
             \/ CheckStorage \in ToSet(sess[s].queue)
             \/ x[2] \in client.acked \cup expired \cup overtaken
             \/ pub[x[2]] = "stored"
             \/ \E q \in Sessions : sess[q].phase \in {"reconnect", "notify"}

\* A notification accepted for direct delivery is acked, stored, in a session
\* that has not ended, expired, or gone: with a failed save, under another row
\* of its key, or with a session that ended without saving, because it had
\* been replaced in the registry or the poll of its socket failed.
AcceptedKept ==
    \A m \in Messages \ ZeroTtl : pub[m] = "direct" =>
        \/ m \in client.acked \cup expired \cup lost \cup orphaned
        \/ Stored(m) \/ Held(m)

\* The same without those sessions: one told to disconnect because its user
\* connected again, and one whose socket fails, save what is unacked too.
UnackedSaved == AcceptedKept /\ orphaned \subseteq client.acked \cup ZeroTtl

\* Migration to the current month and registration lose no channel: the ones
\* the user agent was given and has not given back are in the table its
\* record names, unless the record was dropped.
ChannelsKept ==
    router.status = "full" => client.chans \subseteq tbl[router.month].chids

\* A user agent that was given an endpoint has a user record, unless a session
\* dropped it (for its age or its number of messages).
EndpointHasUser == client.chans # {} => router.status # "none"

\* What an ended session saved is in the table the user's record names, where
\* a later session looks for it, or in a newer one, which it is rotated to.
SavedIsReadable ==
    \A m \in Messages :
        pub[m] = "direct" /\ m \notin client.acked \cup expired /\ Stored(m)
          /\ router.status = "full" /\ (\A s \in Sessions : At(s, "done"))
        => \E mo \in router.month..CurrentMonth : \E x \in tbl[mo].rows : x[2] = m

\* A session that has to check storage gets to the end of it or ends.
CheckEnds ==
    \A s \in Sessions : (Live(s) /\ sess[s].check) ~> (~sess[s].check \/ ~Live(s))

=============================================================================
