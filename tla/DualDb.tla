-------------------------------- MODULE DualDb --------------------------------
(***************************************************************************)
(* The dual database client (db/dual/mod.rs): one user that is migrated     *)
(* from DynamoDB (the secondary) to Bigtable (the primary) by the first     *)
(* get_user of any node, while sessions and endpoints of several nodes go   *)
(* on using it.  A database call is one atomic step that may fail; a dual   *)
(* operation is a sequence of calls.  The Bigtable row is seen as a whole   *)
(* here (module UserRecord has its cells and retries).                      *)
(***************************************************************************)
EXTENDS Integers, Sequences, FiniteSets, FiniteSetsExt

CONSTANTS
  Tasks,             \* tasks of autoconnect and autoendpoint nodes
  Channels,          \* channels of the user
  Messages,          \* messages, named by their timestamps, a set of 1..n
  Topics,            \* the messages that have a topic
  WriteToSecondary,  \* the setting write_to_secondary
  Median, EndMedian, \* the settings median and end_median, -1 when not set
  FirstByte, LastByte, \* of the uaid
  MaxConnected,      \* bound on connected_at
  Failures           \* whether a database call may fail

(* What the constants may be: assumed where the module is instantiated.      *)
DualDbAssumption ==
  /\ WriteToSecondary \in BOOLEAN /\ Failures \in BOOLEAN /\ IsFiniteSet(Tasks)
  /\ Messages \subseteq Nat \ {0} /\ Topics \subseteq Messages /\ MaxConnected \in Nat
  /\ Median \in -1..255 /\ EndMedian \in -1..255
  /\ FirstByte \in 0..255 /\ LastByte \in 0..255

VARIABLES
  primary,    \* the Bigtable row and messages of the user
  secondary,  \* the DynamoDB items and messages of the user
  task,       \* what each task is doing
  registered, \* channels the user agent holds: registered and not given back
  removed,    \* whether remove_user has returned
  connected,  \* the highest connected_at given out, 0 before a user exists
  read,       \* messages handed to the user agent
  acked,      \* topic messages acked and removed
  pointer     \* the timestamp up to which the user agent's session has read
vars == <<primary, secondary, task, registered, removed, connected, read, acked, pointer>>

NoUser == [connected_at |-> 0, node_id |-> "none", version |-> 0]
Idle == [op |-> "idle", pc |-> "idle", user |-> NoUser, chids |-> {}, arg |-> 0, prog |-> <<>>, failed |-> FALSE]
Empty == [user |-> NoUser, chids |-> {}, timestamp |-> 0, messages |-> {}]

(* should_migrate and allot: TRUE when the user belongs to the primary.      *)
should_migrate ==
  \/ Median # -1 /\ FirstByte <= Median
  \/ EndMedian # -1 /\ LastByte <= EndMedian

(* A user DynamoDB holds, perhaps with a current_timestamp, which its session *)
(* has read (increment_storage), and with messages; or no user yet.           *)
Init ==
  /\ primary = Empty
  /\ \/ /\ \E chids \in SUBSET Channels, waiting \in SUBSET Messages,
              timestamp \in {0} \cup (Messages \ Topics) :
             /\ secondary = [user |-> [NoUser EXCEPT !.connected_at = 1], chids |-> chids,
                             timestamp |-> timestamp, messages |-> waiting]
             /\ registered = chids
             /\ read = {m \in waiting \ Topics : m <= timestamp}
             /\ pointer = timestamp
        /\ connected = 1
     \/ secondary = Empty /\ registered = {} /\ connected = 0 /\ read = {} /\ pointer = 0
  /\ task = [t \in Tasks |-> Idle]
  /\ removed = FALSE
  /\ acked = {}

-----------------------------------------------------------------------------
(* Calls of the DynamoDB client, as functions of its items: the router item, *)
(* the registry entry (chids and current_timestamp) and the messages.        *)

HasUser(db) == db.user.connected_at # 0

ddb_add_user(db, user) ==
  IF HasUser(db) THEN db ELSE [db EXCEPT !.user = [user EXCEPT !.version = 0]]

ddb_update_user(db, user) ==
  IF HasUser(db) /\ (db.user.node_id = "none" \/ db.user.connected_at < user.connected_at)
  THEN [db EXCEPT !.user = [user EXCEPT !.version = 0]]
  ELSE db

ddb_remove_user(db) == [db EXCEPT !.user = NoUser]
ddb_add_channels(db, chids) == [db EXCEPT !.chids = @ \cup chids]
ddb_remove_channel(db, chid) == [db EXCEPT !.chids = @ \ {chid}]

ddb_remove_node_id(db, user) ==
  IF HasUser(db) /\ db.user.node_id = user.node_id /\ db.user.connected_at = user.connected_at
  THEN [db EXCEPT !.user.node_id = "none"]
  ELSE db

ddb_increment_storage(db, timestamp) == [db EXCEPT !.timestamp = timestamp]
ddb_save_message(db, m) == [db EXCEPT !.messages = @ \cup {m}]
ddb_remove_message(db, m) == [db EXCEPT !.messages = @ \ {m}]
fetch_topic_messages(db) == db.messages \cap Topics
fetch_timestamp_messages(db, timestamp) == {m \in db.messages \ Topics : m > timestamp}

-----------------------------------------------------------------------------
(* Calls of the Bigtable client, as functions of the row and the messages.   *)

(* A version that no row and no task knows: a small set stands for the uuids.*)
FreshVersion ==
  Min((1..(Cardinality(Tasks) + 2)) \ ({primary.user.version} \cup {task[u].user.version : u \in Tasks}))

(* is_incomplete_router_record: cells, but not those of a user.              *)
Incomplete(db) == ~HasUser(db) /\ (db.chids # {} \/ db.timestamp # 0 \/ db.user.version # 0)
RowExists(db) == HasUser(db) \/ Incomplete(db)

bt_add_user(db, user) == IF RowExists(db) THEN db ELSE [db EXCEPT !.user = user]

bt_update_user(db, user, new) ==
  IF HasUser(db) /\ db.user.version = user.version
  THEN [db EXCEPT !.user = [user EXCEPT !.version = new]]
  ELSE db

bt_remove_user(db) == [db EXCEPT !.user = NoUser, !.chids = {}, !.timestamp = 0]
bt_add_channels(db, chids) == [db EXCEPT !.chids = @ \cup chids]

bt_remove_channel(db, chid, new) ==
  IF chid \in db.chids THEN [db EXCEPT !.chids = @ \ {chid}, !.user.version = new] ELSE db

bt_remove_node_id(db, user) ==
  IF HasUser(db) /\ db.user.version = user.version THEN [db EXCEPT !.user.node_id = "none"] ELSE db

bt_increment_storage(db, timestamp, new) == [db EXCEPT !.timestamp = timestamp, !.user.version = new]
bt_save_message(db, m) == [db EXCEPT !.messages = @ \cup {m}]
bt_remove_message(db, m) == [db EXCEPT !.messages = @ \ {m}]

-----------------------------------------------------------------------------
(* A dual operation as the calls it makes.  "must": its failure is returned  *)
(* at once; "late": it is returned after the other call; "ignored": logged.  *)

Call(db, name, when) == [db |-> db, name |-> name, when |-> when]

(* Writes that go to the secondary only when the setting says so.            *)
Mirror(name) == IF WriteToSecondary THEN <<Call("secondary", name, "ignored")>> ELSE <<>>

(* What a removal that forgets the secondary would do.                       *)
RemovalForgets(op) == <<Call("primary", op, "must")>>

(* Removals go to the secondary whatever the setting says.                   *)
Removal(op) == <<Call("primary", op, "must"), Call("secondary", op, "ignored")>>

(* The operations of the dual client on a user of the primary.               *)
add_user == <<Call("primary", "add_user", "must")>> \o Mirror("add_user")
update_user == <<Call("primary", "update_user", "must")>> \o Mirror("update_user")
remove_user == Removal("remove_user")
add_channels == <<Call("primary", "add_channels", "late")>> \o Mirror("add_channels")
remove_channel == Removal("remove_channel")
remove_node_id == Removal("remove_node_id")
save_message ==
  (IF WriteToSecondary THEN <<Call("secondary", "save_message", "must")>> ELSE <<>>)
  \o <<Call("primary", "save_message", "must")>>
remove_message == Removal("remove_message")
increment_storage ==
  <<Call("secondary", "increment_storage", "ignored"), Call("primary", "increment_storage", "must")>>

(* allot: a user that is not migrated yet is left to the secondary alone.    *)
Program(op) ==
  IF ~should_migrate THEN <<Call("secondary", op, "must")>>
  ELSE CASE op = "add_user"          -> add_user
         [] op = "update_user"       -> update_user
         [] op = "remove_user"       -> remove_user
         [] op = "add_channels"      -> add_channels
         [] op = "remove_channel"    -> remove_channel
         [] op = "remove_node_id"    -> remove_node_id
         [] op = "save_message"      -> save_message
         [] op = "remove_message"    -> remove_message
         [] op = "increment_storage" -> increment_storage

(* What the call does to its database.                                       *)
OnSecondary(t, name) ==
  CASE name = "add_user"          -> ddb_add_user(secondary, task[t].user)
    [] name = "update_user"       -> ddb_update_user(secondary, task[t].user)
    [] name = "remove_user"       -> ddb_remove_user(secondary)
    [] name = "add_channels"      -> ddb_add_channels(secondary, task[t].chids)
    [] name = "remove_channel"    -> ddb_remove_channel(secondary, CHOOSE c \in task[t].chids : TRUE)
    [] name = "remove_node_id"    -> ddb_remove_node_id(secondary, task[t].user)
    [] name = "save_message"      -> ddb_save_message(secondary, task[t].arg)
    [] name = "remove_message"    -> ddb_remove_message(secondary, task[t].arg)
    [] name = "increment_storage" -> ddb_increment_storage(secondary, task[t].arg)

OnPrimary(t, name) ==
  CASE name = "add_user"          -> bt_add_user(primary, task[t].user)
    [] name = "update_user"       -> bt_update_user(primary, task[t].user, FreshVersion)
    [] name = "remove_user"       -> bt_remove_user(primary)
    [] name = "add_channels"      -> bt_add_channels(primary, task[t].chids)
    [] name = "remove_channel"    -> bt_remove_channel(primary, CHOOSE c \in task[t].chids : TRUE, FreshVersion)
    [] name = "remove_node_id"    -> bt_remove_node_id(primary, task[t].user)
    [] name = "save_message"      -> bt_save_message(primary, task[t].arg)
    [] name = "remove_message"    -> bt_remove_message(primary, task[t].arg)
    [] name = "increment_storage" -> bt_increment_storage(primary, task[t].arg, FreshVersion)

-----------------------------------------------------------------------------
Set(t, record) == task' = [task EXCEPT ![t] = record]
Stop(t) == Set(t, Idle)
Start(t, op, user, chids, arg) ==
  Set(t, [Idle EXCEPT !.op = op, !.pc = "run", !.user = user, !.chids = chids, !.arg = arg,
                      !.prog = Program(op)])

SameDbs == UNCHANGED <<primary, secondary>>
SameAgent == UNCHANGED <<registered, removed, connected, read, acked, pointer>>

(* get_user: the target first.                                               *)
GetUser(t) ==
  /\ task[t].pc = "idle"
  /\ LET db == IF should_migrate THEN primary ELSE secondary
     IN IF HasUser(db)
        THEN Set(t, [Idle EXCEPT !.op = "get_user", !.pc = "have", !.user = db.user])
        ELSE Set(t, [Idle EXCEPT !.op = "get_user",
                     !.pc = IF ~should_migrate THEN "none"
                            ELSE IF Incomplete(db) THEN "drop" ELSE "secondary"])
  /\ SameDbs /\ SameAgent

(* Bigtable's get_user drops an incomplete record in a second call.          *)
DropIncomplete(t) ==
  /\ task[t].pc \in {"drop", "drop again"}
  /\ primary' = bt_remove_user(primary)
  /\ Set(t, IF task[t].pc = "drop" THEN [task[t] EXCEPT !.pc = "secondary"] ELSE Idle)
  /\ UNCHANGED secondary /\ SameAgent

(* The user was not in the primary: an error of the secondary counts as none.*)
GetSecondary(t) ==
  /\ task[t].pc = "secondary"
  /\ \/ /\ HasUser(secondary)
        /\ Set(t, [task[t] EXCEPT !.pc = "migrate",
                     !.user = [secondary.user EXCEPT !.version = FreshVersion]])
     \/ /\ ~HasUser(secondary) \/ Failures
        /\ Set(t, [task[t] EXCEPT !.pc = "none"])
  /\ SameDbs /\ SameAgent

(* primary.add_user, which a row that exists makes fail as Conditional.      *)
Migrate(t) ==
  /\ task[t].pc = "migrate"
  /\ IF RowExists(primary)
     THEN Set(t, [task[t] EXCEPT !.pc = "again"])
     ELSE Set(t, [task[t] EXCEPT !.pc = "channels"])
  /\ primary' = bt_add_user(primary, task[t].user)
  /\ UNCHANGED secondary /\ SameAgent

(* Someone else migrates the user: read it again, or back off.               *)
GetAgain(t) ==
  /\ task[t].pc = "again"
  /\ Set(t, IF HasUser(primary) THEN [task[t] EXCEPT !.pc = "have", !.user = primary.user]
            ELSE IF Incomplete(primary) THEN [task[t] EXCEPT !.pc = "drop again"]
            ELSE Idle)
  /\ SameDbs /\ SameAgent

(* What a migration that leaves the channels behind would do.                *)
ReadChannelsNot(t) ==
  /\ task[t].pc = "channels"
  /\ Set(t, [task[t] EXCEPT !.pc = "have"])
  /\ SameDbs /\ SameAgent

ReadChannels(t) ==
  /\ task[t].pc = "channels"
  /\ Set(t, [task[t] EXCEPT !.chids = secondary.chids,
               !.pc = IF secondary.chids = {} THEN "have" ELSE "add channels"])
  /\ SameDbs /\ SameAgent

AddMigrated(t) ==
  /\ task[t].pc = "add channels"
  /\ primary' = bt_add_channels(primary, task[t].chids)
  /\ Set(t, [task[t] EXCEPT !.pc = "have"])
  /\ UNCHANGED secondary /\ SameAgent

(* A call of get_user fails and its error is returned, or the node stops.    *)
GetUserFails(t) ==
  /\ Failures
  /\ task[t].pc \in {"drop", "drop again", "migrate", "again", "channels", "add channels"}
  /\ Stop(t)
  /\ SameDbs /\ SameAgent

(* The caller of get_user: a hello that takes the user over, an endpoint     *)
(* that clears a stale node or only needed the user.                         *)
UseUser(t) ==
  /\ task[t].pc = "have"
  /\ \/ /\ connected < MaxConnected
        /\ connected' = connected + 1
        /\ Start(t, "update_user",
                 [task[t].user EXCEPT !.connected_at = connected + 1, !.node_id = "node"], {}, 0)
     \/ /\ task[t].user.node_id # "none"
        /\ Start(t, "remove_node_id", task[t].user, {}, 0)
        /\ UNCHANGED connected
     \/ Stop(t) /\ UNCHANGED connected
  /\ SameDbs /\ UNCHANGED <<registered, removed, read, acked, pointer>>

(* No user: the user agent is given another uaid and forgets this one.       *)
NoSuchUser(t) == task[t].pc = "none" /\ Stop(t) /\ SameDbs /\ SameAgent

(* The hello of a new user agent: its uaid is in neither database.           *)
NewUser(t) ==
  /\ task[t].pc = "idle" /\ connected = 0
  /\ connected' = 1
  /\ Start(t, "add_user", [connected_at |-> 1, node_id |-> "node", version |-> FreshVersion], {}, 0)
  /\ SameDbs /\ UNCHANGED <<registered, removed, read, acked, pointer>>

(* Operations of a session or a route on a user it has read before.          *)
Operation(t) ==
  /\ task[t].pc = "idle" /\ HasUser(IF should_migrate THEN primary ELSE secondary)
  /\ \/ /\ \E c \in Channels : Start(t, "add_channels", NoUser, {c}, 0)
        /\ UNCHANGED registered
     \/ \E c \in registered : /\ Start(t, "remove_channel", NoUser, {c}, 0)
                               /\ registered' = registered \ {c}
     \/ /\ Start(t, "remove_user", NoUser, {}, 0)
        /\ registered' = {}
     \/ /\ \E m \in Messages : /\ \A n \in primary.messages \cup secondary.messages \cup read : n < m
                               /\ Start(t, "save_message", NoUser, {}, m)
        /\ UNCHANGED registered
  /\ SameDbs /\ UNCHANGED <<removed, connected, read, acked, pointer>>

(* One call of the program of a task.  A call that fails may have been done. *)
RunCall(t) ==
  /\ task[t].pc = "run" /\ task[t].prog # <<>>
  /\ LET call == Head(task[t].prog)
         next == [task[t] EXCEPT !.prog = Tail(@)]
     IN \E done \in {TRUE, ~Failures}, ok \in {TRUE, ~Failures} :
          /\ ok => done
          /\ primary' = IF done /\ call.db = "primary" THEN OnPrimary(t, call.name) ELSE primary
          /\ secondary' = IF done /\ call.db = "secondary" THEN OnSecondary(t, call.name) ELSE secondary
          /\ Set(t, IF ok THEN next
                    ELSE IF call.when = "must" THEN Idle
                    ELSE [next EXCEPT !.failed = @ \/ call.when = "late"])
  /\ SameAgent

(* The operation returns to its caller.                                      *)
Return(t) ==
  /\ task[t].pc = "run" /\ task[t].prog = <<>>
  /\ registered' = IF task[t].op = "add_channels" /\ ~task[t].failed
                   THEN registered \cup task[t].chids ELSE registered
  /\ removed' = (removed \/ task[t].op = "remove_user")
  /\ acked' = IF task[t].op = "remove_message" THEN acked \cup {task[t].arg} ELSE acked
  /\ pointer' = IF task[t].op = "increment_storage" THEN task[t].arg ELSE pointer
  /\ Stop(t)
  /\ SameDbs /\ UNCHANGED <<connected, read>>

(* Reads of a session.  The secondary is asked only when the primary has     *)
(* nothing to give.                                                          *)
Stored(here, there) == IF should_migrate /\ here # {} THEN here ELSE there

(* Topic messages, of which the user agent acks one (remove_message).        *)
FetchTopic(t) ==
  /\ task[t].pc = "idle" /\ HasUser(IF should_migrate THEN primary ELSE secondary)
  /\ LET batch == Stored(fetch_topic_messages(primary), fetch_topic_messages(secondary))
     IN /\ read' = read \cup batch
        /\ \E m \in batch : Start(t, "remove_message", NoUser, {}, m)
  /\ SameDbs /\ UNCHANGED <<registered, removed, connected, acked, pointer>>

(* Timestamp messages, all acked (increment_storage).                        *)
FetchTimestamp(t) ==
  /\ task[t].pc = "idle" /\ HasUser(IF should_migrate THEN primary ELSE secondary)
  /\ LET batch == Stored(fetch_timestamp_messages(primary, pointer),
                         fetch_timestamp_messages(secondary, pointer))
     IN /\ batch # {}
        /\ read' = read \cup batch
        /\ Start(t, "increment_storage", NoUser, {}, Max(batch))
  /\ SameDbs /\ UNCHANGED <<registered, removed, connected, acked, pointer>>

Next ==
  \E t \in Tasks :
    \/ GetUser(t) \/ DropIncomplete(t) \/ GetSecondary(t) \/ Migrate(t) \/ GetAgain(t)
    \/ ReadChannels(t) \/ AddMigrated(t) \/ GetUserFails(t) \/ UseUser(t) \/ NoSuchUser(t)
    \/ NewUser(t) \/ Operation(t) \/ RunCall(t) \/ Return(t) \/ FetchTopic(t) \/ FetchTimestamp(t)

Spec == Init /\ [][Next]_vars

-----------------------------------------------------------------------------
Pcs == {"idle", "drop", "drop again", "secondary", "migrate", "again", "channels",
        "add channels", "have", "none", "run"}

TypeOK ==
  /\ primary.chids \subseteq Channels /\ secondary.chids \subseteq Channels
  /\ primary.messages \subseteq Messages /\ secondary.messages \subseteq Messages
  /\ secondary.user.version = 0
  /\ \A t \in Tasks : task[t].pc \in Pcs /\ task[t].chids \subseteq Channels
  /\ registered \subseteq Channels /\ read \subseteq Messages /\ acked \subseteq Topics
  /\ connected \in 0..MaxConnected /\ pointer \in {0} \cup Messages

Resting == \A t \in Tasks : task[t].pc = "idle"

(* A user in the primary has there every channel its user agent holds: the   *)
(* endpoint, which only asks the primary (get_channels), refuses no          *)
(* subscription of a migrated user.                                          *)
ChannelsKept == Resting /\ HasUser(primary) => registered \subseteq primary.chids

(* A channel that was given back does not return with a late migration       *)
(* (remove_channel, get_user).                                               *)
GivenBackStaysGone == Resting => primary.chids \subseteq registered

(* A user that was removed is not found again (remove_user, get_user).       *)
RemovedStaysGone == removed => ~HasUser(primary)

(* While both databases are written to, the secondary stays a copy that      *)
(* could take over: user, channels and pointer agree, and it has every       *)
(* message (update_user, add_channels, save_message).  Fails: get_user does  *)
(* not migrate the current_timestamp.                                        *)
MirrorInSync ==
  Resting /\ HasUser(primary) =>
    /\ [primary.user EXCEPT !.version = 0] = secondary.user
    /\ primary.chids = secondary.chids
    /\ primary.timestamp = secondary.timestamp
    /\ primary.messages \subseteq secondary.messages

(* A topic message that was acked is in neither database, so the fallback of *)
(* fetch_topic_messages does not deliver it again (remove_message).          *)
AckedTopicGone == Resting => acked \cap (primary.messages \cup secondary.messages) = {}

(* Two nodes that migrate one user at once, with hellos in between: the old  *)
(* record never replaces a newer one (get_user, add_user).                   *)
NotOlder ==
  HasUser(primary) /\ HasUser(primary)'
    => primary.user.connected_at <= primary'.user.connected_at
MigrationNeverOverwrites == [][NotOlder]_vars

(* The session never moves past a stored message it was not given, from      *)
(* whichever database (fetch_timestamp_messages, increment_storage).         *)
PendingNotSkipped ==
  \A m \in (primary.messages \cup secondary.messages) \ Topics : m <= pointer => m \in read
=============================================================================
