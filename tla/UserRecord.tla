------------------------------ MODULE UserRecord ------------------------------
(***************************************************************************)
(* The Bigtable row of one user (bigtable_client/mod.rs) under the calls of *)
(* concurrent tasks: sessions that connect, register channels and advance   *)
(* current_timestamp, the endpoint that clears a node_id or drops a user,   *)
(* and the routes that change a bridge token.                               *)
(*                                                                          *)
(* A row maps columns to cells [val, at]: "at" is the time the request was  *)
(* built plus the TTL (the same for all router cells, so the TTL is left    *)
(* out), and of two cells of a column the later one is read                 *)
(* (router_gc_policy_filter).  A call is three steps: the request is built, *)
(* the table applies it, the answer arrives; the request or the answer may  *)
(* be lost, and the call is then tried again with the same request          *)
(* (retry_policy).  All clocks are one clock.                               *)
(***************************************************************************)
EXTENDS Naturals, FiniteSets, TLC

CONSTANTS
  Tasks,        \* concurrent tasks of autoconnect and autoendpoint nodes
  Channels,     \* names of channel columns ("chid:..."), strings
  MaxClock,     \* bound on the clock
  MaxVersion,   \* bound on the number of generated versions
  MaxTimestamp, \* current_timestamps are 1..MaxTimestamp
  RetryCount,   \* settings.retry_count
  AnswersLost   \* whether the answer of an applied call may be lost

UserColumns == {"connected_at", "router_type", "record_version", "version",
                "router_data", "node_id", "current_timestamp"}

(* What the constants may be: assumed where the module is instantiated.      *)
UserRecordAssumption ==
  /\ MaxClock \in Nat /\ MaxVersion \in Nat /\ RetryCount \in Nat
  /\ MaxTimestamp \in Nat /\ AnswersLost \in BOOLEAN
  /\ Channels \subseteq STRING /\ IsFiniteSet(Channels) /\ Channels \cap UserColumns = {}

VARIABLES
  row,      \* the row of the user: a function from its columns to cells
  task,     \* what each task is doing
  clock,    \* ms_since_epoch
  versions, \* the number of versions generated (Uuid::new_v4)
  created,  \* whether the session that owns this uaid has added the user
  outcome   \* of the call that has just returned: what it did and what it told
vars == <<row, task, clock, versions, created, outcome>>

NoRow == <<>>
NoUser == <<>>
NoCall == [op |-> "none"]
Idle == [pc |-> "idle", flow |-> "none", user |-> NoUser, connectedAt |-> 0, call |-> NoCall]
NoOutcome == [op |-> "none", matched |-> FALSE, applied |-> FALSE]

Init ==
  /\ row = NoRow
  /\ task = [t \in Tasks |-> Idle]
  /\ clock = 1
  /\ versions = 0
  /\ created = FALSE
  /\ outcome = NoOutcome

-----------------------------------------------------------------------------
(* The table.                                                                *)

Has(r, c) == c \in DOMAIN r

(* Set cells built at a time: a cell older than the one there is not seen.   *)
SetCells(r, cells, at) ==
  [c \in DOMAIN r \cup DOMAIN cells |->
     IF Has(cells, c) /\ (~Has(r, c) \/ r[c].at <= at)
     THEN [val |-> cells[c], at |-> at]
     ELSE r[c]]

DeleteCells(r, columns) == [c \in DOMAIN r \ columns |-> r[c]]

(* version_filter, row_key_filter and the channel filter of remove_channel.  *)
Matches(r, call) ==
  CASE call.filter = "version" -> Has(r, "version") /\ r["version"].val = call.version
    [] call.filter = "row"     -> r # NoRow
    [] call.filter = "column"  -> call.delete \subseteq DOMAIN r
    [] OTHER                   -> TRUE

(* check_and_mutate_row and mutate_row: the mutations are applied when the   *)
(* filter's outcome is the requested state.                                  *)
Mutated(r, call) ==
  IF Matches(r, call) # call.state THEN r
  ELSE IF call.op = "remove_user" THEN NoRow
  ELSE SetCells(DeleteCells(r, call.delete), call.cells, call.at)

Request(op, filter, version, state, delete, cells) ==
  [op |-> op, filter |-> filter, version |-> version, state |-> state,
   delete |-> delete, cells |-> cells, at |-> clock, tries |-> 0,
   phase |-> "sent", matched |-> FALSE, applied |-> FALSE]

NewVersion == versions + 1

-----------------------------------------------------------------------------
(* The operations of DbClient, each as the request it builds.                *)

(* A user with some of its fields set.                                       *)
With(fields, user) ==
  [c \in DOMAIN fields \cup DOMAIN user |-> IF c \in DOMAIN fields THEN fields[c] ELSE user[c]]

(* user_to_row, with the version to write.                                   *)
user_to_row(user, version) == [user EXCEPT !["version"] = version]

add_user(user) ==
  Request("add_user", "row", 0, FALSE, {}, user_to_row(user, user["version"]))

update_user(user) ==
  Request("update_user", "version", user["version"], TRUE, {}, user_to_row(user, NewVersion))

remove_user == Request("remove_user", "none", 0, TRUE, {}, NoUser)

add_channels(channels) ==
  Request("add_channels", "none", 0, TRUE, {}, [c \in channels |-> 0])

remove_channel(channel) ==
  Request("remove_channel", "column", 0, TRUE, {channel}, [version |-> NewVersion])

remove_node_id(version) ==
  Request("remove_node_id", "version", version, TRUE, {"node_id"}, NoUser)

increment_storage(timestamp) ==
  Request("increment_storage", "none", 0, TRUE, {},
          [current_timestamp |-> timestamp, version |-> NewVersion])

(* What a test that does not know of the version column would do.            *)
is_incomplete_without_version(r) == DOMAIN r \subseteq {"current_timestamp"} \cup Channels

is_incomplete_router_record(r) == DOMAIN r \subseteq {"current_timestamp", "version"} \cup Channels

(* The columns get_user cannot do without.                                   *)
Required == {"connected_at", "router_type", "record_version", "version"}

(* The User that get_user makes of a row: no channels.                       *)
UserOf(r) == [c \in DOMAIN r \cap UserColumns |-> r[c].val]

-----------------------------------------------------------------------------
(* Steps of the tasks.                                                       *)

Busy(t, flow, user, call) ==
  task' = [task EXCEPT ![t] = [pc |-> "call", flow |-> flow, user |-> user,
                               connectedAt |-> @.connectedAt, call |-> call]]

Finish(t) == task' = [task EXCEPT ![t] = Idle]

(* A generated version is taken when the request is built.                   *)
TakeVersion == versions < MaxVersion /\ versions' = NewVersion

(* Hello of a new uaid: the user is added on its first register, once.       *)
Create(t) ==
  /\ task[t].pc = "idle" /\ ~created
  /\ TakeVersion
  /\ created' = TRUE
  /\ Busy(t, "create", NoUser,
          add_user([c \in Required \cup {"node_id"} |->
                      CASE c = "connected_at" -> clock
                        [] c = "version" -> NewVersion
                        [] c = "node_id" -> t
                        [] OTHER -> 0]))
  /\ UNCHANGED <<row, clock>> /\ outcome' = NoOutcome

(* get_or_create_user takes the time before it reads the user.               *)
HelloStart(t) ==
  /\ task[t].pc = "idle" /\ created
  /\ task' = [task EXCEPT ![t].pc = "hello", ![t].connectedAt = clock]
  /\ UNCHANGED <<row, clock, versions, created>> /\ outcome' = NoOutcome

(* get_user, for a hello, a token update, or the endpoint: a row without     *)
(* connected_at is dropped when it is incomplete, an Integrity error         *)
(* otherwise.                                                                *)
GetUser(t) ==
  /\ task[t].pc \in {"idle", "hello"} /\ created
  /\ \E flow \in IF task[t].pc = "hello" THEN {"hello"} ELSE {"token", "endpoint"} :
       IF row = NoRow
       THEN Finish(t)
       ELSE IF Has(row, "connected_at")
       THEN task' = [task EXCEPT ![t] = [@ EXCEPT
                !.pc = IF Required \subseteq DOMAIN row THEN "read" ELSE "integrity",
                !.flow = flow, !.user = UserOf(row)]]
       ELSE IF is_incomplete_router_record(row)
       THEN Busy(t, "drop", NoUser, remove_user)
       ELSE task' = [task EXCEPT ![t].pc = "integrity"]
  /\ UNCHANGED <<row, clock, versions, created>> /\ outcome' = NoOutcome

(* What a hello that does not compare the times would do.                    *)
HelloUnchecked(t) ==
  /\ task[t].pc = "read" /\ task[t].flow = "hello"
  /\ TakeVersion
  /\ Busy(t, "hello", task[t].user,
          update_user(With([node_id |-> t, connected_at |-> task[t].connectedAt], task[t].user)))
  /\ UNCHANGED <<row, clock, created>> /\ outcome' = NoOutcome

(* get_or_create_user after the read: a record that is ahead is refused.     *)
Hello(t) ==
  /\ task[t].pc = "read" /\ task[t].flow = "hello"
  /\ LET user == task[t].user IN
       IF user["connected_at"] > task[t].connectedAt
       THEN Finish(t) /\ UNCHANGED versions
       ELSE /\ TakeVersion
            /\ Busy(t, "hello", user,
                    update_user(With([node_id |-> t, connected_at |-> task[t].connectedAt], user)))
  /\ UNCHANGED <<row, clock, created>> /\ outcome' = NoOutcome

(* update_token_route, and the ADM router with a token the service changed.  *)
UpdateToken(t) ==
  /\ task[t].pc = "read" /\ task[t].flow = "token"
  /\ TakeVersion
  /\ Busy(t, "token", task[t].user, update_user(With([router_data |-> 1], task[t].user)))
  /\ UNCHANGED <<row, clock, created>> /\ outcome' = NoOutcome

(* The endpoint found no session on the node it read, or drops the user.     *)
ClearNode(t) ==
  /\ task[t].pc = "read" /\ task[t].flow = "endpoint"
  /\ \/ /\ Has(task[t].user, "node_id")
        /\ Busy(t, "clear", task[t].user, remove_node_id(task[t].user["version"]))
     \/ Busy(t, "drop", task[t].user, remove_user)
  /\ UNCHANGED <<row, clock, versions, created>> /\ outcome' = NoOutcome

(* Calls of a session that is connected: register, unregister, and the end   *)
(* of a batch of stored messages.                                            *)
SessionCall(t) ==
  /\ task[t].pc = "idle" /\ created
  /\ \/ /\ \E c \in Channels : Busy(t, "session", NoUser, add_channels({c}))
        /\ UNCHANGED versions
     \/ /\ TakeVersion
        /\ \/ \E c \in Channels : Busy(t, "session", NoUser, remove_channel(c))
           \/ \E ts \in 1..MaxTimestamp : Busy(t, "session", NoUser, increment_storage(ts))
  /\ UNCHANGED <<row, clock, created>> /\ outcome' = NoOutcome

(* The table applies the request.                                            *)
Apply(t) ==
  LET call == task[t].call IN
  /\ task[t].pc = "call" /\ call.phase = "sent"
  /\ row' = Mutated(row, call)
  /\ task' = [task EXCEPT ![t].call = [call EXCEPT
                !.phase = "answered",
                !.matched = Matches(row, call),
                !.applied = call.applied \/ (Matches(row, call) = call.state)]]
  /\ UNCHANGED <<clock, versions, created>> /\ outcome' = NoOutcome

(* The answer arrives and the operation returns.                             *)
Answer(t) ==
  LET call == task[t].call IN
  /\ task[t].pc = "call" /\ call.phase = "answered"
  /\ outcome' = [op |-> call.op, matched |-> call.matched, applied |-> call.applied]
  /\ IF task[t].flow = "create" /\ ~call.matched
     THEN \E c \in Channels : Busy(t, "session", NoUser, add_channels({c}))
     ELSE Finish(t)
  /\ UNCHANGED <<row, clock, versions, created>>

(* A retryable failure: the request was lost, or its answer.                 *)
CallFails(t) ==
  LET call == task[t].call IN
  /\ task[t].pc = "call"
  /\ call.phase = "sent" \/ AnswersLost
  /\ IF call.tries < RetryCount
     THEN task' = [task EXCEPT ![t].call = [call EXCEPT !.phase = "sent", !.tries = call.tries + 1]]
     ELSE Finish(t)
  /\ UNCHANGED <<row, clock, versions, created>> /\ outcome' = NoOutcome

Tick ==
  /\ clock < MaxClock
  /\ clock' = clock + 1
  /\ UNCHANGED <<row, task, versions, created>> /\ outcome' = NoOutcome

Next ==
  \/ Tick
  \/ \E t \in Tasks :
       \/ Create(t) \/ HelloStart(t) \/ GetUser(t) \/ Hello(t) \/ UpdateToken(t) \/ ClearNode(t)
       \/ SessionCall(t) \/ Apply(t) \/ Answer(t) \/ CallFails(t)

Spec == Init /\ [][Next]_vars

-----------------------------------------------------------------------------
TypeOK ==
  /\ DOMAIN row \subseteq UserColumns \cup Channels
  /\ \A c \in DOMAIN row : row[c].at \in 1..MaxClock
  /\ \A t \in Tasks : task[t].pc \in {"idle", "hello", "read", "call", "integrity"}
  /\ clock \in 1..MaxClock /\ versions \in 0..MaxVersion /\ created \in BOOLEAN

(* No sequence of adds, updates, removals, late increments and retries       *)
(* leaves a row get_user cannot read: every row it finds is a whole user or  *)
(* an incomplete record it may drop.                                         *)
NoIntegrityError == \A t \in Tasks : task[t].pc # "integrity"

(* update_user is optimistic: whatever is read and delayed in between, the   *)
(* connected_at of a user that exists never goes back, so an older hello     *)
(* never takes the user from a newer one.                                    *)
NotOlder ==
  Has(row, "connected_at") /\ Has(row', "connected_at")
    => row["connected_at"].val <= row'["connected_at"].val
ConnectedAtGrows == [][NotOlder]_vars

(* remove_node_id, sent with the version the endpoint read, clears the       *)
(* node_id it read and never the one of a session that connected since.      *)
ReadNodeCleared ==
  \A t \in Tasks :
    /\ task[t].pc = "call" /\ task[t].call.op = "remove_node_id"
    /\ task[t].call.phase = "sent" /\ task'[t].pc = "call" /\ task'[t].call.phase = "answered"
    /\ Has(row, "node_id") /\ ~Has(row', "node_id") /\ Has(row', "connected_at")
    => row["node_id"].val = task[t].user["node_id"]
OnlyReadNodeCleared == [][ReadNodeCleared]_vars

(* DbClient::remove_node_id says of itself that the node ID will only be     *)
(* removed if `connected_at` matches up with the item's `connected_at`.      *)
ConnectedAtMatches ==
  \A t \in Tasks :
    /\ task[t].pc = "call" /\ task[t].call.op = "remove_node_id"
    /\ task[t].call.phase = "sent" /\ task'[t].pc = "call" /\ task'[t].call.phase = "answered"
    /\ Has(row, "node_id") /\ ~Has(row', "node_id")
    => Has(row, "connected_at") /\ row["connected_at"].val = task[t].user["connected_at"]
RemovedIfConnectedAtMatches == [][ConnectedAtMatches]_vars

(* An update_user or add_user that reports failure has changed nothing: what *)
(* check_and_mutate_row returns tells whether the mutations were applied.    *)
ResultTellsApplied ==
  /\ outcome.op = "update_user" => (outcome.applied <=> outcome.matched)
  /\ outcome.op = "add_user" => (outcome.applied <=> ~outcome.matched)
=============================================================================
