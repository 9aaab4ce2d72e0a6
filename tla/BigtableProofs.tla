---------------------------- MODULE BigtableProofs ----------------------------
(***************************************************************************)
(* Proofs about module UserRecord: for any number of tasks, channels,       *)
(* retries and versions, whatever the order in which requests reach the     *)
(* table; and, at the end, about module MessageTable.                       *)
(***************************************************************************)
EXTENDS UserRecord, Sequences, TLAPS

(* The columns that may stand without the rest of a user.                    *)
Loose == {"current_timestamp", "version"} \cup Channels

IsRow(r) ==
  /\ r = [c \in DOMAIN r |-> r[c]]
  /\ DOMAIN r \subseteq UserColumns \cup Channels
  /\ \A c \in DOMAIN r : r[c].at \in Nat
  /\ "connected_at" \in DOMAIN r => r["connected_at"].val \in Nat

(* A row is a whole user, or has none of the columns only a user has.        *)
WholeOrLoose(r) == DOMAIN r \subseteq Loose \/ Required \subseteq DOMAIN r

RowOK(r) == IsRow(r) /\ WholeOrLoose(r)

(* What get_user hands out, and add_user and update_user write.              *)
IsUser(u) ==
  /\ u = [c \in DOMAIN u |-> u[c]]
  /\ Required \subseteq DOMAIN u /\ DOMAIN u \subseteq UserColumns
  /\ u["connected_at"] \in Nat

TaskForm(T) ==
  T = [pc |-> T.pc, flow |-> T.flow, user |-> T.user, connectedAt |-> T.connectedAt,
       call |-> T.call]

CallForm(c) ==
  /\ c = [op |-> c.op, filter |-> c.filter, version |-> c.version, state |-> c.state,
          delete |-> c.delete, cells |-> c.cells, at |-> c.at, tries |-> c.tries,
          phase |-> c.phase, matched |-> c.matched, applied |-> c.applied]
  /\ c.at \in Nat

(* The requests there are, by what they are conditional on and write.        *)
AddCall(c) ==
  c.op = "add_user" /\ c.filter = "row" /\ c.state = FALSE /\ c.delete = {} /\ IsUser(c.cells)
UpdateCall(c) ==
  c.op = "update_user" /\ c.filter = "version" /\ c.state = TRUE /\ c.delete = {} /\ IsUser(c.cells)
RemoveUserCall(c) == c.op = "remove_user" /\ c.filter = "none" /\ DOMAIN c.cells = {}
NodeCall(c) ==
  /\ c.op = "remove_node_id" /\ c.filter = "version" /\ c.state = TRUE
  /\ c.delete = {"node_id"} /\ DOMAIN c.cells = {}
LooseCall(c) ==
  /\ c.op \in {"add_channels", "remove_channel", "increment_storage"}
  /\ c.filter \in {"none", "column"} /\ c.delete \subseteq Channels /\ DOMAIN c.cells \subseteq Loose
  /\ c.cells = [d \in DOMAIN c.cells |-> c.cells[d]]

(* What a task that has sent a request is waiting for.                       *)
CallOK(T) ==
  LET c == T.call IN
  /\ CallForm(c)
  /\ AddCall(c) \/ UpdateCall(c) \/ RemoveUserCall(c) \/ NodeCall(c) \/ LooseCall(c)
  /\ c.filter = "version" => IsUser(T.user) /\ c.version = T.user["version"]
  /\ UpdateCall(c) => T.user["connected_at"] <= c.cells["connected_at"]

TaskOK(T) ==
  /\ TaskForm(T) /\ T.connectedAt \in Nat
  /\ T.pc \in {"idle", "hello", "read", "call"}
  /\ T.pc = "read" => IsUser(T.user)
  /\ T.pc = "call" => CallOK(T)

IInv ==
  /\ clock \in Nat /\ versions \in Nat
  /\ RowOK(row)
  /\ task = [t \in Tasks |-> task[t]]
  /\ \A t \in Tasks : TaskOK(task[t])

(* A task holds the version it has read until its request is applied.        *)
Sent(T) == T.pc = "call" /\ T.call.phase = "sent"
Holds(T) == T.pc = "read" \/ (Sent(T) /\ T.call.filter = "version")
Writes(T) == Sent(T) /\ "version" \in DOMAIN T.call.cells

(* While the row has the version a task has read, it has the connected_at    *)
(* and the node_id read with it, unless the node_id is cleared.              *)
Agrees(T, r) ==
  "version" \in DOMAIN r /\ r["version"].val = T.user["version"] =>
    /\ "connected_at" \in DOMAIN r /\ r["connected_at"].val = T.user["connected_at"]
    /\ "node_id" \in DOMAIN r =>
         "node_id" \in DOMAIN T.user /\ r["node_id"].val = T.user["node_id"]
    /\ T.pc = "call" => r["version"].at <= T.call.at

(* A version that is yet to be written is in no row and read by no task.     *)
Fresh(T, r) == "version" \in DOMAIN r => r["version"].val # T.call.cells["version"]

InTime(r, at, n) ==
  /\ \A c \in DOMAIN r : r[c].at <= at
  /\ "version" \in DOMAIN r => r["version"].val \in 1..n
TaskIn(T, r, at, n) ==
  /\ T.pc = "call" => T.call.at <= at
  /\ Holds(T) => T.user["version"] \in 1..n /\ Agrees(T, r)
  /\ Writes(T) => T.call.cells["version"] \in 1..n /\ Fresh(T, r)

(* No two requests write the same version, and none a version another holds. *)
Apart(S, T) == Writes(S) /\ Holds(T) => S.call.cells["version"] # T.user["version"]
Distinct(S, T) ==
  Writes(S) /\ Writes(T) => S.call.cells["version"] # T.call.cells["version"]

LInv ==
  /\ InTime(row, clock, versions)
  /\ \A t \in Tasks : TaskIn(task[t], row, clock, versions)
  /\ \A t, u \in Tasks : Apart(task[t], task[u])
  /\ \A t, u \in Tasks : t # u => Distinct(task[t], task[u])

-----------------------------------------------------------------------------
(* How each step moves a task.                                               *)

Moved(t, T) == task' = [u \in Tasks |-> IF u = t THEN T ELSE task[u]]

Called(T, flow, user, call) ==
  [pc |-> "call", flow |-> flow, user |-> user, connectedAt |-> T.connectedAt, call |-> call]

LEMMA BusyMoves ==
  ASSUME IInv, NEW t \in Tasks, NEW flow, NEW user, NEW call, Busy(t, flow, user, call)
  PROVE  Moved(t, Called(task[t], flow, user, call))
<1>1. TaskForm(task[t]) /\ task = [u \in Tasks |-> task[u]]
  BY DEF IInv, TaskOK
<1> QED BY <1>1 DEF Busy, Moved, Called, TaskForm

LEMMA FinishMoves ==
  ASSUME IInv, NEW t \in Tasks, Finish(t)
  PROVE  Moved(t, Idle)
BY DEF Finish, Moved, IInv

LEMMA EmptyUser == DOMAIN NoUser = {} /\ NoUser = [c \in DOMAIN NoUser |-> NoUser[c]]
BY DEF NoUser

LEMMA EmptyRow == DOMAIN NoRow = {} /\ RowOK(NoRow)
BY DEF NoRow, RowOK, IsRow, WholeOrLoose

\* The fields of a request.
IsRequest(c, op, filter, version, state, delete, cells) ==
  /\ CallForm(c) /\ c.op = op /\ c.filter = filter /\ c.version = version
  /\ c.state = state /\ c.delete = delete /\ c.cells = cells /\ c.at = clock
  /\ c.phase = "sent"

LEMMA RequestFields ==
  ASSUME IInv, NEW op, NEW filter, NEW version, NEW state, NEW delete, NEW cells
  PROVE  IsRequest(Request(op, filter, version, state, delete, cells),
                   op, filter, version, state, delete, cells)
BY DEF Request, CallForm, IInv, IsRequest

\* A user with another node, connection time, token or version is still a user.
LEMMA UserConnected ==
  ASSUME NEW u, IsUser(u), NEW n \in Nat, NEW t
  PROVE  LET w == With([node_id |-> t, connected_at |-> n], u) IN
         IsUser(w) /\ w["connected_at"] = n /\ w["version"] = u["version"]
BY DEF IsUser, With, Required, UserColumns

LEMMA UserToken ==
  ASSUME NEW u, IsUser(u), NEW v
  PROVE  LET w == With([router_data |-> v], u) IN
         IsUser(w) /\ w["connected_at"] = u["connected_at"] /\ w["version"] = u["version"]
BY DEF IsUser, With, Required, UserColumns

LEMMA UserVersion ==
  ASSUME NEW u, IsUser(u), NEW v
  PROVE  /\ IsUser(user_to_row(u, v)) /\ user_to_row(u, v)["version"] = v
         /\ user_to_row(u, v)["connected_at"] = u["connected_at"]
BY DEF IsUser, user_to_row, Required, UserColumns

LEMMA CalledOK ==
  ASSUME IInv, NEW t \in Tasks, NEW flow, NEW user, NEW call,
         CallOK(Called(task[t], flow, user, call))
  PROVE  TaskOK(Called(task[t], flow, user, call))
BY DEF TaskOK, TaskForm, Called, IInv

LEMMA IdleOK == TaskOK(Idle) /\ ~Holds(Idle) /\ ~Writes(Idle) /\ Idle.pc = "idle"
BY DEF TaskOK, TaskForm, Idle, Holds, Writes, Sent

\* A step of one task keeps the invariant when its new record and the row do.
LEMMA MovedIInv ==
  ASSUME IInv, NEW t \in Tasks, NEW T, Moved(t, T), TaskOK(T),
         clock' \in Nat, versions' \in Nat, RowOK(row')
  PROVE  IInv'
BY DEF IInv, Moved

-----------------------------------------------------------------------------
(* What the requests do to a row.                                            *)

(* n is r without some columns and with some cells written at a time.        *)
IsSet(n, r, delete, cells, at) ==
  /\ DOMAIN n = (DOMAIN r \ delete) \cup DOMAIN cells
  /\ n = [c \in DOMAIN n |-> n[c]]
  /\ \A c \in DOMAIN n :
       \/ c \in DOMAIN cells /\ n[c].val = cells[c] /\ n[c].at = at
       \/ c \in DOMAIN r \ delete /\ n[c] = r[c]
  /\ \A c \in DOMAIN cells :
       c \notin DOMAIN r \/ r[c].at <= at => n[c].val = cells[c] /\ n[c].at = at

LEMMA SetCellsIs ==
  ASSUME NEW r, NEW delete, NEW cells, NEW at
  PROVE  IsSet(SetCells(DeleteCells(r, delete), cells, at), r, delete, cells, at)
BY DEF SetCells, DeleteCells, Has, IsSet

\* The rows a request can leave.
LEMMA MutatedIs ==
  ASSUME NEW r, NEW c
  PROVE  \/ Mutated(r, c) = r
         \/ c.op = "remove_user" /\ Mutated(r, c) = NoRow
         \/ /\ Matches(r, c) = c.state /\ c.op # "remove_user"
            /\ Mutated(r, c) = SetCells(DeleteCells(r, c.delete), c.cells, c.at)
BY DEF Mutated

LEMMA MutatedRow ==
  ASSUME UserRecordAssumption, NEW r, RowOK(r), NEW T, CallOK(T)
  PROVE  RowOK(Mutated(r, T.call))
<1> DEFINE c == T.call
           n == SetCells(DeleteCells(r, c.delete), c.cells, c.at)
<1> SUFFICES ASSUME Mutated(r, c) = n, c.op # "remove_user" PROVE RowOK(n)
  BY MutatedIs, EmptyRow
<1>1. c.at \in Nat
  BY DEF CallOK, CallForm
<1>2. /\ DOMAIN n = (DOMAIN r \ c.delete) \cup DOMAIN c.cells
      /\ n = [d \in DOMAIN n |-> n[d]]
      /\ \A d \in DOMAIN n :
           \/ d \in DOMAIN c.cells /\ n[d].val = c.cells[d] /\ n[d].at = c.at
           \/ d \in DOMAIN r \ c.delete /\ n[d] = r[d]
  <2>1. IsSet(n, r, c.delete, c.cells, c.at)
    BY SetCellsIs
  <2> HIDE DEF n
  <2> QED BY <2>1 DEF IsSet
<1> HIDE DEF n
<1>3. CASE AddCall(c) \/ UpdateCall(c)
  <2>1. c.delete = {} /\ IsUser(c.cells)
    BY <1>3 DEF AddCall, UpdateCall
  <2>2. DOMAIN n \subseteq UserColumns \cup Channels /\ Required \subseteq DOMAIN n
    BY <1>2, <2>1 DEF IsUser, RowOK, IsRow
  <2>3. \A d \in DOMAIN n : n[d].at \in Nat
    BY <1>1, <1>2 DEF RowOK, IsRow
  <2>4. "connected_at" \in DOMAIN n => n["connected_at"].val \in Nat
    BY <1>2, <2>1 DEF IsUser, RowOK, IsRow
  <2> QED BY <1>2, <2>2, <2>3, <2>4 DEF RowOK, IsRow, WholeOrLoose
<1>4. CASE NodeCall(c) \/ LooseCall(c)
  <2>1. DOMAIN c.cells \subseteq Loose /\ c.delete \subseteq Channels \cup {"node_id"}
    BY <1>4 DEF NodeCall, LooseCall
  <2>2. Channels \cap UserColumns = {}
    BY DEF UserRecordAssumption
  <2>3. Required \subseteq DOMAIN r => Required \subseteq DOMAIN n
    BY <1>2, <2>1, <2>2 DEF Required, UserColumns
  <2>4. DOMAIN r \subseteq Loose => DOMAIN n \subseteq Loose
    BY <1>2, <2>1
  <2>5. DOMAIN n \subseteq UserColumns \cup Channels
    BY <1>2, <2>1 DEF Loose, UserColumns, RowOK, IsRow
  <2>6. \A d \in DOMAIN n : n[d].at \in Nat
    BY <1>1, <1>2 DEF RowOK, IsRow
  <2>7. "connected_at" \in DOMAIN n => n["connected_at"].val \in Nat
    <3>1. "connected_at" \notin DOMAIN c.cells
      BY <2>1, <2>2 DEF Loose, UserColumns
    <3> QED BY <1>2, <3>1 DEF RowOK, IsRow
  <2> QED BY <1>2, <2>3, <2>4, <2>5, <2>6, <2>7 DEF RowOK, IsRow, WholeOrLoose
<1> QED BY <1>3, <1>4 DEF CallOK, RemoveUserCall

-----------------------------------------------------------------------------
(* The steps of a task that leave the row alone: it rests, or sends a new    *)
(* request, which holds a version only if the task has just read it, and     *)
(* writes none but the one generated now.                                    *)
Rests(t, T) ==
  /\ Moved(t, T) /\ TaskOK(T)
  /\ T.pc = "call" => T.call.at = clock
  /\ Holds(T) => T.pc = "call" /\ task[t].pc = "read" /\ T.user = task[t].user
  /\ Writes(T) => versions' = versions + 1 /\ T.call.cells["version"] = versions + 1
Quiet == row' = row /\ clock' = clock /\ versions' \in {versions, versions + 1}

LEMMA IdleRests == ASSUME IInv, NEW t \in Tasks, Finish(t) PROVE Rests(t, Idle)
BY FinishMoves, IdleOK DEF Rests

\* A request that is sent: what it must satisfy.
LEMMA CallRests ==
  ASSUME IInv, NEW t \in Tasks, NEW flow, NEW user, NEW c, Busy(t, flow, user, c),
         CallForm(c), c.at = clock, c.phase = "sent",
         AddCall(c) \/ UpdateCall(c) \/ RemoveUserCall(c) \/ NodeCall(c) \/ LooseCall(c),
         c.filter = "version" =>
           task[t].pc = "read" /\ user = task[t].user /\ c.version = user["version"],
         UpdateCall(c) => user["connected_at"] <= c.cells["connected_at"],
         "version" \in DOMAIN c.cells =>
           versions' = versions + 1 /\ c.cells["version"] = versions + 1
  PROVE  \E T : Rests(t, T)
<1> DEFINE T == Called(task[t], flow, user, c)
<1>1. Moved(t, T)
  BY BusyMoves
<1>2. T.call = c /\ T.user = user /\ T.pc = "call"
  BY DEF Called
<1>3. task[t].pc = "read" => IsUser(task[t].user)
  BY DEF IInv, TaskOK
<1>4. CallOK(T)
  BY <1>2, <1>3 DEF CallOK
<1>5. TaskOK(T)
  BY <1>4, CalledOK
<1> HIDE DEF T
<1>6. Rests(t, T)
  BY <1>1, <1>2, <1>5 DEF Rests, Holds, Writes, Sent
<1> QED BY <1>6

LEMMA CreateRests ==
  ASSUME IInv, NEW t \in Tasks, Create(t)
  PROVE  Quiet /\ \E T : Rests(t, T)
<1> DEFINE u == [c \in Required \cup {"node_id"} |->
                   CASE c = "connected_at" -> clock
                     [] c = "version" -> NewVersion
                     [] c = "node_id" -> t
                     [] OTHER -> 0]
           call == add_user(u)
<1>1. IsUser(u) /\ u["version"] = versions + 1
  BY DEF IsUser, Required, UserColumns, NewVersion, IInv
<1>2. Busy(t, "create", NoUser, call) /\ versions' = versions + 1 /\ Quiet
  BY DEF Create, TakeVersion, NewVersion, Quiet
<1> HIDE DEF u
<1>3. /\ IsUser(user_to_row(u, u["version"]))
      /\ user_to_row(u, u["version"])["version"] = versions + 1
  BY <1>1, UserVersion
<1>4. IsRequest(call, "add_user", "row", 0, FALSE, {}, user_to_row(u, u["version"]))
  BY RequestFields DEF add_user
<1> HIDE DEF call
<1>5. AddCall(call) /\ ~UpdateCall(call)
  BY <1>3, <1>4 DEF AddCall, UpdateCall, IsRequest
<1> QED BY <1>2, <1>3, <1>4, <1>5, CallRests DEF IsRequest

LEMMA TaskRestarted ==
  ASSUME NEW T, TaskForm(T), NEW p, NEW n
  PROVE  [T EXCEPT !.pc = p, !.connectedAt = n] =
           [pc |-> p, flow |-> T.flow, user |-> T.user, connectedAt |-> n, call |-> T.call]
<1> DEFINE W == [T EXCEPT !.pc = p]
<1>1. W = [pc |-> p, flow |-> T.flow, user |-> T.user, connectedAt |-> T.connectedAt,
           call |-> T.call]
  BY DEF TaskForm
<1> HIDE DEF W
<1>2. [W EXCEPT !.connectedAt = n] =
        [pc |-> p, flow |-> T.flow, user |-> T.user, connectedAt |-> n, call |-> T.call]
  BY <1>1
<1> QED BY <1>2 DEF W

LEMMA HelloStartRests ==
  ASSUME IInv, NEW t \in Tasks, HelloStart(t)
  PROVE  Quiet /\ \E T : Rests(t, T)
<1> DEFINE T == [task[t] EXCEPT !.pc = "hello", !.connectedAt = clock]
<1>1. TaskForm(task[t]) /\ clock \in Nat /\ task = [u \in Tasks |-> task[u]]
  BY DEF IInv, TaskOK
<1>2. T = [pc |-> "hello", flow |-> task[t].flow, user |-> task[t].user,
           connectedAt |-> clock, call |-> task[t].call]
  BY <1>1, TaskRestarted
<1>3. Moved(t, T)
  BY <1>1 DEF HelloStart, Moved
<1>4. TaskOK(T) /\ T.pc = "hello"
  BY <1>1, <1>2 DEF TaskOK, TaskForm
<1> HIDE DEF T
<1>5. Rests(t, T)
  BY <1>3, <1>4 DEF Rests, Holds, Writes, Sent
<1> QED BY <1>5 DEF HelloStart, Quiet

\* update_user sent with the version read and a connected_at that is not older.
LEMMA UpdateRests ==
  ASSUME IInv, NEW t \in Tasks, NEW flow, task[t].pc = "read", NEW u, IsUser(u),
         u["version"] = task[t].user["version"],
         task[t].user["connected_at"] <= u["connected_at"],
         Busy(t, flow, task[t].user, update_user(u)), TakeVersion
  PROVE  \E T : Rests(t, T)
<1> DEFINE call == update_user(u)
<1>1. /\ IsUser(user_to_row(u, NewVersion)) /\ user_to_row(u, NewVersion)["version"] = NewVersion
      /\ user_to_row(u, NewVersion)["connected_at"] = u["connected_at"]
  BY UserVersion
<1>2. IsRequest(call, "update_user", "version", u["version"], TRUE, {},
                user_to_row(u, NewVersion))
  BY RequestFields DEF update_user
<1>3. Busy(t, flow, task[t].user, call)
  OBVIOUS
<1> HIDE DEF call
<1>4. UpdateCall(call)
  BY <1>1, <1>2 DEF UpdateCall, IsRequest
<1>5. versions' = versions + 1 /\ call.cells["version"] = versions + 1
  BY <1>1, <1>2 DEF TakeVersion, NewVersion, IsRequest
<1> QED BY <1>1, <1>2, <1>3, <1>4, <1>5, CallRests DEF IsRequest

LEMMA HelloRests ==
  ASSUME IInv, NEW t \in Tasks, Hello(t)
  PROVE  Quiet /\ \E T : Rests(t, T)
<1>1. task[t].pc = "read" /\ IsUser(task[t].user) /\ task[t].connectedAt \in Nat
  BY DEF Hello, IInv, TaskOK
<1>2. row' = row /\ clock' = clock
  BY DEF Hello
<1>3. CASE task[t].user["connected_at"] > task[t].connectedAt
  <2>1. Finish(t) /\ versions' = versions
    BY <1>3 DEF Hello
  <2> QED BY <1>2, <2>1, IdleRests DEF Quiet
<1>4. CASE ~(task[t].user["connected_at"] > task[t].connectedAt)
  <2> DEFINE u == With([node_id |-> t, connected_at |-> task[t].connectedAt], task[t].user)
  <2>1. TakeVersion /\ Busy(t, "hello", task[t].user, update_user(u))
    BY <1>4 DEF Hello
  <2>2. /\ IsUser(u) /\ u["connected_at"] = task[t].connectedAt
        /\ u["version"] = task[t].user["version"]
    BY <1>1, UserConnected
  <2>3. task[t].user["connected_at"] <= u["connected_at"]
    BY <1>1, <1>4, <2>2 DEF IsUser
  <2> HIDE DEF u
  <2>4. \E T : Rests(t, T)
    BY <1>1, <2>1, <2>2, <2>3, UpdateRests
  <2> QED BY <1>2, <2>1, <2>4 DEF Quiet, TakeVersion, NewVersion
<1> QED BY <1>3, <1>4

LEMMA UpdateTokenRests ==
  ASSUME IInv, NEW t \in Tasks, UpdateToken(t)
  PROVE  Quiet /\ \E T : Rests(t, T)
<1> DEFINE u == With([router_data |-> 1], task[t].user)
<1>1. task[t].pc = "read" /\ IsUser(task[t].user)
  BY DEF UpdateToken, IInv, TaskOK
<1>2. TakeVersion /\ Busy(t, "token", task[t].user, update_user(u))
  BY DEF UpdateToken
<1>3. /\ IsUser(u) /\ u["connected_at"] = task[t].user["connected_at"]
      /\ u["version"] = task[t].user["version"]
  BY <1>1, UserToken
<1>4. task[t].user["connected_at"] <= u["connected_at"]
  BY <1>1, <1>3 DEF IsUser
<1> HIDE DEF u
<1>5. \E T : Rests(t, T)
  BY <1>1, <1>2, <1>3, <1>4, UpdateRests
<1> QED BY <1>2, <1>5 DEF UpdateToken, Quiet, TakeVersion, NewVersion

\* remove_user, which is conditional on nothing.
LEMMA RemoveUserRests ==
  ASSUME IInv, NEW t \in Tasks, NEW user, Busy(t, "drop", user, remove_user)
  PROVE  \E T : Rests(t, T)
<1> DEFINE call == remove_user
<1>1. IsRequest(call, "remove_user", "none", 0, TRUE, {}, NoUser)
  BY RequestFields DEF remove_user
<1>2. Busy(t, "drop", user, call)
  OBVIOUS
<1> HIDE DEF call
<1>3. RemoveUserCall(call) /\ ~UpdateCall(call)
  BY <1>1, EmptyUser DEF RemoveUserCall, UpdateCall, IsRequest
<1>4. DOMAIN call.cells = {}
  BY <1>3 DEF RemoveUserCall
<1> QED BY <1>1, <1>2, <1>3, <1>4, CallRests DEF IsRequest

LEMMA ClearNodeRests ==
  ASSUME IInv, NEW t \in Tasks, ClearNode(t)
  PROVE  Quiet /\ \E T : Rests(t, T)
<1>1. task[t].pc = "read" /\ IsUser(task[t].user)
  BY DEF ClearNode, IInv, TaskOK
<1>2. Quiet
  BY DEF ClearNode, Quiet
<1>3. CASE Busy(t, "drop", task[t].user, remove_user)
  BY <1>2, <1>3, RemoveUserRests
<1>4. CASE Busy(t, "clear", task[t].user, remove_node_id(task[t].user["version"]))
  <2> DEFINE call == remove_node_id(task[t].user["version"])
  <2>1. IsRequest(call, "remove_node_id", "version", task[t].user["version"], TRUE,
                  {"node_id"}, NoUser)
    BY RequestFields DEF remove_node_id
  <2>2. Busy(t, "clear", task[t].user, call)
    BY <1>4
  <2> HIDE DEF call
  <2>3. NodeCall(call) /\ ~UpdateCall(call)
    BY <2>1, EmptyUser DEF NodeCall, UpdateCall, IsRequest
  <2>4. DOMAIN call.cells = {}
    BY <2>3 DEF NodeCall
  <2> QED BY <1>1, <1>2, <2>1, <2>2, <2>3, <2>4, CallRests DEF IsRequest
<1> QED BY <1>3, <1>4 DEF ClearNode

LEMMA AddChannelsRests ==
  ASSUME UserRecordAssumption, IInv, NEW t \in Tasks, NEW c \in Channels,
         Busy(t, "session", NoUser, add_channels({c}))
  PROVE  \E T : Rests(t, T)
<1> DEFINE call == add_channels({c})
           cells == [d \in {c} |-> 0]
<1>1. IsRequest(call, "add_channels", "none", 0, TRUE, {}, cells)
  BY RequestFields DEF add_channels
<1>2. DOMAIN cells = {c} /\ cells = [d \in DOMAIN cells |-> cells[d]]
  OBVIOUS
<1>3. Busy(t, "session", NoUser, call)
  OBVIOUS
<1> HIDE DEF call, cells
<1>4. LooseCall(call) /\ ~UpdateCall(call)
  BY <1>1, <1>2 DEF LooseCall, UpdateCall, IsRequest, Loose
<1>5. "version" \notin DOMAIN call.cells
  BY <1>1, <1>2 DEF IsRequest, UserRecordAssumption, UserColumns
<1> QED BY <1>1, <1>3, <1>4, <1>5, CallRests DEF IsRequest

LEMMA SessionRests ==
  ASSUME UserRecordAssumption, IInv, NEW t \in Tasks, SessionCall(t)
  PROVE  Quiet /\ \E T : Rests(t, T)
<1>1. Quiet
  BY DEF SessionCall, Quiet, TakeVersion, NewVersion
<1>2. ASSUME NEW c \in Channels, Busy(t, "session", NoUser, add_channels({c}))
      PROVE  \E T : Rests(t, T)
  BY <1>2, AddChannelsRests
<1>3. ASSUME NEW c \in Channels, TakeVersion, Busy(t, "session", NoUser, remove_channel(c))
      PROVE  \E T : Rests(t, T)
  <2> DEFINE call == remove_channel(c)
             cells == [version |-> NewVersion]
  <2>1. IsRequest(call, "remove_channel", "column", 0, TRUE, {c}, cells)
    BY RequestFields DEF remove_channel
  <2>2. /\ DOMAIN cells = {"version"} /\ cells = [d \in DOMAIN cells |-> cells[d]]
        /\ cells["version"] = versions + 1
    BY DEF NewVersion
  <2>3. Busy(t, "session", NoUser, call) /\ versions' = versions + 1
    BY <1>3 DEF TakeVersion, NewVersion
  <2> HIDE DEF call, cells
  <2>4. LooseCall(call) /\ ~UpdateCall(call)
    BY <2>1, <2>2 DEF LooseCall, UpdateCall, IsRequest, Loose
  <2> QED BY <2>1, <2>2, <2>3, <2>4, CallRests DEF IsRequest
<1>4. ASSUME NEW ts, TakeVersion, Busy(t, "session", NoUser, increment_storage(ts))
      PROVE  \E T : Rests(t, T)
  <2> DEFINE call == increment_storage(ts)
             cells == [current_timestamp |-> ts, version |-> NewVersion]
  <2>1. IsRequest(call, "increment_storage", "none", 0, TRUE, {}, cells)
    BY RequestFields DEF increment_storage
  <2>2. /\ DOMAIN cells = {"current_timestamp", "version"}
        /\ cells = [d \in DOMAIN cells |-> cells[d]]
        /\ cells["version"] = versions + 1
    BY DEF NewVersion
  <2>3. Busy(t, "session", NoUser, call) /\ versions' = versions + 1
    BY <1>4 DEF TakeVersion, NewVersion
  <2> HIDE DEF call, cells
  <2>4. LooseCall(call) /\ ~UpdateCall(call)
    BY <2>1, <2>2 DEF LooseCall, UpdateCall, IsRequest, Loose
  <2> QED BY <2>1, <2>2, <2>3, <2>4, CallRests DEF IsRequest
<1> QED BY <1>1, <1>2, <1>3, <1>4 DEF SessionCall

LEMMA AnswerRests ==
  ASSUME UserRecordAssumption, IInv, NEW t \in Tasks, Answer(t)
  PROVE  Quiet /\ \E T : Rests(t, T)
<1>1. Quiet
  BY DEF Answer, Quiet
<1>2. CASE Finish(t)
  BY <1>1, <1>2, IdleRests
<1>3. CASE \E c \in Channels : Busy(t, "session", NoUser, add_channels({c}))
  BY <1>1, <1>3, AddChannelsRests
<1> QED BY <1>2, <1>3 DEF Answer

-----------------------------------------------------------------------------
(* The steps in which a request is read from, applied to or retried on the   *)
(* row.                                                                      *)

(* The task has read the user of the row.                                    *)
Reads(t, T) ==
  Moved(t, T) /\ TaskOK(T) /\ T.pc = "read" /\ "connected_at" \in DOMAIN row /\ T.user = UserOf(row)

LEMMA ReadUser ==
  ASSUME NEW r, RowOK(r), "connected_at" \in DOMAIN r, Channels \cap UserColumns = {}
  PROVE  IsUser(UserOf(r)) /\ Required \subseteq DOMAIN r
<1>1. "connected_at" \notin Loose
  BY DEF Loose, UserColumns
<1>2. Required \subseteq DOMAIN r
  BY <1>1 DEF RowOK, WholeOrLoose
<1> QED BY <1>2 DEF RowOK, IsRow, UserOf, IsUser, Required, UserColumns

Reading(T, p, f, u) == [T EXCEPT !.pc = p, !.flow = f, !.user = u]

LEMMA TaskReads ==
  ASSUME NEW T, TaskForm(T), NEW p, NEW f, NEW u
  PROVE  Reading(T, p, f, u) =
           [pc |-> p, flow |-> f, user |-> u, connectedAt |-> T.connectedAt, call |-> T.call]
<1> DEFINE W == [T EXCEPT !.pc = p]
           V == [W EXCEPT !.flow = f]
<1>1. W = [pc |-> p, flow |-> T.flow, user |-> T.user, connectedAt |-> T.connectedAt,
           call |-> T.call]
  BY DEF TaskForm
<1>2. V = [pc |-> p, flow |-> f, user |-> T.user, connectedAt |-> T.connectedAt, call |-> T.call]
  <2> HIDE DEF W
  <2> QED BY <1>1
<1>3. [V EXCEPT !.user = u] =
        [pc |-> p, flow |-> f, user |-> u, connectedAt |-> T.connectedAt, call |-> T.call]
  <2> HIDE DEF V
  <2> QED BY <1>2
<1> QED BY <1>3 DEF Reading

LEMMA GetUserStep ==
  ASSUME UserRecordAssumption, IInv, NEW t \in Tasks, GetUser(t)
  PROVE  Quiet /\ \E T : Rests(t, T) \/ Reads(t, T)
<1>1. Quiet
  BY DEF GetUser, Quiet
<1>2. TaskForm(task[t]) /\ task[t].connectedAt \in Nat /\ task = [u \in Tasks |-> task[u]]
  BY DEF IInv, TaskOK
<1>3. Channels \cap UserColumns = {} /\ RowOK(row)
  BY DEF UserRecordAssumption, IInv
<1>4. CASE row = NoRow
  <2>1. Finish(t)
    BY <1>4 DEF GetUser
  <2> QED BY <1>1, <2>1, IdleRests
<1>5. CASE row # NoRow /\ "connected_at" \in DOMAIN row
  <2>1. IsUser(UserOf(row)) /\ Required \subseteq DOMAIN row
    BY <1>3, <1>5, ReadUser
  <2> DEFINE pc == IF Required \subseteq DOMAIN row THEN "read" ELSE "integrity"
  <2>2. PICK flow : task' = [task EXCEPT ![t] =
                      [@ EXCEPT !.pc = pc, !.flow = flow, !.user = UserOf(row)]]
    BY <1>5, Zenon DEF GetUser, Has
  <2> DEFINE T == Reading(task[t], pc, flow, UserOf(row))
  <2>0. pc = "read"
    BY <2>1
  <2> HIDE DEF pc
  <2>3. T = [pc |-> pc, flow |-> flow, user |-> UserOf(row),
             connectedAt |-> task[t].connectedAt, call |-> task[t].call]
    BY <1>2, TaskReads
  <2>4. Moved(t, T)
    <3>1. task' = [task EXCEPT ![t] = T]
      BY <2>2 DEF Reading
    <3> HIDE DEF T
    <3> QED BY <1>2, <3>1 DEF Moved
  <2> HIDE DEF T
  <2>5. TaskOK(T) /\ T.pc = "read" /\ T.user = UserOf(row)
    BY <1>2, <2>0, <2>1, <2>3 DEF TaskOK, TaskForm
  <2>6. Reads(t, T)
    BY <1>5, <2>4, <2>5 DEF Reads
  <2> QED BY <1>1, <2>6
<1>6. CASE row # NoRow /\ "connected_at" \notin DOMAIN row
  <2>1. DOMAIN row \subseteq Loose
    BY <1>3, <1>6 DEF RowOK, WholeOrLoose, Required
  <2>2. Busy(t, "drop", NoUser, remove_user)
    BY <1>6, <2>1 DEF GetUser, Has, is_incomplete_router_record, Loose
  <2> QED BY <1>1, <2>2, RemoveUserRests
<1> QED BY <1>4, <1>5, <1>6

(* The same request, in another phase.                                       *)
SameCall(S, T) ==
  /\ S.pc = "call" /\ T.pc = "call" /\ TaskForm(T) /\ CallForm(T.call)
  /\ T.user = S.user /\ T.connectedAt = S.connectedAt
  /\ T.call.op = S.call.op /\ T.call.filter = S.call.filter /\ T.call.version = S.call.version
  /\ T.call.state = S.call.state /\ T.call.delete = S.call.delete
  /\ T.call.cells = S.call.cells /\ T.call.at = S.call.at

LEMMA SameCallOK ==
  ASSUME NEW S, NEW T, TaskOK(S), SameCall(S, T)
  PROVE  TaskOK(T)
BY DEF TaskOK, CallOK, SameCall, AddCall, UpdateCall, RemoveUserCall, NodeCall, LooseCall

(* A call with its phase and two more of its fields set.                     *)
Answered(c, m, a) ==
  [op |-> c.op, filter |-> c.filter, version |-> c.version, state |-> c.state,
   delete |-> c.delete, cells |-> c.cells, at |-> c.at, tries |-> c.tries,
   phase |-> "answered", matched |-> m, applied |-> a]
Retried(c) ==
  [op |-> c.op, filter |-> c.filter, version |-> c.version, state |-> c.state,
   delete |-> c.delete, cells |-> c.cells, at |-> c.at, tries |-> c.tries + 1,
   phase |-> "sent", matched |-> c.matched, applied |-> c.applied]

Answering(c, m, a) == [c EXCEPT !.phase = "answered", !.matched = m, !.applied = c.applied \/ a]
Retrying(c) == [c EXCEPT !.phase = "sent", !.tries = c.tries + 1]
Calling(T, c) == [T EXCEPT !.call = c]

LEMMA CallAnswered ==
  ASSUME NEW c, CallForm(c), NEW m, NEW a
  PROVE  Answering(c, m, a) = Answered(c, m, c.applied \/ a)
<1> DEFINE W == [c EXCEPT !.phase = "answered"]
           V == [W EXCEPT !.matched = m]
<1>1. W = Answered(c, c.matched, c.applied)
  BY DEF CallForm, Answered
<1>2. V = Answered(c, m, c.applied)
  <2> HIDE DEF W
  <2> QED BY <1>1 DEF Answered
<1>3. [V EXCEPT !.applied = c.applied \/ a] = Answered(c, m, c.applied \/ a)
  <2> HIDE DEF V
  <2> QED BY <1>2 DEF Answered
<1> QED BY <1>3 DEF Answering

LEMMA CallRetried ==
  ASSUME NEW c, CallForm(c)
  PROVE  Retrying(c) = Retried(c)
<1> DEFINE W == [c EXCEPT !.phase = "sent"]
<1>1. W = [op |-> c.op, filter |-> c.filter, version |-> c.version, state |-> c.state,
           delete |-> c.delete, cells |-> c.cells, at |-> c.at, tries |-> c.tries,
           phase |-> "sent", matched |-> c.matched, applied |-> c.applied]
  BY DEF CallForm
<1>2. [W EXCEPT !.tries = c.tries + 1] = Retried(c)
  <2> HIDE DEF W
  <2> QED BY <1>1 DEF Retried
<1> QED BY <1>2 DEF Retrying

\* A task whose call is the one it had, in another phase.
LEMMA CallMoves ==
  ASSUME NEW T, TaskOK(T), T.pc = "call", NEW c, CallForm(c),
         c.op = T.call.op, c.filter = T.call.filter, c.version = T.call.version,
         c.state = T.call.state, c.delete = T.call.delete, c.cells = T.call.cells,
         c.at = T.call.at
  PROVE  SameCall(T, Calling(T, c)) /\ Calling(T, c).call = c
<1>1. TaskForm(T)
  BY DEF TaskOK
<1>2. Calling(T, c) = [pc |-> T.pc, flow |-> T.flow, user |-> T.user,
                       connectedAt |-> T.connectedAt, call |-> c]
  BY <1>1 DEF Calling, TaskForm
<1> QED BY <1>2 DEF SameCall, TaskForm

Applies(t, T) ==
  /\ Moved(t, T) /\ Sent(task[t]) /\ SameCall(task[t], T) /\ T.call.phase = "answered"
  /\ row' = Mutated(row, task[t].call) /\ clock' = clock /\ versions' = versions

LEMMA ApplyStep ==
  ASSUME IInv, NEW t \in Tasks, Apply(t)
  PROVE  \E T : Applies(t, T)
<1> DEFINE S == task[t]
           matched == Matches(row, S.call)
           c == Answering(S.call, matched, matched = S.call.state)
           T == Calling(S, c)
<1>1. TaskOK(S) /\ S.pc = "call" /\ S.call.phase = "sent" /\ CallForm(S.call)
  BY DEF Apply, IInv, TaskOK, CallOK
<1>2. task' = [task EXCEPT ![t].call = c]
  BY DEF Apply, Answering
<1>3. /\ CallForm(c) /\ c.op = S.call.op /\ c.filter = S.call.filter
      /\ c.version = S.call.version /\ c.state = S.call.state /\ c.delete = S.call.delete
      /\ c.cells = S.call.cells /\ c.at = S.call.at /\ c.phase = "answered"
  <2>1. c = Answered(S.call, matched, S.call.applied \/ (matched = S.call.state))
    BY <1>1, CallAnswered
  <2>2. S.call.at \in Nat
    BY <1>1 DEF CallForm
  <2> HIDE DEF c, matched
  <2> QED BY <2>1, <2>2 DEF Answered, CallForm
<1> HIDE DEF c
<1>4. SameCall(S, T) /\ T.call = c
  BY <1>1, <1>3, CallMoves
<1>5. Moved(t, T)
  <2>1. task' = [task EXCEPT ![t] = T]
    BY <1>2 DEF Calling
  <2>2. task = [u \in Tasks |-> task[u]]
    BY DEF IInv
  <2> HIDE DEF T
  <2> QED BY <2>1, <2>2 DEF Moved
<1>6. row' = Mutated(row, S.call) /\ clock' = clock /\ versions' = versions
  BY DEF Apply
<1> HIDE DEF T
<1>7. Applies(t, T)
  BY <1>1, <1>3, <1>4, <1>5, <1>6 DEF Applies, Sent
<1> QED BY <1>7

Retries(t, T) ==
  /\ Moved(t, T) /\ SameCall(task[t], T)
  /\ row' = row /\ clock' = clock /\ versions' = versions

LEMMA CallFailsStep ==
  ASSUME IInv, NEW t \in Tasks, CallFails(t)
  PROVE  \/ Quiet /\ Rests(t, Idle)
         \/ \E T : Retries(t, T)
<1> DEFINE S == task[t]
           c == Retrying(S.call)
           T == Calling(S, c)
<1>1. TaskOK(S) /\ S.pc = "call" /\ CallForm(S.call)
  BY DEF CallFails, IInv, TaskOK, CallOK
<1>2. row' = row /\ clock' = clock /\ versions' = versions
  BY DEF CallFails
<1>3. CASE Finish(t)
  BY <1>2, <1>3, IdleRests DEF Quiet
<1>4. CASE ~Finish(t)
  <2>1. task' = [task EXCEPT ![t].call = c]
    BY <1>4 DEF CallFails, Retrying
  <2>2. /\ CallForm(c) /\ c.op = S.call.op /\ c.filter = S.call.filter
        /\ c.version = S.call.version /\ c.state = S.call.state /\ c.delete = S.call.delete
        /\ c.cells = S.call.cells /\ c.at = S.call.at
    <3>1. c = Retried(S.call)
      BY <1>1, CallRetried
    <3>2. S.call.at \in Nat
      BY <1>1 DEF CallForm
    <3> HIDE DEF c
    <3> QED BY <3>1, <3>2 DEF Retried, CallForm
  <2> HIDE DEF c
  <2>3. SameCall(S, T)
    BY <1>1, <2>2, CallMoves
  <2>4. Moved(t, T)
    <3>1. task' = [task EXCEPT ![t] = T]
      BY <2>1 DEF Calling
    <3>2. task = [u \in Tasks |-> task[u]]
      BY DEF IInv
    <3> HIDE DEF T
    <3> QED BY <3>1, <3>2 DEF Moved
  <2> QED BY <1>2, <2>3, <2>4 DEF Retries
<1> QED BY <1>3, <1>4

-----------------------------------------------------------------------------
LEMMA InitIInv == ASSUME Init PROVE IInv
BY IdleOK, EmptyRow DEF Init, IInv

LEMMA QuietIInv ==
  ASSUME IInv, Quiet, NEW t \in Tasks, NEW T, Moved(t, T), TaskOK(T)
  PROVE  IInv'
<1>1. clock' \in Nat /\ versions' \in Nat /\ RowOK(row')
  BY DEF IInv, Quiet
<1> QED BY <1>1, MovedIInv

LEMMA TaskIInv ==
  ASSUME UserRecordAssumption, IInv, NEW t \in Tasks,
         \/ Create(t) \/ HelloStart(t) \/ GetUser(t) \/ Hello(t) \/ UpdateToken(t) \/ ClearNode(t)
         \/ SessionCall(t) \/ Apply(t) \/ Answer(t) \/ CallFails(t)
  PROVE  IInv'
<1>1. ASSUME Quiet, NEW T, Rests(t, T) \/ Reads(t, T) PROVE IInv'
  <2>1. Moved(t, T) /\ TaskOK(T)
    BY <1>1 DEF Rests, Reads
  <2> QED BY <1>1, <2>1, QuietIInv
<1>2. CASE Create(t)
  BY <1>1, <1>2, CreateRests
<1>3. CASE HelloStart(t)
  BY <1>1, <1>3, HelloStartRests
<1>4. CASE GetUser(t)
  BY <1>1, <1>4, GetUserStep
<1>5. CASE Hello(t)
  BY <1>1, <1>5, HelloRests
<1>6. CASE UpdateToken(t)
  BY <1>1, <1>6, UpdateTokenRests
<1>7. CASE ClearNode(t)
  BY <1>1, <1>7, ClearNodeRests
<1>8. CASE SessionCall(t)
  BY <1>1, <1>8, SessionRests
<1>9. CASE Answer(t)
  BY <1>1, <1>9, AnswerRests
<1>10. CASE Apply(t)
  <2>1. PICK T : Applies(t, T)
    BY <1>10, ApplyStep
  <2>2. TaskOK(T)
    BY <2>1, SameCallOK DEF Applies, IInv
  <2>3. RowOK(row')
    <3>1. CallOK(task[t]) /\ RowOK(row)
      BY <2>1 DEF IInv, TaskOK, Applies, Sent
    <3> QED BY <2>1, <3>1, MutatedRow DEF Applies
  <2> QED BY <2>1, <2>2, <2>3, MovedIInv DEF Applies, IInv
<1>11. CASE CallFails(t)
  <2>1. CASE Quiet /\ Rests(t, Idle)
    BY <1>1, <2>1
  <2>2. CASE \E T : Retries(t, T)
    <3>1. PICK T : Retries(t, T)
      BY <2>2
    <3>2. TaskOK(T)
      BY <3>1, SameCallOK DEF Retries, IInv
    <3> QED BY <3>1, <3>2, MovedIInv DEF Retries, IInv
  <2> QED BY <1>11, <2>1, <2>2, CallFailsStep
<1> QED BY <1>2, <1>3, <1>4, <1>5, <1>6, <1>7, <1>8, <1>9, <1>10, <1>11

LEMMA NextIInv ==
  ASSUME UserRecordAssumption, IInv, [Next]_vars
  PROVE  IInv'
<1>1. CASE Tick
  BY <1>1 DEF Tick, IInv
<1>2. CASE UNCHANGED vars
  BY <1>2 DEF vars, IInv
<1> QED BY <1>1, <1>2, TaskIInv DEF Next

LEMMA Invariance == ASSUME UserRecordAssumption PROVE Spec => []IInv
<1>1. Init => IInv
  BY InitIInv
<1>2. IInv /\ [Next]_vars => IInv'
  BY NextIInv
<1> QED BY <1>1, <1>2, PTL DEF Spec

\* However adds, updates, removals and late increments of any number of tasks are
\* applied, lost and tried again, get_user never fails on an Integrity error: the row
\* it finds has all the columns of a user, or none that is_incomplete_router_record
\* does not let it drop.
THEOREM RecordsReadable ==
  ASSUME UserRecordAssumption
  PROVE  Spec => []NoIntegrityError
<1>1. IInv => NoIntegrityError
  BY DEF IInv, TaskOK, NoIntegrityError
<1> QED BY <1>1, Invariance, PTL

-----------------------------------------------------------------------------
(* The version is a lock as long as every request is applied at most once.   *)

LEMMA MatchesIs ==
  ASSUME NEW r, NEW c
  PROVE  /\ c.filter = "version" /\ Matches(r, c) = TRUE =>
              "version" \in DOMAIN r /\ r["version"].val = c.version
         /\ c.filter = "row" /\ Matches(r, c) = FALSE => r = NoRow
<1>1. CASE c.filter = "version"
  <2>1. Matches(r, c) = (Has(r, "version") /\ r["version"].val = c.version)
    BY <1>1 DEF Matches
  <2> QED BY <1>1, <2>1 DEF Has
<1>2. CASE c.filter = "row"
  <2>1. Matches(r, c) = (r # NoRow)
    BY <1>2 DEF Matches
  <2> QED BY <1>2, <2>1
<1> QED BY <1>1, <1>2

(* How a request that a task has sent may change the row.                    *)
OwnVersion(S, n) ==
  /\ Writes(S) /\ "version" \in DOMAIN n
  /\ n["version"].val = S.call.cells["version"] /\ n["version"].at = S.call.at
SameVersion(r, n) ==
  /\ "version" \in DOMAIN r /\ "version" \in DOMAIN n /\ n["version"] = r["version"]
  /\ "connected_at" \in DOMAIN r =>
       "connected_at" \in DOMAIN n /\ n["connected_at"] = r["connected_at"]
  /\ "node_id" \in DOMAIN n => "node_id" \in DOMAIN r /\ n["node_id"] = r["node_id"]
RowMoves(S, r, n) ==
  /\ "version" \notin DOMAIN n \/ OwnVersion(S, n) \/ SameVersion(r, n)
  /\ \A c \in DOMAIN n : (c \in DOMAIN r /\ n[c] = r[c]) \/ n[c].at = S.call.at
  /\ "connected_at" \in DOMAIN r /\ "connected_at" \in DOMAIN n =>
       r["connected_at"].val <= n["connected_at"].val
  /\ S.call.op = "remove_node_id" /\ "node_id" \in DOMAIN r /\ "node_id" \notin DOMAIN n =>
       /\ "connected_at" \in DOMAIN r /\ r["connected_at"].val = S.user["connected_at"]
       /\ r["node_id"].val = S.user["node_id"]

LEMMA MutatedMoves ==
  ASSUME UserRecordAssumption, NEW r, RowOK(r), NEW S, TaskOK(S), Sent(S),
         Holds(S) => Agrees(S, r)
  PROVE  RowMoves(S, r, Mutated(r, S.call))
<1> DEFINE c == S.call
           n == SetCells(DeleteCells(r, c.delete), c.cells, c.at)
<1>0. \A d \in DOMAIN r : r[d].at \in Nat
  BY DEF RowOK, IsRow
<1>1. "connected_at" \in DOMAIN r => r["connected_at"].val \in Nat
  BY DEF RowOK, IsRow
<1>2. CASE Mutated(r, c) = r
  BY <1>1, <1>2 DEF RowMoves, SameVersion
<1>3. CASE Mutated(r, c) = NoRow /\ c.op = "remove_user"
  BY <1>3, EmptyRow DEF RowMoves
<1>4. CASE Matches(r, c) = c.state /\ c.op # "remove_user" /\ Mutated(r, c) = n
  <2>1. IsSet(n, r, c.delete, c.cells, c.at)
    BY SetCellsIs
  <2> HIDE DEF n
  <2>2. /\ DOMAIN n = (DOMAIN r \ c.delete) \cup DOMAIN c.cells
        /\ \A d \in DOMAIN n :
             \/ d \in DOMAIN c.cells /\ n[d].val = c.cells[d] /\ n[d].at = c.at
             \/ d \in DOMAIN r \ c.delete /\ n[d] = r[d]
        /\ \A d \in DOMAIN c.cells :
             d \notin DOMAIN r \/ r[d].at <= c.at => n[d].val = c.cells[d] /\ n[d].at = c.at
    BY <2>1 DEF IsSet
  <2>3. \A d \in DOMAIN n : (d \in DOMAIN r /\ n[d] = r[d]) \/ n[d].at = c.at
    BY <2>2
  <2>4. CallOK(S)
    BY DEF TaskOK, Sent
  <2>5. CASE AddCall(c)
    <3>1. DOMAIN r = {}
      BY <1>4, <2>5, MatchesIs, EmptyRow DEF AddCall
    <3>2. "version" \in DOMAIN c.cells
      BY <2>5 DEF AddCall, IsUser, Required
    <3>3. OwnVersion(S, n)
      BY <2>2, <3>1, <3>2 DEF OwnVersion, Writes
    <3> QED BY <1>4, <2>3, <3>1, <3>3 DEF RowMoves
  <2>6. CASE UpdateCall(c)
    <3>1. /\ "version" \in DOMAIN r /\ r["version"].val = S.user["version"]
          /\ S.user["connected_at"] <= c.cells["connected_at"] /\ IsUser(S.user)
      BY <1>4, <2>4, <2>6, MatchesIs DEF UpdateCall, CallOK
    <3>2. Agrees(S, r)
      BY <2>6 DEF Holds, UpdateCall
    <3>3. /\ r["connected_at"].val = S.user["connected_at"] /\ r["version"].at <= c.at
      BY <3>1, <3>2 DEF Agrees, Sent
    <3>4. "version" \in DOMAIN c.cells
      BY <2>6 DEF UpdateCall, IsUser, Required
    <3>5. OwnVersion(S, n)
      BY <2>2, <3>3, <3>4 DEF OwnVersion, Writes
    <3>6. "connected_at" \in DOMAIN r /\ "connected_at" \in DOMAIN n =>
            r["connected_at"].val <= n["connected_at"].val
      BY <1>1, <2>2, <3>1, <3>3
    <3> QED BY <1>4, <2>3, <2>6, <3>5, <3>6 DEF RowMoves, UpdateCall
  <2>7. CASE NodeCall(c)
    <3>1. "version" \in DOMAIN r /\ r["version"].val = S.user["version"]
      BY <1>4, <2>4, <2>7, MatchesIs DEF NodeCall, CallOK
    <3>2. Agrees(S, r)
      BY <2>7 DEF Holds, NodeCall
    <3>3. /\ "connected_at" \in DOMAIN r /\ r["connected_at"].val = S.user["connected_at"]
          /\ "node_id" \in DOMAIN r => r["node_id"].val = S.user["node_id"]
      BY <3>1, <3>2 DEF Agrees
    <3>4. c.delete = {"node_id"} /\ DOMAIN c.cells = {}
      BY <2>7 DEF NodeCall
    <3>5. \A d \in DOMAIN n : d \in DOMAIN r /\ n[d] = r[d]
      BY <2>2, <3>4
    <3>6. SameVersion(r, n)
      BY <2>2, <3>1, <3>4, <3>5 DEF SameVersion
    <3> QED BY <1>1, <1>4, <2>3, <3>3, <3>5, <3>6 DEF RowMoves
  <2>8. CASE LooseCall(c)
    <3>1. /\ c.op # "remove_node_id" /\ c.delete \subseteq Channels
          /\ DOMAIN c.cells \subseteq Loose
      BY <2>8 DEF LooseCall
    <3>2. Channels \cap UserColumns = {}
      BY DEF UserRecordAssumption
    <3>3. /\ {"connected_at", "node_id"} \cap DOMAIN c.cells = {}
          /\ {"connected_at", "node_id", "version"} \cap c.delete = {}
      BY <3>1, <3>2 DEF Loose, UserColumns
    <3>4. /\ "connected_at" \in DOMAIN n <=> "connected_at" \in DOMAIN r
          /\ "connected_at" \in DOMAIN n => n["connected_at"] = r["connected_at"]
          /\ "node_id" \in DOMAIN n => "node_id" \in DOMAIN r /\ n["node_id"] = r["node_id"]
      BY <2>2, <3>3
    <3>5. "version" \notin DOMAIN n \/ OwnVersion(S, n) \/ SameVersion(r, n)
      BY <2>2, <3>3, <3>4 DEF OwnVersion, SameVersion, Writes
    <3> QED BY <1>1, <1>4, <2>3, <3>1, <3>4, <3>5 DEF RowMoves
  <2> QED BY <1>4, <2>4, <2>5, <2>6, <2>7, <2>8 DEF CallOK, RemoveUserCall
<1> QED BY <1>2, <1>3, <1>4, MutatedIs

\* A step of one task keeps the lock when its new record, and the others' with the
\* new row, do.
LEMMA MovedLInv ==
  ASSUME LInv, NEW t \in Tasks, NEW T, Moved(t, T),
         InTime(row', clock', versions'),
         TaskIn(T, row', clock', versions'), Apart(T, T),
         \A u \in Tasks \ {t} :
           /\ TaskIn(task[u], row', clock', versions')
           /\ Apart(T, task[u]) /\ Apart(task[u], T)
           /\ Distinct(T, task[u]) /\ Distinct(task[u], T)
  PROVE  LInv'
<1>1. \A u \in Tasks : task'[u] = IF u = t THEN T ELSE task[u]
  BY DEF Moved
<1>2. \A u \in Tasks : TaskIn(task'[u], row', clock', versions')
  BY <1>1
<1>3. \A u, v \in Tasks : Apart(task'[u], task'[v])
  BY <1>1 DEF LInv
<1>4. \A u, v \in Tasks : u # v => Distinct(task'[u], task'[v])
  BY <1>1 DEF LInv
<1> QED BY <1>2, <1>3, <1>4 DEF LInv

\* While the row stays, more versions and a later clock disturb no other task.
LEMMA LaterIn ==
  ASSUME NEW T, TaskOK(T), NEW r, NEW a \in Nat, NEW b \in Nat, NEW n \in Nat, NEW m \in Nat,
         a <= b, n <= m, TaskIn(T, r, a, n)
  PROVE  TaskIn(T, r, b, m)
<1>1. T.pc = "call" => T.call.at \in Nat
  BY DEF TaskOK, CallOK, CallForm
<1> QED BY <1>1 DEF TaskIn

LEMMA LaterRow ==
  ASSUME NEW r, RowOK(r), NEW a \in Nat, NEW b \in Nat, NEW n \in Nat, NEW m \in Nat,
         a <= b, n <= m, InTime(r, a, n)
  PROVE  InTime(r, b, m)
BY DEF InTime, RowOK, IsRow

LEMMA RestsLInv ==
  ASSUME IInv, LInv, Quiet, NEW t \in Tasks, NEW T, Rests(t, T)
  PROVE  LInv'
<1>1. /\ row' = row /\ clock' = clock /\ clock \in Nat /\ versions \in Nat /\ versions' \in Nat
      /\ versions <= versions'
  BY DEF Quiet, IInv
<1>2. InTime(row', clock', versions')
  BY <1>1, LaterRow DEF IInv, LInv
<1>3. \A u \in Tasks : TaskIn(task[u], row', clock', versions')
  BY <1>1, LaterIn DEF IInv, LInv
<1>4. /\ Moved(t, T)
      /\ T.pc = "call" => T.call.at = clock
      /\ Holds(T) => T.pc = "call" /\ task[t].pc = "read" /\ T.user = task[t].user
      /\ Writes(T) => versions' = versions + 1 /\ T.call.cells["version"] = versions + 1
  BY DEF Rests
<1>5. Holds(T) => /\ Holds(task[t]) /\ T.user = task[t].user
                  /\ T.user["version"] \in 1..versions /\ Agrees(task[t], row)
  BY <1>4 DEF LInv, TaskIn, Holds
<1>6. \A u \in Tasks :
        /\ Holds(task[u]) => task[u].user["version"] \in 1..versions
        /\ Writes(task[u]) => task[u].call.cells["version"] \in 1..versions
  BY DEF LInv, TaskIn
<1>7. Holds(T) => Agrees(T, row)
  <2> SUFFICES ASSUME Holds(T) PROVE Agrees(T, row)
    OBVIOUS
  <2>1. "version" \in DOMAIN row => row["version"].at <= clock
    BY DEF LInv, InTime
  <2> QED BY <1>4, <1>5, <2>1 DEF Agrees
<1>8. Writes(T) => Fresh(T, row)
  BY <1>1, <1>4 DEF LInv, InTime, Fresh
<1>9. TaskIn(T, row', clock', versions')
  BY <1>1, <1>4, <1>5, <1>7, <1>8 DEF TaskIn
<1>10. Apart(T, T)
  BY <1>1, <1>4, <1>5 DEF Apart
<1>11. ASSUME NEW u \in Tasks \ {t}
       PROVE  /\ Apart(T, task[u]) /\ Apart(task[u], T)
              /\ Distinct(T, task[u]) /\ Distinct(task[u], T)
  <2>1. Apart(T, task[u]) /\ Distinct(T, task[u]) /\ Distinct(task[u], T)
    BY <1>1, <1>4, <1>6 DEF Apart, Distinct
  <2>2. Apart(task[u], T)
    BY <1>5 DEF Apart, LInv
  <2> QED BY <2>1, <2>2
<1> QED BY <1>2, <1>3, <1>4, <1>9, <1>10, <1>11, MovedLInv

LEMMA ReadsLInv ==
  ASSUME UserRecordAssumption, IInv, LInv, Quiet, NEW t \in Tasks, NEW T, Reads(t, T)
  PROVE  LInv'
<1>1. /\ row' = row /\ clock' = clock /\ clock \in Nat /\ versions \in Nat /\ versions' \in Nat
      /\ versions <= versions'
  BY DEF Quiet, IInv
<1>2. InTime(row', clock', versions')
  BY <1>1, LaterRow DEF IInv, LInv
<1>3. \A u \in Tasks : TaskIn(task[u], row', clock', versions')
  BY <1>1, LaterIn DEF IInv, LInv
<1>4. Moved(t, T) /\ T.pc = "read" /\ "connected_at" \in DOMAIN row /\ T.user = UserOf(row)
  BY DEF Reads
<1>5. Required \subseteq DOMAIN row
  BY <1>4, ReadUser DEF IInv, UserRecordAssumption
<1>6. /\ "version" \in DOMAIN row /\ T.user["version"] = row["version"].val
      /\ T.user["connected_at"] = row["connected_at"].val
      /\ "node_id" \in DOMAIN row =>
           "node_id" \in DOMAIN T.user /\ T.user["node_id"] = row["node_id"].val
  BY <1>4, <1>5 DEF UserOf, UserColumns, Required
<1>7. ~Writes(T) /\ Agrees(T, row)
  BY <1>4, <1>6 DEF Writes, Sent, Agrees
<1>8. T.user["version"] \in 1..versions
  BY <1>6 DEF LInv, InTime
<1>9. TaskIn(T, row', clock', versions')
  BY <1>1, <1>4, <1>7, <1>8 DEF TaskIn
<1>10. \A u \in Tasks : Apart(task[u], T)
  BY <1>6 DEF Apart, LInv, TaskIn, Fresh
<1> QED BY <1>2, <1>3, <1>4, <1>7, <1>9, <1>10, MovedLInv DEF Apart, Distinct

LEMMA RetriesLInv ==
  ASSUME IInv, LInv, NEW t \in Tasks, NEW T, Retries(t, T), Sent(task[t])
  PROVE  LInv'
<1>1. row' = row /\ clock' = clock /\ versions' = versions /\ Moved(t, T)
  BY DEF Retries
<1>2. /\ T.user = task[t].user /\ T.call.filter = task[t].call.filter
      /\ T.call.cells = task[t].call.cells /\ T.call.at = task[t].call.at
      /\ T.pc = "call" /\ task[t].pc = "call"
  BY DEF Retries, SameCall
<1>3. Holds(T) => Holds(task[t])
  BY <1>2 DEF Holds, Sent
<1>4. Writes(T) => Writes(task[t])
  BY <1>2 DEF Writes
<1>5. TaskIn(T, row', clock', versions')
  BY <1>1, <1>2, <1>3, <1>4 DEF LInv, TaskIn, Agrees, Fresh
<1>6. Apart(T, T)
  BY <1>2, <1>3, <1>4 DEF LInv, Apart
<1>7. \A u \in Tasks \ {t} : /\ Apart(T, task[u]) /\ Apart(task[u], T)
                             /\ Distinct(T, task[u]) /\ Distinct(task[u], T)
  BY <1>2, <1>3, <1>4 DEF LInv, Apart, Distinct
<1>8. InTime(row', clock', versions') /\ \A u \in Tasks : TaskIn(task[u], row', clock', versions')
  BY <1>1 DEF LInv
<1> QED BY <1>1, <1>5, <1>6, <1>7, <1>8, MovedLInv

LEMMA AppliesMoves ==
  ASSUME UserRecordAssumption, IInv, LInv, NEW t \in Tasks, NEW T, Applies(t, T)
  PROVE  RowMoves(task[t], row, row')
<1>1. RowOK(row) /\ TaskOK(task[t]) /\ Sent(task[t])
  BY DEF IInv, Applies
<1>2. Holds(task[t]) => Agrees(task[t], row)
  BY DEF LInv, TaskIn
<1> QED BY <1>1, <1>2, MutatedMoves DEF Applies

LEMMA AppliesLInv ==
  ASSUME UserRecordAssumption, IInv, LInv, NEW t \in Tasks, NEW T, Applies(t, T)
  PROVE  LInv'
<1> DEFINE S == task[t]
           n == row'
<1>1. clock' = clock /\ versions' = versions /\ Moved(t, T) /\ Sent(S)
  BY DEF Applies
<1>2. T.pc = "call" /\ T.call.phase = "answered" /\ T.call.at = S.call.at
  BY DEF Applies, SameCall
<1>3. ~Holds(T) /\ ~Writes(T)
  BY <1>2 DEF Holds, Writes, Sent
<1>4. RowMoves(S, row, n)
  BY AppliesMoves
<1>5. /\ S.call.at <= clock
      /\ Writes(S) => S.call.cells["version"] \in 1..versions
  BY <1>1 DEF LInv, TaskIn, Sent
<1>6. InTime(n, clock', versions')
  <2>1. \A c \in DOMAIN n : n[c].at <= clock
    BY <1>4, <1>5 DEF RowMoves, LInv, InTime
  <2>2. "version" \in DOMAIN n => n["version"].val \in 1..versions
    BY <1>4, <1>5 DEF RowMoves, LInv, InTime, OwnVersion, SameVersion
  <2> QED BY <1>1, <2>1, <2>2 DEF InTime
<1>7. TaskIn(T, n, clock', versions')
  BY <1>1, <1>2, <1>3, <1>5 DEF TaskIn
<1> HIDE DEF n
<1>8. ASSUME NEW u \in Tasks \ {t} PROVE TaskIn(task[u], n, clock', versions')
  <2>1. TaskIn(task[u], row, clock, versions)
    BY DEF LInv
  <2>2. Holds(task[u]) => Agrees(task[u], n)
    <3> SUFFICES ASSUME Holds(task[u]) PROVE Agrees(task[u], n)
      OBVIOUS
    <3>1. Agrees(task[u], row)
      BY <2>1 DEF TaskIn
    <3>2. Writes(S) => S.call.cells["version"] # task[u].user["version"]
      BY DEF LInv, Apart
    <3>3. CASE "version" \notin DOMAIN n
      BY <3>3 DEF Agrees
    <3>4. CASE OwnVersion(S, n)
      BY <3>2, <3>4 DEF OwnVersion, Agrees
    <3>5. CASE SameVersion(row, n)
      BY <3>1, <3>5 DEF SameVersion, Agrees
    <3> QED BY <1>4, <3>3, <3>4, <3>5 DEF RowMoves
  <2>3. Writes(task[u]) => Fresh(task[u], n)
    <3> SUFFICES ASSUME Writes(task[u]) PROVE Fresh(task[u], n)
      OBVIOUS
    <3>1. Fresh(task[u], row)
      BY <2>1 DEF TaskIn
    <3>2. Writes(S) => S.call.cells["version"] # task[u].call.cells["version"]
      BY DEF LInv, Distinct
    <3> QED BY <1>4, <3>1, <3>2 DEF RowMoves, OwnVersion, SameVersion, Fresh
  <2> QED BY <1>1, <2>1, <2>2, <2>3 DEF TaskIn
<1>9. \A u \in Tasks \ {t} : /\ Apart(T, task[u]) /\ Apart(task[u], T)
                             /\ Distinct(T, task[u]) /\ Distinct(task[u], T)
  BY <1>3 DEF Apart, Distinct
<1>10. Apart(T, T)
  BY <1>3 DEF Apart
<1> QED BY <1>1, <1>6, <1>7, <1>8, <1>9, <1>10, MovedLInv DEF n

\* The steps there are, when no answer of a request that was applied is lost.
LEMMA NextSteps ==
  ASSUME UserRecordAssumption, AnswersLost = FALSE, IInv, [Next]_vars
  PROVE  \/ UNCHANGED <<row, task, versions>> /\ clock' \in {clock, clock + 1}
         \/ \E t \in Tasks : \E T :
              \/ Quiet /\ (Rests(t, T) \/ Reads(t, T))
              \/ Applies(t, T)
              \/ Retries(t, T) /\ Sent(task[t])
<1>1. CASE Tick \/ UNCHANGED vars
  BY <1>1 DEF Tick, vars
<1>2. ASSUME NEW t \in Tasks,
             \/ Create(t) \/ HelloStart(t) \/ GetUser(t) \/ Hello(t) \/ UpdateToken(t)
             \/ ClearNode(t) \/ SessionCall(t) \/ Answer(t)
      PROVE  \E T : Quiet /\ (Rests(t, T) \/ Reads(t, T))
  BY <1>2, CreateRests, HelloStartRests, GetUserStep, HelloRests, UpdateTokenRests,
     ClearNodeRests, SessionRests, AnswerRests
<1>3. ASSUME NEW t \in Tasks, Apply(t) PROVE \E T : Applies(t, T)
  BY <1>3, ApplyStep
<1>4. ASSUME NEW t \in Tasks, CallFails(t)
      PROVE  \E T : (Quiet /\ Rests(t, T)) \/ (Retries(t, T) /\ Sent(task[t]))
  <2>1. Sent(task[t])
    BY <1>4 DEF CallFails, Sent
  <2> QED BY <1>4, <2>1, CallFailsStep
<1>5. Tick \/ UNCHANGED vars \/ \E t \in Tasks :
        \/ Create(t) \/ HelloStart(t) \/ GetUser(t) \/ Hello(t) \/ UpdateToken(t) \/ ClearNode(t)
        \/ SessionCall(t) \/ Apply(t) \/ Answer(t) \/ CallFails(t)
  BY DEF Next
<1> QED BY <1>1, <1>2, <1>3, <1>4, <1>5

LEMMA InitLInv == ASSUME Init PROVE LInv
<1>1. \A t \in Tasks : task[t] = Idle
  BY DEF Init
<1>2. InTime(row, clock, versions)
  BY EmptyRow DEF Init, InTime
<1> QED BY <1>1, <1>2, IdleOK DEF LInv, TaskIn, Apart, Distinct

LEMMA NextLInv ==
  ASSUME UserRecordAssumption, AnswersLost = FALSE, IInv, LInv, [Next]_vars
  PROVE  LInv'
<1>1. CASE UNCHANGED <<row, task, versions>> /\ clock' \in {clock, clock + 1}
  <2>1. /\ clock \in Nat /\ clock' \in Nat /\ clock <= clock' /\ versions \in Nat
        /\ row' = row /\ task' = task /\ versions' = versions
    BY <1>1 DEF IInv
  <2>2. InTime(row', clock', versions')
    BY <2>1, LaterRow DEF IInv, LInv
  <2>3. \A u \in Tasks : TaskIn(task[u], row', clock', versions')
    BY <2>1, LaterIn DEF IInv, LInv
  <2> QED BY <2>1, <2>2, <2>3 DEF LInv
<1>2. ASSUME NEW t \in Tasks, NEW T,
             \/ Quiet /\ (Rests(t, T) \/ Reads(t, T))
             \/ Applies(t, T)
             \/ Retries(t, T) /\ Sent(task[t])
      PROVE  LInv'
  BY <1>2, RestsLInv, ReadsLInv, AppliesLInv, RetriesLInv
<1> QED BY <1>1, <1>2, NextSteps

LEMMA LockInvariance ==
  ASSUME UserRecordAssumption, AnswersLost = FALSE
  PROVE  Spec => [](IInv /\ LInv)
<1>1. Init => LInv
  BY InitLInv
<1>2. IInv /\ LInv /\ [Next]_vars => LInv'
  BY NextLInv
<1> QED BY <1>1, <1>2, Invariance, PTL DEF Spec

\* The row changes only when a request is applied, and then as RowMoves says.
LEMMA RowSteps ==
  ASSUME UserRecordAssumption, AnswersLost = FALSE, IInv, LInv, [Next]_vars
  PROVE  \/ row' = row
         \/ \E t \in Tasks :
              /\ RowMoves(task[t], row, row')
              /\ \A u \in Tasks \ {t} : task'[u] = task[u]
<1>1. ASSUME NEW t \in Tasks, NEW T, Applies(t, T)
      PROVE  RowMoves(task[t], row, row') /\ \A u \in Tasks \ {t} : task'[u] = task[u]
  BY <1>1, AppliesMoves DEF Applies, Moved
<1> QED BY <1>1, NextSteps DEF Quiet, Retries

\* update_user is optimistic: as long as no answer is lost, so that no request is
\* applied twice, the connected_at of a user never goes back, whatever was read and
\* delayed in between and however many tasks there are.
THEOREM ConnectedAtNeverBack ==
  ASSUME UserRecordAssumption, AnswersLost = FALSE
  PROVE  Spec => ConnectedAtGrows
<1>1. IInv /\ LInv /\ [Next]_vars => NotOlder
  <2> SUFFICES ASSUME IInv, LInv, [Next]_vars, Has(row, "connected_at"), Has(row', "connected_at")
               PROVE  row["connected_at"].val <= row'["connected_at"].val
    BY DEF NotOlder
  <2>1. row["connected_at"].val \in Nat
    BY DEF IInv, RowOK, IsRow, Has
  <2>2. CASE row' = row
    BY <2>1, <2>2
  <2>3. CASE \E t \in Tasks : RowMoves(task[t], row, row')
    BY <2>3 DEF RowMoves, Has
  <2> QED BY <2>2, <2>3, RowSteps
<1> QED BY <1>1, LockInvariance, PTL DEF Spec, ConnectedAtGrows

\* Under the same hypothesis remove_node_id, sent with the version the endpoint read,
\* clears the node_id that was read with it and no other ...
THEOREM ReadNodeIsCleared ==
  ASSUME UserRecordAssumption, AnswersLost = FALSE
  PROVE  Spec => OnlyReadNodeCleared
<1>1. IInv /\ LInv /\ [Next]_vars => ReadNodeCleared
  BY RowSteps DEF ReadNodeCleared, RowMoves, Has
<1> QED BY <1>1, LockInvariance, PTL DEF Spec, OnlyReadNodeCleared

\* ... and clears it only if the connected_at of the record is the one read, which is
\* what DbClient::remove_node_id promises although Bigtable compares only versions.
THEOREM ConnectedAtIsCompared ==
  ASSUME UserRecordAssumption, AnswersLost = FALSE
  PROVE  Spec => RemovedIfConnectedAtMatches
<1>1. IInv /\ LInv /\ [Next]_vars => ConnectedAtMatches
  BY RowSteps DEF ConnectedAtMatches, RowMoves, Has
<1> QED BY <1>1, LockInvariance, PTL DEF Spec, RemovedIfConnectedAtMatches

-----------------------------------------------------------------------------
(***************************************************************************)
(* The message table (module MessageTable): what a read of a message row   *)
(* returns, for any TTLs, any number of messages and any order in which    *)
(* their saves reach the table.                                            *)
(***************************************************************************)
CONSTANTS TTLs, Bodies, MaxMessages, MaxNow
VARIABLES m_row, pending, saved, newest, now
Table == INSTANCE MessageTable WITH row <- m_row

(* The columns a message cannot do without, which every save writes.         *)
Core == {"ttl", "timestamp", "version"}

Message == [version : Nat \ {0}, sent : Nat, expiry : Nat, body : BOOLEAN]

(* Every message is kept under its version.                                  *)
SavedOK ==
  /\ now \in Nat
  /\ saved \in Seq(Message)
  /\ \A i \in 1..Len(saved) : saved[i].version = i

(* A request in flight is that of a message saved.                           *)
PendingOK == \A m \in pending : m.version \in 1..Len(saved) /\ m = saved[m.version]

(* Every cell comes from a message and is stamped with its expiry.           *)
CellsOK(r) ==
  \A c \in DOMAIN r :
    r[c].val \in 1..Len(saved) /\ r[c].at = saved[r[c].val].expiry

(* The required cells are those of one message, the one that expires last:   *)
(* no other cell outlives them.                                              *)
CoreTogether(r) ==
  DOMAIN r # {} =>
    /\ Core \subseteq DOMAIN r
    /\ r["ttl"] = r["version"] /\ r["timestamp"] = r["version"]
    /\ \A c \in DOMAIN r : r[c].at <= r["version"].at

TableIsRow(r) == r = [c \in DOMAIN r |-> r[c]]

TableRowOK == TableIsRow(m_row) /\ CellsOK(m_row) /\ CoreTogether(m_row)

NewestOK == newest \in 0..Len(saved)

TableIInv == SavedOK /\ PendingOK /\ TableRowOK /\ NewestOK

-----------------------------------------------------------------------------
(* A function without a domain is the empty row.                             *)
LEMMA TableEmptyRow == ASSUME NEW r, TableIsRow(r), DOMAIN r = {} PROVE r = Table!NoRow
BY DEF TableIsRow, Table!NoRow

LEMMA NoRowIsEmpty == DOMAIN Table!NoRow = {} /\ TableIsRow(Table!NoRow)
BY DEF Table!NoRow, TableIsRow

LEMMA TableInitIInv == ASSUME Table!Init PROVE TableIInv
<1>1. SavedOK /\ PendingOK /\ NewestOK
  BY DEF Table!Init, SavedOK, PendingOK, NewestOK
<1>2. TableRowOK
  BY NoRowIsEmpty DEF Table!Init, TableRowOK, CellsOK, CoreTogether
<1> QED BY <1>1, <1>2 DEF TableIInv

\* The cells a save writes: the required ones always, all with one expiry.
LEMMA CellsOfMessage ==
  ASSUME NEW m \in Message
  PROVE  /\ Core \subseteq DOMAIN Table!MessageCells(m)
         /\ \A c \in DOMAIN Table!MessageCells(m) :
              /\ Table!MessageCells(m)[c].val = m.version /\ Table!MessageCells(m)[c].at = m.expiry
              /\ Table!MessageCells(m)[c] = [val |-> m.version, at |-> m.expiry]
BY DEF Table!MessageCells, Core

LEMMA WriteDomain ==
  ASSUME NEW r, NEW cells
  PROVE  /\ DOMAIN Table!Write(r, cells) = DOMAIN r \cup DOMAIN cells
         /\ TableIsRow(Table!Write(r, cells))
         /\ \A c \in DOMAIN r \cup DOMAIN cells : Table!Write(r, cells)[c] =
              IF c \in DOMAIN cells /\ (c \notin DOMAIN r \/ r[c].at <= cells[c].at)
              THEN cells[c] ELSE r[c]
BY DEF Table!Write, TableIsRow

\* A save keeps the row whole, whichever of the two messages expires first.
LEMMA WriteKeepsRow ==
  ASSUME SavedOK, TableRowOK, NEW m \in Message, m.version \in 1..Len(saved), m = saved[m.version]
  PROVE  LET r == Table!Write(m_row, Table!MessageCells(m)) IN TableIsRow(r) /\ CellsOK(r) /\ CoreTogether(r)
<1> DEFINE cells == Table!MessageCells(m)
           r == Table!Write(m_row, cells)
<1>1. /\ Core \subseteq DOMAIN cells
      /\ \A c \in DOMAIN cells : /\ cells[c].val = m.version /\ cells[c].at = m.expiry
                                 /\ cells[c] = [val |-> m.version, at |-> m.expiry]
  BY CellsOfMessage
<1>2. /\ DOMAIN r = DOMAIN m_row \cup DOMAIN cells
      /\ TableIsRow(r)
      /\ \A c \in DOMAIN m_row \cup DOMAIN cells : r[c] =
           IF c \in DOMAIN cells /\ (c \notin DOMAIN m_row \/ m_row[c].at <= cells[c].at)
           THEN cells[c] ELSE m_row[c]
  BY WriteDomain
<1> HIDE DEF cells, r
<1>3. CellsOK(m_row) /\ CoreTogether(m_row)
  BY DEF TableRowOK
<1>4. CellsOK(r)
  BY <1>1, <1>2, <1>3 DEF CellsOK
<1>5. \A c \in DOMAIN m_row : m_row[c].at \in Nat
  <2>1. \A c \in DOMAIN m_row : saved[m_row[c].val] \in Message
    BY <1>3 DEF CellsOK, SavedOK
  <2> QED BY <1>3, <2>1 DEF CellsOK, Message
<1>6. m.expiry \in Nat
  BY DEF Message
<1>7. CoreTogether(r)
  <2>1. CASE DOMAIN m_row = {}
    <3>1. \A c \in DOMAIN r : r[c] = cells[c] /\ c \in DOMAIN cells
      BY <1>2, <2>1
    <3> QED BY <1>1, <1>2, <1>6, <2>1, <3>1 DEF CoreTogether, Core
  <2>2. CASE DOMAIN m_row # {} /\ m_row["version"].at <= m.expiry
    <3>1. \A c \in DOMAIN m_row : m_row[c].at <= m.expiry
      BY <1>3, <1>5, <1>6, <2>2 DEF CoreTogether, Core
    <3>2. \A c \in Core : r[c] = cells[c]
      BY <1>1, <1>2, <3>1 DEF Core
    <3>3. \A c \in DOMAIN r : r[c].at <= m.expiry
      BY <1>1, <1>2, <1>5, <1>6, <3>1
    <3> QED BY <1>1, <1>2, <3>2, <3>3 DEF CoreTogether, Core
  <2>3. CASE DOMAIN m_row # {} /\ ~(m_row["version"].at <= m.expiry)
    <3>1. \A c \in Core : c \in DOMAIN m_row /\ m_row[c].at = m_row["version"].at
      BY <1>3, <2>3 DEF CoreTogether, Core
    <3>2. \A c \in Core : r[c] = m_row[c]
      BY <1>1, <1>2, <2>3, <3>1
    <3>3. \A c \in DOMAIN r : r[c].at <= m_row["version"].at
      BY <1>1, <1>2, <1>3, <1>5, <1>6, <2>3, <3>1 DEF CoreTogether, Core
    <3> QED BY <1>1, <1>2, <1>3, <2>3, <3>2, <3>3 DEF CoreTogether, Core
  <2> QED BY <2>1, <2>2, <2>3
<1> QED BY <1>2, <1>4, <1>7 DEF cells, r

\* Appending to a sequence of messages.
LEMMA SavedGrows ==
  ASSUME NEW s \in Seq(Message), NEW m \in Message
  PROVE  /\ Append(s, m) \in Seq(Message)
         /\ Len(Append(s, m)) = Len(s) + 1
         /\ \A i \in 1..Len(s) : Append(s, m)[i] = s[i]
         /\ Append(s, m)[Len(s) + 1] = m
OBVIOUS

LEMMA TableNextIInv ==
  ASSUME Table!MessageTableAssumption, TableIInv, [Table!Next]_(Table!vars)
  PROVE  TableIInv'
<1> USE DEF TableIInv
<1>0. Len(saved) \in Nat
  BY DEF SavedOK
<1>1. CASE Table!SaveRequest
  <2>1. PICK ttl \in TTLs, body \in Bodies :
          LET m == [version |-> Len(saved) + 1, sent |-> now, expiry |-> now + ttl, body |-> body]
          IN saved' = Append(saved, m) /\ pending' = pending \cup {m}
    BY <1>1 DEF Table!SaveRequest
  <2> DEFINE m == [version |-> Len(saved) + 1, sent |-> now, expiry |-> now + ttl, body |-> body]
  <2>2. m \in Message /\ m.version = Len(saved) + 1
    BY <1>0 DEF Table!MessageTableAssumption, SavedOK, Message
  <2>3. saved' = Append(saved, m) /\ pending' = pending \cup {m}
    BY <2>1
  <2>4. m_row' = m_row /\ newest' = newest /\ now' = now
    BY <1>1 DEF Table!SaveRequest
  <2> HIDE DEF m
  <2>5. /\ saved' \in Seq(Message) /\ Len(saved') = Len(saved) + 1
        /\ \A i \in 1..Len(saved) : saved'[i] = saved[i]
        /\ saved'[Len(saved) + 1] = m
    BY <2>2, <2>3, SavedGrows DEF SavedOK
  <2>6. SavedOK'
    BY <1>0, <2>2, <2>4, <2>5 DEF SavedOK
  <2>7. PendingOK'
    BY <1>0, <2>2, <2>3, <2>5 DEF PendingOK
  <2>8. TableRowOK'
    BY <1>0, <2>4, <2>5 DEF TableRowOK, TableIsRow, CellsOK, CoreTogether
  <2>9. NewestOK'
    BY <1>0, <2>4, <2>5 DEF NewestOK
  <2> QED BY <2>6, <2>7, <2>8, <2>9
<1>2. CASE Table!save_message
  <2>1. PICK m \in pending :
          /\ m_row' = Table!Write(m_row, Table!MessageCells(m))
          /\ newest' = IF newest = 0 \/ saved[newest].sent <= m.sent THEN m.version ELSE newest
          /\ pending' \subseteq pending
    BY <1>2 DEF Table!save_message
  <2>2. saved' = saved /\ now' = now
    BY <1>2 DEF Table!save_message
  <2>3. m.version \in 1..Len(saved) /\ m = saved[m.version] /\ m \in Message
    BY DEF PendingOK, SavedOK
  <2>4. TableRowOK'
    BY <2>1, <2>2, <2>3, WriteKeepsRow DEF TableRowOK, CellsOK, CoreTogether, TableIsRow
  <2>5. SavedOK' /\ PendingOK'
    BY <2>1, <2>2 DEF SavedOK, PendingOK
  <2>6. NewestOK'
    BY <1>0, <2>1, <2>2, <2>3 DEF NewestOK
  <2> QED BY <2>4, <2>5, <2>6
<1>3. CASE Table!remove_message
  <2>1. TableRowOK'
    BY <1>3, NoRowIsEmpty DEF Table!remove_message, TableRowOK, CellsOK, CoreTogether
  <2> QED BY <1>0, <1>3, <2>1 DEF Table!remove_message, SavedOK, PendingOK, NewestOK
<1>4. CASE Table!Tick
  BY <1>4 DEF Table!Tick, SavedOK, PendingOK, NewestOK, TableRowOK, TableIsRow, CellsOK, CoreTogether
<1>5. CASE UNCHANGED Table!vars
  BY <1>5 DEF Table!vars, SavedOK, PendingOK, NewestOK, TableRowOK, TableIsRow, CellsOK, CoreTogether
<1> QED BY <1>1, <1>2, <1>3, <1>4, <1>5 DEF Table!Next

LEMMA TableInvariance == ASSUME Table!MessageTableAssumption PROVE Table!Spec => []TableIInv
<1>1. Table!Init => TableIInv
  BY TableInitIInv
<1>2. TableIInv /\ [Table!Next]_(Table!vars) => TableIInv'
  BY TableNextIInv
<1> QED BY <1>1, <1>2, PTL DEF Table!Spec

-----------------------------------------------------------------------------
\* What a read sees of a whole row: all of its required cells, or none at all.
LEMMA LiveRow ==
  ASSUME TableIInv
  PROVE  /\ \A c \in DOMAIN m_row : m_row[c].at \in Nat
         /\ \/ Table!Live(m_row) = Table!NoRow
            \/ /\ Core \subseteq DOMAIN Table!Live(m_row) /\ Table!Live(m_row)["version"] = m_row["version"]
               /\ "version" \in DOMAIN m_row /\ m_row["version"].at >= now
               /\ \A c \in DOMAIN m_row :
                    /\ c \in DOMAIN Table!Live(m_row) <=> m_row[c].at >= now
                    /\ c \in DOMAIN Table!Live(m_row) => Table!Live(m_row)[c] = m_row[c]
         /\ "version" \in DOMAIN m_row /\ m_row["version"].at >= now => Table!Live(m_row) # Table!NoRow
<1>1. CellsOK(m_row) /\ CoreTogether(m_row) /\ now \in Nat
  BY DEF TableIInv, TableRowOK, SavedOK
<1>2. \A c \in DOMAIN m_row : m_row[c].at \in Nat
  <2>1. \A c \in DOMAIN m_row : saved[m_row[c].val] \in Message
    BY <1>1 DEF CellsOK, SavedOK, TableIInv
  <2> QED BY <1>1, <2>1 DEF CellsOK, Message
<1>3. /\ DOMAIN Table!Live(m_row) = {d \in DOMAIN m_row : m_row[d].at >= now}
      /\ \A c \in DOMAIN Table!Live(m_row) : Table!Live(m_row)[c] = m_row[c]
      /\ TableIsRow(Table!Live(m_row))
  BY DEF Table!Live, TableIsRow
<1>4. CASE DOMAIN Table!Live(m_row) = {}
  BY <1>2, <1>3, <1>4, TableEmptyRow
<1>5. CASE DOMAIN Table!Live(m_row) # {}
  <2>1. PICK d \in DOMAIN m_row : m_row[d].at >= now
    BY <1>3, <1>5
  <2>2. m_row["version"].at >= now /\ Core \subseteq DOMAIN m_row
    BY <1>1, <1>2, <2>1 DEF CoreTogether, Core
  <2>3. Core \subseteq DOMAIN Table!Live(m_row)
    BY <1>1, <1>3, <2>1, <2>2 DEF CoreTogether, Core
  <2>4. Table!Live(m_row) # Table!NoRow
    BY <1>5, NoRowIsEmpty
  <2> QED BY <1>2, <1>3, <2>2, <2>3, <2>4 DEF Core
<1> QED BY <1>4, <1>5

\* Saves of any TTLs, with and without a body, applied in any order, tried again
\* and expiring: a message row that is read has the cells row_to_notification
\* requires, so that no session fails on an Integrity error.
THEOREM RowsReadable ==
  ASSUME Table!MessageTableAssumption
  PROVE  Table!Spec => []Table!ReadableWhole
<1>1. TableIInv => Table!ReadableWhole
  <2> SUFFICES ASSUME TableIInv PROVE Table!ReadableWhole
    OBVIOUS
  <2>1. CASE Table!Live(m_row) = Table!NoRow
    BY <2>1 DEF Table!ReadableWhole, Table!fetch_topic_messages, Table!row_to_notification, Table!NoMessage
  <2>2. CASE Table!Live(m_row) # Table!NoRow
    <3>1. {"version", "ttl", "timestamp"} \subseteq DOMAIN Table!Live(m_row)
      BY <2>2, LiveRow DEF Core
    <3> QED BY <2>2, <3>1 DEF Table!ReadableWhole, Table!fetch_topic_messages, Table!row_to_notification
  <2> QED BY <2>1, <2>2
<1> QED BY <1>1, TableInvariance, PTL

\* What is read, in terms of the row.
LEMMA VersionRead ==
  ASSUME TableIInv
  PROVE  /\ Table!fetch_topic_messages.version # 0 =>
              /\ "version" \in DOMAIN m_row /\ m_row["version"].at >= now
              /\ Table!fetch_topic_messages.version = m_row["version"].val
              /\ Table!fetch_topic_messages.data =
                   IF "data" \in DOMAIN m_row /\ m_row["data"].at >= now THEN m_row["data"].val ELSE 0
         /\ "version" \in DOMAIN m_row /\ m_row["version"].at >= now =>
              Table!fetch_topic_messages.version = m_row["version"].val
<1>1. CASE Table!Live(m_row) = Table!NoRow
  <2>1. Table!fetch_topic_messages.version = 0
    BY <1>1 DEF Table!fetch_topic_messages, Table!row_to_notification, Table!NoMessage
  <2> QED BY <1>1, <2>1, LiveRow
<1>2. CASE Table!Live(m_row) # Table!NoRow
  <2>1. /\ Table!fetch_topic_messages.version = Table!Live(m_row)["version"].val
        /\ Table!fetch_topic_messages.data =
             IF "data" \in DOMAIN Table!Live(m_row) THEN Table!Live(m_row)["data"].val ELSE 0
    BY <1>2, LiveRow DEF Table!fetch_topic_messages, Table!row_to_notification, Core
  <2>2. "data" \in DOMAIN Table!Live(m_row) <=> "data" \in DOMAIN m_row /\ m_row["data"].at >= now
    BY DEF Table!Live
  <2>3. "data" \in DOMAIN Table!Live(m_row) => Table!Live(m_row)["data"] = m_row["data"]
    BY DEF Table!Live
  <2> QED BY <1>2, <2>1, <2>2, <2>3, LiveRow
<1> QED BY <1>1, <1>2

\* No message is handed out after its expiry: of the cells of a column the one that
\* expires last is taken, and dropped when it has expired (message_gc_policy_filter).
THEOREM NoneReadExpired ==
  ASSUME Table!MessageTableAssumption
  PROVE  Table!Spec => []Table!ExpiredNotRead
<1>1. TableIInv => Table!ExpiredNotRead
  <2> SUFFICES ASSUME TableIInv, Table!fetch_topic_messages.version # 0
               PROVE  saved[Table!fetch_topic_messages.version].expiry >= now
    BY DEF Table!ExpiredNotRead
  <2>1. m_row["version"].at = saved[m_row["version"].val].expiry
    BY VersionRead DEF TableIInv, TableRowOK, CellsOK
  <2> QED BY <2>1, VersionRead
<1> QED BY <1>1, TableInvariance, PTL

-----------------------------------------------------------------------------
(* The cells that are read have the last expiry of all the messages applied, *)
(* and are those of the newest or of one that was not sent later; the data   *)
(* cell belongs to them if their message has data.                           *)
RowIsNewest ==
  /\ newest = 0 => DOMAIN m_row = {}
  /\ newest # 0 => /\ "version" \in DOMAIN m_row
                   /\ saved[m_row["version"].val].sent <= saved[newest].sent
                   /\ saved[m_row["version"].val].expiry >= saved[newest].expiry
DataWithVersion ==
  "version" \in DOMAIN m_row /\ saved[m_row["version"].val].body =>
    "data" \in DOMAIN m_row /\ m_row["data"] = m_row["version"]

NewestInv == RowIsNewest /\ DataWithVersion

\* A save that is applied: which of the two messages the row shows afterwards.
LEMMA NewestWritten ==
  ASSUME TableIInv, NewestInv, NEW m \in Message, m.version \in 1..Len(saved), m = saved[m.version],
         saved' = saved, m_row' = Table!Write(m_row, Table!MessageCells(m)),
         newest' = IF newest = 0 \/ saved[newest].sent <= m.sent THEN m.version ELSE newest
  PROVE  NewestInv'
<1> USE DEF NewestInv
<1>0. Len(saved) \in Nat /\ CellsOK(m_row) /\ CoreTogether(m_row)
  BY DEF TableIInv, SavedOK, TableRowOK
<1> DEFINE cells == Table!MessageCells(m)
<1>1. /\ Core \subseteq DOMAIN cells
      /\ \A c \in DOMAIN cells : cells[c] = [val |-> m.version, at |-> m.expiry]
  BY CellsOfMessage
<1>2. m.body <=> "data" \in DOMAIN cells
  BY DEF Table!MessageCells
<1>3. /\ DOMAIN m_row' = DOMAIN m_row \cup DOMAIN cells
      /\ \A c \in DOMAIN m_row \cup DOMAIN cells : m_row'[c] =
           IF c \in DOMAIN cells /\ (c \notin DOMAIN m_row \/ m_row[c].at <= cells[c].at)
           THEN cells[c] ELSE m_row[c]
  BY WriteDomain
<1> HIDE DEF cells
<1>4. m.expiry \in Nat /\ m.sent \in Nat /\ m.version # 0 /\ m.body \in BOOLEAN
  BY DEF Message
<1>5. "version" \in DOMAIN cells /\ "version" \in DOMAIN m_row'
  BY <1>1, <1>3 DEF Core
<1>6. \A i \in 1..Len(saved) : saved[i] \in Message
  BY DEF TableIInv, SavedOK
<1>7. \A c \in DOMAIN m_row :
        /\ m_row[c].val \in 1..Len(saved) /\ m_row[c].at = saved[m_row[c].val].expiry
        /\ m_row[c].at \in Nat
  BY <1>0, <1>6 DEF CellsOK, Message
<1>8. newest # 0 => newest \in 1..Len(saved) /\ saved[newest].sent \in Nat /\ saved[newest].expiry \in Nat
  BY <1>0, <1>6 DEF TableIInv, NewestOK, Message
<1>9. CASE "version" \notin DOMAIN m_row
  <2>1. DOMAIN m_row = {}
    BY <1>0, <1>9 DEF CoreTogether, Core
  <2>2. newest = 0
    BY <1>9 DEF RowIsNewest
  <2>3. m_row'["version"] = [val |-> m.version, at |-> m.expiry] /\ newest' = m.version
    BY <1>1, <1>3, <1>5, <1>9, <2>2
  <2>4. RowIsNewest'
    BY <1>4, <1>5, <2>3 DEF RowIsNewest
  <2>5. m.body => "data" \in DOMAIN m_row' /\ m_row'["data"] = m_row'["version"]
    BY <1>1, <1>2, <1>3, <2>1, <2>3
  <2> QED BY <2>3, <2>4, <2>5 DEF DataWithVersion
<1>10. CASE "version" \in DOMAIN m_row /\ m_row["version"].at <= m.expiry
  <2>1. m_row'["version"] = [val |-> m.version, at |-> m.expiry]
    BY <1>1, <1>3, <1>5, <1>10
  <2>2. RowIsNewest'
    <3>1. newest # 0
      BY <1>10 DEF RowIsNewest
    <3>2. saved[newest].expiry <= m.expiry
      BY <1>4, <1>7, <1>8, <1>10, <3>1 DEF RowIsNewest
    <3>3. CASE saved[newest].sent <= m.sent
      BY <1>4, <1>5, <2>1, <3>3 DEF RowIsNewest
    <3>4. CASE ~(saved[newest].sent <= m.sent)
      BY <1>4, <1>5, <1>8, <2>1, <3>1, <3>2, <3>4 DEF RowIsNewest
    <3> QED BY <3>3, <3>4
  <2>3. m.body => "data" \in DOMAIN m_row' /\ m_row'["data"] = m_row'["version"]
    <3> SUFFICES ASSUME m.body PROVE "data" \in DOMAIN m_row' /\ m_row'["data"] = m_row'["version"]
      OBVIOUS
    <3>1. "data" \in DOMAIN m_row => m_row["data"].at <= m_row["version"].at
      BY <1>0, <1>10 DEF CoreTogether
    <3>2. "data" \in DOMAIN m_row => m_row["data"].at <= m.expiry
      BY <1>4, <1>7, <1>10, <3>1
    <3> QED BY <1>1, <1>2, <1>3, <2>1, <3>2
  <2> QED BY <2>1, <2>2, <2>3 DEF DataWithVersion
<1>11. CASE "version" \in DOMAIN m_row /\ ~(m_row["version"].at <= m.expiry)
  <2>1. m_row'["version"] = m_row["version"]
    BY <1>1, <1>3, <1>5, <1>11
  <2>2. RowIsNewest'
    <3>1. newest # 0 /\ saved[m_row["version"].val] \in Message
      BY <1>6, <1>7, <1>11 DEF RowIsNewest
    <3>2. CASE saved[newest].sent <= m.sent
      BY <1>4, <1>5, <1>7, <1>8, <1>11, <2>1, <3>1, <3>2 DEF RowIsNewest, Message
    <3>3. CASE ~(saved[newest].sent <= m.sent)
      BY <1>5, <2>1, <3>1, <3>3 DEF RowIsNewest
    <3> QED BY <3>2, <3>3
  <2>3. saved[m_row["version"].val].body => "data" \in DOMAIN m_row' /\ m_row'["data"] = m_row'["version"]
    <3> SUFFICES ASSUME saved[m_row["version"].val].body
                 PROVE  "data" \in DOMAIN m_row' /\ m_row'["data"] = m_row'["version"]
      OBVIOUS
    <3>1. "data" \in DOMAIN m_row /\ m_row["data"] = m_row["version"]
      BY <1>11 DEF DataWithVersion
    <3> QED BY <1>1, <1>3, <1>11, <2>1, <3>1
  <2> QED BY <2>1, <2>2, <2>3 DEF DataWithVersion
<1> QED BY <1>9, <1>10, <1>11

LEMMA NewestNext ==
  ASSUME Table!MessageTableAssumption, TableIInv, NewestInv, [Table!Next]_(Table!vars)
  PROVE  NewestInv'
<1> USE DEF NewestInv
<1>0. Len(saved) \in Nat
  BY DEF TableIInv, SavedOK
<1>1. CASE Table!SaveRequest
  <2>1. PICK ttl \in TTLs, body \in Bodies :
          saved' = Append(saved, [version |-> Len(saved) + 1, sent |-> now, expiry |-> now + ttl,
                                  body |-> body])
    BY <1>1 DEF Table!SaveRequest
  <2> DEFINE m == [version |-> Len(saved) + 1, sent |-> now, expiry |-> now + ttl, body |-> body]
  <2>2. m \in Message /\ saved' = Append(saved, m)
    BY <1>0, <2>1 DEF TableIInv, SavedOK, Message, Table!MessageTableAssumption
  <2>3. m_row' = m_row /\ newest' = newest
    BY <1>1 DEF Table!SaveRequest
  <2> HIDE DEF m
  <2>4. \A i \in 1..Len(saved) : saved'[i] = saved[i]
    BY <2>2, SavedGrows DEF TableIInv, SavedOK
  <2>5. "version" \in DOMAIN m_row => m_row["version"].val \in 1..Len(saved)
    BY DEF TableIInv, TableRowOK, CellsOK
  <2>6. newest # 0 => newest \in 1..Len(saved)
    BY <1>0 DEF TableIInv, NewestOK
  <2> QED BY <2>3, <2>4, <2>5, <2>6 DEF RowIsNewest, DataWithVersion
<1>2. CASE Table!save_message
  <2>1. PICK m \in pending :
          /\ m_row' = Table!Write(m_row, Table!MessageCells(m))
          /\ newest' = IF newest = 0 \/ saved[newest].sent <= m.sent THEN m.version ELSE newest
    BY <1>2 DEF Table!save_message
  <2>2. saved' = saved
    BY <1>2 DEF Table!save_message
  <2>3. m.version \in 1..Len(saved) /\ m = saved[m.version] /\ m \in Message
    BY DEF TableIInv, PendingOK, SavedOK
  <2> QED BY <2>1, <2>2, <2>3, NewestWritten
<1>3. CASE Table!remove_message
  BY <1>3, NoRowIsEmpty DEF Table!remove_message, RowIsNewest, DataWithVersion
<1>4. CASE Table!Tick
  BY <1>4 DEF Table!Tick, RowIsNewest, DataWithVersion
<1>5. CASE UNCHANGED Table!vars
  BY <1>5 DEF Table!vars, RowIsNewest, DataWithVersion
<1> QED BY <1>1, <1>2, <1>3, <1>4, <1>5 DEF Table!Next

\* For messages of any TTLs, with and without data, saved in any order: as long as the
\* newest message of a topic has not expired, it is read, or one that was not sent
\* later and lives at least as long; and a message that was sent with data is read
\* with its own (save_message, fetch_topic_messages).
THEOREM NewestIsRead ==
  ASSUME Table!MessageTableAssumption
  PROVE  Table!Spec => [](Table!NewestReplaces /\ Table!DataIsOwn)
<1>1. Table!Init => NewestInv
  BY NoRowIsEmpty DEF Table!Init, NewestInv, RowIsNewest, DataWithVersion
<1>2. TableIInv /\ NewestInv /\ [Table!Next]_(Table!vars) => NewestInv'
  BY NewestNext
<1>3. TableIInv /\ NewestInv => Table!NewestReplaces
  <2> SUFFICES ASSUME TableIInv, NewestInv, newest # 0, saved[newest].expiry >= now
               PROVE  LET n == Table!fetch_topic_messages IN
                      /\ n.version # 0
                      /\ n.version # newest => /\ saved[n.version].sent <= saved[newest].sent
                                               /\ saved[n.version].expiry >= saved[newest].expiry
    BY DEF Table!NewestReplaces
  <2>1. /\ "version" \in DOMAIN m_row
        /\ saved[m_row["version"].val].sent <= saved[newest].sent
        /\ saved[m_row["version"].val].expiry >= saved[newest].expiry
    BY DEF NewestInv, RowIsNewest
  <2>2. m_row["version"].at = saved[m_row["version"].val].expiry /\ m_row["version"].val \in 1..Len(saved)
    BY <2>1 DEF TableIInv, TableRowOK, CellsOK
  <2>3. newest \in 1..Len(saved) /\ Len(saved) \in Nat /\ now \in Nat
    BY DEF TableIInv, NewestOK, SavedOK
  <2>4. saved[newest].expiry \in Nat /\ m_row["version"].at \in Nat
    <3>1. saved[newest] \in Message /\ saved[m_row["version"].val] \in Message
      BY <2>2, <2>3 DEF TableIInv, SavedOK
    <3> QED BY <2>2, <3>1 DEF Message
  <2>5. m_row["version"].at >= now
    BY <2>1, <2>2, <2>3, <2>4
  <2>6. Table!fetch_topic_messages.version = m_row["version"].val
    BY <2>1, <2>5, VersionRead
  <2> QED BY <2>1, <2>2, <2>3, <2>6
<1>4. TableIInv /\ NewestInv => Table!DataIsOwn
  <2> SUFFICES ASSUME TableIInv, NewestInv, Table!fetch_topic_messages.version # 0,
                      saved[Table!fetch_topic_messages.version].body
               PROVE  Table!fetch_topic_messages.data = Table!fetch_topic_messages.version
    BY DEF Table!DataIsOwn
  <2>1. /\ "version" \in DOMAIN m_row /\ m_row["version"].at >= now
        /\ Table!fetch_topic_messages.version = m_row["version"].val
        /\ Table!fetch_topic_messages.data =
             IF "data" \in DOMAIN m_row /\ m_row["data"].at >= now THEN m_row["data"].val ELSE 0
    BY VersionRead
  <2>2. "data" \in DOMAIN m_row /\ m_row["data"] = m_row["version"]
    BY <2>1 DEF NewestInv, DataWithVersion
  <2> QED BY <2>1, <2>2
<1> QED BY <1>1, <1>2, <1>3, <1>4, TableInvariance, PTL DEF Table!Spec
=============================================================================
