---------------------------- MODULE DualDbProofs ----------------------------
(***************************************************************************)
(* Proof about module DualDb, for any channels and messages, whatever the  *)
(* settings say, of any number of tasks, whatever calls fail.              *)
(***************************************************************************)
EXTENDS DualDb, FiniteSetTheorems, SequenceTheorems, WellFoundedInduction, TLAPS

Ops == {"add_user", "update_user", "remove_user", "add_channels", "remove_channel",
        "remove_node_id", "save_message", "remove_message", "increment_storage"}
Args == {0} \cup Messages \cup {Max(batch) : batch \in SUBSET Messages}

UserType == [connected_at : Nat, node_id : {"none", "node"}, version : 0..(Cardinality(Tasks) + 2)]
DbType == [user : UserType, chids : SUBSET Channels, timestamp : Args, messages : SUBSET Messages]
CallsOf(op) == [db : {"primary", "secondary"}, name : {op}, when : {"must", "late", "ignored"}]
TaskType ==
  [op : Ops \cup {"idle", "get_user"}, pc : Pcs, user : UserType, chids : SUBSET Channels,
   arg : Args, prog : Seq(UNION {CallsOf(op) : op \in Ops}), failed : BOOLEAN]

Types ==
  /\ primary \in DbType /\ secondary \in DbType /\ secondary.user.version = 0
  /\ task \in [Tasks -> TaskType]
  /\ registered \in SUBSET Channels /\ connected \in Nat

(* connected is the highest connected_at anywhere.                           *)
Known(S, highest) == S.user.connected_at <= highest

(* The record a hello is about to write is no older than the one it replaces:*)
(* the version says that it is still the one that was read.                  *)
UpdateOK(S, u) ==
  S.pc = "run" /\ S.op = "update_user" =>
    /\ S.user.connected_at >= 1
    /\ u.connected_at # 0 /\ u.version = S.user.version => u.connected_at <= S.user.connected_at

(* What the calls of an operation are about.                                 *)
RunOK(S) ==
  /\ S.pc = "run" => S.op \in Ops /\ S.prog \in Seq(CallsOf(S.op))
  /\ S.pc = "run" /\ S.op = "add_user" => S.user.connected_at = 1
  /\ S.pc = "run" /\ S.op = "save_message" => S.arg \in Messages

(* The version of a record that is about to be migrated is nobody else's.    *)
MigrateOK(t) ==
  task[t].pc = "migrate" =>
    /\ task[t].user.version # 0 /\ task[t].user.version # primary.user.version
    /\ \A q \in Tasks \ {t} : task[q].user.version # task[t].user.version

TaskOK(S, u, highest) == Known(S, highest) /\ UpdateOK(S, u) /\ RunOK(S)

IInv ==
  /\ Types
  /\ Known(primary, connected) /\ Known(secondary, connected)
  /\ \A t \in Tasks : TaskOK(task[t], primary.user, connected)
  /\ \A t \in Tasks : MigrateOK(t)

-----------------------------------------------------------------------------
(* Versions: the least number that nobody has.                               *)

\* A set of naturals has a least element.
LEMMA LeastExists ==
  ASSUME NEW T \in SUBSET Nat, T # {}
  PROVE  \E x \in T : \A y \in T : x <= y
<1> DEFINE R == OpToRel(<, Nat)
<1>1. IsWellFoundedOn(R, Nat)
  BY NatLessThanWellFounded
<1> HIDE DEF R
<1>2. PICK x \in T : \A y \in T : ~(<<y, x>> \in R)
  BY <1>1, WFMin
<1>3. \A y \in T : ~(y < x)
  BY <1>2 DEF R, OpToRel
<1> QED BY <1>3

\* One more element counts at most once.
LEMMA OneMore ==
  ASSUME NEW T, IsFiniteSet(T), NEW x
  PROVE  /\ IsFiniteSet(T \cup {x})
         /\ Cardinality(T \cup {x}) \in Nat
         /\ Cardinality(T \cup {x}) <= Cardinality(T) + 1
<1>1. /\ IsFiniteSet(T \cup {x})
      /\ Cardinality(T \cup {x}) = IF x \in T THEN Cardinality(T) ELSE Cardinality(T) + 1
  BY FS_AddElement
<1>2. Cardinality(T) \in Nat
  BY FS_CardinalityType
<1> QED BY <1>1, <1>2

\* Of more numbers than are in use one is not, and Min finds one.
LEMMA UnusedNumber ==
  ASSUME NEW K \in Nat, NEW used, IsFiniteSet(used), Cardinality(used) < K
  PROVE  Min((1..K) \ used) \in (1..K) \ used
<1> DEFINE free == (1..K) \ used
<1>1. IsFiniteSet(1..K) /\ Cardinality(1..K) = K
  BY FS_Interval
<1>2. free # {}
  <2>1. SUFFICES ASSUME free = {}  PROVE FALSE
    OBVIOUS
  <2>2. 1..K \in SUBSET used
    BY <2>1
  <2>3. Cardinality(1..K) <= Cardinality(used)
    BY <2>2, FS_Subset
  <2> QED BY <1>1, <2>3, FS_CardinalityType
<1>3. free \in SUBSET Nat
  OBVIOUS
<1> HIDE DEF free
<1>4. \E x \in free : \A y \in free : x <= y
  BY <1>2, <1>3, LeastExists
<1>5. Min(free) \in free
  BY <1>4 DEF Min
<1> QED BY <1>5 DEF free

\* A version that is written or made up is one that no copy of the user has.
IsFresh(version) ==
  /\ version \in 1..(Cardinality(Tasks) + 2)
  /\ version # primary.user.version
  /\ \A t \in Tasks : version # task[t].user.version

LEMMA FreshIsFresh ==
  ASSUME DualDbAssumption
  PROVE  IsFresh(FreshVersion)
<1> DEFINE f == [t \in Tasks |-> task[t].user.version]
           K == Cardinality(Tasks) + 2
           image == {task[t].user.version : t \in Tasks}
           used == {primary.user.version} \cup image
<1>1. IsFiniteSet(Tasks) /\ Cardinality(Tasks) \in Nat
  BY FS_CardinalityType DEF DualDbAssumption
<1>2. f \in Surjection(Tasks, image)
  BY DEF Surjection
<1>3. FreshVersion = Min((1..K) \ used)
  BY DEF FreshVersion
<1>4. /\ primary.user.version \in used
      /\ \A t \in Tasks : task[t].user.version \in used
  OBVIOUS
<1> HIDE DEF f, image
<1>5. IsFiniteSet(image) /\ Cardinality(image) <= Cardinality(Tasks) /\ Cardinality(image) \in Nat
  BY <1>1, <1>2, FS_Surjection, FS_CardinalityType
<1>6. used = image \cup {primary.user.version}
  OBVIOUS
<1> HIDE DEF used
<1>7. IsFiniteSet(used) /\ Cardinality(used) \in Nat /\ Cardinality(used) <= Cardinality(image) + 1
  BY <1>5, <1>6, OneMore
<1>8. K \in Nat /\ Cardinality(used) < K
  BY <1>1, <1>5, <1>7
<1>9. K = Cardinality(Tasks) + 2
  OBVIOUS
<1> HIDE DEF K
<1>10. Min((1..K) \ used) \in (1..K) \ used
  BY <1>7, <1>8, UnusedNumber
<1> QED BY <1>3, <1>4, <1>9, <1>10 DEF IsFresh

-----------------------------------------------------------------------------
(* What a step does to the record of the primary and to its task.            *)

(* The record stays but for its node, goes, is written with a fresh version  *)
(* and no older connected_at, or is added where there was none.              *)
Kept(u, v) == v.connected_at = u.connected_at /\ v.version = u.version
Written(u, v) == IsFresh(v.version) /\ v.connected_at >= u.connected_at
Added(S, u, v) ==
  /\ u.connected_at = 0 /\ v = S.user
  /\ S.pc = "migrate" \/ (S.pc = "run" /\ S.op = "add_user")
RecordChange(S, u, v) == Kept(u, v) \/ v = NoUser \/ Written(u, v) \/ Added(S, u, v)

(* Where the version of a task's copy comes from.                            *)
VersionFrom(S, t) ==
  IF S.pc = "migrate" THEN IsFresh(S.user.version)
  ELSE S.user.version \in {0, primary.user.version, task[t].user.version} \/ IsFresh(S.user.version)

Turn(t) ==
  /\ primary' \in DbType /\ secondary' \in DbType /\ secondary'.user.version = 0
  /\ registered' \in SUBSET Channels /\ connected' \in Nat
  /\ connected <= connected'
  /\ Known(primary', connected') /\ Known(secondary', connected')
  /\ RecordChange(task[t], primary.user, primary'.user)
  /\ \E S \in TaskType :
       /\ task' = [task EXCEPT ![t] = S]
       /\ TaskOK(S, primary'.user, connected')
       /\ VersionFrom(S, t)
       /\ S.pc = "migrate" => primary' = primary

\* A hello that has read its user is not put at a disadvantage by another step.
LEMMA ChangeKeepsUpdate ==
  ASSUME NEW S, NEW T, NEW u \in UserType, NEW v \in UserType, S.user \in UserType,
         UpdateOK(S, u), RecordChange(T, u, v),
         IsFresh(v.version) => v.version # S.user.version,
         T.pc = "migrate" => T.user.version # S.user.version,
         RunOK(T)
  PROVE  UpdateOK(S, v)
<1>1. u.connected_at \in Int /\ v.connected_at \in Int /\ S.user.connected_at \in Int
  BY DEF UserType
<1>2. CASE Kept(u, v)
  BY <1>2 DEF Kept, UpdateOK
<1>3. CASE v = NoUser
  BY <1>3 DEF NoUser, UpdateOK
<1>4. CASE Written(u, v)
  BY <1>4 DEF Written, UpdateOK
<1>5. CASE Added(T, u, v)
  BY <1>1, <1>5 DEF Added, UpdateOK, RunOK
<1> QED BY <1>2, <1>3, <1>4, <1>5 DEF RecordChange

\* Every step that is such a turn keeps the invariant.
LEMMA TurnKeeps ==
  ASSUME IInv, NEW t \in Tasks, Turn(t)
  PROVE  IInv'
<1>1. PICK S \in TaskType : /\ task' = [task EXCEPT ![t] = S]
                            /\ TaskOK(S, primary'.user, connected')
                            /\ VersionFrom(S, t)
                            /\ S.pc = "migrate" => primary' = primary
  BY DEF Turn
<1>2. task \in [Tasks -> TaskType] /\ task' \in [Tasks -> TaskType]
  BY <1>1 DEF IInv, Types
<1>3. \A q \in Tasks : task'[q] = IF q = t THEN S ELSE task[q]
  BY <1>1, <1>2
<1>4. Types'
  BY <1>2 DEF Types, Turn, IInv
<1>5. /\ primary.user \in UserType /\ primary'.user \in UserType
      /\ \A q \in Tasks : task[q].user \in UserType
  BY <1>2 DEF IInv, Types, Turn, DbType, TaskType
<1>6. ASSUME NEW q \in Tasks, q # t  PROVE TaskOK(task[q], primary'.user, connected')
  <2>1. TaskOK(task[q], primary.user, connected) /\ RunOK(task[t])
    BY DEF IInv, TaskOK
  <2>2. IsFresh(primary'.user.version) => primary'.user.version # task[q].user.version
    BY DEF IsFresh
  <2>3. task[t].pc = "migrate" => task[t].user.version # task[q].user.version
    BY <1>6 DEF IInv, MigrateOK
  <2>4. UpdateOK(task[q], primary'.user)
    BY <1>5, <2>1, <2>2, <2>3, ChangeKeepsUpdate DEF TaskOK, Turn
  <2>5. Known(task[q], connected')
    <3>1. connected \in Int /\ connected' \in Int /\ task[q].user.connected_at \in Int
      BY <1>5 DEF IInv, Types, Turn, UserType
    <3> QED BY <2>1, <3>1 DEF TaskOK, Known, Turn
  <2> QED BY <2>1, <2>4, <2>5 DEF TaskOK
<1>7. \A q \in Tasks : TaskOK(task'[q], primary'.user, connected')
  BY <1>1, <1>3, <1>6
<1>8. ASSUME NEW q \in Tasks  PROVE MigrateOK(q)'
  <2>1. CASE q = t
    <3>1. S.pc = "migrate" => IsFresh(S.user.version) /\ primary' = primary
      BY <1>1 DEF VersionFrom
    <3>2. S.pc = "migrate" =>
            /\ S.user.version # 0 /\ S.user.version # primary'.user.version
            /\ \A p \in Tasks \ {t} : task[p].user.version # S.user.version
      BY <3>1 DEF IsFresh
    <3> QED BY <1>3, <2>1, <3>2 DEF MigrateOK
  <2>2. CASE q # t
    <3>1. SUFFICES ASSUME task[q].pc = "migrate"
                   PROVE  /\ task[q].user.version # 0 /\ task[q].user.version # primary'.user.version
                          /\ \A p \in Tasks \ {q} : task'[p].user.version # task[q].user.version
      BY <1>3, <2>2 DEF MigrateOK
    <3>2. /\ task[q].user.version # 0 /\ task[q].user.version # primary.user.version
          /\ \A p \in Tasks \ {q} : task[p].user.version # task[q].user.version
      BY <3>1 DEF IInv, MigrateOK
    <3>3. task[q].user.version # primary'.user.version
      BY <2>2, <3>2 DEF Turn, RecordChange, Kept, Written, Added, NoUser, IsFresh
    <3>4. S.user.version # task[q].user.version
      BY <1>1, <2>2, <3>2 DEF VersionFrom, IsFresh
    <3> QED BY <1>3, <3>2, <3>3, <3>4
  <2> QED BY <2>1, <2>2
<1> QED BY <1>4, <1>7, <1>8 DEF IInv, Turn

-----------------------------------------------------------------------------
(* Programs and records.                                                     *)

LEMMA NoUserTyped ==
  ASSUME DualDbAssumption
  PROVE  /\ NoUser \in UserType /\ NoUser.connected_at = 0 /\ NoUser.version = 0
         /\ Idle \in TaskType /\ Idle.pc = "idle" /\ Idle.user = NoUser
         /\ Empty \in DbType /\ Empty.user = NoUser
<1>1. 0 \in 0..(Cardinality(Tasks) + 2)
  BY FS_CardinalityType DEF DualDbAssumption
<1>2. NoUser \in UserType /\ NoUser.connected_at = 0 /\ NoUser.version = 0
  BY <1>1 DEF NoUser, UserType
<1> DEFINE none == NoUser
           Calls == UNION {CallsOf(op) : op \in Ops}
<1>3. /\ none \in UserType /\ none = NoUser /\ 0 \in Args /\ <<>> \in Seq(Calls)
  BY <1>2 DEF Args
<1>4. /\ Idle = [op |-> "idle", pc |-> "idle", user |-> none, chids |-> {}, arg |-> 0, prog |-> <<>>,
                 failed |-> FALSE]
      /\ Empty = [user |-> none, chids |-> {}, timestamp |-> 0, messages |-> {}]
  BY DEF Idle, Empty
<1> HIDE DEF none, Calls
<1>5. Idle \in TaskType /\ Idle.pc = "idle" /\ Idle.user = NoUser
  BY <1>3, <1>4 DEF TaskType, Pcs, Calls
<1>6. Empty \in DbType /\ Empty.user = NoUser
  BY <1>3, <1>4 DEF DbType
<1> QED BY <1>2, <1>5, <1>6

\* The calls of an operation carry its name.
LEMMA ProgramTyped ==
  ASSUME NEW op \in Ops
  PROVE  Program(op) \in Seq(CallsOf(op))
<1>1. \A db \in {"primary", "secondary"}, when \in {"must", "late", "ignored"} :
        Call(db, op, when) \in CallsOf(op)
  BY DEF Call, CallsOf
<1> DEFINE C == CallsOf(op)
<1> HIDE DEF C
<1>2. \A db \in {"primary", "secondary"}, when \in {"must", "late", "ignored"} :
        <<Call(db, op, when)>> \in Seq(C)
  BY <1>1 DEF C
<1>3. Mirror(op) \in Seq(C)
  BY <1>2 DEF Mirror
<1>4. Removal(op) \in Seq(C)
  BY <1>1 DEF Removal, C
<1>5. \A s, r \in Seq(C) : s \o r \in Seq(C)
  OBVIOUS
<1>6. CASE ~should_migrate
  BY <1>2, <1>6 DEF Program, C
<1>7. CASE should_migrate
  <2>1. CASE op = "add_user"
    BY <1>2, <1>3, <1>5, <1>7, <2>1 DEF Program, add_user, C
  <2>2. CASE op = "update_user"
    BY <1>2, <1>3, <1>5, <1>7, <2>2 DEF Program, update_user, C
  <2>3. CASE op = "remove_user"
    BY <1>4, <1>7, <2>3 DEF Program, remove_user, C
  <2>4. CASE op = "add_channels"
    BY <1>2, <1>3, <1>5, <1>7, <2>4 DEF Program, add_channels, C
  <2>5. CASE op = "remove_channel"
    BY <1>4, <1>7, <2>5 DEF Program, remove_channel, C
  <2>6. CASE op = "remove_node_id"
    BY <1>4, <1>7, <2>6 DEF Program, remove_node_id, C
  <2>7. CASE op = "save_message"
    <3>1. save_message \in Seq(C)
      BY <1>2, <1>5, <2>7 DEF save_message
    <3> QED BY <1>7, <2>7, <3>1 DEF Program, C
  <2>8. CASE op = "remove_message"
    BY <1>4, <1>7, <2>8 DEF Program, remove_message, C
  <2>9. CASE op = "increment_storage"
    <3>1. increment_storage \in Seq(C)
      BY <1>1, <2>9 DEF increment_storage, C
    <3> QED BY <1>7, <2>9, <3>1 DEF Program, C
  <2> QED BY <2>1, <2>2, <2>3, <2>4, <2>5, <2>6, <2>7, <2>8, <2>9 DEF Ops
<1> QED BY <1>6, <1>7

\* The record of a task that starts an operation.
LEMMA StartTyped ==
  ASSUME DualDbAssumption, NEW t \in Tasks, NEW op \in Ops, NEW user \in UserType,
         NEW chids \in SUBSET Channels, NEW arg \in Args, Start(t, op, user, chids, arg)
  PROVE  \E S \in TaskType :
           /\ Set(t, S) /\ S.op = op /\ S.pc = "run" /\ S.user = user /\ S.arg = arg
           /\ S.prog \in Seq(CallsOf(op))
<1> DEFINE S1 == [Idle EXCEPT !.op = op, !.pc = "run"]
           S2 == [S1 EXCEPT !.user = user, !.chids = chids]
           prog == Program(op)
           S == [S2 EXCEPT !.arg = arg, !.prog = prog]
<1>1. Set(t, S)
  BY DEF Start
<1>2. prog \in Seq(CallsOf(op)) /\ prog \in Seq(UNION {CallsOf(o) : o \in Ops})
  BY ProgramTyped
<1> HIDE DEF prog
<1>3. S1 \in TaskType /\ S1.op = op /\ S1.pc = "run"
  BY NoUserTyped DEF TaskType, Pcs
<1> HIDE DEF S1
<1>4. S2 \in TaskType /\ S2.op = op /\ S2.pc = "run" /\ S2.user = user
  BY <1>3 DEF TaskType
<1> HIDE DEF S2
<1>5. /\ S \in TaskType /\ S.op = op /\ S.pc = "run" /\ S.user = user /\ S.arg = arg
      /\ S.prog = prog
  BY <1>2, <1>4 DEF TaskType
<1> HIDE DEF S
<1> QED BY <1>1, <1>2, <1>5

-----------------------------------------------------------------------------
(* The steps.                                                                *)

\* A step that writes to no database.
LEMMA QuietTurns ==
  ASSUME IInv, NEW t \in Tasks, NEW S \in TaskType, Set(t, S),
         primary' = primary, secondary' = secondary, registered' \in SUBSET Channels,
         connected' \in Nat, connected <= connected',
         TaskOK(S, primary.user, connected'), VersionFrom(S, t)
  PROVE  Turn(t)
<1>1. task' = [task EXCEPT ![t] = S]
  BY DEF Set
<1>2. /\ primary \in DbType /\ secondary \in DbType /\ secondary.user.version = 0
      /\ primary.user.connected_at \in Int /\ secondary.user.connected_at \in Int
      /\ connected \in Int
  BY DEF IInv, Types, DbType, UserType
<1>3. Known(primary', connected') /\ Known(secondary', connected')
  BY <1>2 DEF IInv, Known
<1>4. RecordChange(task[t], primary.user, primary'.user)
  BY DEF RecordChange, Kept
<1> QED BY <1>1, <1>2, <1>3, <1>4 DEF Turn

\* A task that stops, whatever it did to the user agent.
LEMMA StopTurns ==
  ASSUME DualDbAssumption, IInv, NEW t \in Tasks, Stop(t),
         primary' = primary, secondary' = secondary, registered' \in SUBSET Channels,
         connected' = connected
  PROVE  Turn(t)
<1>1. connected \in Nat /\ connected <= connected
  BY DEF IInv, Types
<1>2. TaskOK(Idle, primary.user, connected) /\ VersionFrom(Idle, t)
  BY <1>1, NoUserTyped DEF TaskOK, Known, UpdateOK, RunOK, VersionFrom
<1> QED BY <1>1, <1>2, NoUserTyped, QuietTurns DEF Stop

\* A task that starts an operation that needs no user.
LEMMA StartTurns ==
  ASSUME DualDbAssumption, IInv, NEW t \in Tasks,
         NEW op \in Ops \ {"add_user", "update_user"}, NEW user \in UserType,
         NEW chids \in SUBSET Channels, NEW arg \in Args, Start(t, op, user, chids, arg),
         op = "save_message" => arg \in Messages,
         user.connected_at <= connected, user.version \in {0, task[t].user.version},
         primary' = primary, secondary' = secondary, registered' \in SUBSET Channels,
         connected' = connected
  PROVE  Turn(t)
<1>1. PICK S \in TaskType : /\ Set(t, S) /\ S.op = op /\ S.pc = "run" /\ S.user = user /\ S.arg = arg
                            /\ S.prog \in Seq(CallsOf(op))
  BY StartTyped
<1>2. connected \in Nat /\ connected <= connected
  BY DEF IInv, Types
<1>3. TaskOK(S, primary.user, connected) /\ VersionFrom(S, t)
  BY <1>1 DEF TaskOK, Known, UpdateOK, RunOK, VersionFrom
<1> QED BY <1>1, <1>2, <1>3, QuietTurns

\* What the record of a task may be: not running, with a version it may have.
LEMMA NotRunning ==
  ASSUME NEW S, S.pc # "run", NEW u, NEW highest, S.user.connected_at <= highest
  PROVE  TaskOK(S, u, highest)
BY DEF TaskOK, Known, UpdateOK, RunOK

LEMMA Bounds ==
  ASSUME IInv
  PROVE  /\ primary \in DbType /\ primary.user \in UserType /\ primary.user.connected_at <= connected
         /\ secondary \in DbType /\ secondary.user \in UserType /\ secondary.user.connected_at <= connected
         /\ secondary.user.version = 0
         /\ connected \in Nat /\ connected <= connected /\ registered \in SUBSET Channels
         /\ task \in [Tasks -> TaskType]
         /\ \A t \in Tasks : /\ task[t] \in TaskType /\ task[t].user \in UserType
                             /\ task[t].user.connected_at <= connected
<1>1. /\ primary \in DbType /\ secondary \in DbType /\ secondary.user.version = 0
      /\ connected \in Nat /\ registered \in SUBSET Channels /\ task \in [Tasks -> TaskType]
  BY DEF IInv, Types
<1>2. primary.user \in UserType /\ secondary.user \in UserType /\ \A t \in Tasks : task[t].user \in UserType
  BY <1>1 DEF DbType, TaskType
<1>3. /\ primary.user.connected_at <= connected /\ secondary.user.connected_at <= connected
      /\ \A t \in Tasks : task[t].user.connected_at <= connected
  BY DEF IInv, TaskOK, Known
<1>4. connected <= connected /\ \A t \in Tasks : task[t] \in TaskType
  BY <1>1
<1> QED BY <1>1, <1>2, <1>3, <1>4

\* get_user
LEMMA GetUserTurns ==
  ASSUME DualDbAssumption, IInv, NEW t \in Tasks, GetUser(t)
  PROVE  Turn(t)
<1> DEFINE db == IF should_migrate THEN primary ELSE secondary
           pc == IF ~should_migrate THEN "none" ELSE IF Incomplete(db) THEN "drop" ELSE "secondary"
           u == db.user
           S == [Idle EXCEPT !.op = "get_user", !.pc = "have", !.user = u]
           N == [Idle EXCEPT !.op = "get_user", !.pc = pc]
<1>1. /\ primary' = primary /\ secondary' = secondary /\ registered' = registered
      /\ connected' = connected
      /\ Set(t, S) \/ Set(t, N)
  BY DEF GetUser, SameDbs, SameAgent
<1>2. u \in UserType /\ u.connected_at <= connected /\ u.version \in {0, primary.user.version}
  BY Bounds
<1>3. pc \in {"none", "drop", "secondary"}
  OBVIOUS
<1> HIDE DEF db, u, pc
<1>4. S \in TaskType /\ S.pc = "have" /\ S.user = u
  BY <1>2, NoUserTyped DEF TaskType, Pcs
<1>5. N \in TaskType /\ N.pc = pc /\ N.user = NoUser
  BY <1>3, NoUserTyped DEF TaskType, Pcs
<1> HIDE DEF S, N
<1>6. TaskOK(S, primary.user, connected) /\ VersionFrom(S, t)
  BY <1>2, <1>4, NotRunning DEF VersionFrom
<1>7. TaskOK(N, primary.user, connected) /\ VersionFrom(N, t)
  <2>1. N.user.connected_at <= connected /\ N.user.version = 0
    BY <1>5, NoUserTyped, Bounds
  <2> QED BY <1>3, <1>5, <2>1, NotRunning DEF VersionFrom
<1> QED BY <1>1, <1>4, <1>5, <1>6, <1>7, Bounds, QuietTurns

\* A step of get_user that keeps the copy of the user.
LEMMA StepOnTurns ==
  ASSUME DualDbAssumption, IInv, NEW t \in Tasks, NEW S \in TaskType, Set(t, S),
         S.pc \notin {"run", "migrate"}, S.user = task[t].user \/ S.user = primary.user,
         primary' = primary, secondary' = secondary, registered' = registered,
         connected' = connected
  PROVE  Turn(t)
<1>1. TaskOK(S, primary.user, connected)
  BY Bounds, NotRunning
<1>2. VersionFrom(S, t)
  BY DEF VersionFrom
<1> QED BY <1>1, <1>2, Bounds, QuietTurns

\* DropIncomplete
LEMMA DropIncompleteTurns ==
  ASSUME DualDbAssumption, IInv, NEW t \in Tasks, DropIncomplete(t)
  PROVE  Turn(t)
<1> DEFINE S == [task[t] EXCEPT !.pc = "secondary"]
           none == NoUser
<1>1. /\ primary' = [primary EXCEPT !.user = none, !.chids = {}, !.timestamp = 0]
      /\ secondary' = secondary /\ registered' = registered /\ connected' = connected
      /\ Set(t, S) \/ Set(t, Idle)
  BY DEF DropIncomplete, SameAgent, bt_remove_user
<1>2. none \in UserType /\ none = NoUser /\ none.connected_at = 0 /\ 0 \in Args
  BY NoUserTyped DEF Args
<1> HIDE DEF none
<1>3. primary' \in DbType /\ primary'.user = none
  BY <1>1, <1>2, Bounds DEF DbType
<1>4. S \in TaskType /\ S.pc = "secondary" /\ S.user = task[t].user
  BY Bounds DEF TaskType, Pcs
<1> HIDE DEF S
<1>5. Known(primary', connected') /\ Known(secondary', connected')
  BY <1>1, <1>2, <1>3, Bounds DEF Known
<1>6. TaskOK(S, primary'.user, connected) /\ VersionFrom(S, t)
  BY <1>4, Bounds, NotRunning DEF VersionFrom
<1>7. TaskOK(Idle, primary'.user, connected) /\ VersionFrom(Idle, t)
  BY NoUserTyped, Bounds, NotRunning DEF VersionFrom
<1>8. \E R \in TaskType :
         /\ task' = [task EXCEPT ![t] = R] /\ TaskOK(R, primary'.user, connected')
         /\ VersionFrom(R, t) /\ R.pc # "migrate"
  BY <1>1, <1>4, <1>6, <1>7, NoUserTyped DEF Set
<1> QED BY <1>1, <1>2, <1>3, <1>5, <1>8, Bounds DEF Turn, RecordChange

\* GetSecondary
LEMMA GetSecondaryTurns ==
  ASSUME DualDbAssumption, IInv, NEW t \in Tasks, GetSecondary(t)
  PROVE  Turn(t)
<1> DEFINE u == [secondary.user EXCEPT !.version = FreshVersion]
           S == [task[t] EXCEPT !.pc = "migrate", !.user = u]
           N == [task[t] EXCEPT !.pc = "none"]
<1>1. /\ primary' = primary /\ secondary' = secondary /\ registered' = registered
      /\ connected' = connected
      /\ Set(t, S) \/ Set(t, N)
  BY DEF GetSecondary, SameDbs, SameAgent
<1>2. IsFresh(FreshVersion) /\ FreshVersion \in 0..(Cardinality(Tasks) + 2)
  BY FreshIsFresh DEF IsFresh
<1>3. u \in UserType /\ u.connected_at <= connected /\ u.version = FreshVersion
  BY <1>2, Bounds DEF UserType
<1> HIDE DEF u
<1>4. S \in TaskType /\ S.pc = "migrate" /\ S.user = u
  BY <1>3, Bounds DEF TaskType, Pcs
<1>5. N \in TaskType /\ N.pc = "none" /\ N.user = task[t].user
  BY Bounds DEF TaskType, Pcs
<1> HIDE DEF S, N
<1>6. TaskOK(S, primary.user, connected) /\ VersionFrom(S, t)
  BY <1>2, <1>3, <1>4, NotRunning DEF VersionFrom
<1>7. CASE Set(t, S)
  BY <1>1, <1>4, <1>6, <1>7, Bounds, QuietTurns
<1>8. CASE Set(t, N)
  BY <1>1, <1>5, <1>8, StepOnTurns
<1> QED BY <1>1, <1>7, <1>8

\* Migrate: primary.add_user
LEMMA MigrateTurns ==
  ASSUME DualDbAssumption, IInv, NEW t \in Tasks, Migrate(t)
  PROVE  Turn(t)
<1> DEFINE A == [task[t] EXCEPT !.pc = "again"]
           C == [task[t] EXCEPT !.pc = "channels"]
           u == task[t].user
<1>1. /\ task[t].pc = "migrate" /\ secondary' = secondary /\ registered' = registered
      /\ connected' = connected
      /\ Set(t, A) \/ Set(t, C)
      /\ primary' = primary \/ (~RowExists(primary) /\ primary' = [primary EXCEPT !.user = u])
  BY DEF Migrate, SameAgent, bt_add_user
<1>2. u \in UserType /\ u.connected_at <= connected /\ u = task[t].user
  BY Bounds
<1> HIDE DEF u
<1>3. /\ A \in TaskType /\ A.pc = "again" /\ A.user = u
      /\ C \in TaskType /\ C.pc = "channels" /\ C.user = u
  BY <1>2, Bounds DEF TaskType, Pcs
<1> HIDE DEF A, C
<1>4. /\ primary' \in DbType
      /\ primary'.user = primary.user \/ (~RowExists(primary) /\ primary'.user = u)
  BY <1>1, <1>2, Bounds DEF DbType
<1>5. Known(primary', connected') /\ Known(secondary', connected')
  BY <1>1, <1>2, <1>4, Bounds DEF Known
<1>6. RecordChange(task[t], primary.user, primary'.user)
  BY <1>1, <1>2, <1>4 DEF RecordChange, Kept, Added, RowExists, HasUser
<1>7. /\ TaskOK(A, primary'.user, connected) /\ VersionFrom(A, t)
      /\ TaskOK(C, primary'.user, connected) /\ VersionFrom(C, t)
  BY <1>2, <1>3, NotRunning DEF VersionFrom
<1>8. \E R \in TaskType :
         /\ task' = [task EXCEPT ![t] = R] /\ TaskOK(R, primary'.user, connected')
         /\ VersionFrom(R, t) /\ R.pc # "migrate"
  BY <1>1, <1>3, <1>7 DEF Set
<1> QED BY <1>1, <1>4, <1>5, <1>6, <1>8, Bounds DEF Turn

\* GetAgain, ReadChannels, GetUserFails, NoSuchUser
LEMMA ReadTurns ==
  ASSUME DualDbAssumption, IInv, NEW t \in Tasks,
         GetAgain(t) \/ ReadChannels(t) \/ GetUserFails(t) \/ NoSuchUser(t)
  PROVE  Turn(t)
<1> DEFINE u == primary.user
           H == [task[t] EXCEPT !.pc = "have", !.user = u]
           D == [task[t] EXCEPT !.pc = "drop again"]
           chids == secondary.chids
           pc == IF secondary.chids = {} THEN "have" ELSE "add channels"
           C == [task[t] EXCEPT !.chids = chids, !.pc = pc]
<1>1. /\ primary' = primary /\ secondary' = secondary /\ registered' = registered
      /\ connected' = connected
      /\ Set(t, H) \/ Set(t, D) \/ Set(t, C) \/ Stop(t)
  BY DEF GetAgain, ReadChannels, GetUserFails, NoSuchUser, SameDbs, SameAgent, Stop
<1>2. u \in UserType /\ u = primary.user /\ pc \in {"have", "add channels"} /\ chids \in SUBSET Channels
  BY Bounds DEF DbType
<1> HIDE DEF u, pc, chids
<1>3. /\ H \in TaskType /\ H.pc = "have" /\ H.user = u
      /\ D \in TaskType /\ D.pc = "drop again" /\ D.user = task[t].user
  BY <1>2, Bounds DEF TaskType, Pcs
<1>4. C \in TaskType /\ C.pc = pc /\ C.user = task[t].user
  BY <1>2, Bounds DEF TaskType, Pcs
<1> HIDE DEF H, D, C
<1>5. CASE Stop(t)
  BY <1>1, <1>5, Bounds, StopTurns
<1>6. CASE Set(t, H) \/ Set(t, D) \/ Set(t, C)
  BY <1>1, <1>2, <1>3, <1>4, <1>6, StepOnTurns
<1> QED BY <1>1, <1>5, <1>6

\* AddMigrated
LEMMA AddMigratedTurns ==
  ASSUME DualDbAssumption, IInv, NEW t \in Tasks, AddMigrated(t)
  PROVE  Turn(t)
<1> DEFINE S == [task[t] EXCEPT !.pc = "have"]
           chids == primary.chids \cup task[t].chids
<1>1. /\ primary' = [primary EXCEPT !.chids = chids]
      /\ secondary' = secondary /\ registered' = registered /\ connected' = connected /\ Set(t, S)
  BY DEF AddMigrated, SameAgent, bt_add_channels
<1>2. chids \in SUBSET Channels
  BY Bounds DEF DbType, TaskType
<1> HIDE DEF chids
<1>3. primary' \in DbType /\ primary'.user = primary.user
  BY <1>1, <1>2, Bounds DEF DbType
<1>4. S \in TaskType /\ S.pc = "have" /\ S.user = task[t].user
  BY Bounds DEF TaskType, Pcs
<1> HIDE DEF S
<1>5. TaskOK(S, primary'.user, connected) /\ VersionFrom(S, t)
  BY <1>4, Bounds, NotRunning DEF VersionFrom
<1>6. Known(primary', connected') /\ Known(secondary', connected')
  BY <1>1, <1>3, Bounds DEF Known
<1>7. RecordChange(task[t], primary.user, primary'.user)
  BY <1>3 DEF RecordChange, Kept
<1>8. \E R \in TaskType :
         /\ task' = [task EXCEPT ![t] = R] /\ TaskOK(R, primary'.user, connected')
         /\ VersionFrom(R, t) /\ R.pc # "migrate"
  BY <1>1, <1>4, <1>5 DEF Set
<1> QED BY <1>1, <1>3, <1>6, <1>7, <1>8, Bounds DEF Turn

\* The caller of get_user
LEMMA UseUserTurns ==
  ASSUME DualDbAssumption, IInv, NEW t \in Tasks, UseUser(t)
  PROVE  Turn(t)
<1>1. primary' = primary /\ secondary' = secondary /\ registered' = registered
  BY DEF UseUser, SameDbs
<1>2. 0 \in Args /\ {} \in SUBSET Channels
  BY DEF Args
<1> DEFINE u == [task[t].user EXCEPT !.connected_at = connected + 1, !.node_id = "node"]
<1>3. CASE connected' = connected + 1 /\ Start(t, "update_user", u, {}, 0)
  <2>1. u \in UserType /\ u.connected_at = connected + 1 /\ u.version = task[t].user.version
    <3> DEFINE v == task[t].user
               next == connected + 1
               w == [v EXCEPT !.connected_at = next]
    <3>1. v \in UserType /\ next \in Nat
      BY Bounds
    <3>2. u = [w EXCEPT !.node_id = "node"]
      OBVIOUS
    <3> HIDE DEF v, next, u
    <3>3. w \in UserType /\ w.connected_at = next /\ w.version = v.version
      BY <3>1 DEF UserType
    <3> HIDE DEF w
    <3>4. u \in UserType /\ u.connected_at = next /\ u.version = v.version
      BY <3>2, <3>3 DEF UserType
    <3> QED BY <3>4 DEF v, next
  <2> HIDE DEF u
  <2>2. "update_user" \in Ops
    BY DEF Ops
  <2>3. PICK S \in TaskType : /\ Set(t, S) /\ S.op = "update_user" /\ S.pc = "run" /\ S.user = u
                              /\ S.prog \in Seq(CallsOf("update_user"))
    BY <1>2, <1>3, <2>1, <2>2, StartTyped
  <2>4. /\ connected + 1 \in Nat /\ connected <= connected + 1 /\ connected + 1 <= connected + 1
        /\ connected + 1 >= 1 /\ primary.user.connected_at <= connected + 1
    BY Bounds DEF UserType
  <2>5. TaskOK(S, primary.user, connected') /\ VersionFrom(S, t)
    BY <1>3, <2>1, <2>2, <2>3, <2>4 DEF TaskOK, Known, UpdateOK, RunOK, VersionFrom
  <2> QED BY <1>1, <1>3, <2>3, <2>4, <2>5, Bounds, QuietTurns
<1>4. CASE Start(t, "remove_node_id", task[t].user, {}, 0) /\ connected' = connected
  <2>1. "remove_node_id" \in Ops \ {"add_user", "update_user"}
    BY DEF Ops
  <2> QED BY <1>1, <1>2, <1>4, <2>1, Bounds, StartTurns
<1>5. CASE Stop(t) /\ connected' = connected
  BY <1>1, <1>5, Bounds, StopTurns
<1> QED BY <1>3, <1>4, <1>5 DEF UseUser

\* The hello of a new user agent
LEMMA NewUserTurns ==
  ASSUME DualDbAssumption, IInv, NEW t \in Tasks, NewUser(t)
  PROVE  Turn(t)
<1> DEFINE version == FreshVersion
           u == [connected_at |-> 1, node_id |-> "node", version |-> version]
<1>1. /\ primary' = primary /\ secondary' = secondary /\ registered' = registered
      /\ connected = 0 /\ connected' = 1 /\ Start(t, "add_user", u, {}, 0)
  BY DEF NewUser, SameDbs
<1>2. 0 \in Args /\ {} \in SUBSET Channels /\ "add_user" \in Ops
  BY DEF Args, Ops
<1>3. IsFresh(version) /\ version \in 0..(Cardinality(Tasks) + 2)
  BY FreshIsFresh DEF IsFresh
<1> HIDE DEF version
<1>4. u \in UserType /\ u.connected_at = 1 /\ u.version = version
  BY <1>3 DEF UserType
<1> HIDE DEF u
<1>5. PICK S \in TaskType : /\ Set(t, S) /\ S.op = "add_user" /\ S.pc = "run" /\ S.user = u
                            /\ S.prog \in Seq(CallsOf("add_user"))
  BY <1>1, <1>2, <1>4, StartTyped
<1>6. TaskOK(S, primary.user, connected') /\ VersionFrom(S, t)
  BY <1>1, <1>2, <1>3, <1>4, <1>5 DEF TaskOK, Known, UpdateOK, RunOK, VersionFrom
<1>7. connected' \in Nat /\ connected <= connected'
  BY <1>1
<1> QED BY <1>1, <1>5, <1>6, <1>7, Bounds, QuietTurns

\* Operations on a user that was read before
LEMMA OperationTurns ==
  ASSUME DualDbAssumption, IInv, NEW t \in Tasks, Operation(t)
  PROVE  Turn(t)
<1>1. primary' = primary /\ secondary' = secondary /\ connected' = connected
  BY DEF Operation, SameDbs
<1>2. /\ NoUser \in UserType /\ NoUser.connected_at <= connected /\ NoUser.version = 0
      /\ 0 \in Args /\ {} \in SUBSET Channels /\ Messages \subseteq Args
  BY NoUserTyped, Bounds DEF Args
<1>3. {"add_channels", "remove_channel", "remove_user", "save_message"}
        \subseteq Ops \ {"add_user", "update_user"}
  BY DEF Ops
<1>4. CASE registered' = registered /\ \E c \in Channels : Start(t, "add_channels", NoUser, {c}, 0)
  <2>1. PICK c \in Channels : Start(t, "add_channels", NoUser, {c}, 0)
    BY <1>4
  <2>2. {c} \in SUBSET Channels
    OBVIOUS
  <2> QED BY <1>1, <1>2, <1>3, <1>4, <2>1, <2>2, Bounds, StartTurns
<1>5. CASE \E c \in registered : Start(t, "remove_channel", NoUser, {c}, 0) /\ registered' = registered \ {c}
  <2>1. PICK c \in registered : Start(t, "remove_channel", NoUser, {c}, 0) /\ registered' = registered \ {c}
    BY <1>5
  <2>2. {c} \in SUBSET Channels /\ registered' \in SUBSET Channels
    BY <2>1, Bounds
  <2> QED BY <1>1, <1>2, <1>3, <2>1, <2>2, StartTurns
<1>6. CASE Start(t, "remove_user", NoUser, {}, 0) /\ registered' = {}
  BY <1>1, <1>2, <1>3, <1>6, StartTurns
<1>7. CASE registered' = registered /\ \E m \in Messages : Start(t, "save_message", NoUser, {}, m)
  <2>1. PICK m \in Messages : Start(t, "save_message", NoUser, {}, m)
    BY <1>7
  <2> QED BY <1>1, <1>2, <1>3, <1>7, <2>1, Bounds, StartTurns
<1> QED BY <1>4, <1>5, <1>6, <1>7 DEF Operation

\* The operation returns to its caller.
LEMMA ReturnTurns ==
  ASSUME DualDbAssumption, IInv, NEW t \in Tasks, Return(t)
  PROVE  Turn(t)
<1>1. /\ primary' = primary /\ secondary' = secondary /\ connected' = connected /\ Stop(t)
      /\ registered' = registered \/ registered' = registered \cup task[t].chids
  BY DEF Return, SameDbs
<1>2. registered' \in SUBSET Channels
  BY <1>1, Bounds DEF TaskType
<1> QED BY <1>1, <1>2, StopTurns

\* Reads of a session
LEMMA FetchTurns ==
  ASSUME DualDbAssumption, IInv, NEW t \in Tasks, FetchTopic(t) \/ FetchTimestamp(t)
  PROVE  Turn(t)
<1>1. /\ primary' = primary /\ secondary' = secondary /\ connected' = connected
      /\ registered' = registered
  BY DEF FetchTopic, FetchTimestamp, SameDbs
<1>2. /\ NoUser \in UserType /\ NoUser.connected_at <= connected /\ NoUser.version = 0
      /\ {} \in SUBSET Channels /\ Messages \subseteq Args
      /\ primary.messages \subseteq Messages /\ secondary.messages \subseteq Messages
  BY NoUserTyped, Bounds DEF Args, DbType
<1>3. {"remove_message", "increment_storage"} \subseteq Ops \ {"add_user", "update_user"}
  BY DEF Ops
<1>4. CASE FetchTopic(t)
  <2>1. PICK m \in Messages : Start(t, "remove_message", NoUser, {}, m)
    BY <1>2, <1>4 DEF FetchTopic, Stored, fetch_topic_messages
  <2> QED BY <1>1, <1>2, <1>3, <2>1, Bounds, StartTurns
<1>5. CASE FetchTimestamp(t)
  <2>1. PICK batch \in SUBSET Messages : Start(t, "increment_storage", NoUser, {}, Max(batch))
    BY <1>2, <1>5 DEF FetchTimestamp, Stored, fetch_timestamp_messages
  <2>2. Max(batch) \in Args
    BY DEF Args
  <2> QED BY <1>1, <1>2, <1>3, <2>1, <2>2, Bounds, StartTurns
<1> QED BY <1>4, <1>5

\* A field of a database that is not its user changes nothing of the record.
LEMMA UserPut ==
  ASSUME NEW db \in DbType, NEW u \in UserType, NEW d, d = [db EXCEPT !.user = u]
  PROVE  d \in DbType /\ d.user = u
BY DEF DbType

LEMMA ChidsPut ==
  ASSUME NEW db \in DbType, NEW chids \in SUBSET Channels, NEW d, d = [db EXCEPT !.chids = chids]
  PROVE  d \in DbType /\ d.user = db.user
BY DEF DbType

LEMMA MessagesPut ==
  ASSUME NEW db \in DbType, NEW messages \in SUBSET Messages, NEW d, d = [db EXCEPT !.messages = messages]
  PROVE  d \in DbType /\ d.user = db.user
BY DEF DbType

LEMMA TimestampPut ==
  ASSUME NEW db \in DbType, NEW timestamp \in Args, NEW d, d = [db EXCEPT !.timestamp = timestamp]
  PROVE  d \in DbType /\ d.user = db.user
BY DEF DbType

LEMMA VersionPut ==
  ASSUME NEW u \in UserType, NEW version \in 0..(Cardinality(Tasks) + 2), NEW v,
         v = [u EXCEPT !.version = version]
  PROVE  v \in UserType /\ v.connected_at = u.connected_at /\ v.version = version
BY DEF UserType

LEMMA NodePut ==
  ASSUME NEW u \in UserType, NEW v, v = [u EXCEPT !.node_id = "none"]
  PROVE  v \in UserType /\ v.connected_at = u.connected_at /\ v.version = u.version
BY DEF UserType

\* A call to the primary
LEMMA OnPrimaryOK ==
  ASSUME DualDbAssumption, IInv, NEW t \in Tasks, task[t].pc = "run",
         NEW d, d = OnPrimary(t, task[t].op)
  PROVE  /\ d \in DbType /\ RecordChange(task[t], primary.user, d.user)
         /\ d.user.connected_at <= connected
<1> DEFINE S == task[t]
           p == primary
           u == primary.user
           version == FreshVersion
           w == [u EXCEPT !.version = version]
<1>1. /\ p \in DbType /\ u \in UserType /\ u.connected_at <= connected /\ u = p.user
      /\ S \in TaskType /\ S.user \in UserType /\ S.user.connected_at <= connected
      /\ S.chids \in SUBSET Channels /\ S.arg \in Args /\ S.op \in Ops
      /\ p.chids \in SUBSET Channels /\ p.messages \in SUBSET Messages
      /\ S.op = "save_message" => S.arg \in Messages
      /\ S.op = "add_user" => S.user.connected_at = 1
      /\ S.op = "update_user" /\ u.connected_at # 0 /\ u.version = S.user.version
           => u.connected_at <= S.user.connected_at
  BY Bounds DEF TaskType, DbType, IInv, TaskOK, RunOK, UpdateOK
<1>2. IsFresh(version) /\ version \in 0..(Cardinality(Tasks) + 2)
  BY FreshIsFresh DEF IsFresh
<1>3. u.connected_at \in Int /\ S.user.connected_at \in Int /\ u.connected_at <= u.connected_at
  BY <1>1 DEF UserType
<1>4. w \in UserType /\ w.connected_at = u.connected_at /\ w.version = version
  <2> HIDE DEF u, version
  <2> QED BY <1>1, <1>2, VersionPut
<1>5. ASSUME d \in DbType, d.user = u
      PROVE  d \in DbType /\ RecordChange(S, u, d.user) /\ d.user.connected_at <= connected
  BY <1>1, <1>5 DEF RecordChange, Kept
<1>6. ASSUME d \in DbType, d.user = w
      PROVE  d \in DbType /\ RecordChange(S, u, d.user) /\ d.user.connected_at <= connected
  BY <1>1, <1>2, <1>3, <1>4, <1>6 DEF RecordChange, Written
<1>7. CASE S.op = "add_user"
  <2>1. d = p \/ (~RowExists(p) /\ d = [p EXCEPT !.user = S.user])
    BY <1>7 DEF OnPrimary, bt_add_user
  <2>2. CASE d = p
    BY <1>1, <1>5, <2>2
  <2>3. CASE ~RowExists(p) /\ d = [p EXCEPT !.user = S.user]
    <3>1. d \in DbType /\ d.user = S.user /\ u.connected_at = 0
      BY <1>1, <2>3, UserPut DEF RowExists, HasUser
    <3> QED BY <1>1, <1>7, <3>1 DEF RecordChange, Added
  <2> QED BY <2>1, <2>2, <2>3
<1>8. CASE S.op = "update_user"
  <2> DEFINE x == [S.user EXCEPT !.version = version]
  <2>1. d = p \/ (u.connected_at # 0 /\ u.version = S.user.version /\ d = [p EXCEPT !.user = x])
    BY <1>8 DEF OnPrimary, bt_update_user, HasUser
  <2>2. x \in UserType /\ x.connected_at = S.user.connected_at /\ x.version = version
    <3> DEFINE su == S.user
    <3>1. su \in UserType /\ x = [su EXCEPT !.version = version]
      BY <1>1
    <3> HIDE DEF su, version, x
    <3>2. x \in UserType /\ x.connected_at = su.connected_at /\ x.version = version
      BY <1>2, <3>1, VersionPut
    <3> QED BY <3>2 DEF su
  <2> HIDE DEF x
  <2>3. CASE d = p
    BY <1>1, <1>5, <2>3
  <2>4. CASE u.connected_at # 0 /\ u.version = S.user.version /\ d = [p EXCEPT !.user = x]
    <3>1. d \in DbType /\ d.user = x
      BY <1>1, <2>2, <2>4, UserPut
    <3>2. Written(u, x)
      BY <1>1, <1>2, <1>3, <1>8, <2>2, <2>4 DEF Written
    <3> QED BY <1>1, <2>2, <3>1, <3>2 DEF RecordChange
  <2> QED BY <2>1, <2>3, <2>4
<1>9. CASE S.op = "remove_user"
  <2> DEFINE none == NoUser
  <2>1. d = [p EXCEPT !.user = none, !.chids = {}, !.timestamp = 0]
    BY <1>9 DEF OnPrimary, bt_remove_user
  <2>2. none \in UserType /\ none = NoUser /\ none.connected_at = 0 /\ 0 \in Args /\ 0 <= connected
    BY NoUserTyped, Bounds DEF Args
  <2> HIDE DEF none
  <2>3. d \in DbType /\ d.user = none
    BY <1>1, <2>1, <2>2 DEF DbType
  <2> QED BY <2>2, <2>3 DEF RecordChange
<1>10. CASE S.op = "add_channels"
  <2>1. d = [p EXCEPT !.chids = p.chids \cup S.chids] /\ p.chids \cup S.chids \in SUBSET Channels
    BY <1>1, <1>10 DEF OnPrimary, bt_add_channels
  <2> QED BY <1>1, <1>5, <2>1, ChidsPut
<1>11. CASE S.op = "remove_channel"
  <2> DEFINE c == CHOOSE c \in S.chids : TRUE
             chids == p.chids \ {c}
             e == [p EXCEPT !.chids = chids]
  <2>1. d = p \/ d = [e EXCEPT !.user = w]
    <3>1. d = p \/ d = [p EXCEPT !.chids = chids, !.user.version = version]
      BY <1>11 DEF OnPrimary, bt_remove_channel
    <3>2. [p EXCEPT !.chids = chids, !.user.version = version] = [e EXCEPT !.user = w]
      <4>1. e.user = u
        BY <1>1 DEF DbType
      <4>2. [p EXCEPT !.chids = chids, !.user.version = version]
              = [e EXCEPT !.user = [e.user EXCEPT !.version = version]]
        OBVIOUS
      <4> QED BY <4>1, <4>2
    <3> QED BY <3>1, <3>2
  <2>2. chids \in SUBSET Channels
    BY <1>1
  <2> HIDE DEF chids
  <2>3. e \in DbType /\ e.user = u
    BY <1>1, <2>2, ChidsPut
  <2> HIDE DEF e, w
  <2>4. CASE d = p
    BY <1>1, <1>5, <2>4
  <2>5. CASE d = [e EXCEPT !.user = w]
    BY <1>4, <1>6, <2>3, <2>5, UserPut
  <2> QED BY <2>1, <2>4, <2>5
<1>12. CASE S.op = "remove_node_id"
  <2> DEFINE x == [u EXCEPT !.node_id = "none"]
  <2>1. d = p \/ d = [p EXCEPT !.user = x]
    BY <1>12 DEF OnPrimary, bt_remove_node_id
  <2>2. x \in UserType /\ x.connected_at = u.connected_at /\ x.version = u.version
    BY <1>1, NodePut
  <2> HIDE DEF x
  <2>3. CASE d = p
    BY <1>1, <1>5, <2>3
  <2>4. CASE d = [p EXCEPT !.user = x]
    <3>1. d \in DbType /\ d.user = x
      BY <1>1, <2>2, <2>4, UserPut
    <3> QED BY <1>1, <2>2, <3>1 DEF RecordChange, Kept
  <2> QED BY <2>1, <2>3, <2>4
<1>13. CASE S.op \in {"save_message", "remove_message"}
  <2> DEFINE messages == IF S.op = "save_message" THEN p.messages \cup {S.arg} ELSE p.messages \ {S.arg}
  <2>1. d = [p EXCEPT !.messages = messages] /\ messages \in SUBSET Messages
    BY <1>1, <1>13 DEF OnPrimary, bt_save_message, bt_remove_message
  <2> HIDE DEF messages
  <2> QED BY <1>1, <1>5, <2>1, MessagesPut
<1>14. CASE S.op = "increment_storage"
  <2> DEFINE arg == S.arg
             e == [p EXCEPT !.timestamp = arg]
  <2>1. d = [e EXCEPT !.user = w]
    <3>1. d = [p EXCEPT !.timestamp = arg, !.user.version = version]
      BY <1>14 DEF OnPrimary, bt_increment_storage
    <3>2. e.user = u
      BY <1>1 DEF DbType
    <3>3. [p EXCEPT !.timestamp = arg, !.user.version = version]
            = [e EXCEPT !.user = [e.user EXCEPT !.version = version]]
      OBVIOUS
    <3> QED BY <3>1, <3>2, <3>3
  <2>2. arg \in Args
    BY <1>1
  <2> HIDE DEF arg
  <2>3. e \in DbType /\ e.user = u
    BY <1>1, <2>2, TimestampPut
  <2> HIDE DEF e, w
  <2> QED BY <1>4, <1>6, <2>1, <2>3, UserPut
<1> QED BY <1>1, <1>7, <1>8, <1>9, <1>10, <1>11, <1>12, <1>13, <1>14 DEF Ops

\* A call to the secondary
LEMMA OnSecondaryOK ==
  ASSUME DualDbAssumption, IInv, NEW t \in Tasks, task[t].pc = "run",
         NEW d, d = OnSecondary(t, task[t].op)
  PROVE  d \in DbType /\ d.user.version = 0 /\ d.user.connected_at <= connected
<1> DEFINE S == task[t]
           p == secondary
           su == S.user
           x == [su EXCEPT !.version = 0]
<1>1. /\ p \in DbType /\ p.user \in UserType /\ p.user.connected_at <= connected /\ p.user.version = 0
      /\ S \in TaskType /\ su \in UserType /\ su.connected_at <= connected
      /\ S.chids \in SUBSET Channels /\ S.arg \in Args /\ S.op \in Ops
      /\ p.chids \in SUBSET Channels /\ p.messages \in SUBSET Messages
      /\ S.op = "save_message" => S.arg \in Messages
  BY Bounds DEF TaskType, DbType, IInv, TaskOK, RunOK
<1>2. 0 \in 0..(Cardinality(Tasks) + 2)
  BY FS_CardinalityType DEF DualDbAssumption
<1>3. x \in UserType /\ x.connected_at <= connected /\ x.version = 0
  <2> HIDE DEF su
  <2>1. x \in UserType /\ x.connected_at = su.connected_at /\ x.version = 0
    BY <1>1, <1>2, VersionPut
  <2> QED BY <1>1, <2>1
<1>4. CASE S.op \in {"add_user", "update_user"}
  <2>1. d = p \/ d = [p EXCEPT !.user = x]
    BY <1>4 DEF OnSecondary, ddb_add_user, ddb_update_user
  <2> HIDE DEF x
  <2> QED BY <1>1, <1>3, <2>1, UserPut
<1>5. CASE S.op = "remove_user"
  <2> DEFINE none == NoUser
  <2>1. d = [p EXCEPT !.user = none]
    BY <1>5 DEF OnSecondary, ddb_remove_user
  <2>2. none \in UserType /\ none.version = 0 /\ none.connected_at <= connected
    BY NoUserTyped, Bounds
  <2> HIDE DEF none
  <2> QED BY <1>1, <2>1, <2>2, UserPut
<1>6. CASE S.op \in {"add_channels", "remove_channel"}
  <2> DEFINE c == CHOOSE c \in S.chids : TRUE
             chids == IF S.op = "add_channels" THEN p.chids \cup S.chids ELSE p.chids \ {c}
  <2>1. d = [p EXCEPT !.chids = chids] /\ chids \in SUBSET Channels
    BY <1>1, <1>6 DEF OnSecondary, ddb_add_channels, ddb_remove_channel
  <2> HIDE DEF chids
  <2> QED BY <1>1, <2>1, ChidsPut
<1>7. CASE S.op = "remove_node_id"
  <2> DEFINE v == p.user
             y == [v EXCEPT !.node_id = "none"]
  <2>1. d = p \/ d = [p EXCEPT !.user = y]
    BY <1>7 DEF OnSecondary, ddb_remove_node_id
  <2>2. v \in UserType /\ v.connected_at <= connected /\ v.version = 0
    BY <1>1
  <2> HIDE DEF v
  <2>3. y \in UserType /\ y.connected_at = v.connected_at /\ y.version = v.version
    BY <2>2, NodePut
  <2> HIDE DEF y
  <2> QED BY <1>1, <2>1, <2>2, <2>3, UserPut
<1>8. CASE S.op \in {"save_message", "remove_message"}
  <2> DEFINE messages == IF S.op = "save_message" THEN p.messages \cup {S.arg} ELSE p.messages \ {S.arg}
  <2>1. d = [p EXCEPT !.messages = messages] /\ messages \in SUBSET Messages
    BY <1>1, <1>8 DEF OnSecondary, ddb_save_message, ddb_remove_message
  <2> HIDE DEF messages
  <2> QED BY <1>1, <2>1, MessagesPut
<1>9. CASE S.op = "increment_storage"
  <2>1. d = [p EXCEPT !.timestamp = S.arg]
    BY <1>9 DEF OnSecondary, ddb_increment_storage
  <2> QED BY <1>1, <2>1, TimestampPut
<1> QED BY <1>1, <1>4, <1>5, <1>6, <1>7, <1>8, <1>9 DEF Ops

\* One call of an operation
LEMMA RunCallTurns ==
  ASSUME DualDbAssumption, IInv, NEW t \in Tasks, RunCall(t)
  PROVE  Turn(t)
<1> DEFINE call == Head(task[t].prog)
           rest == Tail(task[t].prog)
           next == [task[t] EXCEPT !.prog = rest]
           late == next.failed \/ call.when = "late"
           failed == [next EXCEPT !.failed = late]
<1>1. /\ task[t].pc = "run" /\ task[t].prog # <<>>
      /\ registered' = registered /\ connected' = connected
      /\ primary' = primary \/ (call.db = "primary" /\ primary' = OnPrimary(t, call.name))
      /\ secondary' = secondary \/ (call.db = "secondary" /\ secondary' = OnSecondary(t, call.name))
      /\ Set(t, next) \/ Set(t, Idle) \/ Set(t, failed)
  BY DEF RunCall, SameAgent
<1>2. /\ task[t] \in TaskType /\ task[t].user \in UserType /\ task[t].op \in Ops
      /\ task[t].prog \in Seq(CallsOf(task[t].op))
      /\ task[t].prog \in Seq(UNION {CallsOf(op) : op \in Ops})
      /\ TaskOK(task[t], primary.user, connected)
  BY <1>1, Bounds DEF IInv, TaskOK, RunOK, TaskType
<1>3. call.name = task[t].op
  <2>1. call \in CallsOf(task[t].op)
    BY <1>1, <1>2
  <2> QED BY <2>1 DEF CallsOf
<1>4. rest \in Seq(CallsOf(task[t].op)) /\ rest \in Seq(UNION {CallsOf(op) : op \in Ops})
  <2> DEFINE Calls == UNION {CallsOf(op) : op \in Ops}
             Own == CallsOf(task[t].op)
             prog == task[t].prog
  <2>1. prog \in Seq(Own) /\ prog \in Seq(Calls) /\ prog # <<>> /\ rest = Tail(prog)
    BY <1>1, <1>2
  <2> HIDE DEF Calls, Own, prog, rest
  <2>2. rest \in Seq(Own) /\ rest \in Seq(Calls)
    BY <2>1
  <2> QED BY <2>2 DEF Calls, Own
<1> HIDE DEF rest, call
<1>5. /\ next \in TaskType /\ next.pc = "run" /\ next.op = task[t].op /\ next.user = task[t].user
      /\ next.arg = task[t].arg /\ next.prog = rest
  BY <1>1, <1>2, <1>4 DEF TaskType
<1> HIDE DEF next
<1>6. late \in BOOLEAN
  BY <1>5 DEF TaskType
<1> HIDE DEF late
<1>7. /\ failed \in TaskType /\ failed.pc = "run" /\ failed.op = task[t].op
      /\ failed.user = task[t].user /\ failed.arg = task[t].arg /\ failed.prog = rest
  BY <1>5, <1>6 DEF TaskType
<1> HIDE DEF failed
<1>8. /\ primary' \in DbType /\ RecordChange(task[t], primary.user, primary'.user)
      /\ primary'.user.connected_at <= connected
  <2>1. CASE primary' = primary
    BY <2>1, Bounds DEF RecordChange, Kept
  <2>2. CASE primary' = OnPrimary(t, call.name)
    BY <1>1, <1>3, <2>2, OnPrimaryOK
  <2> QED BY <1>1, <2>1, <2>2
<1>9. secondary' \in DbType /\ secondary'.user.version = 0 /\ secondary'.user.connected_at <= connected
  BY <1>1, <1>3, Bounds, OnSecondaryOK
<1>10. UpdateOK(task[t], primary'.user)
  <2>1. primary.user \in UserType /\ primary'.user \in UserType
    BY <1>8, Bounds DEF DbType
  <2>2. IsFresh(primary'.user.version) => primary'.user.version # task[t].user.version
    BY DEF IsFresh
  <2> QED BY <1>1, <1>2, <1>8, <2>1, <2>2, ChangeKeepsUpdate DEF TaskOK
<1>11. ASSUME NEW S \in {next, failed}
       PROVE  TaskOK(S, primary'.user, connected) /\ VersionFrom(S, t)
  <2>1. /\ S.pc = "run" /\ S.op = task[t].op /\ S.user = task[t].user /\ S.arg = task[t].arg
        /\ S.prog = rest
    BY <1>5, <1>7, <1>11
  <2>2. RunOK(S)
    BY <1>1, <1>2, <1>4, <2>1 DEF RunOK, TaskOK
  <2>3. UpdateOK(S, primary'.user)
    BY <1>1, <1>10, <2>1 DEF UpdateOK
  <2> QED BY <1>2, <2>1, <2>2, <2>3 DEF TaskOK, Known, VersionFrom
<1>12. TaskOK(Idle, primary'.user, connected) /\ VersionFrom(Idle, t)
  BY NoUserTyped, Bounds, NotRunning DEF VersionFrom
<1>13. \E R \in TaskType :
         /\ task' = [task EXCEPT ![t] = R] /\ TaskOK(R, primary'.user, connected')
         /\ VersionFrom(R, t) /\ R.pc # "migrate"
  <2>1. CASE Set(t, next)
    BY <1>1, <1>5, <1>11, <2>1 DEF Set
  <2>2. CASE Set(t, failed)
    BY <1>1, <1>7, <1>11, <2>2 DEF Set
  <2>3. CASE Set(t, Idle)
    BY <1>1, <1>12, <2>3, NoUserTyped DEF Set
  <2> QED BY <1>1, <2>1, <2>2, <2>3
<1> QED BY <1>1, <1>8, <1>9, <1>13, Bounds DEF Turn, Known

LEMMA Turns ==
  ASSUME DualDbAssumption, IInv, Next
  PROVE  \E t \in Tasks : Turn(t)
<1>1. PICK t \in Tasks :
        \/ GetUser(t) \/ DropIncomplete(t) \/ GetSecondary(t) \/ Migrate(t) \/ GetAgain(t)
        \/ ReadChannels(t) \/ AddMigrated(t) \/ GetUserFails(t) \/ UseUser(t) \/ NoSuchUser(t)
        \/ NewUser(t) \/ Operation(t) \/ RunCall(t) \/ Return(t) \/ FetchTopic(t) \/ FetchTimestamp(t)
  BY DEF Next
<1> QED BY <1>1, GetUserTurns, DropIncompleteTurns, GetSecondaryTurns, MigrateTurns, ReadTurns,
           AddMigratedTurns, UseUserTurns, NewUserTurns, OperationTurns, RunCallTurns, ReturnTurns,
           FetchTurns

-----------------------------------------------------------------------------
(* The theorem.                                                              *)

LEMMA Invariance ==
  ASSUME DualDbAssumption
  PROVE  Spec => []IInv
<1>1. Init => IInv
  <2>1. SUFFICES ASSUME Init  PROVE IInv
    OBVIOUS
  <2>2. /\ connected \in Nat /\ registered \in SUBSET Channels
        /\ secondary \in DbType /\ secondary.user.version = 0 /\ secondary.user.connected_at <= connected
    <3>1. CASE \E chids \in SUBSET Channels, waiting \in SUBSET Messages,
                  timestamp \in {0} \cup (Messages \ Topics) :
                 /\ secondary = [user |-> [NoUser EXCEPT !.connected_at = 1], chids |-> chids,
                                 timestamp |-> timestamp, messages |-> waiting]
                 /\ registered = chids /\ connected = 1
      <4> DEFINE u == [NoUser EXCEPT !.connected_at = 1]
      <4>1. PICK chids \in SUBSET Channels, waiting \in SUBSET Messages,
                 timestamp \in {0} \cup (Messages \ Topics) :
              /\ secondary = [user |-> u, chids |-> chids, timestamp |-> timestamp, messages |-> waiting]
              /\ registered = chids /\ connected = 1
        BY <3>1
      <4>2. u \in UserType /\ u.connected_at = 1 /\ u.version = 0 /\ timestamp \in Args
        <5> DEFINE none == NoUser
        <5>1. none \in UserType /\ none.version = 0 /\ u = [none EXCEPT !.connected_at = 1]
          BY NoUserTyped
        <5> HIDE DEF none, u
        <5> QED BY <5>1 DEF UserType, Args
      <4> HIDE DEF u
      <4>3. secondary \in DbType /\ secondary.user = u
        BY <4>1, <4>2 DEF DbType
      <4> QED BY <4>1, <4>2, <4>3
    <3>2. CASE secondary = Empty /\ registered = {} /\ connected = 0
      BY <3>2, NoUserTyped
    <3> QED BY <2>1, <3>1, <3>2 DEF Init
  <2>3. primary = Empty /\ \A t \in Tasks : task[t] = Idle
    BY <2>1 DEF Init
  <2>4. task \in [Tasks -> TaskType]
    BY <2>1, NoUserTyped DEF Init
  <2>5. Types
    BY <2>2, <2>3, <2>4, NoUserTyped DEF Types
  <2>6. \A t \in Tasks : TaskOK(task[t], primary.user, connected) /\ MigrateOK(t)
    BY <2>2, <2>3, NoUserTyped, NotRunning DEF MigrateOK
  <2>7. Known(primary, connected) /\ Known(secondary, connected)
    BY <2>2, <2>3, NoUserTyped DEF Known
  <2> QED BY <2>5, <2>6, <2>7 DEF IInv
<1>2. IInv /\ [Next]_vars => IInv'
  <2>1. ASSUME IInv, Next  PROVE IInv'
    BY <2>1, Turns, TurnKeeps
  <2>2. ASSUME IInv, UNCHANGED vars  PROVE IInv'
    <3>1. /\ primary' = primary /\ secondary' = secondary /\ task' = task /\ registered' = registered
          /\ connected' = connected
      BY <2>2 DEF vars
    <3>2. Types'
      BY <2>2, <3>1 DEF IInv, Types
    <3>3. \A t \in Tasks : MigrateOK(t)'
      BY <2>2, <3>1 DEF IInv, MigrateOK
    <3> QED BY <2>2, <3>1, <3>2, <3>3 DEF IInv
  <2> QED BY <2>1, <2>2
<1> QED BY <1>1, <1>2, PTL DEF Spec

\* Any number of tasks that migrate and take over a user at once, whatever calls
\* fail or are done without an answer: an older record never replaces a newer one
\* in the primary (get_user, add_user, update_user of the dual client).
THEOREM OldRecordNeverReturns ==
  ASSUME DualDbAssumption
  PROVE  Spec => MigrationNeverOverwrites
<1>1. ASSUME IInv, Next  PROVE NotOlder
  <2>1. PICK t \in Tasks : RecordChange(task[t], primary.user, primary'.user)
    BY <1>1, Turns DEF Turn
  <2>2. primary.user.connected_at \in Int
    BY <1>1, Bounds DEF UserType
  <2> QED BY <2>1, <2>2 DEF NotOlder, HasUser, RecordChange, Kept, Written, Added, NoUser
<1>2. IInv /\ [Next]_vars => [NotOlder]_vars
  BY <1>1
<1> QED BY <1>2, Invariance, PTL DEF Spec, MigrationNeverOverwrites

=============================================================================
