------------------------------ MODULE Delivery -------------------------------
(***************************************************************************)
(* How a push notification travels from an autoendpoint to the sessions of *)
(* one user: autoendpoint's WebPushRouter, the user record, the            *)
(* ClientRegistry of every autoconnect node, the WebSocket sessions with   *)
(* their notification streams, and the task that saves a session's unacked *)
(* direct notifications when it ends.                                      *)
(*                                                                         *)
(* Storage is a set of messages here: a check of storage sends every row   *)
(* and an ack deletes one.  Module WebPushClient shows how the batches and *)
(* current_timestamp provide that.                                         *)
(***************************************************************************)
EXTENDS Naturals, Sequences, FiniteSets

CONSTANTS
  Messages,   \* notifications posted to the endpoints of this user
  ZeroTTL,    \* those with a TTL of 0, which are never stored
  Nodes,      \* autoconnect nodes
  NoNode,     \* node_id is None
  Sessions,   \* WebSocket connections of the user, each opened once
  NoSession,  \* the registry has no client for the user
  Failures,   \* TRUE: requests between servers and database calls may fail
  MaxCrashes  \* bound on node crashes

ASSUME MessageAssumption == ZeroTTL \subseteq Messages
ASSUME NodeAssumption == NoNode \notin Nodes
ASSUME SessionAssumption == NoSession \notin Sessions
ASSUME FailureAssumption == Failures \in BOOLEAN
ASSUME CrashAssumption == MaxCrashes \in Nat

VARIABLES
  user,      \* the user record
  rows,      \* messages in storage
  registry,  \* ClientRegistry of each node
  session,   \* the connections
  request,   \* the POST request of each message
  opened,    \* connections opened so far: the clock of connected_at
  acked,     \* messages the client acked
  lost,      \* messages in memory when a node crashed or a save failed
  crashes    \* node crashes so far

vars == <<user, rows, registry, session, request, opened, acked, lost, crashes>>

(***************************************************************************)
(* A session: "new" (not opened), "get_user", "update_user", "check" and   *)
(* "connect" (the calls of Hello), "live" (identified_ws), "closing" (out  *)
(* of its loop), "drain" (out of the registry), "save", "saved" and        *)
(* "notify" (the task spawned by shutdown), "done".                        *)
(***************************************************************************)
SessionPhases == {"new", "get_user", "update_user", "check", "connect", "live",
                  "closing", "drain", "save", "saved", "notify", "done"}

(***************************************************************************)
(* A request: "new", "send" (PUT /push), "gone" (remove_node_id after it), *)
(* "store", "refetch", "trigger" (PUT /notif), "unreachable"               *)
(* (remove_node_id after that), then the answer: "delivered", "stored" and *)
(* "dropped" are 201 Created, "failed" is an error.                        *)
(***************************************************************************)
RequestPhases == {"new", "send", "gone", "store", "refetch", "trigger", "unreachable",
                  "delivered", "stored", "dropped", "failed"}

CheckStorage == [type |-> "CheckStorage"]
Disconnect == [type |-> "Disconnect"]
Notification(m) == [type |-> "Notification", message |-> m]
ServerNotifications == {CheckStorage, Disconnect} \cup {Notification(m) : m \in Messages}

UserType == [exists : BOOLEAN, node_id : Nodes \cup {NoNode},
             connected_at : Nat, version : Nat]
SessionType == [phase : SessionPhases, node : Nodes \cup {NoNode},
                connected_at : Nat, version : Nat,
                snotif_stream : Seq(ServerNotifications),
                unacked_direct : SUBSET Messages,
                unacked_stored : SUBSET Messages,
                target : Nodes \cup {NoNode}]   \* node the saving task notifies
RequestType == [phase : RequestPhases, node_id : Nodes \cup {NoNode},
                connected_at : Nat, version : Nat]

TypeOK ==
  /\ user \in UserType
  /\ rows \subseteq Messages
  /\ registry \in [Nodes -> Sessions \cup {NoSession}]
  /\ session \in [Sessions -> SessionType]
  /\ request \in [Messages -> RequestType]
  /\ opened \in Nat
  /\ acked \subseteq Messages
  /\ lost \subseteq Messages
  /\ crashes \in 0..MaxCrashes

Init ==
  /\ user = [exists |-> TRUE, node_id |-> NoNode, connected_at |-> 0, version |-> 0]
  /\ rows = {}
  /\ registry = [n \in Nodes |-> NoSession]
  /\ session = [s \in Sessions |->
                  [phase |-> "new", node |-> NoNode, connected_at |-> 0, version |-> 0,
                   snotif_stream |-> <<>>, unacked_direct |-> {}, unacked_stored |-> {},
                   target |-> NoNode]]
  /\ request = [m \in Messages |->
                  [phase |-> "new", node_id |-> NoNode, connected_at |-> 0, version |-> 0]]
  /\ opened = 0
  /\ acked = {}
  /\ lost = {}
  /\ crashes = 0

-----------------------------------------------------------------------------
Becomes(s, S) == session' = [session EXCEPT ![s] = S]
Goes(s, phase) == Becomes(s, [session[s] EXCEPT !.phase = phase])
At(s, phase) == session[s].phase = phase
RequestAt(m, phase) == request[m].phase = phase
RequestGoes(m, phase) == request' = [request EXCEPT ![m].phase = phase]

\* What the registry of node n does with a notification: the session that is
\* registered there gets it (ClientRegistry::notify and check_storage).
Registered(n) == registry[n] # NoSession
Push(n, snotif) ==
  session' = [session EXCEPT ![registry[n]].snotif_stream = Append(@, snotif)]

Holds(q, x) == \E i \in DOMAIN q : q[i] = x

\* Messages a session has in memory: in its stream, and direct but unacked.
Queued(S) == {m \in Messages : Holds(S.snotif_stream, Notification(m))}
InMemory(S) == S.unacked_direct \cup Queued(S)

-----------------------------------------------------------------------------
(* Hello. *)

\* A connection is opened on node n; connected_at is taken before get_user.
Open(s, n) ==
  /\ At(s, "new")
  /\ opened' = opened + 1
  /\ Becomes(s, [session[s] EXCEPT !.phase = "get_user", !.node = n,
                                   !.connected_at = opened + 1])
  /\ UNCHANGED <<user, rows, registry, request, acked, lost, crashes>>

\* A missing user gets another uaid; a newer connection wins.
GetUser(s) ==
  /\ At(s, "get_user")
  /\ Becomes(s, IF user.exists /\ user.connected_at <= session[s].connected_at
                THEN [session[s] EXCEPT !.phase = "update_user", !.version = user.version]
                ELSE [session[s] EXCEPT !.phase = "done"])
  /\ UNCHANGED <<user, rows, registry, request, opened, acked, lost, crashes>>

\* The record is updated only if its version is the one that was read.
UpdateUser(s) ==
  /\ At(s, "update_user")
  /\ IF user.exists /\ user.version = session[s].version
     THEN /\ user' = [user EXCEPT !.node_id = session[s].node,
                                  !.connected_at = session[s].connected_at,
                                  !.version = @ + 1]
          /\ Goes(s, "check")
     ELSE UNCHANGED user /\ Goes(s, "done")
  /\ UNCHANGED <<rows, registry, request, opened, acked, lost, crashes>>

\* WebPushClient::new reads storage ...
InitialCheck(s) ==
  /\ At(s, "check")
  /\ Becomes(s, [session[s] EXCEPT !.phase = "connect", !.unacked_stored = rows])
  /\ UNCHANGED <<user, rows, registry, request, opened, acked, lost, crashes>>

\* ... and only then is the client registered; an older session of the user on
\* the same node is told to disconnect (Ghost).
RegistryConnect(s) ==
  LET n == session[s].node
      old == registry[n]
  IN  /\ At(s, "connect")
      /\ registry' = [registry EXCEPT ![n] = s]
      /\ session' = [t \in Sessions |->
           IF t = s THEN [session[s] EXCEPT !.phase = "live"]
           ELSE IF t = old THEN [session[t] EXCEPT !.snotif_stream = Append(@, Disconnect)]
           ELSE session[t]]
      /\ UNCHANGED <<user, rows, request, opened, acked, lost, crashes>>

-----------------------------------------------------------------------------
(* A live session. *)

\* The next notification of the stream.  A direct one is remembered until it
\* is acked unless its TTL is 0; CheckStorage sends what is stored.
OnServerNotif(s) ==
  LET S == [session[s] EXCEPT !.snotif_stream = Tail(@)]
      snotif == Head(session[s].snotif_stream)
  IN  /\ At(s, "live")
      /\ session[s].snotif_stream # <<>>
      /\ Becomes(s, CASE snotif = CheckStorage -> [S EXCEPT !.unacked_stored = @ \cup rows]
                      [] snotif = Disconnect -> [S EXCEPT !.phase = "closing"]
                      [] OTHER -> [S EXCEPT !.unacked_direct =
                                              @ \cup ({snotif.message} \ ZeroTTL)])
      /\ UNCHANGED <<user, rows, registry, request, opened, acked, lost, crashes>>

AckDirect(s, m) ==
  /\ At(s, "live")
  /\ m \in session[s].unacked_direct
  /\ acked' = acked \cup {m}
  /\ Becomes(s, [session[s] EXCEPT !.unacked_direct = @ \ {m}])
  /\ UNCHANGED <<user, rows, registry, request, opened, lost, crashes>>

AckStored(s, m) ==
  /\ At(s, "live")
  /\ m \in session[s].unacked_stored \ session[s].unacked_direct
  /\ acked' = acked \cup {m}
  /\ rows' = rows \ {m}
  /\ Becomes(s, [session[s] EXCEPT !.unacked_stored = @ \ {m}])
  /\ UNCHANGED <<user, registry, request, opened, lost, crashes>>

\* The socket closes or fails, a pong is late, a handler returns an error; a
\* connection may also end before it was registered.
Close(s) ==
  /\ session[s].phase \in {"get_user", "update_user", "check", "connect", "live"}
  /\ Goes(s, IF At(s, "live") THEN "closing" ELSE "done")
  /\ UNCHANGED <<user, rows, registry, request, opened, acked, lost, crashes>>

\* The session resets the uaid: remove_user and UaidReset.
ResetUaid(s) ==
  /\ At(s, "live")
  /\ user' = [user EXCEPT !.exists = FALSE, !.node_id = NoNode]
  /\ Goes(s, "closing")
  /\ UNCHANGED <<rows, registry, request, opened, acked, lost, crashes>>

-----------------------------------------------------------------------------
(* The end of a session. *)

\* Mutant: the registry entry is removed whoever it belongs to.
DisconnectAny(s) ==
  /\ At(s, "closing")
  /\ registry' = [registry EXCEPT ![session[s].node] = NoSession]
  /\ Goes(s, "drain")
  /\ UNCHANGED <<user, rows, request, opened, acked, lost, crashes>>

\* Mutant: the session leaves without telling the registry.
DisconnectNever(s) ==
  /\ At(s, "closing")
  /\ Goes(s, "drain")
  /\ UNCHANGED <<user, rows, registry, request, opened, acked, lost, crashes>>

\* Out of the registry, unless a newer session took the place.
RegistryDisconnect(s) ==
  /\ At(s, "closing")
  /\ registry' = [registry EXCEPT ![session[s].node] = IF @ = s THEN NoSession ELSE @]
  /\ Goes(s, "drain")
  /\ UNCHANGED <<user, rows, request, opened, acked, lost, crashes>>

\* Mutant: what is still in the stream is dropped with it.
DrainNothing(s) ==
  /\ At(s, "drain")
  /\ Becomes(s, [session[s] EXCEPT !.snotif_stream = <<>>, !.unacked_stored = {},
                   !.phase = IF session[s].unacked_direct = {} THEN "done" ELSE "save"])
  /\ UNCHANGED <<user, rows, registry, request, opened, acked, lost, crashes>>

\* Mutant: everything in the stream is saved, whatever its kind.
DrainEverything(s) ==
  LET q == session[s].snotif_stream
      direct == session[s].unacked_direct \cup {q[i] : i \in DOMAIN q}
  IN  /\ At(s, "drain")
      /\ Becomes(s, [session[s] EXCEPT !.snotif_stream = <<>>, !.unacked_stored = {},
                       !.unacked_direct = direct,
                       !.phase = IF direct = {} THEN "done" ELSE "save"])
      /\ UNCHANGED <<user, rows, registry, request, opened, acked, lost, crashes>>

\* Mutant: the stored notifications the session has sent are saved again.
DrainStoredToo(s) ==
  LET direct == InMemory(session[s]) \cup session[s].unacked_stored
  IN  /\ At(s, "drain")
      /\ Becomes(s, [session[s] EXCEPT !.snotif_stream = <<>>, !.unacked_stored = {},
                       !.unacked_direct = direct,
                       !.phase = IF direct = {} THEN "done" ELSE "save"])
      /\ UNCHANGED <<user, rows, registry, request, opened, acked, lost, crashes>>

\* The stream is closed and drained: what was queued joins the unacked direct
\* notifications (a TTL of 0 included), which shutdown hands to a task.
Drain(s) ==
  LET direct == InMemory(session[s])
  IN  /\ At(s, "drain")
      /\ Becomes(s, [session[s] EXCEPT !.snotif_stream = <<>>, !.unacked_stored = {},
                       !.unacked_direct = direct,
                       !.phase = IF direct = {} THEN "done" ELSE "save"])
      /\ UNCHANGED <<user, rows, registry, request, opened, acked, lost, crashes>>

SaveMessage(s, m) ==
  LET rest == session[s].unacked_direct \ {m}
  IN  /\ At(s, "save")
      /\ m \in session[s].unacked_direct
      /\ rows' = rows \cup {m}
      /\ Becomes(s, [session[s] EXCEPT !.unacked_direct = rest,
                       !.phase = IF rest = {} THEN "saved" ELSE "save"])
      /\ UNCHANGED <<user, registry, request, opened, acked, lost, crashes>>

\* A failed save ends the task: the notifications not yet saved are lost.
SaveFails(s) ==
  /\ Failures
  /\ At(s, "save")
  /\ lost' = lost \cup session[s].unacked_direct
  /\ Becomes(s, [session[s] EXCEPT !.unacked_direct = {}, !.phase = "done"])
  /\ UNCHANGED <<user, rows, registry, request, opened, acked, crashes>>

\* Has the user reconnected meanwhile?  Then its node must check storage.
CheckReconnect(s) ==
  /\ At(s, "saved")
  /\ Becomes(s, IF /\ user.exists
                   /\ user.connected_at # session[s].connected_at
                   /\ user.node_id # NoNode
                THEN [session[s] EXCEPT !.phase = "notify", !.target = user.node_id]
                ELSE [session[s] EXCEPT !.phase = "done"])
  /\ UNCHANGED <<user, rows, registry, request, opened, acked, lost, crashes>>

\* PUT /notif of the task; its answer is ignored, and it may not arrive.
NotifyReconnected(s) ==
  LET n == session[s].target
  IN  /\ At(s, "notify")
      /\ \/ /\ Registered(n)
            /\ session' = [session EXCEPT
                             ![s].phase = "done",
                             ![registry[n]].snotif_stream = Append(@, CheckStorage)]
         \/ /\ Failures \/ ~Registered(n)
            /\ Goes(s, "done")
      /\ UNCHANGED <<user, rows, registry, request, opened, acked, lost, crashes>>

\* A node dies with everything its sessions hold in memory.
Crash(n) ==
  LET dead == {s \in Sessions : session[s].node = n /\ ~At(s, "done")}
  IN  /\ crashes < MaxCrashes
      /\ crashes' = crashes + 1
      /\ registry' = [registry EXCEPT ![n] = NoSession]
      /\ lost' = lost \cup UNION {InMemory(session[s]) : s \in dead}
      /\ session' = [s \in Sessions |->
           IF s \in dead
           THEN [session[s] EXCEPT !.phase = "done", !.snotif_stream = <<>>,
                                   !.unacked_direct = {}, !.unacked_stored = {}]
           ELSE session[s]]
      /\ UNCHANGED <<user, rows, request, opened, acked>>

-----------------------------------------------------------------------------
(* WebPushRouter::route_notification, one step per call it awaits. *)

\* The request extractors look the user up; without one it is refused.
Post(m) ==
  /\ RequestAt(m, "new")
  /\ user.exists
  /\ request' = [request EXCEPT ![m] =
       [phase |-> IF user.node_id # NoNode THEN "send"
                  ELSE IF m \in ZeroTTL THEN "dropped" ELSE "store",
        node_id |-> user.node_id, connected_at |-> user.connected_at,
        version |-> user.version]]
  /\ UNCHANGED <<user, rows, registry, session, opened, acked, lost, crashes>>

\* Not delivered to the node: store it, or drop it if its TTL is 0.
Undelivered(m) == RequestGoes(m, IF m \in ZeroTTL THEN "dropped" ELSE "store")

\* PUT /push to the node: accepted, refused (404), or an error, in which case
\* the node may or may not have accepted it.
SendAccepted(m) ==
  /\ RequestAt(m, "send")
  /\ Registered(request[m].node_id)
  /\ Push(request[m].node_id, Notification(m))
  /\ \/ RequestGoes(m, "delivered")
     \/ Failures /\ RequestGoes(m, "gone")
  /\ UNCHANGED <<user, rows, registry, opened, acked, lost, crashes>>

SendRefused(m) ==
  /\ RequestAt(m, "send")
  /\ ~Registered(request[m].node_id)
  /\ Undelivered(m)
  /\ UNCHANGED <<user, rows, registry, session, opened, acked, lost, crashes>>

SendFails(m) ==
  /\ Failures
  /\ RequestAt(m, "send")
  /\ RequestGoes(m, "gone")
  /\ UNCHANGED <<user, rows, registry, session, opened, acked, lost, crashes>>

\* Mutant: remove_node_id without a condition.
ClearAnyNodeId(m) == user' = [user EXCEPT !.node_id = NoNode]

\* remove_node_id, on the condition that the record is the one that was read.
ClearNodeId(m) ==
  user' = IF user.exists /\ user.version = request[m].version
          THEN [user EXCEPT !.node_id = NoNode]
          ELSE user

RemoveNodeId(m) ==
  /\ \/ RequestAt(m, "gone") /\ Undelivered(m)
     \/ RequestAt(m, "unreachable") /\ RequestGoes(m, "stored")
  /\ ClearNodeId(m)
  /\ UNCHANGED <<rows, registry, session, opened, acked, lost, crashes>>

\* The database fails where the router does not tolerate it.
RequestFails(m) ==
  /\ Failures
  /\ request[m].phase \in {"gone", "store", "unreachable"}
  /\ RequestGoes(m, "failed")
  /\ UNCHANGED <<user, rows, registry, session, opened, acked, lost, crashes>>

Store(m) ==
  /\ RequestAt(m, "store")
  /\ rows' = rows \cup {m}
  /\ RequestGoes(m, "refetch")
  /\ UNCHANGED <<user, registry, session, opened, acked, lost, crashes>>

\* The user may have reconnected: read the record again.  If that fails, the
\* message is stored all the same.
Refetch(m) ==
  /\ RequestAt(m, "refetch")
  /\ \/ /\ user.exists /\ user.node_id # NoNode
        /\ request' = [request EXCEPT ![m] =
             [phase |-> "trigger", node_id |-> user.node_id,
              connected_at |-> user.connected_at, version |-> user.version]]
     \/ user.exists /\ user.node_id = NoNode /\ RequestGoes(m, "stored")
     \/ ~user.exists /\ RequestGoes(m, "failed")
     \/ Failures /\ RequestGoes(m, "stored")
  /\ UNCHANGED <<user, rows, registry, session, opened, acked, lost, crashes>>

\* PUT /notif to the node the record names.
TriggerAccepted(m) ==
  /\ RequestAt(m, "trigger")
  /\ Registered(request[m].node_id)
  /\ Push(request[m].node_id, CheckStorage)
  /\ \/ RequestGoes(m, "delivered")
     \/ Failures /\ RequestGoes(m, "unreachable")
  /\ UNCHANGED <<user, rows, registry, opened, acked, lost, crashes>>

TriggerRefused(m) ==
  /\ RequestAt(m, "trigger")
  /\ ~Registered(request[m].node_id)
  /\ RequestGoes(m, "stored")
  /\ UNCHANGED <<user, rows, registry, session, opened, acked, lost, crashes>>

TriggerFails(m) ==
  /\ Failures
  /\ RequestAt(m, "trigger")
  /\ RequestGoes(m, "unreachable")
  /\ UNCHANGED <<user, rows, registry, session, opened, acked, lost, crashes>>

-----------------------------------------------------------------------------
\* What the server does on its own for a session that ended.
Cleanup(s) ==
  \/ RegistryDisconnect(s) \/ Drain(s) \/ CheckReconnect(s) \/ NotifyReconnected(s)
  \/ \E m \in Messages : SaveMessage(s, m)

Connect(s) ==
  \/ \E n \in Nodes : Open(s, n)
  \/ GetUser(s) \/ UpdateUser(s) \/ InitialCheck(s) \/ RegistryConnect(s)

Serve(s) ==
  \/ OnServerNotif(s) \/ Close(s) \/ ResetUaid(s)
  \/ \E m \in Messages : AckDirect(s, m) \/ AckStored(s, m)

Route(m) ==
  \/ Post(m) \/ SendAccepted(m) \/ SendRefused(m) \/ SendFails(m)
  \/ RemoveNodeId(m) \/ RequestFails(m) \/ Store(m) \/ Refetch(m)
  \/ TriggerAccepted(m) \/ TriggerRefused(m) \/ TriggerFails(m)

Next ==
  \/ \E s \in Sessions : Connect(s) \/ Serve(s) \/ Cleanup(s) \/ SaveFails(s)
  \/ \E m \in Messages : Route(m)
  \/ \E n \in Nodes : Crash(n)

Spec == Init /\ [][Next]_vars

\* A session that ended is cleaned up by its own task.
FairSpec == Spec /\ \A s \in Sessions : WF_vars(Cleanup(s))

-----------------------------------------------------------------------------
(* Properties. *)

Answered(m) == request[m].phase \in {"delivered", "stored"}

(***************************************************************************)
(* No accepted notification is lost: after 201 Created, one with a TTL is  *)
(* acked, in storage, or in the memory of a session that will store it     *)
(* when it ends - unless a node crashed or a save failed while holding it. *)
(***************************************************************************)
AcceptedNotLost ==
  \A m \in Messages \ ZeroTTL : Answered(m) =>
    \/ m \in acked \cup lost \cup rows
    \/ \E s \in Sessions : ~At(s, "done") /\ m \in InMemory(session[s])

(***************************************************************************)
(* A session that is live and was not told to disconnect is the one the    *)
(* registry of its node names, although ended sessions of the same user    *)
(* leave the registry at any time.                                         *)
(***************************************************************************)
LiveIsRegistered ==
  \A s \in Sessions :
    At(s, "live") => \/ registry[session[s].node] = s
                     \/ Holds(session[s].snotif_stream, Disconnect)

(***************************************************************************)
(* The registry never holds a session that no longer reads its stream.     *)
(***************************************************************************)
RegisteredListens ==
  \A n \in Nodes : Registered(n) =>
    /\ session[registry[n]].phase \in {"live", "closing"}
    /\ session[registry[n]].node = n

(***************************************************************************)
(* remove_node_id clears the node of the connection the router had looked  *)
(* up and never that of a later one, although time passed and the user may *)
(* have reconnected between the two calls.                                 *)
(***************************************************************************)
OnlyStaleNodeCleared ==
  [][user.node_id # NoNode /\ user'.exists /\ user'.node_id = NoNode =>
       \E m \in Messages : request[m].phase # request'[m].phase
                           /\ request[m].connected_at = user.connected_at]_vars

(***************************************************************************)
(* Nodes check storage for missed notifications: a stored message is known *)
(* to the registered session of the node the record names, or somebody is  *)
(* still going to tell that session to look.                               *)
(***************************************************************************)
WillCheck(m) ==
  \/ request[m].phase \in {"refetch", "trigger"}
  \/ \E s \in Sessions : session[s].phase \in {"save", "saved", "notify"}
NoMissedStored ==
  user.exists /\ user.node_id # NoNode /\ Registered(user.node_id) =>
    LET S == session[registry[user.node_id]]
    IN  \A m \in rows : S.phase = "live" =>
          \/ m \in S.unacked_stored
          \/ Holds(S.snotif_stream, CheckStorage) \/ Holds(S.snotif_stream, Disconnect)
          \/ WillCheck(m)

(***************************************************************************)
(* What a session holds in memory when it ends reaches storage (or is      *)
(* acked elsewhere, or lost with a crash or a failed save).                *)
(***************************************************************************)
EndedIsSaved ==
  \A s \in Sessions, m \in Messages :
    (At(s, "closing") /\ m \in InMemory(session[s])) ~> (m \in rows \cup acked \cup lost)
=============================================================================
