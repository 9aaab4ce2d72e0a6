--------------------------- MODULE DeliveryProofs ----------------------------
(***************************************************************************)
(* Proofs about module Delivery: the invariants hold for any number of     *)
(* messages, sessions, nodes and crashes, and every step of the router,    *)
(* the sessions and their saving tasks is a step of the mailbox of module  *)
(* Mailbox or changes nothing of it.                                       *)
(***************************************************************************)
EXTENDS DeliveryMailbox, TLAPS

(***************************************************************************)
(* The inductive invariant.  What a session holds in memory belongs to a   *)
(* phase that still has to empty it, so a session that is done holds       *)
(* nothing; a message the router stored or had accepted is safe while the  *)
(* router is still busy with it; a node the router or a saving task is     *)
(* about to call is a node; and a request that saw the current version of  *)
(* the user record saw its current connection.                             *)
(***************************************************************************)
WellFormed(S) ==
  /\ S.phase # "new" => S.node \in Nodes
  /\ S.phase \notin {"live", "closing", "drain"} => S.snotif_stream = <<>>
  /\ S.phase \notin {"live", "closing", "drain", "save"} => S.unacked_direct = {}
  /\ S.phase = "notify" => S.target \in Nodes
SessionsWellFormed == \A s \in Sessions : WellFormed(session[s])

Safe(m) ==
  m \in acked \cup lost \cup rows \/ \E s \in Sessions : m \in InMemory(session[s])
TakenPhases == {"refetch", "trigger", "unreachable", "stored", "delivered"}
Taken(m) == request[m].phase \in TakenPhases
TakenIsSafe == \A m \in Messages \ ZeroTTL : Taken(m) => Safe(m)

RequestsWellFormed ==
  \A m \in Messages : request[m].phase \in {"send", "trigger"} => request[m].node_id \in Nodes

VersionTellsConnection ==
  \A m \in Messages : request[m].phase # "new" =>
    /\ request[m].version <= user.version
    /\ request[m].version = user.version => request[m].connected_at = user.connected_at

IInv == /\ TypeOK
        /\ RegisteredListens
        /\ LiveIsRegistered
        /\ SessionsWellFormed
        /\ TakenIsSafe
        /\ RequestsWellFormed
        /\ VersionTellsConnection

USE DEF TakenPhases

-----------------------------------------------------------------------------
(* Streams. *)

\* Appending adds exactly the appended element.
LEMMA AppendHolds ==
  ASSUME NEW S, NEW q \in Seq(S), NEW x \in S, NEW y
  PROVE  Holds(Append(q, x), y) <=> Holds(q, y) \/ y = x
<1>1. /\ Append(q, x) \in Seq(S)
      /\ Len(Append(q, x)) = Len(q) + 1
      /\ Append(q, x)[Len(q) + 1] = x
      /\ \A i \in 1..Len(q) : Append(q, x)[i] = q[i]
  OBVIOUS
<1>2. DOMAIN q = 1..Len(q) /\ DOMAIN Append(q, x) = 1..(Len(q) + 1) /\ Len(q) \in Nat
  BY <1>1
<1>3. ASSUME Holds(Append(q, x), y) PROVE Holds(q, y) \/ y = x
  BY <1>1, <1>2, <1>3 DEF Holds
<1>4. ASSUME Holds(q, y) \/ y = x PROVE Holds(Append(q, x), y)
  <2>1. CASE Holds(q, y)
    BY <1>1, <1>2, <2>1 DEF Holds
  <2>2. CASE y = x
    BY <1>1, <1>2, <2>2 DEF Holds
  <2> QED BY <1>4, <2>1, <2>2
<1> QED BY <1>3, <1>4

\* Taking the head off removes at most the head.
LEMMA TailHolds ==
  ASSUME NEW S, NEW q \in Seq(S), q # <<>>, NEW y
  PROVE  /\ Holds(q, y) => y = Head(q) \/ Holds(Tail(q), y)
         /\ Tail(q) \in Seq(S)
         /\ Head(q) \in S
<1>1. /\ Tail(q) \in Seq(S) /\ Head(q) \in S /\ Head(q) = q[1]
      /\ Len(q) \in Nat /\ Len(q) > 0 /\ Len(Tail(q)) = Len(q) - 1
      /\ \A i \in 1..(Len(q) - 1) : Tail(q)[i] = q[i + 1]
  OBVIOUS
<1>2. DOMAIN q = 1..Len(q) /\ DOMAIN Tail(q) = 1..(Len(q) - 1)
  BY <1>1
<1>3. ASSUME Holds(q, y), y # q[1] PROVE Holds(Tail(q), y)
  <2>1. PICK i \in 1..Len(q) : q[i] = y
    BY <1>2, <1>3 DEF Holds
  <2>2. i # 1 /\ i - 1 \in 1..(Len(q) - 1) /\ Tail(q)[i - 1] = q[i]
    BY <1>1, <1>3, <2>1
  <2> QED BY <1>2, <2>1, <2>2 DEF Holds
<1> QED BY <1>1, <1>3

\* The kinds of server notifications differ, and each Notification carries its
\* message.
LEMMA NotificationKinds ==
  /\ CheckStorage \in ServerNotifications /\ Disconnect \in ServerNotifications
  /\ CheckStorage # Disconnect
  /\ \A m \in Messages : /\ Notification(m) \in ServerNotifications
                          /\ Notification(m) # CheckStorage
                          /\ Notification(m) # Disconnect
                          /\ Notification(m).message = m
  /\ \A x \in ServerNotifications \ {CheckStorage, Disconnect} :
       \E m \in Messages : x = Notification(m)
<1>1. CheckStorage.type = "CheckStorage" /\ Disconnect.type = "Disconnect"
  BY DEF CheckStorage, Disconnect
<1>2. \A m \in Messages : Notification(m).type = "Notification" /\ Notification(m).message = m
  BY DEF Notification
<1> QED BY <1>1, <1>2 DEF ServerNotifications

-----------------------------------------------------------------------------
(* Steps that change one session and leave the registry and the requests.  *)

\* What such a step must keep for the invariant to survive it.
KeepsRegistered(old, new) ==
  /\ new.phase = "live" =>
       old.phase = "live" /\ (Holds(old.snotif_stream, Disconnect)
                                 => Holds(new.snotif_stream, Disconnect))
  /\ old.phase \in {"live", "closing"} => new.phase \in {"live", "closing"}
  /\ old.phase \in {"live", "closing"} => new.node = old.node
KeepsSafe(old, new) ==
  /\ acked \cup lost \cup rows \subseteq acked' \cup lost' \cup rows'
  /\ InMemory(old) \ ZeroTTL \subseteq InMemory(new) \cup acked' \cup lost' \cup rows'

LEMMA BecomesIs ==
  ASSUME session \in [Sessions -> SessionType],
         NEW s \in Sessions, NEW S \in SessionType, Becomes(s, S)
  PROVE  /\ session' \in [Sessions -> SessionType]
         /\ session'[s] = S
         /\ \A t \in Sessions \ {s} : session'[t] = session[t]
BY DEF Becomes

LEMMA SessionStep ==
  ASSUME IInv, NEW s \in Sessions, NEW S \in SessionType, Becomes(s, S),
         WellFormed(S), KeepsRegistered(session[s], S), KeepsSafe(session[s], S),
         UNCHANGED <<registry, request>>
  PROVE  /\ session' \in [Sessions -> SessionType]
         /\ RegisteredListens'
         /\ LiveIsRegistered'
         /\ SessionsWellFormed'
         /\ TakenIsSafe'
         /\ RequestsWellFormed'
<1>1. /\ session' \in [Sessions -> SessionType]
      /\ session'[s] = S
      /\ \A t \in Sessions \ {s} : session'[t] = session[t]
  BY BecomesIs DEF IInv, TypeOK
<1>2. registry \in [Nodes -> Sessions \cup {NoSession}]
  BY DEF IInv, TypeOK
<1>3. RegisteredListens'
  BY <1>1, <1>2 DEF IInv, RegisteredListens, Registered, KeepsRegistered
<1>4. LiveIsRegistered'
  BY <1>1, <1>2 DEF IInv, LiveIsRegistered, At, KeepsRegistered
<1>5. SessionsWellFormed'
  BY <1>1 DEF IInv, SessionsWellFormed
<1>6. \A m \in Messages \ ZeroTTL : Safe(m) => Safe(m)'
  <2> TAKE m \in Messages \ ZeroTTL
  <2> HAVE Safe(m)
  <2>1. CASE m \in acked \cup lost \cup rows
    BY <2>1 DEF Safe, KeepsSafe
  <2>2. CASE \E t \in Sessions : m \in InMemory(session[t])
    <3>1. PICK t \in Sessions : m \in InMemory(session[t])
      BY <2>2
    <3>2. CASE t = s
      BY <1>1, <3>1, <3>2 DEF Safe, KeepsSafe
    <3>3. CASE t # s
      <4>1. session'[t] = session[t]
        BY <1>1, <3>3
      <4>2. m \in InMemory(session'[t])
        BY <3>1, <4>1
      <4> QED BY <4>2 DEF Safe
    <3> QED BY <3>2, <3>3
  <2> QED BY <2>1, <2>2 DEF Safe
<1>7. TakenIsSafe'
  BY <1>6 DEF IInv, TakenIsSafe, Taken
<1>8. RequestsWellFormed'
  BY DEF IInv, RequestsWellFormed
<1> QED BY <1>1, <1>3, <1>4, <1>5, <1>7, <1>8

-----------------------------------------------------------------------------
(* The steps of a session. *)

\* The conjuncts of IInv about the user record survive a step that leaves the
\* record and the requests alone.
LEMMA VersionStep ==
  ASSUME VersionTellsConnection, UNCHANGED <<user, request>>
  PROVE  VersionTellsConnection'
BY DEF VersionTellsConnection

LEMMA OpenStep ==
  ASSUME IInv, NEW s \in Sessions, NEW n \in Nodes, Open(s, n)
  PROVE  IInv'
<1> DEFINE S == [session[s] EXCEPT !.phase = "get_user", !.node = n,
                                   !.connected_at = opened + 1]
<1>1. session[s] \in SessionType /\ opened \in Nat /\ opened + 1 \in Nat
  BY DEF IInv, TypeOK
<1>2. S \in SessionType
  BY <1>1 DEF SessionType, SessionPhases
<1>3. WellFormed(session[s])
  BY DEF IInv, SessionsWellFormed
<1>4. WellFormed(S)
  BY <1>1, <1>3 DEF WellFormed, Open, At, SessionType
<1>5. KeepsRegistered(session[s], S)
  BY <1>1 DEF KeepsRegistered, Open, At, SessionType
<1>6. KeepsSafe(session[s], S)
  BY <1>1 DEF KeepsSafe, Open, InMemory, Queued, SessionType
<1>7. Becomes(s, S) /\ UNCHANGED <<registry, request>>
  BY DEF Open
<1> HIDE DEF S
<1>8. /\ session' \in [Sessions -> SessionType] /\ RegisteredListens' /\ LiveIsRegistered'
      /\ SessionsWellFormed' /\ TakenIsSafe' /\ RequestsWellFormed'
  BY <1>2, <1>4, <1>5, <1>6, <1>7, SessionStep
<1>9. TypeOK'
  BY <1>1, <1>8 DEF IInv, TypeOK, Open
<1>10. VersionTellsConnection'
  BY VersionStep DEF IInv, Open
<1> QED BY <1>8, <1>9, <1>10 DEF IInv

LEMMA GetUserStep ==
  ASSUME IInv, NEW s \in Sessions, GetUser(s)
  PROVE  IInv'
<1> DEFINE S == IF user.exists /\ user.connected_at <= session[s].connected_at
                THEN [session[s] EXCEPT !.phase = "update_user", !.version = user.version]
                ELSE [session[s] EXCEPT !.phase = "done"]
<1>1. session[s] \in SessionType /\ user \in UserType
  BY DEF IInv, TypeOK
<1>2. S \in SessionType
  BY <1>1 DEF SessionType, SessionPhases, UserType
<1>3. WellFormed(session[s])
  BY DEF IInv, SessionsWellFormed
<1>4. WellFormed(S)
  BY <1>1, <1>3 DEF WellFormed, GetUser, At, SessionType
<1>5. KeepsRegistered(session[s], S)
  BY <1>1 DEF KeepsRegistered, GetUser, At, SessionType
<1>6. KeepsSafe(session[s], S)
  BY <1>1 DEF KeepsSafe, GetUser, InMemory, Queued, SessionType
<1>7. Becomes(s, S) /\ UNCHANGED <<registry, request>>
  BY DEF GetUser
<1> HIDE DEF S
<1>8. /\ session' \in [Sessions -> SessionType] /\ RegisteredListens' /\ LiveIsRegistered'
      /\ SessionsWellFormed' /\ TakenIsSafe' /\ RequestsWellFormed'
  BY <1>2, <1>4, <1>5, <1>6, <1>7, SessionStep
<1>9. TypeOK'
  BY <1>1, <1>8 DEF IInv, TypeOK, GetUser
<1>10. VersionTellsConnection'
  BY VersionStep DEF IInv, GetUser
<1> QED BY <1>8, <1>9, <1>10 DEF IInv

LEMMA InitialCheckStep ==
  ASSUME IInv, NEW s \in Sessions, InitialCheck(s)
  PROVE  IInv'
<1> DEFINE S == [session[s] EXCEPT !.phase = "connect", !.unacked_stored = rows]
<1>1. session[s] \in SessionType /\ rows \subseteq Messages
  BY DEF IInv, TypeOK
<1>2. S \in SessionType
  BY <1>1 DEF SessionType, SessionPhases
<1>3. WellFormed(session[s])
  BY DEF IInv, SessionsWellFormed
<1>4. WellFormed(S)
  BY <1>1, <1>3 DEF WellFormed, InitialCheck, At, SessionType
<1>5. KeepsRegistered(session[s], S)
  BY <1>1 DEF KeepsRegistered, InitialCheck, At, SessionType
<1>6. KeepsSafe(session[s], S)
  BY <1>1 DEF KeepsSafe, InitialCheck, InMemory, Queued, SessionType
<1>7. Becomes(s, S) /\ UNCHANGED <<registry, request>>
  BY DEF InitialCheck
<1> HIDE DEF S
<1>8. /\ session' \in [Sessions -> SessionType] /\ RegisteredListens' /\ LiveIsRegistered'
      /\ SessionsWellFormed' /\ TakenIsSafe' /\ RequestsWellFormed'
  BY <1>2, <1>4, <1>5, <1>6, <1>7, SessionStep
<1>9. TypeOK'
  BY <1>1, <1>8 DEF IInv, TypeOK, InitialCheck
<1>10. VersionTellsConnection'
  BY VersionStep DEF IInv, InitialCheck
<1> QED BY <1>8, <1>9, <1>10 DEF IInv

LEMMA AckDirectStep ==
  ASSUME IInv, NEW s \in Sessions, NEW m \in Messages, AckDirect(s, m)
  PROVE  IInv'
<1> DEFINE S == [session[s] EXCEPT !.unacked_direct = @ \ {m}]
<1>1. session[s] \in SessionType
  BY DEF IInv, TypeOK
<1>2. S \in SessionType
  BY <1>1 DEF SessionType, SessionPhases
<1>3. WellFormed(session[s])
  BY DEF IInv, SessionsWellFormed
<1>4. WellFormed(S)
  BY <1>1, <1>3 DEF WellFormed, AckDirect, At, SessionType
<1>5. KeepsRegistered(session[s], S)
  BY <1>1 DEF KeepsRegistered, AckDirect, At, SessionType
<1>6. KeepsSafe(session[s], S)
  BY <1>1 DEF KeepsSafe, AckDirect, InMemory, Queued, SessionType
<1>7. Becomes(s, S) /\ UNCHANGED <<registry, request>>
  BY DEF AckDirect
<1> HIDE DEF S
<1>8. /\ session' \in [Sessions -> SessionType] /\ RegisteredListens' /\ LiveIsRegistered'
      /\ SessionsWellFormed' /\ TakenIsSafe' /\ RequestsWellFormed'
  BY <1>2, <1>4, <1>5, <1>6, <1>7, SessionStep
<1>9. TypeOK'
  BY <1>1, <1>8 DEF IInv, TypeOK, AckDirect
<1>10. VersionTellsConnection'
  BY VersionStep DEF IInv, AckDirect
<1> QED BY <1>8, <1>9, <1>10 DEF IInv

LEMMA AckStoredStep ==
  ASSUME IInv, NEW s \in Sessions, NEW m \in Messages, AckStored(s, m)
  PROVE  IInv'
<1> DEFINE S == [session[s] EXCEPT !.unacked_stored = @ \ {m}]
<1>1. session[s] \in SessionType
  BY DEF IInv, TypeOK
<1>2. S \in SessionType
  BY <1>1 DEF SessionType, SessionPhases
<1>3. WellFormed(session[s])
  BY DEF IInv, SessionsWellFormed
<1>4. WellFormed(S)
  BY <1>1, <1>3 DEF WellFormed, AckStored, At, SessionType
<1>5. KeepsRegistered(session[s], S)
  BY <1>1 DEF KeepsRegistered, AckStored, At, SessionType
<1>6. KeepsSafe(session[s], S)
  BY <1>1 DEF KeepsSafe, AckStored, InMemory, Queued, SessionType
<1>7. Becomes(s, S) /\ UNCHANGED <<registry, request>>
  BY DEF AckStored
<1> HIDE DEF S
<1>8. /\ session' \in [Sessions -> SessionType] /\ RegisteredListens' /\ LiveIsRegistered'
      /\ SessionsWellFormed' /\ TakenIsSafe' /\ RequestsWellFormed'
  BY <1>2, <1>4, <1>5, <1>6, <1>7, SessionStep
<1>9. TypeOK'
  BY <1>1, <1>8 DEF IInv, TypeOK, AckStored
<1>10. VersionTellsConnection'
  BY VersionStep DEF IInv, AckStored
<1> QED BY <1>8, <1>9, <1>10 DEF IInv

LEMMA CloseStep ==
  ASSUME IInv, NEW s \in Sessions, Close(s)
  PROVE  IInv'
<1> DEFINE S == [session[s] EXCEPT !.phase = IF At(s, "live") THEN "closing" ELSE "done"]
<1>1. session[s] \in SessionType
  BY DEF IInv, TypeOK
<1>2. S \in SessionType
  BY <1>1 DEF SessionType, SessionPhases, At
<1>3. WellFormed(session[s])
  BY DEF IInv, SessionsWellFormed
<1>4. WellFormed(S)
  BY <1>1, <1>3 DEF WellFormed, Close, At, SessionType
<1>5. KeepsRegistered(session[s], S)
  BY <1>1 DEF KeepsRegistered, Close, At, SessionType
<1>6. KeepsSafe(session[s], S)
  BY <1>1 DEF KeepsSafe, Close, InMemory, Queued, SessionType
<1>7. Becomes(s, S) /\ UNCHANGED <<registry, request>>
  BY DEF Close, Goes
<1> HIDE DEF S
<1>8. /\ session' \in [Sessions -> SessionType] /\ RegisteredListens' /\ LiveIsRegistered'
      /\ SessionsWellFormed' /\ TakenIsSafe' /\ RequestsWellFormed'
  BY <1>2, <1>4, <1>5, <1>6, <1>7, SessionStep
<1>9. TypeOK'
  BY <1>1, <1>8 DEF IInv, TypeOK, Close
<1>10. VersionTellsConnection'
  BY VersionStep DEF IInv, Close
<1> QED BY <1>8, <1>9, <1>10 DEF IInv

LEMMA SaveFailsStep ==
  ASSUME IInv, NEW s \in Sessions, SaveFails(s)
  PROVE  IInv'
<1> DEFINE S == [session[s] EXCEPT !.unacked_direct = {}, !.phase = "done"]
<1>1. session[s] \in SessionType
  BY DEF IInv, TypeOK
<1>2. S \in SessionType
  BY <1>1 DEF SessionType, SessionPhases
<1>3. WellFormed(session[s])
  BY DEF IInv, SessionsWellFormed
<1>4. WellFormed(S)
  BY <1>1, <1>3 DEF WellFormed, SaveFails, At, SessionType
<1>5. KeepsRegistered(session[s], S)
  BY <1>1 DEF KeepsRegistered, SaveFails, At, SessionType
<1>6. KeepsSafe(session[s], S)
  BY <1>1 DEF KeepsSafe, SaveFails, InMemory, Queued, SessionType
<1>7. Becomes(s, S) /\ UNCHANGED <<registry, request>>
  BY DEF SaveFails
<1> HIDE DEF S
<1>8. /\ session' \in [Sessions -> SessionType] /\ RegisteredListens' /\ LiveIsRegistered'
      /\ SessionsWellFormed' /\ TakenIsSafe' /\ RequestsWellFormed'
  BY <1>2, <1>4, <1>5, <1>6, <1>7, SessionStep
<1>9. TypeOK'
  BY <1>1, <1>8 DEF IInv, TypeOK, SaveFails, SessionType
<1>10. VersionTellsConnection'
  BY VersionStep DEF IInv, SaveFails
<1> QED BY <1>8, <1>9, <1>10 DEF IInv

LEMMA CheckReconnectStep ==
  ASSUME IInv, NEW s \in Sessions, CheckReconnect(s)
  PROVE  IInv'
<1> DEFINE S == IF /\ user.exists
                   /\ user.connected_at # session[s].connected_at
                   /\ user.node_id # NoNode
                THEN [session[s] EXCEPT !.phase = "notify", !.target = user.node_id]
                ELSE [session[s] EXCEPT !.phase = "done"]
<1>1. session[s] \in SessionType /\ user \in UserType
  BY DEF IInv, TypeOK
<1>2. S \in SessionType
  BY <1>1 DEF SessionType, SessionPhases, UserType
<1>3. WellFormed(session[s])
  BY DEF IInv, SessionsWellFormed
<1>4. WellFormed(S)
  BY <1>1, <1>3 DEF WellFormed, CheckReconnect, At, SessionType, UserType
<1>5. KeepsRegistered(session[s], S)
  BY <1>1 DEF KeepsRegistered, CheckReconnect, At, SessionType
<1>6. KeepsSafe(session[s], S)
  BY <1>1 DEF KeepsSafe, CheckReconnect, InMemory, Queued, SessionType
<1>7. Becomes(s, S) /\ UNCHANGED <<registry, request>>
  BY DEF CheckReconnect
<1> HIDE DEF S
<1>8. /\ session' \in [Sessions -> SessionType] /\ RegisteredListens' /\ LiveIsRegistered'
      /\ SessionsWellFormed' /\ TakenIsSafe' /\ RequestsWellFormed'
  BY <1>2, <1>4, <1>5, <1>6, <1>7, SessionStep
<1>9. TypeOK'
  BY <1>1, <1>8 DEF IInv, TypeOK, CheckReconnect
<1>10. VersionTellsConnection'
  BY VersionStep DEF IInv, CheckReconnect
<1> QED BY <1>8, <1>9, <1>10 DEF IInv

LEMMA DrainStep ==
  ASSUME IInv, NEW s \in Sessions, Drain(s)
  PROVE  IInv'
<1> DEFINE S == [session[s] EXCEPT !.snotif_stream = <<>>, !.unacked_stored = {},
                       !.unacked_direct = InMemory(session[s]),
                       !.phase = IF InMemory(session[s]) = {} THEN "done" ELSE "save"]
<1>1. session[s] \in SessionType
  BY DEF IInv, TypeOK
<1>2. S \in SessionType
  <2>1. InMemory(session[s]) \subseteq Messages
    BY <1>1 DEF InMemory, Queued, SessionType
  <2>2. <<>> \in Seq(ServerNotifications)
    OBVIOUS
  <2>3. CASE InMemory(session[s]) = {}
    BY <1>1, <2>1, <2>2, <2>3 DEF SessionType, SessionPhases
  <2>4. CASE InMemory(session[s]) # {}
    BY <1>1, <2>1, <2>2, <2>4 DEF SessionType, SessionPhases
  <2> QED BY <2>3, <2>4
<1>3. WellFormed(session[s])
  BY DEF IInv, SessionsWellFormed
<1>4. WellFormed(S)
  BY <1>1, <1>3 DEF WellFormed, Drain, At, SessionType
<1>5. KeepsRegistered(session[s], S)
  BY <1>1 DEF KeepsRegistered, Drain, At, SessionType
<1>6. KeepsSafe(session[s], S)
  BY <1>1 DEF KeepsSafe, Drain, InMemory, Queued, SessionType
<1>7. Becomes(s, S) /\ UNCHANGED <<registry, request>>
  BY DEF Drain
<1> HIDE DEF S
<1>8. /\ session' \in [Sessions -> SessionType] /\ RegisteredListens' /\ LiveIsRegistered'
      /\ SessionsWellFormed' /\ TakenIsSafe' /\ RequestsWellFormed'
  BY <1>2, <1>4, <1>5, <1>6, <1>7, SessionStep
<1>9. TypeOK'
  BY <1>1, <1>8 DEF IInv, TypeOK, Drain
<1>10. VersionTellsConnection'
  BY VersionStep DEF IInv, Drain
<1> QED BY <1>8, <1>9, <1>10 DEF IInv

LEMMA SaveMessageStep ==
  ASSUME IInv, NEW s \in Sessions, NEW m \in Messages, SaveMessage(s, m)
  PROVE  IInv'
<1> DEFINE S == [session[s] EXCEPT
                  !.unacked_direct = session[s].unacked_direct \ {m},
                  !.phase = IF session[s].unacked_direct \ {m} = {} THEN "saved" ELSE "save"]
<1>1. session[s] \in SessionType
  BY DEF IInv, TypeOK
<1>2. S \in SessionType
  BY <1>1 DEF SessionType, SessionPhases
<1>3. WellFormed(session[s])
  BY DEF IInv, SessionsWellFormed
<1>4. WellFormed(S)
  BY <1>1, <1>3 DEF WellFormed, SaveMessage, At, SessionType
<1>5. KeepsRegistered(session[s], S)
  BY <1>1 DEF KeepsRegistered, SaveMessage, At, SessionType
<1>6. KeepsSafe(session[s], S)
  BY <1>1 DEF KeepsSafe, SaveMessage, InMemory, Queued, SessionType
<1>7. Becomes(s, S) /\ UNCHANGED <<registry, request>>
  BY DEF SaveMessage
<1> HIDE DEF S
<1>8. /\ session' \in [Sessions -> SessionType] /\ RegisteredListens' /\ LiveIsRegistered'
      /\ SessionsWellFormed' /\ TakenIsSafe' /\ RequestsWellFormed'
  BY <1>2, <1>4, <1>5, <1>6, <1>7, SessionStep
<1>9. TypeOK'
  BY <1>1, <1>8 DEF IInv, TypeOK, SaveMessage
<1>10. VersionTellsConnection'
  BY VersionStep DEF IInv, SaveMessage
<1> QED BY <1>8, <1>9, <1>10 DEF IInv

LEMMA OnServerNotifStep ==
  ASSUME IInv, NEW s \in Sessions, OnServerNotif(s)
  PROVE  IInv'
<1> DEFINE q == session[s].snotif_stream
           T == [session[s] EXCEPT !.snotif_stream = Tail(@)]
           S == CASE Head(q) = CheckStorage -> [T EXCEPT !.unacked_stored = @ \cup rows]
                  [] Head(q) = Disconnect -> [T EXCEPT !.phase = "closing"]
                  [] OTHER -> [T EXCEPT !.unacked_direct = @ \cup ({Head(q).message} \ ZeroTTL)]
<1>1. session[s] \in SessionType /\ rows \subseteq Messages
  BY DEF IInv, TypeOK
<1>2. /\ q \in Seq(ServerNotifications) /\ q # <<>>
      /\ At(s, "live") /\ Becomes(s, S) /\ UNCHANGED <<registry, request>>
  BY <1>1 DEF SessionType, OnServerNotif
<1>3. /\ Head(q) \in ServerNotifications /\ Tail(q) \in Seq(ServerNotifications)
      /\ \A x : Holds(q, x) => x = Head(q) \/ Holds(Tail(q), x)
  BY <1>2, TailHolds
<1>4. WellFormed(session[s])
  BY DEF IInv, SessionsWellFormed
<1>5. T \in SessionType /\ T.snotif_stream = Tail(q) /\ T.phase = "live"
      /\ T.node = session[s].node /\ T.unacked_direct = session[s].unacked_direct
  BY <1>1, <1>2, <1>3 DEF SessionType, At
<1> HIDE DEF q, T
<1>6. /\ S \in SessionType /\ WellFormed(S)
      /\ KeepsRegistered(session[s], S) /\ KeepsSafe(session[s], S)
  <2>0. UNCHANGED <<rows, acked, lost>>
    BY DEF OnServerNotif
  <2>1. CASE Head(q) = CheckStorage
    <3>1. S = [T EXCEPT !.unacked_stored = @ \cup rows]
      BY <2>1, NotificationKinds
    <3>2. /\ S \in SessionType /\ S.snotif_stream = Tail(q) /\ S.phase = "live"
          /\ S.node = session[s].node /\ S.unacked_direct = session[s].unacked_direct
      BY <1>1, <1>5, <3>1 DEF SessionType
    <3>3. WellFormed(S) /\ KeepsRegistered(session[s], S)
      BY <1>2, <1>3, <1>4, <2>1, <3>2, NotificationKinds DEF WellFormed, KeepsRegistered, At, q
    <3>4. KeepsSafe(session[s], S)
      BY <1>3, <2>0, <2>1, <3>2, NotificationKinds DEF KeepsSafe, InMemory, Queued, q
    <3> QED BY <3>2, <3>3, <3>4
  <2>2. CASE Head(q) = Disconnect
    <3>1. S = [T EXCEPT !.phase = "closing"]
      BY <2>2, NotificationKinds
    <3>2. /\ S \in SessionType /\ S.snotif_stream = Tail(q) /\ S.phase = "closing"
          /\ S.node = session[s].node /\ S.unacked_direct = session[s].unacked_direct
      BY <1>1, <1>5, <3>1 DEF SessionType, SessionPhases
    <3>3. WellFormed(S) /\ KeepsRegistered(session[s], S)
      BY <1>2, <1>4, <3>2 DEF WellFormed, KeepsRegistered, At
    <3>4. KeepsSafe(session[s], S)
      BY <1>3, <2>0, <2>2, <3>2, NotificationKinds DEF KeepsSafe, InMemory, Queued, q
    <3> QED BY <3>2, <3>3, <3>4
  <2>3. CASE Head(q) # CheckStorage /\ Head(q) # Disconnect
    <3>0. PICK m \in Messages : Head(q) = Notification(m)
      BY <1>3, <2>3, NotificationKinds
    <3>1. S = [T EXCEPT !.unacked_direct = @ \cup ({m} \ ZeroTTL)]
      BY <2>3, <3>0, NotificationKinds
    <3>2. /\ S \in SessionType /\ S.snotif_stream = Tail(q) /\ S.phase = "live"
          /\ S.node = session[s].node
          /\ S.unacked_direct = session[s].unacked_direct \cup ({m} \ ZeroTTL)
      <4>1. T.unacked_direct \cup ({m} \ ZeroTTL) \in SUBSET Messages
        BY <1>5 DEF SessionType
      <4> QED BY <1>5, <3>1, <4>1 DEF SessionType
    <3>3. WellFormed(S) /\ KeepsRegistered(session[s], S)
      BY <1>2, <1>3, <1>4, <2>3, <3>2 DEF WellFormed, KeepsRegistered, At, q
    <3>4. \A k \in Messages : Holds(q, Notification(k)) => k = m \/ Holds(Tail(q), Notification(k))
      BY <1>3, <3>0, NotificationKinds
    <3>5. KeepsSafe(session[s], S)
      BY <2>0, <3>2, <3>4 DEF KeepsSafe, InMemory, Queued, q
    <3> QED BY <3>2, <3>3, <3>5
  <2> QED BY <2>1, <2>2, <2>3
<1> HIDE DEF S
<1>7. /\ session' \in [Sessions -> SessionType] /\ RegisteredListens' /\ LiveIsRegistered'
      /\ SessionsWellFormed' /\ TakenIsSafe' /\ RequestsWellFormed'
  BY <1>2, <1>6, SessionStep
<1>8. TypeOK'
  BY <1>7 DEF IInv, TypeOK, OnServerNotif
<1>9. VersionTellsConnection'
  BY VersionStep DEF IInv, OnServerNotif
<1> QED BY <1>7, <1>8, <1>9 DEF IInv

\* A new version is one no request has seen.
LEMMA UpdateUserStep ==
  ASSUME IInv, NEW s \in Sessions, UpdateUser(s)
  PROVE  IInv'
<1>1. session[s] \in SessionType /\ user \in UserType /\ request \in [Messages -> RequestType]
  BY DEF IInv, TypeOK
<1>2. WellFormed(session[s])
  BY DEF IInv, SessionsWellFormed
<1>3. PICK phase \in {"check", "done"} : Goes(s, phase)
  BY DEF UpdateUser
<1> DEFINE S == [session[s] EXCEPT !.phase = phase]
<1>4. S \in SessionType /\ WellFormed(S)
  BY <1>1, <1>2 DEF SessionType, SessionPhases, WellFormed, UpdateUser, At
<1>5. KeepsRegistered(session[s], S)
  BY <1>1 DEF KeepsRegistered, UpdateUser, At, SessionType
<1>6. KeepsSafe(session[s], S)
  BY <1>1 DEF KeepsSafe, UpdateUser, InMemory, Queued, SessionType
<1>7. Becomes(s, S) /\ UNCHANGED <<registry, request>>
  BY <1>3 DEF UpdateUser, Goes
<1> HIDE DEF S
<1>8. /\ session' \in [Sessions -> SessionType] /\ RegisteredListens' /\ LiveIsRegistered'
      /\ SessionsWellFormed' /\ TakenIsSafe' /\ RequestsWellFormed'
  BY <1>4, <1>5, <1>6, <1>7, SessionStep
<1>9. user' \in UserType /\ (user' = user \/ user'.version = user.version + 1)
  <2>1. CASE user.exists /\ user.version = session[s].version
    <3>1. user' = [user EXCEPT !.node_id = session[s].node,
                               !.connected_at = session[s].connected_at,
                               !.version = @ + 1]
      BY <2>1 DEF UpdateUser
    <3>2. user.version + 1 \in Nat
      BY <1>1 DEF UserType
    <3> QED BY <1>1, <3>1, <3>2 DEF UserType, SessionType
  <2>2. CASE ~(user.exists /\ user.version = session[s].version)
    BY <1>1, <2>2 DEF UpdateUser
  <2> QED BY <2>1, <2>2
<1>10. TypeOK'
  BY <1>8, <1>9 DEF IInv, TypeOK, UpdateUser
<1>11. VersionTellsConnection'
  <2>1. CASE user' = user
    BY <1>7, <2>1, VersionStep DEF IInv
  <2>2. CASE user'.version = user.version + 1
    BY <1>1, <1>7, <2>2 DEF IInv, VersionTellsConnection, UserType, RequestType
  <2> QED BY <1>9, <2>1, <2>2
<1> QED BY <1>8, <1>10, <1>11 DEF IInv

LEMMA ResetUaidStep ==
  ASSUME IInv, NEW s \in Sessions, ResetUaid(s)
  PROVE  IInv'
<1>1. session[s] \in SessionType /\ user \in UserType /\ request \in [Messages -> RequestType]
  BY DEF IInv, TypeOK
<1>2. WellFormed(session[s])
  BY DEF IInv, SessionsWellFormed
<1> DEFINE S == [session[s] EXCEPT !.phase = "closing"]
<1>3. S \in SessionType /\ WellFormed(S)
  BY <1>1, <1>2 DEF SessionType, SessionPhases, WellFormed, ResetUaid, At
<1>4. KeepsRegistered(session[s], S)
  BY <1>1 DEF KeepsRegistered, ResetUaid, At, SessionType
<1>5. KeepsSafe(session[s], S)
  BY <1>1 DEF KeepsSafe, ResetUaid, InMemory, Queued, SessionType
<1>6. Becomes(s, S) /\ UNCHANGED <<registry, request>>
  BY DEF ResetUaid, Goes
<1> HIDE DEF S
<1>7. /\ session' \in [Sessions -> SessionType] /\ RegisteredListens' /\ LiveIsRegistered'
      /\ SessionsWellFormed' /\ TakenIsSafe' /\ RequestsWellFormed'
  BY <1>3, <1>4, <1>5, <1>6, SessionStep
<1>8. /\ user' \in UserType /\ user'.version = user.version
      /\ user'.connected_at = user.connected_at
  BY <1>1 DEF ResetUaid, UserType
<1>9. TypeOK'
  BY <1>7, <1>8 DEF IInv, TypeOK, ResetUaid
<1>10. VersionTellsConnection'
  BY <1>6, <1>8 DEF IInv, VersionTellsConnection
<1> QED BY <1>7, <1>9, <1>10 DEF IInv

\* Leaving the registry: no other session is registered for the node and
\* removed with this one.
LEMMA RegistryDisconnectStep ==
  ASSUME IInv, NEW s \in Sessions, RegistryDisconnect(s)
  PROVE  IInv'
<1> DEFINE S == [session[s] EXCEPT !.phase = "drain"]
           n == session[s].node
<1>1. /\ session \in [Sessions -> SessionType] /\ session[s] \in SessionType
      /\ registry \in [Nodes -> Sessions \cup {NoSession}]
  BY DEF IInv, TypeOK
<1>2. WellFormed(session[s]) /\ At(s, "closing")
  BY DEF IInv, SessionsWellFormed, RegistryDisconnect
<1>3. /\ S \in SessionType /\ WellFormed(S) /\ S.phase = "drain"
      /\ InMemory(S) = InMemory(session[s])
  BY <1>1, <1>2 DEF SessionType, SessionPhases, WellFormed, At, InMemory, Queued
<1>4. n \in Nodes
  BY <1>2 DEF WellFormed, At
<1>5. /\ session' \in [Sessions -> SessionType]
      /\ session'[s] = S
      /\ \A t \in Sessions \ {s} : session'[t] = session[t]
  BY <1>1, <1>3, BecomesIs DEF RegistryDisconnect, Goes
<1>6. /\ registry' \in [Nodes -> Sessions \cup {NoSession}]
      /\ registry'[n] = IF registry[n] = s THEN NoSession ELSE registry[n]
      /\ \A k \in Nodes \ {n} : registry'[k] = registry[k]
  BY <1>1, <1>4 DEF RegistryDisconnect
<1> HIDE DEF S
<1>7. RegisteredListens'
  <2> SUFFICES ASSUME NEW k \in Nodes, registry'[k] # NoSession
               PROVE  /\ session'[registry'[k]].phase \in {"live", "closing"}
                      /\ session'[registry'[k]].node = k
    BY DEF RegisteredListens, Registered
  <2>1. registry'[k] = registry[k] /\ registry[k] \in Sessions
    BY <1>1, <1>6
  <2>2. /\ session[registry[k]].phase \in {"live", "closing"}
        /\ session[registry[k]].node = k
    BY <2>1 DEF IInv, RegisteredListens, Registered
  <2>3. registry[k] # s
    BY <1>6, <2>1, <2>2, SessionAssumption
  <2> QED BY <1>5, <2>1, <2>2, <2>3
<1>8. LiveIsRegistered'
  <2> SUFFICES ASSUME NEW t \in Sessions, session'[t].phase = "live"
               PROVE  \/ registry'[session'[t].node] = t
                      \/ Holds(session'[t].snotif_stream, Disconnect)
    BY DEF LiveIsRegistered, At
  <2>1. t # s /\ session'[t] = session[t]
    BY <1>3, <1>5
  <2>2. registry[session[t].node] = t \/ Holds(session[t].snotif_stream, Disconnect)
    BY <2>1 DEF IInv, LiveIsRegistered, At
  <2>3. session[t].node \in Nodes
    BY <2>1 DEF IInv, SessionsWellFormed, WellFormed
  <2> QED BY <1>6, <2>1, <2>2, <2>3
<1>9. SessionsWellFormed'
  BY <1>3, <1>5 DEF IInv, SessionsWellFormed
<1>10. UNCHANGED <<user, rows, request, opened, acked, lost, crashes>>
  BY DEF RegistryDisconnect
<1>11. \A t \in Sessions : InMemory(session'[t]) = InMemory(session[t])
  BY <1>3, <1>5
<1>12. TakenIsSafe'
  BY <1>10, <1>11 DEF IInv, TakenIsSafe, Taken, Safe
<1>13. RequestsWellFormed' /\ VersionTellsConnection'
  BY <1>10 DEF IInv, RequestsWellFormed, VersionTellsConnection
<1>14. TypeOK'
  BY <1>5, <1>6, <1>10 DEF IInv, TypeOK
<1> QED BY <1>7, <1>8, <1>9, <1>12, <1>13, <1>14 DEF IInv

\* Entering the registry: a session that was registered for the node gets a
\* Disconnect, and the newcomer is not registered anywhere else.
LEMMA RegistryConnectStep ==
  ASSUME IInv, NEW s \in Sessions, RegistryConnect(s)
  PROVE  IInv'
<1> DEFINE n == session[s].node
           old == registry[n]
           S == [session[s] EXCEPT !.phase = "live"]
<1>1. /\ session \in [Sessions -> SessionType] /\ session[s] \in SessionType
      /\ registry \in [Nodes -> Sessions \cup {NoSession}]
  BY DEF IInv, TypeOK
<1>2. WellFormed(session[s]) /\ At(s, "connect")
  BY DEF IInv, SessionsWellFormed, RegistryConnect
<1>3. n \in Nodes /\ old \in Sessions \cup {NoSession}
  BY <1>1, <1>2 DEF WellFormed, At
<1>4. old # s
  BY <1>2, <1>3, SessionAssumption DEF IInv, RegisteredListens, Registered, At
<1>5. /\ S \in SessionType /\ WellFormed(S) /\ S.phase = "live" /\ S.node = n
      /\ InMemory(S) = InMemory(session[s])
  BY <1>1, <1>2 DEF SessionType, SessionPhases, WellFormed, At, InMemory, Queued
<1>6. session' = [t \in Sessions |->
           IF t = s THEN S
           ELSE IF t = old THEN [session[t] EXCEPT !.snotif_stream = Append(@, Disconnect)]
           ELSE session[t]]
  BY DEF RegistryConnect
<1>7. /\ registry' \in [Nodes -> Sessions \cup {NoSession}]
      /\ registry'[n] = s
      /\ \A k \in Nodes \ {n} : registry'[k] = registry[k]
  BY <1>1, <1>3 DEF RegistryConnect
<1> HIDE DEF S
<1>8. session'[s] = S /\ \A t \in Sessions \ {s, old} : session'[t] = session[t]
  BY <1>6
<1>9. ASSUME old \in Sessions
      PROVE  /\ session[old].phase \in {"live", "closing"}
             /\ session[old].node = n
             /\ session'[old] \in SessionType
             /\ session'[old].phase = session[old].phase
             /\ session'[old].node = session[old].node
             /\ WellFormed(session'[old])
             /\ Holds(session'[old].snotif_stream, Disconnect)
             /\ InMemory(session[old]) \subseteq InMemory(session'[old])
  <2> DEFINE q == session[old].snotif_stream
             O == [session[old] EXCEPT !.snotif_stream = Append(@, Disconnect)]
  <2>1. session[old].phase \in {"live", "closing"} /\ session[old].node = n
    BY <1>3, <1>9, SessionAssumption DEF IInv, RegisteredListens, Registered
  <2>2. session[old] \in SessionType /\ q \in Seq(ServerNotifications)
    BY <1>1, <1>9 DEF SessionType
  <2>3. /\ Append(q, Disconnect) \in Seq(ServerNotifications)
        /\ \A x : Holds(q, x) => Holds(Append(q, Disconnect), x)
        /\ Holds(Append(q, Disconnect), Disconnect)
    BY <2>2, AppendHolds, NotificationKinds
  <2>4. session'[old] = O
    BY <1>4, <1>6, <1>9
  <2>5. /\ O \in SessionType /\ O.phase = session[old].phase /\ O.node = session[old].node
        /\ O.snotif_stream = Append(q, Disconnect)
        /\ O.unacked_direct = session[old].unacked_direct
    BY <2>2, <2>3 DEF SessionType
  <2> HIDE DEF O, q
  <2>6. WellFormed(O)
    BY <1>3, <2>1, <2>5 DEF WellFormed
  <2>7. InMemory(session[old]) \subseteq InMemory(O)
    BY <2>3, <2>5 DEF InMemory, Queued, q
  <2> QED BY <2>1, <2>3, <2>4, <2>5, <2>6, <2>7
<1>10. session' \in [Sessions -> SessionType]
  <2>1. \A t \in Sessions : session'[t] \in SessionType
    BY <1>1, <1>5, <1>8, <1>9
  <2> QED BY <1>6, <2>1
<1>11. RegisteredListens'
  <2> SUFFICES ASSUME NEW k \in Nodes, registry'[k] # NoSession
               PROVE  /\ session'[registry'[k]].phase \in {"live", "closing"}
                      /\ session'[registry'[k]].node = k
    BY DEF RegisteredListens, Registered
  <2>1. CASE k = n
    BY <1>5, <1>7, <1>8, <2>1
  <2>2. CASE k # n
    <3>1. registry'[k] = registry[k] /\ registry[k] \in Sessions
      BY <1>1, <1>7, <2>2
    <3>2. session[registry[k]].phase \in {"live", "closing"} /\ session[registry[k]].node = k
      BY <3>1 DEF IInv, RegisteredListens, Registered
    <3>3. registry[k] # s
      BY <1>2, <3>2 DEF At
    <3> QED BY <1>8, <1>9, <2>2, <3>1, <3>2, <3>3
  <2> QED BY <2>1, <2>2
<1>12. LiveIsRegistered'
  <2> SUFFICES ASSUME NEW t \in Sessions, session'[t].phase = "live"
               PROVE  \/ registry'[session'[t].node] = t
                      \/ Holds(session'[t].snotif_stream, Disconnect)
    BY DEF LiveIsRegistered, At
  <2>1. CASE t = s
    BY <1>5, <1>7, <1>8, <2>1
  <2>2. CASE t = old
    BY <1>9, <2>2
  <2>3. CASE t # s /\ t # old
    <3>1. session'[t] = session[t] /\ session[t].phase = "live"
      BY <1>8, <2>3
    <3>2. registry[session[t].node] = t \/ Holds(session[t].snotif_stream, Disconnect)
      BY <3>1 DEF IInv, LiveIsRegistered, At
    <3>3. session[t].node \in Nodes
      BY <3>1 DEF IInv, SessionsWellFormed, WellFormed
    <3> QED BY <1>7, <2>3, <3>1, <3>2, <3>3
  <2> QED BY <2>1, <2>2, <2>3
<1>13. SessionsWellFormed'
  BY <1>5, <1>8, <1>9 DEF IInv, SessionsWellFormed
<1>14. UNCHANGED <<user, rows, request, opened, acked, lost, crashes>>
  BY DEF RegistryConnect
<1>15. \A t \in Sessions : InMemory(session[t]) \subseteq InMemory(session'[t])
  BY <1>5, <1>8, <1>9
<1>16. TakenIsSafe'
  BY <1>14, <1>15 DEF IInv, TakenIsSafe, Taken, Safe
<1>17. RequestsWellFormed' /\ VersionTellsConnection'
  BY <1>14 DEF IInv, RequestsWellFormed, VersionTellsConnection
<1>18. TypeOK'
  BY <1>7, <1>10, <1>14 DEF IInv, TypeOK
<1> QED BY <1>11, <1>12, <1>13, <1>16, <1>17, <1>18 DEF IInv

-----------------------------------------------------------------------------
(* Pushing a server notification to the session registered on a node; a   *)
(* task that notifies a node ends with the same step.                      *)

LEMMA PushKeeps ==
  ASSUME IInv, NEW n \in Nodes, Registered(n), NEW x \in ServerNotifications,
         DOMAIN session' = Sessions, session' = [t \in Sessions |-> session'[t]],
         session'[registry[n]]
           = [session[registry[n]] EXCEPT !.snotif_stream = Append(@, x)],
         \A t \in Sessions \ {registry[n]} :
           \/ session'[t] = session[t]
           \/ At(t, "notify") /\ session'[t] = [session[t] EXCEPT !.phase = "done"],
         UNCHANGED <<registry, rows, acked, lost>>
  PROVE  /\ session' \in [Sessions -> SessionType]
         /\ RegisteredListens'
         /\ LiveIsRegistered'
         /\ SessionsWellFormed'
         /\ \A m \in Messages : Safe(m) => Safe(m)'
         /\ \A m \in Messages : x = Notification(m) => Safe(m)'
<1> DEFINE r == registry[n]
           q == session[r].snotif_stream
<1>1. /\ session \in [Sessions -> SessionType]
      /\ registry \in [Nodes -> Sessions \cup {NoSession}]
  BY DEF IInv, TypeOK
<1>2. r \in Sessions /\ session[r].phase \in {"live", "closing"} /\ session[r].node = n
  BY <1>1 DEF IInv, RegisteredListens, Registered
<1>3. session[r] \in SessionType /\ q \in Seq(ServerNotifications)
  BY <1>1, <1>2 DEF SessionType
<1>4. /\ Append(q, x) \in Seq(ServerNotifications)
      /\ \A y : Holds(q, y) => Holds(Append(q, x), y)
      /\ Holds(Append(q, x), x)
  BY <1>3, AppendHolds
<1>5. /\ session'[r] \in SessionType
      /\ session'[r].phase = session[r].phase /\ session'[r].node = n
      /\ session'[r].snotif_stream = Append(q, x)
      /\ session'[r].unacked_direct = session[r].unacked_direct
  BY <1>2, <1>3, <1>4 DEF SessionType
<1>6. \A t \in Sessions \ {r} :
        /\ session'[t] \in SessionType
        /\ \/ session'[t].phase = session[t].phase
           \/ session[t].phase = "notify" /\ session'[t].phase = "done"
        /\ session'[t].node = session[t].node
        /\ session'[t].snotif_stream = session[t].snotif_stream
        /\ session'[t].unacked_direct = session[t].unacked_direct
        /\ session'[t].target = session[t].target
  <2> TAKE t \in Sessions \ {r}
  <2>1. session[t] \in SessionType
    BY <1>1
  <2>2. CASE session'[t] = session[t]
    BY <2>1, <2>2
  <2>3. CASE At(t, "notify") /\ session'[t] = [session[t] EXCEPT !.phase = "done"]
    BY <2>1, <2>3 DEF SessionType, SessionPhases, At
  <2> QED BY <2>2, <2>3
<1>7. session' \in [Sessions -> SessionType]
  BY <1>5, <1>6
<1> HIDE DEF r, q
<1>8. RegisteredListens'
  <2> SUFFICES ASSUME NEW k \in Nodes, registry[k] # NoSession
               PROVE  /\ session'[registry[k]].phase \in {"live", "closing"}
                      /\ session'[registry[k]].node = k
    BY DEF RegisteredListens, Registered
  <2>1. /\ registry[k] \in Sessions
        /\ session[registry[k]].phase \in {"live", "closing"}
        /\ session[registry[k]].node = k
    BY <1>1 DEF IInv, RegisteredListens, Registered
  <2> QED BY <1>2, <1>5, <1>6, <2>1
<1>9. LiveIsRegistered'
  <2> SUFFICES ASSUME NEW t \in Sessions, session'[t].phase = "live"
               PROVE  \/ registry[session'[t].node] = t
                      \/ Holds(session'[t].snotif_stream, Disconnect)
    BY DEF LiveIsRegistered, At
  <2>1. CASE t = r
    BY <1>5, <2>1 DEF r
  <2>2. CASE t # r
    BY <1>6, <2>2 DEF IInv, LiveIsRegistered, At
  <2> QED BY <2>1, <2>2
<1>10. SessionsWellFormed'
  <2>1. WellFormed(session'[r])
    BY <1>2, <1>5 DEF WellFormed
  <2>2. \A t \in Sessions \ {r} : WellFormed(session'[t])
    BY <1>6 DEF IInv, SessionsWellFormed, WellFormed
  <2> QED BY <2>1, <2>2 DEF SessionsWellFormed
<1>11. \A t \in Sessions : InMemory(session[t]) \subseteq InMemory(session'[t])
  <2>1. InMemory(session[r]) \subseteq InMemory(session'[r])
    BY <1>4, <1>5 DEF InMemory, Queued, q
  <2>2. \A t \in Sessions \ {r} : InMemory(session[t]) = InMemory(session'[t])
    BY <1>6 DEF InMemory, Queued
  <2> QED BY <2>1, <2>2
<1>12. \A m \in Messages : Safe(m) => Safe(m)'
  <2> SUFFICES ASSUME NEW m \in Messages, Safe(m) PROVE Safe(m)'
    OBVIOUS
  <2>1. CASE m \in acked \cup lost \cup rows
    BY <2>1 DEF Safe
  <2>2. CASE \E t \in Sessions : m \in InMemory(session[t])
    <3>1. PICK t \in Sessions : m \in InMemory(session[t])
      BY <2>2
    <3>2. m \in InMemory(session'[t])
      BY <1>11, <3>1
    <3> QED BY <3>2 DEF Safe
  <2> QED BY <2>1, <2>2 DEF Safe
<1>13. \A m \in Messages : x = Notification(m) => Safe(m)'
  <2> SUFFICES ASSUME NEW m \in Messages, x = Notification(m) PROVE Safe(m)'
    OBVIOUS
  <2>1. m \in InMemory(session'[r])
    BY <1>4, <1>5 DEF InMemory, Queued
  <2> QED BY <1>2, <2>1 DEF Safe
<1> QED BY <1>7, <1>8, <1>9, <1>10, <1>12, <1>13

LEMMA PushIs ==
  ASSUME IInv, NEW n \in Nodes, Registered(n), NEW x \in ServerNotifications,
         Push(n, x), UNCHANGED <<registry, rows, acked, lost>>
  PROVE  /\ session' \in [Sessions -> SessionType]
         /\ RegisteredListens'
         /\ LiveIsRegistered'
         /\ SessionsWellFormed'
         /\ \A m \in Messages : Safe(m) => Safe(m)'
         /\ \A m \in Messages : x = Notification(m) => Safe(m)'
<1>1. session \in [Sessions -> SessionType] /\ registry[n] \in Sessions
  BY DEF IInv, TypeOK, Registered
<1>2. /\ DOMAIN session' = Sessions /\ session' = [t \in Sessions |-> session'[t]]
      /\ session'[registry[n]]
           = [session[registry[n]] EXCEPT !.snotif_stream = Append(@, x)]
      /\ \A t \in Sessions \ {registry[n]} : session'[t] = session[t]
  BY <1>1 DEF Push
<1> QED BY <1>2, PushKeeps

LEMMA NotifyReconnectedStep ==
  ASSUME IInv, NEW s \in Sessions, NotifyReconnected(s)
  PROVE  IInv'
<1> DEFINE n == session[s].target
<1>1. /\ session \in [Sessions -> SessionType] /\ session[s] \in SessionType
      /\ registry \in [Nodes -> Sessions \cup {NoSession}]
  BY DEF IInv, TypeOK
<1>2. At(s, "notify") /\ WellFormed(session[s]) /\ n \in Nodes
  BY DEF NotifyReconnected, IInv, SessionsWellFormed, WellFormed, At
<1>3. UNCHANGED <<user, rows, registry, request, opened, acked, lost, crashes>>
  BY DEF NotifyReconnected
<1>4. CASE /\ Registered(n)
           /\ session' = [session EXCEPT ![s].phase = "done",
                            ![registry[n]].snotif_stream = Append(@, CheckStorage)]
  <2>1. registry[n] \in Sessions /\ registry[n] # s
    BY <1>1, <1>2, <1>4 DEF IInv, RegisteredListens, Registered, At
  <2>2. /\ DOMAIN session' = Sessions /\ session' = [t \in Sessions |-> session'[t]]
        /\ session'[registry[n]]
             = [session[registry[n]] EXCEPT !.snotif_stream = Append(@, CheckStorage)]
        /\ session'[s] = [session[s] EXCEPT !.phase = "done"]
        /\ \A t \in Sessions \ {s, registry[n]} : session'[t] = session[t]
    BY <1>1, <1>4, <2>1
  <2>3. \A t \in Sessions \ {registry[n]} :
          \/ session'[t] = session[t]
          \/ At(t, "notify") /\ session'[t] = [session[t] EXCEPT !.phase = "done"]
    BY <1>2, <2>2
  <2>4. CheckStorage \in ServerNotifications /\ n \in Nodes /\ Registered(n)
    BY <1>2, <1>4, NotificationKinds
  <2>5. UNCHANGED <<registry, rows, acked, lost>>
    BY <1>3
  <2> HIDE DEF n
  <2>6. /\ session' \in [Sessions -> SessionType] /\ RegisteredListens' /\ LiveIsRegistered'
        /\ SessionsWellFormed'
        /\ \A m \in Messages : Safe(m) => Safe(m)'
    BY <2>2, <2>3, <2>4, <2>5, PushKeeps
  <2>7. TakenIsSafe' /\ RequestsWellFormed' /\ VersionTellsConnection'
    BY <1>3, <2>6, VersionStep DEF IInv, TakenIsSafe, Taken, RequestsWellFormed
  <2>8. TypeOK'
    BY <1>3, <2>6 DEF IInv, TypeOK
  <2> QED BY <2>6, <2>7, <2>8 DEF IInv
<1>5. CASE Goes(s, "done")
  <2> DEFINE S == [session[s] EXCEPT !.phase = "done"]
  <2>1. S \in SessionType /\ WellFormed(S)
    BY <1>1, <1>2 DEF SessionType, SessionPhases, WellFormed, At
  <2>2. KeepsRegistered(session[s], S)
    BY <1>1, <1>2 DEF KeepsRegistered, SessionType, At
  <2>3. KeepsSafe(session[s], S)
    BY <1>1, <1>3 DEF KeepsSafe, InMemory, Queued, SessionType
  <2>4. Becomes(s, S)
    BY <1>5 DEF Goes
  <2> HIDE DEF S
  <2>5. /\ session' \in [Sessions -> SessionType] /\ RegisteredListens' /\ LiveIsRegistered'
        /\ SessionsWellFormed' /\ TakenIsSafe' /\ RequestsWellFormed'
    BY <1>3, <2>1, <2>2, <2>3, <2>4, SessionStep
  <2>6. TypeOK' /\ VersionTellsConnection'
    BY <1>3, <2>5, VersionStep DEF IInv, TypeOK
  <2> QED BY <2>5, <2>6 DEF IInv
<1> QED BY <1>4, <1>5 DEF NotifyReconnected

-----------------------------------------------------------------------------
(* The steps of the router. *)

LEMMA RequestStep ==
  ASSUME IInv, NEW m \in Messages, NEW R \in RequestType,
         request' = [request EXCEPT ![m] = R],
         R.phase \in {"send", "trigger"} => R.node_id \in Nodes,
         m \notin ZeroTTL /\ R.phase \in TakenPhases => Safe(m)',
         \A k \in Messages \ ZeroTTL : Safe(k) => Safe(k)',
         R.version <= user.version,
         R.version = user.version => R.connected_at = user.connected_at,
         user'.version = user.version, user'.connected_at = user.connected_at
  PROVE  /\ request' \in [Messages -> RequestType]
         /\ TakenIsSafe'
         /\ RequestsWellFormed'
         /\ VersionTellsConnection'
<1>1. request \in [Messages -> RequestType]
  BY DEF IInv, TypeOK
<1>2. /\ request' \in [Messages -> RequestType]
      /\ request'[m] = R
      /\ \A k \in Messages \ {m} : request'[k] = request[k]
  BY <1>1
<1>3. TakenIsSafe'
  BY <1>2 DEF IInv, TakenIsSafe, Taken
<1>4. RequestsWellFormed'
  BY <1>2 DEF IInv, RequestsWellFormed
<1>5. VersionTellsConnection'
  BY <1>2 DEF IInv, VersionTellsConnection
<1> QED BY <1>2, <1>3, <1>4, <1>5

\* A step that only moves a request on.
LEMMA RequestGoesStep ==
  ASSUME IInv, NEW m \in Messages, NEW phase \in RequestPhases,
         ~RequestAt(m, "new"), RequestGoes(m, phase), phase \notin {"send", "trigger"},
         m \notin ZeroTTL /\ phase \in TakenPhases => Safe(m)',
         \A k \in Messages \ ZeroTTL : Safe(k) => Safe(k)',
         user'.version = user.version, user'.connected_at = user.connected_at
  PROVE  /\ request' \in [Messages -> RequestType]
         /\ TakenIsSafe'
         /\ RequestsWellFormed'
         /\ VersionTellsConnection'
<1> DEFINE R == [request[m] EXCEPT !.phase = phase]
<1>1. request \in [Messages -> RequestType] /\ request[m] \in RequestType
  BY DEF IInv, TypeOK
<1>2. /\ R \in RequestType /\ R.phase = phase
      /\ R.version = request[m].version /\ R.connected_at = request[m].connected_at
  BY <1>1 DEF RequestType
<1>3. /\ R.version <= user.version
      /\ R.version = user.version => R.connected_at = user.connected_at
  BY <1>2 DEF IInv, VersionTellsConnection, RequestAt
<1>4. request' = [request EXCEPT ![m] = R]
  BY <1>1 DEF RequestGoes
<1> HIDE DEF R
<1> QED BY <1>2, <1>3, <1>4, RequestStep

\* The conjuncts about sessions survive a step that leaves them alone.
LEMMA SessionsUnchanged ==
  ASSUME IInv, UNCHANGED <<registry, session>>
  PROVE  RegisteredListens' /\ LiveIsRegistered' /\ SessionsWellFormed'
<1>1. RegisteredListens'
  BY DEF IInv, RegisteredListens, Registered
<1>2. LiveIsRegistered'
  BY DEF IInv, LiveIsRegistered, At
<1>3. SessionsWellFormed'
  BY DEF IInv, SessionsWellFormed
<1> QED BY <1>1, <1>2, <1>3

\* Nothing is forgotten when storage grows and sessions are left alone.
LEMMA SafeUnchanged ==
  ASSUME UNCHANGED <<session, acked, lost>>, rows \subseteq rows'
  PROVE  \A k \in Messages : Safe(k) => Safe(k)'
BY DEF Safe

LEMMA PostStep ==
  ASSUME IInv, NEW m \in Messages, Post(m)
  PROVE  IInv'
<1> DEFINE R == [phase |-> IF user.node_id # NoNode THEN "send"
                           ELSE IF m \in ZeroTTL THEN "dropped" ELSE "store",
                 node_id |-> user.node_id, connected_at |-> user.connected_at,
                 version |-> user.version]
<1>1. UNCHANGED <<user, rows, registry, session, opened, acked, lost, crashes>>
  BY DEF Post
<1>2. user \in UserType
  BY DEF IInv, TypeOK
<1>3. /\ R \in RequestType /\ R.phase \notin TakenPhases
      /\ R.phase \in {"send", "trigger"} => R.node_id \in Nodes
      /\ R.version <= user.version /\ R.connected_at = user.connected_at
  BY <1>2 DEF RequestType, RequestPhases, UserType
<1>4. request' = [request EXCEPT ![m] = R]
  BY DEF Post
<1> HIDE DEF R
<1>5. \A k \in Messages : Safe(k) => Safe(k)'
  BY <1>1, SafeUnchanged
<1>6. /\ request' \in [Messages -> RequestType] /\ TakenIsSafe' /\ RequestsWellFormed'
      /\ VersionTellsConnection'
  BY <1>1, <1>3, <1>4, <1>5, RequestStep
<1>7. RegisteredListens' /\ LiveIsRegistered' /\ SessionsWellFormed'
  BY <1>1, SessionsUnchanged
<1>8. TypeOK'
  BY <1>1, <1>6 DEF IInv, TypeOK
<1> QED BY <1>6, <1>7, <1>8 DEF IInv

LEMMA SendAcceptedStep ==
  ASSUME IInv, NEW m \in Messages, SendAccepted(m)
  PROVE  IInv'
<1>1. UNCHANGED <<user, rows, registry, opened, acked, lost, crashes>>
  BY DEF SendAccepted
<1>2. request[m].node_id \in Nodes /\ ~RequestAt(m, "new")
  BY DEF IInv, RequestsWellFormed, SendAccepted, RequestAt
<1>3. PICK phase \in {"delivered", "gone"} : RequestGoes(m, phase)
  BY DEF SendAccepted
<1>4. /\ session' \in [Sessions -> SessionType] /\ RegisteredListens' /\ LiveIsRegistered'
      /\ SessionsWellFormed'
      /\ \A k \in Messages : Safe(k) => Safe(k)'
      /\ Safe(m)'
  BY <1>1, <1>2, PushIs, NotificationKinds DEF SendAccepted
<1>5. /\ request' \in [Messages -> RequestType] /\ TakenIsSafe' /\ RequestsWellFormed'
      /\ VersionTellsConnection'
  BY <1>1, <1>2, <1>3, <1>4, RequestGoesStep DEF RequestPhases
<1>6. TypeOK'
  BY <1>1, <1>4, <1>5 DEF IInv, TypeOK
<1> QED BY <1>4, <1>5, <1>6 DEF IInv

LEMMA TriggerAcceptedStep ==
  ASSUME IInv, NEW m \in Messages, TriggerAccepted(m)
  PROVE  IInv'
<1>1. UNCHANGED <<user, rows, registry, opened, acked, lost, crashes>>
  BY DEF TriggerAccepted
<1>2. request[m].node_id \in Nodes /\ ~RequestAt(m, "new")
  BY DEF IInv, RequestsWellFormed, TriggerAccepted, RequestAt
<1>3. PICK phase \in {"delivered", "unreachable"} : RequestGoes(m, phase)
  BY DEF TriggerAccepted
<1>4. m \notin ZeroTTL => Safe(m)
  BY DEF IInv, TakenIsSafe, Taken, TriggerAccepted, RequestAt
<1>5. /\ session' \in [Sessions -> SessionType] /\ RegisteredListens' /\ LiveIsRegistered'
      /\ SessionsWellFormed'
      /\ \A k \in Messages : Safe(k) => Safe(k)'
  BY <1>1, <1>2, PushIs, NotificationKinds DEF TriggerAccepted
<1>6. /\ request' \in [Messages -> RequestType] /\ TakenIsSafe' /\ RequestsWellFormed'
      /\ VersionTellsConnection'
  BY <1>1, <1>2, <1>3, <1>4, <1>5, RequestGoesStep DEF RequestPhases
<1>7. TypeOK'
  BY <1>1, <1>5, <1>6 DEF IInv, TypeOK
<1> QED BY <1>5, <1>6, <1>7 DEF IInv

\* The steps that change nothing but the phase of a request.
LEMMA MoveOnStep ==
  ASSUME IInv, NEW m \in Messages,
         \/ SendRefused(m) \/ SendFails(m) \/ RequestFails(m)
         \/ TriggerRefused(m) \/ TriggerFails(m)
  PROVE  IInv'
<1>1. UNCHANGED <<user, rows, registry, session, opened, acked, lost, crashes>>
  BY DEF SendRefused, SendFails, RequestFails, TriggerRefused, TriggerFails
<1>2. PICK phase \in RequestPhases :
        /\ RequestGoes(m, phase)
        /\ phase \notin {"send", "trigger"}
        /\ phase \in TakenPhases => Taken(m)
  <2>1. CASE SendRefused(m)
    BY <2>1 DEF SendRefused, Undelivered, RequestPhases
  <2>2. CASE SendFails(m)
    BY <2>2 DEF SendFails, RequestPhases
  <2>3. CASE RequestFails(m)
    BY <2>3 DEF RequestFails, RequestPhases
  <2>4. CASE TriggerRefused(m)
    BY <2>4 DEF TriggerRefused, RequestPhases, Taken, RequestAt
  <2>5. CASE TriggerFails(m)
    BY <2>5 DEF TriggerFails, RequestPhases, Taken, RequestAt
  <2> QED BY <2>1, <2>2, <2>3, <2>4, <2>5
<1>3. ~RequestAt(m, "new")
  BY DEF SendRefused, SendFails, RequestFails, TriggerRefused, TriggerFails, RequestAt
<1>4. \A k \in Messages : Safe(k) => Safe(k)'
  BY <1>1, SafeUnchanged
<1>5. m \notin ZeroTTL /\ phase \in TakenPhases => Safe(m)'
  BY <1>2, <1>4 DEF IInv, TakenIsSafe
<1>6. /\ request' \in [Messages -> RequestType] /\ TakenIsSafe' /\ RequestsWellFormed'
      /\ VersionTellsConnection'
  BY <1>1, <1>2, <1>3, <1>4, <1>5, RequestGoesStep
<1>7. RegisteredListens' /\ LiveIsRegistered' /\ SessionsWellFormed'
  BY <1>1, SessionsUnchanged
<1>8. TypeOK'
  BY <1>1, <1>6 DEF IInv, TypeOK
<1> QED BY <1>6, <1>7, <1>8 DEF IInv

LEMMA StoreStep ==
  ASSUME IInv, NEW m \in Messages, Store(m)
  PROVE  IInv'
<1>1. UNCHANGED <<user, registry, session, opened, acked, lost, crashes>>
  BY DEF Store
<1>2. rows \subseteq rows' /\ rows' \subseteq Messages /\ Safe(m)'
  BY DEF Store, IInv, TypeOK, Safe
<1>3. ~RequestAt(m, "new") /\ RequestGoes(m, "refetch")
  BY DEF Store, RequestAt
<1>4. \A k \in Messages : Safe(k) => Safe(k)'
  BY <1>1, <1>2, SafeUnchanged
<1>5. /\ request' \in [Messages -> RequestType] /\ TakenIsSafe' /\ RequestsWellFormed'
      /\ VersionTellsConnection'
  BY <1>1, <1>2, <1>3, <1>4, RequestGoesStep DEF RequestPhases
<1>6. RegisteredListens' /\ LiveIsRegistered' /\ SessionsWellFormed'
  BY <1>1, SessionsUnchanged
<1>7. TypeOK'
  BY <1>1, <1>2, <1>5 DEF IInv, TypeOK
<1> QED BY <1>5, <1>6, <1>7 DEF IInv

LEMMA RefetchStep ==
  ASSUME IInv, NEW m \in Messages, Refetch(m)
  PROVE  IInv'
<1>1. UNCHANGED <<user, rows, registry, session, opened, acked, lost, crashes>>
  BY DEF Refetch
<1>2. user \in UserType /\ ~RequestAt(m, "new")
  BY DEF IInv, TypeOK, Refetch, RequestAt
<1>3. \A k \in Messages : Safe(k) => Safe(k)'
  BY <1>1, SafeUnchanged
<1>4. m \notin ZeroTTL => Safe(m)'
  BY <1>3 DEF IInv, TakenIsSafe, Taken, Refetch, RequestAt
<1>5. /\ request' \in [Messages -> RequestType] /\ TakenIsSafe' /\ RequestsWellFormed'
      /\ VersionTellsConnection'
  <2> DEFINE R == [phase |-> "trigger", node_id |-> user.node_id,
                   connected_at |-> user.connected_at, version |-> user.version]
  <2>1. CASE user.exists /\ user.node_id # NoNode /\ request' = [request EXCEPT ![m] = R]
    <3>1. /\ R \in RequestType /\ R.node_id \in Nodes
          /\ R.version <= user.version /\ R.connected_at = user.connected_at
      BY <1>2, <2>1 DEF RequestType, RequestPhases, UserType
    <3> HIDE DEF R
    <3> QED BY <1>1, <1>3, <1>4, <2>1, <3>1, RequestStep
  <2>2. CASE \E phase \in {"stored", "failed"} : RequestGoes(m, phase)
    BY <1>1, <1>2, <1>3, <1>4, <2>2, RequestGoesStep DEF RequestPhases
  <2> QED BY <2>1, <2>2 DEF Refetch
<1>6. RegisteredListens' /\ LiveIsRegistered' /\ SessionsWellFormed'
  BY <1>1, SessionsUnchanged
<1>7. TypeOK'
  BY <1>1, <1>5 DEF IInv, TypeOK
<1> QED BY <1>5, <1>6, <1>7 DEF IInv

LEMMA RemoveNodeIdStep ==
  ASSUME IInv, NEW m \in Messages, RemoveNodeId(m)
  PROVE  IInv'
<1>1. UNCHANGED <<rows, registry, session, opened, acked, lost, crashes>>
  BY DEF RemoveNodeId
<1>2. /\ user' \in UserType
      /\ user'.version = user.version /\ user'.connected_at = user.connected_at
  BY DEF IInv, TypeOK, RemoveNodeId, ClearNodeId, UserType
<1>3. \A k \in Messages : Safe(k) => Safe(k)'
  BY <1>1, SafeUnchanged
<1>4. PICK phase \in {"dropped", "store", "stored"} :
        RequestGoes(m, phase) /\ (phase = "stored" => Taken(m))
  BY DEF RemoveNodeId, Undelivered, Taken, RequestAt
<1>5. ~RequestAt(m, "new")
  BY DEF RemoveNodeId, RequestAt
<1>6. m \notin ZeroTTL /\ phase \in TakenPhases => Safe(m)'
  BY <1>3, <1>4 DEF IInv, TakenIsSafe
<1>7. /\ request' \in [Messages -> RequestType] /\ TakenIsSafe' /\ RequestsWellFormed'
      /\ VersionTellsConnection'
  BY <1>2, <1>3, <1>4, <1>5, <1>6, RequestGoesStep DEF RequestPhases
<1>8. RegisteredListens' /\ LiveIsRegistered' /\ SessionsWellFormed'
  BY <1>1, SessionsUnchanged
<1>9. TypeOK'
  BY <1>1, <1>2, <1>7 DEF IInv, TypeOK
<1> QED BY <1>7, <1>8, <1>9 DEF IInv

-----------------------------------------------------------------------------
(* A node crash: what its sessions held is counted as lost. *)

LEMMA CrashStep ==
  ASSUME IInv, NEW n \in Nodes, Crash(n)
  PROVE  IInv'
<1> DEFINE dead == {s \in Sessions : session[s].node = n /\ ~At(s, "done")}
           Dead(s) == [session[s] EXCEPT !.phase = "done", !.snotif_stream = <<>>,
                                         !.unacked_direct = {}, !.unacked_stored = {}]
<1>1. /\ session \in [Sessions -> SessionType]
      /\ registry \in [Nodes -> Sessions \cup {NoSession}]
      /\ lost \subseteq Messages /\ crashes \in 0..MaxCrashes
  BY DEF IInv, TypeOK
<1>2. /\ UNCHANGED <<user, rows, request, opened, acked>>
      /\ lost' = lost \cup UNION {InMemory(session[s]) : s \in dead}
      /\ crashes < MaxCrashes /\ crashes' = crashes + 1
      /\ registry' = [registry EXCEPT ![n] = NoSession]
      /\ session' = [s \in Sessions |-> IF s \in dead THEN Dead(s) ELSE session[s]]
  BY DEF Crash
<1>3. \A s \in dead : s \in Sessions /\ session[s].node = n /\ session'[s] = Dead(s)
  BY <1>2
<1>4. \A s \in Sessions \ dead : session'[s] = session[s]
  BY <1>2
<1>5. \A s \in Sessions : session[s].phase \in {"live", "closing"} /\ session[s].node = n
                            => s \in dead
  BY DEF At
<1>6. \A s \in dead : /\ session'[s] \in SessionType /\ session'[s].phase = "done"
                      /\ WellFormed(session'[s])
  <2> TAKE s \in dead
  <2>0. <<>> \in Seq(ServerNotifications)
    OBVIOUS
  <2>1. session[s] \in SessionType
    BY <1>1
  <2>2. /\ Dead(s) \in SessionType /\ Dead(s).phase = "done" /\ Dead(s).node = n
        /\ Dead(s).snotif_stream = <<>> /\ Dead(s).unacked_direct = {}
    BY <2>0, <2>1 DEF SessionType, SessionPhases
  <2> QED BY <1>3, <2>2 DEF WellFormed
<1> HIDE DEF dead, Dead
<1>7. session' \in [Sessions -> SessionType]
  <2>1. \A s \in Sessions : session'[s] \in SessionType
    BY <1>1, <1>4, <1>6
  <2> QED BY <1>2, <2>1
<1>8. RegisteredListens'
  <2> SUFFICES ASSUME NEW k \in Nodes, registry'[k] # NoSession
               PROVE  /\ session'[registry'[k]].phase \in {"live", "closing"}
                      /\ session'[registry'[k]].node = k
    BY DEF RegisteredListens, Registered
  <2>1. k # n /\ registry'[k] = registry[k] /\ registry[k] \in Sessions
    BY <1>1, <1>2
  <2>2. session[registry[k]].phase \in {"live", "closing"} /\ session[registry[k]].node = k
    BY <2>1 DEF IInv, RegisteredListens, Registered
  <2> QED BY <1>3, <1>4, <2>1, <2>2
<1>9. LiveIsRegistered'
  <2> SUFFICES ASSUME NEW s \in Sessions, session'[s].phase = "live"
               PROVE  \/ registry'[session'[s].node] = s
                      \/ Holds(session'[s].snotif_stream, Disconnect)
    BY DEF LiveIsRegistered, At
  <2>1. s \notin dead /\ session'[s] = session[s]
    BY <1>4, <1>6
  <2>2. session[s].node # n /\ session[s].node \in Nodes
    BY <1>5, <2>1 DEF IInv, SessionsWellFormed, WellFormed
  <2>3. registry[session[s].node] = s \/ Holds(session[s].snotif_stream, Disconnect)
    BY <2>1 DEF IInv, LiveIsRegistered, At
  <2> QED BY <1>1, <1>2, <2>1, <2>2, <2>3
<1>10. SessionsWellFormed'
  BY <1>4, <1>6 DEF IInv, SessionsWellFormed
<1>11. \A m \in Messages : Safe(m) => Safe(m)'
  <2> SUFFICES ASSUME NEW m \in Messages, Safe(m) PROVE Safe(m)'
    OBVIOUS
  <2>1. CASE m \in acked \cup lost \cup rows
    BY <1>2, <2>1 DEF Safe
  <2>2. CASE \E s \in Sessions : m \in InMemory(session[s])
    <3>1. PICK s \in Sessions : m \in InMemory(session[s])
      BY <2>2
    <3>2. CASE s \in dead
      BY <1>2, <3>1, <3>2 DEF Safe
    <3>3. CASE s \notin dead
      <4>1. session'[s] = session[s]
        BY <1>4, <3>3
      <4>2. m \in InMemory(session'[s])
        BY <3>1, <4>1
      <4> QED BY <4>2 DEF Safe
    <3> QED BY <3>2, <3>3
  <2> QED BY <2>1, <2>2 DEF Safe
<1>12. TakenIsSafe'
  BY <1>2, <1>11 DEF IInv, TakenIsSafe, Taken
<1>13. RequestsWellFormed' /\ VersionTellsConnection'
  BY <1>2 DEF IInv, RequestsWellFormed, VersionTellsConnection
<1>14. lost' \subseteq Messages
  <2>1. \A s \in dead : InMemory(session[s]) \subseteq Messages
    BY <1>1, <1>3 DEF InMemory, Queued, SessionType
  <2> QED BY <1>1, <1>2, <2>1
<1>15. crashes' \in 0..MaxCrashes
  BY <1>1, <1>2, CrashAssumption
<1>16. registry' \in [Nodes -> Sessions \cup {NoSession}]
  BY <1>1, <1>2
<1>17. TypeOK'
  BY <1>2, <1>7, <1>14, <1>15, <1>16 DEF IInv, TypeOK
<1> QED BY <1>8, <1>9, <1>10, <1>12, <1>13, <1>17 DEF IInv

-----------------------------------------------------------------------------
(* The theorems. *)

LEMMA InitIInv ==
  ASSUME Init
  PROVE  IInv
<1>1. TypeOK
  BY CrashAssumption DEF Init, TypeOK, UserType, SessionType, SessionPhases,
                         RequestType, RequestPhases
<1>2. RegisteredListens /\ LiveIsRegistered
  BY DEF Init, RegisteredListens, Registered, LiveIsRegistered, At
<1>3. SessionsWellFormed
  BY DEF Init, SessionsWellFormed, WellFormed
<1>4. TakenIsSafe /\ RequestsWellFormed /\ VersionTellsConnection
  BY DEF Init, TakenIsSafe, Taken, RequestsWellFormed, VersionTellsConnection
<1> QED BY <1>1, <1>2, <1>3, <1>4 DEF IInv

LEMMA NextIInv ==
  ASSUME IInv, [Next]_vars
  PROVE  IInv'
<1>1. ASSUME NEW s \in Sessions, Connect(s) PROVE IInv'
  BY <1>1, OpenStep, GetUserStep, UpdateUserStep, InitialCheckStep, RegistryConnectStep
     DEF Connect
<1>2. ASSUME NEW s \in Sessions, Serve(s) PROVE IInv'
  BY <1>2, OnServerNotifStep, CloseStep, ResetUaidStep, AckDirectStep, AckStoredStep DEF Serve
<1>3. ASSUME NEW s \in Sessions, Cleanup(s) PROVE IInv'
  BY <1>3, RegistryDisconnectStep, DrainStep, CheckReconnectStep, NotifyReconnectedStep,
     SaveMessageStep DEF Cleanup
<1>4. ASSUME NEW s \in Sessions, SaveFails(s) PROVE IInv'
  BY <1>4, SaveFailsStep
<1>5. ASSUME NEW m \in Messages, Route(m) PROVE IInv'
  BY <1>5, PostStep, SendAcceptedStep, MoveOnStep, RemoveNodeIdStep, StoreStep, RefetchStep,
     TriggerAcceptedStep DEF Route
<1>6. ASSUME NEW n \in Nodes, Crash(n) PROVE IInv'
  BY <1>6, CrashStep
<1>7. CASE UNCHANGED vars
  BY <1>7 DEF vars, IInv, TypeOK, RegisteredListens, Registered, LiveIsRegistered, At,
              SessionsWellFormed, TakenIsSafe, Taken, Safe, RequestsWellFormed,
              VersionTellsConnection
<1> QED BY <1>1, <1>2, <1>3, <1>4, <1>5, <1>6, <1>7 DEF Next

LEMMA Invariance == Spec => []IInv
<1>1. Init => IInv
  BY InitIInv
<1>2. IInv /\ [Next]_vars => IInv'
  BY NextIInv
<1> QED BY <1>1, <1>2, PTL DEF Spec

\* Every variable of the delivery path keeps its type.
THEOREM TypeCorrect == Spec => []TypeOK
<1>1. IInv => TypeOK
  BY DEF IInv
<1> QED BY <1>1, Invariance, PTL

\* No notification the router answered with 201 Created is lost unless a node
\* crashed or a save failed while holding it (route_notification, shutdown and
\* save_and_notify_unacked_direct_notifs).
THEOREM NothingAcceptedIsLost == Spec => []AcceptedNotLost
<1>1. IInv => AcceptedNotLost
  <2> SUFFICES ASSUME IInv, NEW m \in Messages \ ZeroTTL, Answered(m),
                      ~(m \in acked \cup lost \cup rows)
               PROVE  \E s \in Sessions : ~At(s, "done") /\ m \in InMemory(session[s])
    BY DEF AcceptedNotLost
  <2>1. PICK s \in Sessions : m \in InMemory(session[s])
    BY DEF IInv, TakenIsSafe, Taken, Answered, Safe
  <2>2. At(s, "done") => InMemory(session[s]) = {}
    BY DEF IInv, SessionsWellFormed, WellFormed, At, InMemory, Queued, Holds
  <2> QED BY <2>1, <2>2
<1> QED BY <1>1, Invariance, PTL

\* A live session is registered or has been told to disconnect
\* (ClientRegistry::connect and disconnect).
THEOREM RegistryConsistent == Spec => []LiveIsRegistered
<1>1. IInv => LiveIsRegistered
  BY DEF IInv
<1> QED BY <1>1, Invariance, PTL

\* A session that a node's registry names still reads its stream: what
\* ClientRegistry::notify pushes into it is drained, if only by the clean-up.
THEOREM RegisteredSessionsListen == Spec => []RegisteredListens
<1>1. IInv => RegisteredListens
  BY DEF IInv
<1> QED BY <1>1, Invariance, PTL

\* remove_node_id clears the node of the connection the router had looked up
\* and of no later one.
THEOREM OnlyStaleCleared == Spec => OnlyStaleNodeCleared
<1> DEFINE Cleared == user.node_id # NoNode /\ user'.exists /\ user'.node_id = NoNode
           Stale == \E m \in Messages : request[m].phase # request'[m].phase
                                         /\ request[m].connected_at = user.connected_at
<1>1. ASSUME IInv, [Next]_vars PROVE Cleared => Stale
  <2>1. ASSUME NEW m \in Messages, RemoveNodeId(m) PROVE Cleared => Stale
    <3>1. request \in [Messages -> RequestType] /\ request[m] \in RequestType
      BY <1>1 DEF IInv, TypeOK
    <3>2. request[m].phase \in {"gone", "unreachable"} /\ request'[m].phase # request[m].phase
      BY <2>1, <3>1 DEF RemoveNodeId, RequestAt, Undelivered, RequestGoes, RequestType
    <3>3. Cleared => user.version = request[m].version
      BY <2>1 DEF RemoveNodeId, ClearNodeId
    <3> QED BY <1>1, <3>2, <3>3 DEF IInv, VersionTellsConnection
  <2>2. ASSUME NEW s \in Sessions, UpdateUser(s) PROVE ~Cleared
    <3>1. session[s].node \in Nodes /\ user \in UserType
      BY <1>1, <2>2 DEF IInv, TypeOK, SessionsWellFormed, WellFormed, UpdateUser, At
    <3> QED BY <2>2, <3>1, NodeAssumption DEF UpdateUser, UserType
  <2>3. ASSUME NEW s \in Sessions, ResetUaid(s) PROVE ~Cleared
    BY <1>1, <2>3 DEF ResetUaid, IInv, TypeOK, UserType
  <2>4. ASSUME user' = user PROVE ~Cleared
    BY <2>4
  <2>5. ASSUME NEW s \in Sessions, Connect(s) PROVE user' = user \/ UpdateUser(s)
    BY <2>5 DEF Connect, Open, GetUser, InitialCheck, RegistryConnect
  <2>6. ASSUME NEW s \in Sessions, Serve(s) PROVE user' = user \/ ResetUaid(s)
    BY <2>6 DEF Serve, OnServerNotif, Close, AckDirect, AckStored
  <2>7. ASSUME NEW s \in Sessions, Cleanup(s) \/ SaveFails(s) PROVE user' = user
    BY <2>7 DEF Cleanup, RegistryDisconnect, Drain, CheckReconnect, NotifyReconnected,
                SaveMessage, SaveFails
  <2>8. ASSUME NEW m \in Messages, Route(m) PROVE user' = user \/ RemoveNodeId(m)
    BY <2>8 DEF Route, Post, SendAccepted, SendRefused, SendFails, RequestFails, Store,
                Refetch, TriggerAccepted, TriggerRefused, TriggerFails
  <2>9. ASSUME NEW n \in Nodes, Crash(n) PROVE user' = user
    BY <2>9 DEF Crash
  <2>10. CASE UNCHANGED vars
    BY <2>4, <2>10 DEF vars
  <2> HIDE DEF Cleared, Stale
  <2> QED BY <1>1, <2>1, <2>2, <2>3, <2>4, <2>5, <2>6, <2>7, <2>8, <2>9, <2>10 DEF Next
<1>2. IInv /\ [Next]_vars => [Cleared => Stale]_vars
  BY <1>1
<1> QED BY <1>2, Invariance, PTL DEF Spec, OnlyStaleNodeCleared

-----------------------------------------------------------------------------
(***************************************************************************)
(* Module Delivery implements module Mailbox.                              *)
(***************************************************************************)

(***************************************************************************)
(* A session has sent from storage only what is still stored or was acked   *)
(* by one of the sessions that sent it: the ack of a copy that is no longer *)
(* stored is the ack of a message that was acked before.                    *)
(***************************************************************************)
SentIsKnown == \A s \in Sessions : session[s].unacked_stored \subseteq rows \cup acked

MailboxStep == [Service!Next]_(Service!vars)

-----------------------------------------------------------------------------
(* What is held, and what a step does to it. *)

\* A session that is done holds nothing, so it makes no difference to Held.
LEMMA HeldIs ==
  ASSUME IInv
  PROVE  \A m : m \in Held <=> m \in rows \/ \E s \in Sessions : m \in InMemory(session[s])
<1>1. \A s \in Sessions : At(s, "done") => InMemory(session[s]) = {}
  BY DEF IInv, SessionsWellFormed, WellFormed, At, InMemory, Queued, Holds
<1> QED BY <1>1 DEF Held

LEMMA HeldAfter ==
  ASSUME IInv'
  PROVE  \A m : m \in Held' <=> m \in rows' \/ \E s \in Sessions : m \in InMemory(session'[s])
<1>1. \A s \in Sessions : session'[s].phase = "done" => InMemory(session'[s]) = {}
  BY DEF IInv, SessionsWellFormed, WellFormed, InMemory, Queued, Holds
<1> QED BY <1>1 DEF Held, At

\* What is left in a stream was in it.
LEMMA TailHeld ==
  ASSUME NEW S, NEW q \in Seq(S), q # <<>>, NEW x, Holds(Tail(q), x)
  PROVE  Holds(q, x)
<1>1. /\ Len(q) \in Nat /\ DOMAIN q = 1..Len(q) /\ DOMAIN Tail(q) = 1..(Len(q) - 1)
      /\ \A i \in 1..(Len(q) - 1) : Tail(q)[i] = q[i + 1]
  OBVIOUS
<1>2. PICK i \in 1..(Len(q) - 1) : Tail(q)[i] = x
  BY <1>1 DEF Holds
<1>3. i + 1 \in DOMAIN q /\ q[i + 1] = x
  BY <1>1, <1>2
<1> QED BY <1>3 DEF Holds

\* Disconnect and CheckStorage carry no message.
LEMMA PushesNoMessage ==
  ASSUME NEW S \in SessionType, NEW x \in ServerNotifications,
         \A m \in Messages : x # Notification(m)
  PROVE  InMemory([S EXCEPT !.snotif_stream = Append(@, x)]) = InMemory(S)
<1> DEFINE T == [S EXCEPT !.snotif_stream = Append(@, x)]
<1>1. /\ T.snotif_stream = Append(S.snotif_stream, x) /\ T.unacked_direct = S.unacked_direct
      /\ S.snotif_stream \in Seq(ServerNotifications)
  BY DEF SessionType
<1> HIDE DEF T
<1>2. \A m \in Messages : Holds(T.snotif_stream, Notification(m))
                            <=> Holds(S.snotif_stream, Notification(m))
  BY <1>1, AppendHolds
<1>3. InMemory(T) = InMemory(S)
  BY <1>1, <1>2 DEF InMemory, Queued
<1> QED BY <1>3 DEF T

\* A step that moves nothing between storage and memory.
LEMMA HeldUnchanged ==
  ASSUME IInv, IInv', UNCHANGED rows,
         \A t \in Sessions : InMemory(session'[t]) = InMemory(session[t])
  PROVE  Held' = Held
<1>1. \A m : m \in Held' <=> m \in Held
  BY HeldIs, HeldAfter
<1> QED BY <1>1

\* Such a step of a session is a stutter of the mailbox.
LEMMA QuietStep ==
  ASSUME IInv, IInv', UNCHANGED <<rows, request, acked, lost>>,
         \A t \in Sessions : InMemory(session'[t]) = InMemory(session[t])
  PROVE  MailboxStep
<1>1. Held' = Held
  BY HeldUnchanged
<1>2. Promised' = Promised
  BY DEF Promised, Answered
<1> QED BY <1>1, <1>2 DEF MailboxStep, Service!vars

\* A step of one session that keeps its stream and its unacked notifications.
LEMMA QuietSession ==
  ASSUME IInv, IInv', NEW s \in Sessions, NEW S, Becomes(s, S),
         S.snotif_stream = session[s].snotif_stream,
         S.unacked_direct = session[s].unacked_direct,
         UNCHANGED <<rows, request, acked, lost>>
  PROVE  MailboxStep
<1>1. session \in [Sessions -> SessionType]
  BY DEF IInv, TypeOK
<1>2. session'[s] = S /\ \A t \in Sessions \ {s} : session'[t] = session[t]
  BY <1>1 DEF Becomes
<1>3. InMemory(session'[s]) = InMemory(session[s])
  BY <1>2 DEF InMemory, Queued
<1>4. \A t \in Sessions : InMemory(session'[t]) = InMemory(session[t])
  BY <1>2, <1>3
<1> QED BY <1>4, QuietStep

\* A step of a request whose notification had not been answered: the answer, if
\* this is it, promises what is held, acked, lost or of TTL 0.
LEMMA AnswerStep ==
  ASSUME IInv, IInv', NEW m \in Messages, ~Answered(m),
         \A k \in Messages \ {m} : request'[k] = request[k],
         Held' = Held, UNCHANGED <<acked, lost>>
  PROVE  MailboxStep
<1>1. CASE Answered(m)'
  <2>1. Promised' = Promised \cup {m}
    BY <1>1 DEF Promised, Answered
  <2>2. m \in Held \cup acked \cup lost \cup ZeroTTL
    <3>1. m \notin ZeroTTL => Safe(m)'
      BY <1>1 DEF IInv, TakenIsSafe, Taken, TakenPhases, Answered
    <3>2. Safe(m)' => \/ m \in acked' \cup lost' \cup rows'
                      \/ \E s \in Sessions : m \in InMemory(session'[s])
      BY DEF Safe
    <3>3. Safe(m)' => m \in acked' \cup lost' \cup Held'
      BY <3>2, HeldAfter
    <3> QED BY <3>1, <3>3
  <2>3. Service!Promise(m)
    BY <2>1, <2>2 DEF Service!Promise
  <2> QED BY <2>3 DEF MailboxStep, Service!Next
<1>2. CASE ~Answered(m)'
  <2>1. Promised' = Promised
    BY <1>2 DEF Promised, Answered
  <2> QED BY <2>1 DEF MailboxStep, Service!vars
<1> QED BY <1>1, <1>2

\* A copy is made while the sender waits.
LEMMA TakeStep ==
  ASSUME NEW m \in Messages, ~Answered(m),
         \A k \in Messages \ {m} : request'[k] = request[k],
         Held' = Held \cup {m}, UNCHANGED <<acked, lost>>
  PROVE  MailboxStep
<1>1. m \notin Promised
  BY DEF Promised
<1>2. Promised' \in {Promised, Promised \cup {m}}
  <2>1. CASE Answered(m)'
    <3>1. Promised' = Promised \cup {m}
      BY <2>1 DEF Promised, Answered
    <3> QED BY <3>1
  <2>2. CASE ~Answered(m)'
    <3>1. Promised' = Promised
      BY <2>2 DEF Promised, Answered
    <3> QED BY <3>1
  <2> QED BY <2>1, <2>2
<1>3. Service!Take(m)
  BY <1>1, <1>2 DEF Service!Take
<1> QED BY <1>3 DEF MailboxStep, Service!Next

\* Copies disappear in a failure.
LEMMA FailStep ==
  ASSUME UNCHANGED <<request, acked>>, lost \subseteq lost', lost' \subseteq lost \cup Held,
         Held' \subseteq Held, Held \ Held' \subseteq lost'
  PROVE  MailboxStep
<1>1. Promised' = Promised
  BY DEF Promised, Answered
<1>2. Service!Fail
  BY <1>1 DEF Service!Fail
<1> QED BY <1>2 DEF MailboxStep, Service!Next

-----------------------------------------------------------------------------
(* The steps of a session. *)

LEMMA ConnectRefines ==
  ASSUME IInv, IInv', NEW s \in Sessions, Connect(s)
  PROVE  MailboxStep
<1>0. session \in [Sessions -> SessionType] /\ session[s] \in SessionType
      /\ registry \in [Nodes -> Sessions \cup {NoSession}]
  BY DEF IInv, TypeOK
<1>1. ASSUME NEW n \in Nodes, Open(s, n) PROVE MailboxStep
  <2> DEFINE S == [session[s] EXCEPT !.phase = "get_user", !.node = n,
                                     !.connected_at = opened + 1]
  <2>1. /\ Becomes(s, S) /\ UNCHANGED <<rows, request, acked, lost>>
        /\ S.snotif_stream = session[s].snotif_stream
        /\ S.unacked_direct = session[s].unacked_direct
    BY <1>0, <1>1 DEF Open, SessionType
  <2> QED BY <2>1, QuietSession
<1>2. ASSUME GetUser(s) PROVE MailboxStep
  <2> DEFINE S == IF user.exists /\ user.connected_at <= session[s].connected_at
                  THEN [session[s] EXCEPT !.phase = "update_user", !.version = user.version]
                  ELSE [session[s] EXCEPT !.phase = "done"]
  <2>1. Becomes(s, S) /\ UNCHANGED <<rows, request, acked, lost>>
    BY <1>2 DEF GetUser
  <2>2. /\ S.snotif_stream = session[s].snotif_stream
        /\ S.unacked_direct = session[s].unacked_direct
    BY <1>0 DEF SessionType
  <2> QED BY <2>1, <2>2, QuietSession
<1>3. ASSUME UpdateUser(s) PROVE MailboxStep
  <2>1. PICK phase \in {"check", "done"} : Goes(s, phase)
    BY <1>3 DEF UpdateUser
  <2> DEFINE S == [session[s] EXCEPT !.phase = phase]
  <2>2. /\ Becomes(s, S) /\ UNCHANGED <<rows, request, acked, lost>>
        /\ S.snotif_stream = session[s].snotif_stream
        /\ S.unacked_direct = session[s].unacked_direct
    BY <1>0, <1>3, <2>1 DEF UpdateUser, Goes, SessionType
  <2> QED BY <2>2, QuietSession
<1>4. ASSUME InitialCheck(s) PROVE MailboxStep
  <2> DEFINE S == [session[s] EXCEPT !.phase = "connect", !.unacked_stored = rows]
  <2>1. /\ Becomes(s, S) /\ UNCHANGED <<rows, request, acked, lost>>
        /\ S.snotif_stream = session[s].snotif_stream
        /\ S.unacked_direct = session[s].unacked_direct
    BY <1>0, <1>4 DEF InitialCheck, SessionType
  <2> QED BY <2>1, QuietSession
<1>5. ASSUME RegistryConnect(s) PROVE MailboxStep
  <2> SUFFICES ASSUME NEW t \in Sessions
               PROVE  InMemory(session'[t]) = InMemory(session[t])
    BY <1>5, QuietStep DEF RegistryConnect
  <2>0. session[t] \in SessionType
    BY <1>0
  <2>1. CASE t = s
    <3>1. session'[t] = [session[t] EXCEPT !.phase = "live"]
      BY <1>5, <2>1 DEF RegistryConnect
    <3>2. /\ session'[t].snotif_stream = session[t].snotif_stream
          /\ session'[t].unacked_direct = session[t].unacked_direct
      BY <2>0, <3>1 DEF SessionType
    <3> QED BY <3>2 DEF InMemory, Queued
  <2>2. CASE t # s /\ t = registry[session[s].node]
    <3>1. session'[t] = [session[t] EXCEPT !.snotif_stream = Append(@, Disconnect)]
      BY <1>5, <2>2 DEF RegistryConnect
    <3> QED BY <2>0, <3>1, PushesNoMessage, NotificationKinds
  <2>3. CASE t # s /\ t # registry[session[s].node]
    BY <1>5, <2>3 DEF RegistryConnect
  <2> QED BY <2>1, <2>2, <2>3
<1> QED BY <1>1, <1>2, <1>3, <1>4, <1>5 DEF Connect

LEMMA AckDirectRefines ==
  ASSUME IInv, IInv', NEW s \in Sessions, NEW m \in Messages, AckDirect(s, m)
  PROVE  MailboxStep
<1> DEFINE S == [session[s] EXCEPT !.unacked_direct = @ \ {m}]
<1>1. session \in [Sessions -> SessionType] /\ session[s] \in SessionType
  BY DEF IInv, TypeOK
<1>2. /\ session'[s] = S /\ \A t \in Sessions \ {s} : session'[t] = session[t]
      /\ m \in session[s].unacked_direct
      /\ acked' = acked \cup {m} /\ UNCHANGED <<rows, request, lost>>
  BY <1>1 DEF AckDirect, Becomes
<1>3. /\ S.snotif_stream = session[s].snotif_stream
      /\ S.unacked_direct = session[s].unacked_direct \ {m}
  BY <1>1 DEF SessionType
<1> HIDE DEF S
<1>4. m \in InMemory(session[s])
  BY <1>2 DEF InMemory
<1>5. \A k : k # m => (k \in InMemory(S) <=> k \in InMemory(session[s]))
  BY <1>3 DEF InMemory, Queued
<1>6. InMemory(S) \subseteq InMemory(session[s])
  BY <1>3 DEF InMemory, Queued
<1>7. m \in Held
  BY <1>4, HeldIs
<1>8. \A k : k # m => (k \in Held' <=> k \in Held)
  BY <1>2, <1>5, HeldIs, HeldAfter
<1>9. m \in Held' => Held' = Held
  BY <1>7, <1>8
<1>10. m \notin Held' => Held' = Held \ {m}
  BY <1>7, <1>8
<1>11. Promised' = Promised
  BY <1>2 DEF Promised, Answered
<1>12. Service!Ack(m)
  BY <1>2, <1>7, <1>9, <1>10, <1>11 DEF Service!Ack
<1> QED BY <1>12 DEF MailboxStep, Service!Next

LEMMA AckStoredRefines ==
  ASSUME IInv, IInv', SentIsKnown, NEW s \in Sessions, NEW m \in Messages, AckStored(s, m)
  PROVE  MailboxStep
<1> DEFINE S == [session[s] EXCEPT !.unacked_stored = @ \ {m}]
<1>1. session \in [Sessions -> SessionType] /\ session[s] \in SessionType
  BY DEF IInv, TypeOK
<1>2. /\ session'[s] = S /\ \A t \in Sessions \ {s} : session'[t] = session[t]
      /\ m \in session[s].unacked_stored
      /\ acked' = acked \cup {m} /\ rows' = rows \ {m} /\ UNCHANGED <<request, lost>>
  BY <1>1 DEF AckStored, Becomes
<1>3. /\ S.snotif_stream = session[s].snotif_stream
      /\ S.unacked_direct = session[s].unacked_direct
  BY <1>1 DEF SessionType
<1> HIDE DEF S
<1>4. \A t \in Sessions : InMemory(session'[t]) = InMemory(session[t])
  BY <1>2, <1>3 DEF InMemory, Queued
<1>5. \A k : k # m => (k \in Held' <=> k \in Held)
  BY <1>2, <1>4, HeldIs, HeldAfter
<1>6. m \in Held' => m \in Held
  BY <1>2, <1>4, HeldIs, HeldAfter
<1>7. Promised' = Promised
  BY <1>2 DEF Promised, Answered
<1>8. CASE m \in rows
  <2>1. m \in Held
    BY <1>8, HeldIs
  <2>2. m \in Held' => Held' = Held
    BY <1>5, <2>1
  <2>3. m \notin Held' => Held' = Held \ {m}
    BY <1>5, <2>1
  <2>4. Service!Ack(m)
    BY <1>2, <1>7, <2>1, <2>2, <2>3 DEF Service!Ack
  <2> QED BY <2>4 DEF MailboxStep, Service!Next
<1>9. CASE m \notin rows
  <2>1. m \in acked
    BY <1>2, <1>9 DEF SentIsKnown
  <2>2. UNCHANGED <<rows, request, acked, lost>>
    BY <1>2, <1>9, <2>1
  <2> QED BY <1>4, <2>2, QuietStep
<1> QED BY <1>8, <1>9

\* A notification with a TTL of 0 is forgotten once it is sent.
LEMMA OnServerNotifRefines ==
  ASSUME IInv, IInv', NEW s \in Sessions, OnServerNotif(s)
  PROVE  MailboxStep
<1> DEFINE q == session[s].snotif_stream
           T == [session[s] EXCEPT !.snotif_stream = Tail(@)]
           S == CASE Head(q) = CheckStorage -> [T EXCEPT !.unacked_stored = @ \cup rows]
                  [] Head(q) = Disconnect -> [T EXCEPT !.phase = "closing"]
                  [] OTHER -> [T EXCEPT !.unacked_direct = @ \cup ({Head(q).message} \ ZeroTTL)]
<1>1. session \in [Sessions -> SessionType] /\ session[s] \in SessionType
  BY DEF IInv, TypeOK
<1>2. /\ q \in Seq(ServerNotifications) /\ q # <<>>
      /\ session'[s] = S /\ \A t \in Sessions \ {s} : session'[t] = session[t]
      /\ UNCHANGED <<rows, request, acked, lost>>
  BY <1>1 DEF SessionType, OnServerNotif, Becomes
<1>3. /\ Head(q) \in ServerNotifications /\ Tail(q) \in Seq(ServerNotifications)
      /\ \A x : Holds(q, x) => x = Head(q) \/ Holds(Tail(q), x)
  BY <1>2, TailHolds
<1>4. \A x : Holds(Tail(q), x) => Holds(q, x)
  BY <1>2, TailHeld
<1>5. Holds(q, Head(q))
  BY <1>2 DEF Holds
<1>6. T.snotif_stream = Tail(q) /\ T.unacked_direct = session[s].unacked_direct
      /\ T \in SessionType
  BY <1>1, <1>3 DEF SessionType
<1> HIDE DEF q, T
<1>7. CASE Head(q) = CheckStorage \/ Head(q) = Disconnect
  <2>1. \/ S = [T EXCEPT !.unacked_stored = @ \cup rows]
        \/ S = [T EXCEPT !.phase = "closing"]
    BY <1>7, NotificationKinds
  <2>2. S.snotif_stream = Tail(q) /\ S.unacked_direct = session[s].unacked_direct
    BY <1>6, <2>1 DEF SessionType
  <2> HIDE DEF S
  <2>3. \A m \in Messages : Holds(Tail(q), Notification(m)) <=> Holds(q, Notification(m))
    BY <1>3, <1>4, <1>7, NotificationKinds
  <2>4. InMemory(S) = InMemory(session[s])
    BY <2>2, <2>3 DEF InMemory, Queued, q
  <2>5. \A t \in Sessions : InMemory(session'[t]) = InMemory(session[t])
    BY <1>2, <2>4
  <2> QED BY <1>2, <2>5, QuietStep
<1>8. CASE Head(q) # CheckStorage /\ Head(q) # Disconnect
  <2>1. PICK m \in Messages : Head(q) = Notification(m)
    BY <1>3, <1>8, NotificationKinds
  <2>2. S = [T EXCEPT !.unacked_direct = @ \cup ({m} \ ZeroTTL)]
    BY <1>8, <2>1, NotificationKinds
  <2>3. /\ S.snotif_stream = Tail(q)
        /\ S.unacked_direct = session[s].unacked_direct \cup ({m} \ ZeroTTL)
    BY <1>6, <2>2 DEF SessionType
  <2> HIDE DEF S
  <2>4. \A k \in Messages \ {m} : Holds(Tail(q), Notification(k)) <=> Holds(q, Notification(k))
    BY <1>3, <1>4, <2>1, NotificationKinds
  <2>5. \A k : k # m => (k \in InMemory(S) <=> k \in InMemory(session[s]))
    BY <2>3, <2>4 DEF InMemory, Queued, q
  <2>6. m \in InMemory(session[s])
    BY <1>5, <2>1 DEF InMemory, Queued, q
  <2>7. m \notin ZeroTTL => m \in InMemory(S)
    BY <2>3 DEF InMemory
  <2>8. \A k : k # m => (k \in Held' <=> k \in Held)
    BY <1>2, <2>5, HeldIs, HeldAfter
  <2>9. m \in Held /\ (m \notin ZeroTTL => m \in Held')
    BY <1>2, <2>6, <2>7, HeldIs, HeldAfter
  <2>10. Promised' = Promised
    BY <1>2 DEF Promised, Answered
  <2>11. CASE m \in Held'
    <3>1. Held' = Held
      BY <2>8, <2>9, <2>11
    <3> QED BY <1>2, <2>10, <3>1 DEF MailboxStep, Service!vars
  <2>12. CASE m \notin Held'
    <3>1. Held' = Held \ {m}
      BY <2>8, <2>12
    <3>2. Service!Expire(m)
      BY <1>2, <2>9, <2>10, <2>12, <3>1 DEF Service!Expire
    <3> QED BY <3>2 DEF MailboxStep, Service!Next
  <2> QED BY <2>11, <2>12
<1> QED BY <1>7, <1>8

LEMMA ServeRefines ==
  ASSUME IInv, IInv', SentIsKnown, NEW s \in Sessions, Serve(s)
  PROVE  MailboxStep
<1>1. session[s] \in SessionType
  BY DEF IInv, TypeOK
<1>2. ASSUME Close(s) PROVE MailboxStep
  <2> DEFINE S == [session[s] EXCEPT !.phase = IF At(s, "live") THEN "closing" ELSE "done"]
  <2>1. /\ Becomes(s, S) /\ UNCHANGED <<rows, request, acked, lost>>
        /\ S.snotif_stream = session[s].snotif_stream
        /\ S.unacked_direct = session[s].unacked_direct
    BY <1>1, <1>2 DEF Close, Goes, SessionType
  <2> QED BY <2>1, QuietSession
<1>3. ASSUME ResetUaid(s) PROVE MailboxStep
  <2> DEFINE S == [session[s] EXCEPT !.phase = "closing"]
  <2>1. /\ Becomes(s, S) /\ UNCHANGED <<rows, request, acked, lost>>
        /\ S.snotif_stream = session[s].snotif_stream
        /\ S.unacked_direct = session[s].unacked_direct
    BY <1>1, <1>3 DEF ResetUaid, Goes, SessionType
  <2> QED BY <2>1, QuietSession
<1> QED BY <1>2, <1>3, OnServerNotifRefines, AckDirectRefines, AckStoredRefines DEF Serve

-----------------------------------------------------------------------------
(* The end of a session: a copy moves to storage without a gap. *)

LEMMA SaveMessageRefines ==
  ASSUME IInv, IInv', NEW s \in Sessions, NEW m \in Messages, SaveMessage(s, m)
  PROVE  MailboxStep
<1> DEFINE rest == session[s].unacked_direct \ {m}
           S == [session[s] EXCEPT !.unacked_direct = rest,
                                   !.phase = IF rest = {} THEN "saved" ELSE "save"]
<1>1. session \in [Sessions -> SessionType] /\ session[s] \in SessionType
  BY DEF IInv, TypeOK
<1>2. /\ session'[s] = S /\ \A t \in Sessions \ {s} : session'[t] = session[t]
      /\ m \in session[s].unacked_direct
      /\ rows' = rows \cup {m} /\ UNCHANGED <<request, acked, lost>>
  BY <1>1 DEF SaveMessage, Becomes
<1>3. S.snotif_stream = session[s].snotif_stream /\ S.unacked_direct = rest
  BY <1>1 DEF SessionType
<1> HIDE DEF S
<1>4. \A k : k # m => (k \in InMemory(S) <=> k \in InMemory(session[s]))
  BY <1>3 DEF InMemory, Queued
<1>5. m \in InMemory(session[s])
  BY <1>2 DEF InMemory
<1>6. m \in Held /\ m \in Held'
  BY <1>2, <1>5, HeldIs, HeldAfter
<1>7. \A k : k # m => (k \in Held' <=> k \in Held)
  BY <1>2, <1>4, HeldIs, HeldAfter
<1>8. Held' = Held
  BY <1>6, <1>7
<1>9. Promised' = Promised
  BY <1>2 DEF Promised, Answered
<1> QED BY <1>2, <1>8, <1>9 DEF MailboxStep, Service!vars

LEMMA SaveFailsRefines ==
  ASSUME IInv, IInv', NEW s \in Sessions, SaveFails(s)
  PROVE  MailboxStep
<1> DEFINE S == [session[s] EXCEPT !.unacked_direct = {}, !.phase = "done"]
<1>1. session \in [Sessions -> SessionType] /\ session[s] \in SessionType
  BY DEF IInv, TypeOK
<1>2. /\ session'[s] = S /\ \A t \in Sessions \ {s} : session'[t] = session[t]
      /\ lost' = lost \cup session[s].unacked_direct /\ UNCHANGED <<rows, request, acked>>
  BY <1>1 DEF SaveFails, Becomes
<1>3. S.snotif_stream = session[s].snotif_stream /\ S.unacked_direct = {}
  BY <1>1 DEF SessionType
<1> HIDE DEF S
<1>4. /\ InMemory(S) \subseteq InMemory(session[s])
      /\ InMemory(session[s]) \subseteq InMemory(S) \cup session[s].unacked_direct
      /\ session[s].unacked_direct \subseteq InMemory(session[s])
  BY <1>3 DEF InMemory, Queued
<1>5. \A k : k \in Held' => k \in Held
  BY <1>2, <1>4, HeldIs, HeldAfter
<1>6. \A k : k \in Held => k \in Held' \/ k \in session[s].unacked_direct
  BY <1>2, <1>4, HeldIs, HeldAfter
<1>7. \A k \in session[s].unacked_direct : k \in Held
  BY <1>4, HeldIs
<1> QED BY <1>2, <1>5, <1>6, <1>7, FailStep

LEMMA CleanupRefines ==
  ASSUME IInv, IInv', NEW s \in Sessions, Cleanup(s)
  PROVE  MailboxStep
<1>1. session \in [Sessions -> SessionType] /\ session[s] \in SessionType
      /\ registry \in [Nodes -> Sessions \cup {NoSession}]
  BY DEF IInv, TypeOK
<1>2. ASSUME RegistryDisconnect(s) PROVE MailboxStep
  <2> DEFINE S == [session[s] EXCEPT !.phase = "drain"]
  <2>1. /\ Becomes(s, S) /\ UNCHANGED <<rows, request, acked, lost>>
        /\ S.snotif_stream = session[s].snotif_stream
        /\ S.unacked_direct = session[s].unacked_direct
    BY <1>1, <1>2 DEF RegistryDisconnect, Goes, SessionType
  <2> QED BY <2>1, QuietSession
<1>3. ASSUME Drain(s) PROVE MailboxStep
  <2> DEFINE S == [session[s] EXCEPT !.snotif_stream = <<>>, !.unacked_stored = {},
                     !.unacked_direct = InMemory(session[s]),
                     !.phase = IF InMemory(session[s]) = {} THEN "done" ELSE "save"]
  <2>1. /\ session'[s] = S /\ \A t \in Sessions \ {s} : session'[t] = session[t]
        /\ UNCHANGED <<rows, request, acked, lost>>
    BY <1>1, <1>3 DEF Drain, Becomes
  <2>2. S.snotif_stream = <<>> /\ S.unacked_direct = InMemory(session[s])
    BY <1>1 DEF SessionType
  <2> HIDE DEF S
  <2>3. InMemory(S) = InMemory(session[s])
    BY <2>2 DEF InMemory, Queued, Holds
  <2>4. \A t \in Sessions : InMemory(session'[t]) = InMemory(session[t])
    BY <2>1, <2>3
  <2> QED BY <2>1, <2>4, QuietStep
<1>4. ASSUME CheckReconnect(s) PROVE MailboxStep
  <2> DEFINE S == IF /\ user.exists
                     /\ user.connected_at # session[s].connected_at
                     /\ user.node_id # NoNode
                  THEN [session[s] EXCEPT !.phase = "notify", !.target = user.node_id]
                  ELSE [session[s] EXCEPT !.phase = "done"]
  <2>1. Becomes(s, S) /\ UNCHANGED <<rows, request, acked, lost>>
    BY <1>4 DEF CheckReconnect
  <2>2. /\ S.snotif_stream = session[s].snotif_stream
        /\ S.unacked_direct = session[s].unacked_direct
    BY <1>1 DEF SessionType
  <2> QED BY <2>1, <2>2, QuietSession
<1>5. ASSUME NotifyReconnected(s) PROVE MailboxStep
  <2> DEFINE n == session[s].target
  <2>1. CASE Goes(s, "done")
    <3> DEFINE S == [session[s] EXCEPT !.phase = "done"]
    <3>1. /\ Becomes(s, S) /\ UNCHANGED <<rows, request, acked, lost>>
          /\ S.snotif_stream = session[s].snotif_stream
          /\ S.unacked_direct = session[s].unacked_direct
      BY <1>1, <1>5, <2>1 DEF NotifyReconnected, Goes, SessionType
    <3> QED BY <3>1, QuietSession
  <2>2. CASE /\ Registered(n)
             /\ session' = [session EXCEPT ![s].phase = "done",
                              ![registry[n]].snotif_stream = Append(@, CheckStorage)]
    <3> DEFINE r == registry[n]
    <3>1. n \in Nodes /\ r \in Sessions /\ r # s
      BY <1>1, <1>5, <2>2 DEF NotifyReconnected, IInv, SessionsWellFormed, WellFormed,
                              RegisteredListens, Registered, At
    <3>2. /\ session'[s] = [session[s] EXCEPT !.phase = "done"]
          /\ session'[r] = [session[r] EXCEPT !.snotif_stream = Append(@, CheckStorage)]
          /\ \A t \in Sessions \ {s, r} : session'[t] = session[t]
      BY <1>1, <2>2, <3>1
    <3>3. InMemory(session'[s]) = InMemory(session[s])
      BY <1>1, <3>2 DEF InMemory, Queued, SessionType
    <3>4. InMemory(session'[r]) = InMemory(session[r])
      BY <1>1, <3>1, <3>2, PushesNoMessage, NotificationKinds
    <3>5. \A t \in Sessions : InMemory(session'[t]) = InMemory(session[t])
      BY <3>2, <3>3, <3>4
    <3> QED BY <1>5, <3>5, QuietStep DEF NotifyReconnected
  <2> QED BY <1>5, <2>1, <2>2 DEF NotifyReconnected
<1> QED BY <1>2, <1>3, <1>4, <1>5, SaveMessageRefines DEF Cleanup

LEMMA CrashRefines ==
  ASSUME IInv, IInv', NEW n \in Nodes, Crash(n)
  PROVE  MailboxStep
<1> DEFINE dead == {s \in Sessions : session[s].node = n /\ ~At(s, "done")}
           Dead(s) == [session[s] EXCEPT !.phase = "done", !.snotif_stream = <<>>,
                                         !.unacked_direct = {}, !.unacked_stored = {}]
<1>1. session \in [Sessions -> SessionType]
  BY DEF IInv, TypeOK
<1>2. /\ UNCHANGED <<rows, request, acked>>
      /\ lost' = lost \cup UNION {InMemory(session[s]) : s \in dead}
      /\ \A s \in dead : session'[s] = Dead(s)
      /\ \A s \in Sessions \ dead : session'[s] = session[s]
  BY DEF Crash
<1>3. \A s \in dead : InMemory(session'[s]) = {}
  <2> TAKE s \in dead
  <2>1. session[s] \in SessionType /\ session'[s] = Dead(s)
    BY <1>1, <1>2
  <2>2. session'[s].snotif_stream = <<>> /\ session'[s].unacked_direct = {}
    BY <2>1 DEF SessionType
  <2> QED BY <2>2 DEF InMemory, Queued, Holds
<1>4. dead \subseteq Sessions
  OBVIOUS
<1> HIDE DEF dead, Dead
<1>5. \A k : k \in Held' => k \in Held
  BY <1>2, <1>3, HeldIs, HeldAfter
<1>6. \A k : k \in Held => k \in Held' \/ k \in lost'
  BY <1>2, <1>3, HeldIs, HeldAfter
<1>7. lost' \subseteq lost \cup Held
  BY <1>2, <1>4, HeldIs
<1> QED BY <1>2, <1>5, <1>6, <1>7, FailStep

-----------------------------------------------------------------------------
(* The router. *)

\* A step of a request that leaves sessions and storage alone.
LEMMA RouterStep ==
  ASSUME IInv, IInv', NEW m \in Messages, ~Answered(m),
         \A k \in Messages \ {m} : request'[k] = request[k],
         UNCHANGED <<rows, session, acked, lost>>
  PROVE  MailboxStep
<1>1. Held' = Held
  BY HeldUnchanged
<1> QED BY <1>1, AnswerStep

\* What Push does to the messages in memory.
LEMMA PushHolds ==
  ASSUME IInv, NEW n \in Nodes, Registered(n), NEW x \in ServerNotifications, Push(n, x)
  PROVE  /\ registry[n] \in Sessions
         /\ session[registry[n]] \in SessionType
         /\ session'[registry[n]] =
              [session[registry[n]] EXCEPT !.snotif_stream = Append(@, x)]
         /\ \A t \in Sessions \ {registry[n]} : session'[t] = session[t]
<1>1. /\ session \in [Sessions -> SessionType]
      /\ registry \in [Nodes -> Sessions \cup {NoSession}]
  BY DEF IInv, TypeOK
<1>2. registry[n] \in Sessions
  BY <1>1 DEF Registered
<1> QED BY <1>1, <1>2 DEF Push

LEMMA SendAcceptedRefines ==
  ASSUME IInv, IInv', NEW m \in Messages, SendAccepted(m)
  PROVE  MailboxStep
<1> DEFINE n == request[m].node_id
           r == registry[n]
           x == Notification(m)
<1>1. request \in [Messages -> RequestType] /\ request[m] \in RequestType
  BY DEF IInv, TypeOK
<1>2. /\ n \in Nodes /\ Registered(n) /\ Push(n, x)
      /\ ~Answered(m) /\ UNCHANGED <<rows, acked, lost>>
  BY DEF SendAccepted, RequestAt, Answered, IInv, RequestsWellFormed
<1>3. \A k \in Messages \ {m} : request'[k] = request[k]
  BY <1>1 DEF SendAccepted, RequestGoes
<1>4. x \in ServerNotifications
      /\ \A k \in Messages : Notification(k) = x <=> k = m
  BY NotificationKinds
<1>5. /\ r \in Sessions /\ session[r] \in SessionType
      /\ session'[r] = [session[r] EXCEPT !.snotif_stream = Append(@, x)]
      /\ \A t \in Sessions \ {r} : session'[t] = session[t]
  BY <1>2, <1>4, PushHolds
<1>6. /\ session'[r].snotif_stream = Append(session[r].snotif_stream, x)
      /\ session'[r].unacked_direct = session[r].unacked_direct
      /\ session[r].snotif_stream \in Seq(ServerNotifications)
  BY <1>5 DEF SessionType
<1> HIDE DEF x, r, n
<1>7. \A k \in Messages : Holds(session'[r].snotif_stream, Notification(k))
                            <=> Holds(session[r].snotif_stream, Notification(k)) \/ k = m
  BY <1>4, <1>6, AppendHolds
<1>8. \A k : k \in InMemory(session'[r]) <=> k \in InMemory(session[r]) \/ k = m
  BY <1>6, <1>7 DEF InMemory, Queued
<1>9. \A k : k \in Held' <=> k \in Held \/ k = m
  BY <1>2, <1>5, <1>8, HeldIs, HeldAfter
<1>10. Held' = Held \cup {m}
  BY <1>9
<1> QED BY <1>2, <1>3, <1>10, TakeStep

LEMMA StoreRefines ==
  ASSUME IInv, IInv', NEW m \in Messages, Store(m)
  PROVE  MailboxStep
<1>1. request \in [Messages -> RequestType]
  BY DEF IInv, TypeOK
<1>2. /\ ~Answered(m) /\ rows' = rows \cup {m} /\ UNCHANGED <<session, acked, lost>>
      /\ \A k \in Messages \ {m} : request'[k] = request[k]
  BY <1>1 DEF Store, RequestAt, RequestGoes, Answered
<1>3. \A k : k \in Held' <=> k \in Held \/ k = m
  BY <1>2, HeldIs, HeldAfter
<1>4. Held' = Held \cup {m}
  BY <1>3
<1> QED BY <1>2, <1>4, TakeStep

LEMMA TriggerAcceptedRefines ==
  ASSUME IInv, IInv', NEW m \in Messages, TriggerAccepted(m)
  PROVE  MailboxStep
<1> DEFINE n == request[m].node_id
           r == registry[n]
<1>1. request \in [Messages -> RequestType] /\ request[m] \in RequestType
  BY DEF IInv, TypeOK
<1>2. /\ n \in Nodes /\ Registered(n) /\ Push(n, CheckStorage)
      /\ ~Answered(m) /\ UNCHANGED <<rows, acked, lost>>
  BY DEF TriggerAccepted, RequestAt, Answered, IInv, RequestsWellFormed
<1>3. \A k \in Messages \ {m} : request'[k] = request[k]
  BY <1>1 DEF TriggerAccepted, RequestGoes
<1>4. CheckStorage \in ServerNotifications
      /\ \A k \in Messages : CheckStorage # Notification(k)
  BY NotificationKinds
<1>5. /\ r \in Sessions /\ session[r] \in SessionType
      /\ session'[r] = [session[r] EXCEPT !.snotif_stream = Append(@, CheckStorage)]
      /\ \A t \in Sessions \ {r} : session'[t] = session[t]
  BY <1>2, <1>4, PushHolds
<1>6. InMemory(session'[r]) = InMemory(session[r])
  BY <1>4, <1>5, PushesNoMessage
<1> HIDE DEF r, n
<1>7. Held' = Held
  BY <1>2, <1>5, <1>6, HeldUnchanged
<1> QED BY <1>2, <1>3, <1>7, AnswerStep

LEMMA RouteRefines ==
  ASSUME IInv, IInv', NEW m \in Messages, Route(m)
  PROVE  MailboxStep
<1>1. request \in [Messages -> RequestType]
  BY DEF IInv, TypeOK
<1>2. ASSUME \/ Post(m) \/ SendRefused(m) \/ SendFails(m) \/ RequestFails(m)
             \/ TriggerRefused(m) \/ TriggerFails(m)
      PROVE  /\ ~Answered(m) /\ UNCHANGED <<rows, session, acked, lost>>
             /\ \A k \in Messages \ {m} : request'[k] = request[k]
  BY <1>1, <1>2 DEF Post, SendRefused, SendFails, RequestFails, TriggerRefused, TriggerFails,
                    Undelivered, RequestGoes, RequestAt, Answered
<1>3. ASSUME RemoveNodeId(m) \/ Refetch(m)
      PROVE  /\ ~Answered(m) /\ UNCHANGED <<rows, session, acked, lost>>
             /\ \A k \in Messages \ {m} : request'[k] = request[k]
  BY <1>1, <1>3 DEF RemoveNodeId, Refetch, Undelivered, RequestGoes, RequestAt, Answered
<1> QED BY <1>2, <1>3, RouterStep, SendAcceptedRefines, StoreRefines, TriggerAcceptedRefines
        DEF Route

-----------------------------------------------------------------------------
(* What was sent from storage stays known. *)

LEMMA StaysKnown ==
  ASSUME SentIsKnown, rows \cup acked \subseteq rows' \cup acked',
         \A s \in Sessions : session'[s].unacked_stored \subseteq session[s].unacked_stored \cup rows
  PROVE  SentIsKnown'
BY DEF SentIsKnown

\* A step of one session.
LEMMA SessionStaysKnown ==
  ASSUME IInv, SentIsKnown, NEW s \in Sessions, NEW S, Becomes(s, S),
         S.unacked_stored \subseteq session[s].unacked_stored \cup rows,
         rows \cup acked \subseteq rows' \cup acked'
  PROVE  SentIsKnown'
<1>1. session \in [Sessions -> SessionType]
  BY DEF IInv, TypeOK
<1>2. session'[s] = S /\ \A t \in Sessions \ {s} : session'[t] = session[t]
  BY <1>1 DEF Becomes
<1> QED BY <1>2, StaysKnown

LEMMA ConnectKeepsKnown ==
  ASSUME IInv, SentIsKnown, NEW s \in Sessions, Connect(s)
  PROVE  SentIsKnown'
<1>0. session \in [Sessions -> SessionType] /\ session[s] \in SessionType
  BY DEF IInv, TypeOK
<1>1. ASSUME NEW n \in Nodes, Open(s, n) PROVE SentIsKnown'
  <2> DEFINE S == [session[s] EXCEPT !.phase = "get_user", !.node = n,
                                     !.connected_at = opened + 1]
  <2>1. /\ Becomes(s, S) /\ UNCHANGED <<rows, acked>>
        /\ S.unacked_stored = session[s].unacked_stored
    BY <1>0, <1>1 DEF Open, SessionType
  <2> QED BY <2>1, SessionStaysKnown
<1>2. ASSUME GetUser(s) PROVE SentIsKnown'
  <2> DEFINE S == IF user.exists /\ user.connected_at <= session[s].connected_at
                  THEN [session[s] EXCEPT !.phase = "update_user", !.version = user.version]
                  ELSE [session[s] EXCEPT !.phase = "done"]
  <2>1. Becomes(s, S) /\ UNCHANGED <<rows, acked>>
    BY <1>2 DEF GetUser
  <2>2. S.unacked_stored = session[s].unacked_stored
    BY <1>0 DEF SessionType
  <2> QED BY <2>1, <2>2, SessionStaysKnown
<1>3. ASSUME UpdateUser(s) PROVE SentIsKnown'
  <2>1. PICK phase \in {"check", "done"} : Goes(s, phase)
    BY <1>3 DEF UpdateUser
  <2> DEFINE S == [session[s] EXCEPT !.phase = phase]
  <2>2. /\ Becomes(s, S) /\ UNCHANGED <<rows, acked>>
        /\ S.unacked_stored = session[s].unacked_stored
    BY <1>0, <1>3, <2>1 DEF UpdateUser, Goes, SessionType
  <2> QED BY <2>2, SessionStaysKnown
<1>4. ASSUME InitialCheck(s) PROVE SentIsKnown'
  <2> DEFINE S == [session[s] EXCEPT !.phase = "connect", !.unacked_stored = rows]
  <2>1. /\ Becomes(s, S) /\ UNCHANGED <<rows, acked>>
        /\ S.unacked_stored = rows
    BY <1>0, <1>4 DEF InitialCheck, SessionType
  <2> QED BY <2>1, SessionStaysKnown
<1>5. ASSUME RegistryConnect(s) PROVE SentIsKnown'
  <2>1. UNCHANGED <<rows, acked>>
    BY <1>5 DEF RegistryConnect
  <2>2. ASSUME NEW t \in Sessions
        PROVE  session'[t].unacked_stored = session[t].unacked_stored
    <3>1. session[t] \in SessionType
      BY <1>0
    <3>2. \/ session'[t] = [session[t] EXCEPT !.phase = "live"]
          \/ session'[t] = [session[t] EXCEPT !.snotif_stream = Append(@, Disconnect)]
          \/ session'[t] = session[t]
      BY <1>5 DEF RegistryConnect
    <3> QED BY <3>1, <3>2 DEF SessionType
  <2> QED BY <2>1, <2>2, StaysKnown
<1> QED BY <1>1, <1>2, <1>3, <1>4, <1>5 DEF Connect

LEMMA ServeKeepsKnown ==
  ASSUME IInv, SentIsKnown, NEW s \in Sessions, Serve(s)
  PROVE  SentIsKnown'
<1>0. session \in [Sessions -> SessionType] /\ session[s] \in SessionType
  BY DEF IInv, TypeOK
<1>1. ASSUME OnServerNotif(s) PROVE SentIsKnown'
  <2> DEFINE q == session[s].snotif_stream
             T == [session[s] EXCEPT !.snotif_stream = Tail(@)]
             S == CASE Head(q) = CheckStorage -> [T EXCEPT !.unacked_stored = @ \cup rows]
                    [] Head(q) = Disconnect -> [T EXCEPT !.phase = "closing"]
                    [] OTHER -> [T EXCEPT !.unacked_direct = @ \cup ({Head(q).message} \ ZeroTTL)]
  <2>1. Becomes(s, S) /\ UNCHANGED <<rows, acked>>
    BY <1>1 DEF OnServerNotif
  <2>2. \/ S = [T EXCEPT !.unacked_stored = @ \cup rows]
        \/ S = [T EXCEPT !.phase = "closing"]
        \/ S = [T EXCEPT !.unacked_direct = @ \cup ({Head(q).message} \ ZeroTTL)]
    OBVIOUS
  <2> HIDE DEF S
  <2>3. S.unacked_stored \subseteq session[s].unacked_stored \cup rows
    BY <1>0, <2>2 DEF SessionType
  <2> QED BY <2>1, <2>3, SessionStaysKnown
<1>2. ASSUME NEW m \in Messages, AckDirect(s, m) PROVE SentIsKnown'
  <2> DEFINE S == [session[s] EXCEPT !.unacked_direct = @ \ {m}]
  <2>1. /\ Becomes(s, S) /\ UNCHANGED rows /\ acked \subseteq acked'
        /\ S.unacked_stored = session[s].unacked_stored
    BY <1>0, <1>2 DEF AckDirect, SessionType
  <2> QED BY <2>1, SessionStaysKnown
<1>3. ASSUME NEW m \in Messages, AckStored(s, m) PROVE SentIsKnown'
  <2> DEFINE S == [session[s] EXCEPT !.unacked_stored = @ \ {m}]
  <2>1. /\ Becomes(s, S) /\ rows' = rows \ {m} /\ acked' = acked \cup {m}
        /\ S.unacked_stored = session[s].unacked_stored \ {m}
    BY <1>0, <1>3 DEF AckStored, SessionType
  <2> QED BY <2>1, SessionStaysKnown
<1>4. ASSUME Close(s) \/ ResetUaid(s) PROVE SentIsKnown'
  <2>1. PICK phase \in {"closing", "done"} : Goes(s, phase)
    BY <1>4 DEF Close, ResetUaid
  <2> DEFINE S == [session[s] EXCEPT !.phase = phase]
  <2>2. /\ Becomes(s, S) /\ UNCHANGED <<rows, acked>>
        /\ S.unacked_stored = session[s].unacked_stored
    BY <1>0, <1>4, <2>1 DEF Close, ResetUaid, Goes, SessionType
  <2> QED BY <2>2, SessionStaysKnown
<1> QED BY <1>1, <1>2, <1>3, <1>4 DEF Serve

LEMMA CleanupKeepsKnown ==
  ASSUME IInv, SentIsKnown, NEW s \in Sessions, Cleanup(s) \/ SaveFails(s)
  PROVE  SentIsKnown'
<1>0. session \in [Sessions -> SessionType] /\ session[s] \in SessionType
      /\ registry \in [Nodes -> Sessions \cup {NoSession}]
  BY DEF IInv, TypeOK
<1>1. ASSUME RegistryDisconnect(s) PROVE SentIsKnown'
  <2> DEFINE S == [session[s] EXCEPT !.phase = "drain"]
  <2>1. /\ Becomes(s, S) /\ UNCHANGED <<rows, acked>>
        /\ S.unacked_stored = session[s].unacked_stored
    BY <1>0, <1>1 DEF RegistryDisconnect, Goes, SessionType
  <2> QED BY <2>1, SessionStaysKnown
<1>2. ASSUME Drain(s) PROVE SentIsKnown'
  <2> DEFINE S == [session[s] EXCEPT !.snotif_stream = <<>>, !.unacked_stored = {},
                     !.unacked_direct = InMemory(session[s]),
                     !.phase = IF InMemory(session[s]) = {} THEN "done" ELSE "save"]
  <2>1. Becomes(s, S) /\ UNCHANGED <<rows, acked>>
    BY <1>2 DEF Drain
  <2>2. S.unacked_stored = {}
    BY <1>0 DEF SessionType
  <2> QED BY <2>1, <2>2, SessionStaysKnown
<1>3. ASSUME NEW m \in Messages, SaveMessage(s, m) PROVE SentIsKnown'
  <2> DEFINE rest == session[s].unacked_direct \ {m}
             S == [session[s] EXCEPT !.unacked_direct = rest,
                                     !.phase = IF rest = {} THEN "saved" ELSE "save"]
  <2>1. Becomes(s, S) /\ UNCHANGED acked /\ rows \subseteq rows'
    BY <1>3 DEF SaveMessage
  <2>2. S.unacked_stored = session[s].unacked_stored
    BY <1>0 DEF SessionType
  <2> QED BY <2>1, <2>2, SessionStaysKnown
<1>4. ASSUME SaveFails(s) PROVE SentIsKnown'
  <2> DEFINE S == [session[s] EXCEPT !.unacked_direct = {}, !.phase = "done"]
  <2>1. /\ Becomes(s, S) /\ UNCHANGED <<rows, acked>>
        /\ S.unacked_stored = session[s].unacked_stored
    BY <1>0, <1>4 DEF SaveFails, SessionType
  <2> QED BY <2>1, SessionStaysKnown
<1>5. ASSUME CheckReconnect(s) PROVE SentIsKnown'
  <2> DEFINE S == IF /\ user.exists
                     /\ user.connected_at # session[s].connected_at
                     /\ user.node_id # NoNode
                  THEN [session[s] EXCEPT !.phase = "notify", !.target = user.node_id]
                  ELSE [session[s] EXCEPT !.phase = "done"]
  <2>1. Becomes(s, S) /\ UNCHANGED <<rows, acked>>
    BY <1>5 DEF CheckReconnect
  <2>2. S.unacked_stored = session[s].unacked_stored
    BY <1>0 DEF SessionType
  <2> QED BY <2>1, <2>2, SessionStaysKnown
<1>6. ASSUME NotifyReconnected(s) PROVE SentIsKnown'
  <2>1. UNCHANGED <<rows, acked>>
    BY <1>6 DEF NotifyReconnected
  <2>2. ASSUME NEW t \in Sessions
        PROVE  session'[t].unacked_stored = session[t].unacked_stored
    <3> DEFINE r == registry[session[s].target]
               U == [session EXCEPT ![s].phase = "done"]
    <3>1. session[t] \in SessionType /\ U \in [Sessions -> SessionType]
      BY <1>0 DEF SessionType, SessionPhases
    <3>2. U[t].unacked_stored = session[t].unacked_stored /\ U[t] \in SessionType
      BY <1>0, <3>1 DEF SessionType
    <3>3. \/ session' = U
          \/ session' = [U EXCEPT ![r].snotif_stream = Append(@, CheckStorage)]
      BY <1>6 DEF NotifyReconnected, Goes, Becomes
    <3> HIDE DEF U, r
    <3>4. \/ session'[t] = U[t]
          \/ session'[t] = [U[t] EXCEPT !.snotif_stream = Append(@, CheckStorage)]
      BY <3>1, <3>3
    <3> QED BY <3>2, <3>4 DEF SessionType
  <2> QED BY <2>1, <2>2, StaysKnown
<1> QED BY <1>1, <1>2, <1>3, <1>4, <1>5, <1>6 DEF Cleanup

LEMMA RouteKeepsKnown ==
  ASSUME IInv, SentIsKnown, NEW m \in Messages, Route(m)
  PROVE  SentIsKnown'
<1>0. session \in [Sessions -> SessionType]
  BY DEF IInv, TypeOK
<1>1. rows \subseteq rows' /\ UNCHANGED acked
  BY DEF Route, Post, SendAccepted, SendRefused, SendFails, RemoveNodeId, RequestFails, Store,
         Refetch, TriggerAccepted, TriggerRefused, TriggerFails
<1>2. \/ session' = session
      \/ \E x \in ServerNotifications : Push(request[m].node_id, x)
  BY NotificationKinds
     DEF Route, Post, SendAccepted, SendRefused, SendFails, RemoveNodeId, RequestFails, Store,
         Refetch, TriggerAccepted, TriggerRefused, TriggerFails
<1>3. ASSUME NEW t \in Sessions
      PROVE  session'[t].unacked_stored = session[t].unacked_stored
  <2>1. session[t] \in SessionType
    BY <1>0
  <2>2. \/ session'[t] = session[t]
        \/ \E x \in ServerNotifications :
             session'[t] = [session[t] EXCEPT !.snotif_stream = Append(@, x)]
    BY <1>0, <1>2 DEF Push
  <2> QED BY <2>1, <2>2 DEF SessionType
<1> QED BY <1>1, <1>3, StaysKnown

LEMMA CrashKeepsKnown ==
  ASSUME IInv, SentIsKnown, NEW n \in Nodes, Crash(n)
  PROVE  SentIsKnown'
<1>1. UNCHANGED <<rows, acked>>
  BY DEF Crash
<1>2. ASSUME NEW t \in Sessions
      PROVE  session'[t].unacked_stored \subseteq session[t].unacked_stored
  <2>1. session[t] \in SessionType
    BY DEF IInv, TypeOK
  <2>2. \/ session'[t] = session[t]
        \/ session'[t] = [session[t] EXCEPT !.phase = "done", !.snotif_stream = <<>>,
                                            !.unacked_direct = {}, !.unacked_stored = {}]
    BY DEF Crash
  <2> QED BY <2>1, <2>2 DEF SessionType
<1> QED BY <1>1, <1>2, StaysKnown

LEMMA NextKeepsKnown ==
  ASSUME IInv, SentIsKnown, [Next]_vars
  PROVE  SentIsKnown'
<1>1. CASE UNCHANGED vars
  BY <1>1 DEF vars, SentIsKnown
<1> QED BY <1>1, ConnectKeepsKnown, ServeKeepsKnown, CleanupKeepsKnown, RouteKeepsKnown,
           CrashKeepsKnown DEF Next

\* A session has sent from storage, and not yet had acked, only notifications that
\* are still stored or have been acked (check_storage and ack of webpush_client).
THEOREM SentStaysKnown == Spec => []SentIsKnown
<1>1. Init => SentIsKnown
  BY DEF Init, SentIsKnown
<1>2. IInv /\ SentIsKnown /\ [Next]_vars => SentIsKnown'
  BY NextKeepsKnown
<1> QED BY <1>1, <1>2, Invariance, PTL DEF Spec

-----------------------------------------------------------------------------
(* The refinement. *)

LEMMA InitRefines == Init => Service!Init
<1> SUFFICES ASSUME Init PROVE Service!Init
  OBVIOUS
<1>1. rows = {} /\ acked = {} /\ lost = {}
      /\ \A s \in Sessions : InMemory(session[s]) = {}
  BY DEF Init, InMemory, Queued, Holds
<1>2. Held = {}
  BY <1>1 DEF Held
<1>3. Promised = {}
  BY DEF Init, Promised, Answered
<1> QED BY <1>1, <1>2, <1>3 DEF Service!Init

LEMMA NextRefines ==
  ASSUME IInv, IInv', SentIsKnown, [Next]_vars
  PROVE  MailboxStep
<1>1. CASE UNCHANGED vars
  BY <1>1, QuietStep DEF vars
<1> QED BY <1>1, ConnectRefines, ServeRefines, CleanupRefines, SaveFailsRefines, RouteRefines,
           CrashRefines DEF Next

\* The servers are a mailbox that delivers at least once: whatever the router, the
\* sessions and the saving tasks do, and in whatever order, a notification whose
\* sender was answered stays held until it is acked or a failure destroys it, and
\* one of which no copy is left does not come back (route_notification, shutdown,
\* save_and_notify_unacked_direct_notifs).
THEOREM DeliveryIsAMailbox == Spec => ImplementsMailbox
<1>1. Init => Service!Init
  BY InitRefines
<1>2. IInv /\ IInv' /\ SentIsKnown /\ [Next]_vars => [Service!Next]_(Service!vars)
  BY NextRefines DEF MailboxStep
<1> QED BY <1>1, <1>2, Invariance, SentStaysKnown, PTL
        DEF Spec, ImplementsMailbox, Service!Spec
=============================================================================
