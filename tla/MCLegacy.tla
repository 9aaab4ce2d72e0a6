------------------------------- MODULE MCLegacy -------------------------------
(***************************************************************************)
(* The legacy server on small instances: the sessions of a user, and the   *)
(* connections of a node.  They share no state here, so one run checks     *)
(* both: a behaviour is one of the instance that `part` names, and the     *)
(* variables of the others stay as they started.                           *)
(*                                                                         *)
(* The configuration's values of LegacySession's constants are those of    *)
(* part "storage": one session and three messages, one of a topic and one  *)
(* that expires, from the last or the current month.                       *)
(***************************************************************************)
EXTENDS LegacySession, TLC

CONSTANTS s1, s2, n1, n2, c1, c2, k1, k2

VARIABLES
  part,
  conn, net, peer, open_connections, running, version, updater  \* LegacyServer

serverVars == <<conn, net, peer, open_connections, running, version, updater>>
allVars == <<part, vars, serverVars>>

(* Two sessions that overlap, on any two nodes; their sockets may fail.      *)
Overlapping == INSTANCE LegacySession WITH
  Sessions <- {s1, s2}, Nodes <- {n1, n2}, Channels <- {c1}, Messages <- {1, 2},
  TopicMessages <- {1}, ZeroTtl <- {}, Expiring <- {}, CurrentMonth <- 4, StartMonths <- {0, 4},
  Batch <- 1, MsgLimit <- 2, Overlap <- TRUE, Failures <- {"socket"}

(* Two sessions, one after the other, from any month, whose calls may fail.  *)
Rotating == INSTANCE LegacySession WITH
  Sessions <- {s1, s2}, Nodes <- {n1, n2}, Channels <- {c1, c2}, Messages <- {1},
  TopicMessages <- {}, ZeroTtl <- {1}, Expiring <- {}, CurrentMonth <- 4,
  StartMonths <- {0, 1, 3, 4}, Batch <- 1, MsgLimit <- 2, Overlap <- FALSE,
  Failures <- {"db", "save"}

(* One connection whose send queue fills; two that compete for one slot.     *)
Connection == INSTANCE LegacyServer WITH
  Connections <- {k1}, MaxConnections <- 1, CloseTimeout <- TRUE, Unsolicited <- TRUE,
  Stalls <- TRUE, MaxVersion <- 3, MaxTexts <- 2, MaxInbox <- 2
Slots == INSTANCE LegacyServer WITH
  Connections <- {k1, k2}, MaxConnections <- 1, CloseTimeout <- TRUE, Unsolicited <- FALSE,
  Stalls <- FALSE, MaxVersion <- 1, MaxTexts <- 1, MaxInbox <- 1

ASSUME Assumptions ==
  /\ LegacyConstants /\ Overlapping!LegacyConstants /\ Rotating!LegacyConstants
  /\ Connection!ServerConstants /\ Slots!ServerConstants

MCInit ==
  /\ \/ part = "storage" /\ Init
     \/ part = "overlapping" /\ Overlapping!Init
     \/ part = "rotating" /\ Rotating!Init
     \/ part \in {"connection", "slots"} /\ Overlapping!Init /\ router.month = 0 /\ ~router.old
  /\ IF part = "slots" THEN Slots!Init ELSE Connection!Init

MCNext ==
  \/ part = "storage" /\ Next /\ UNCHANGED <<part, serverVars>>
  \/ part = "overlapping" /\ Overlapping!Next /\ UNCHANGED <<part, serverVars>>
  \/ part = "rotating" /\ Rotating!Next /\ UNCHANGED <<part, serverVars>>
  \/ part = "connection" /\ Connection!Next /\ UNCHANGED <<part, vars>>
  \/ part = "slots" /\ Slots!Next /\ UNCHANGED <<part, vars>>

MCSpec == MCInit /\ [][MCNext]_allVars

Symmetry == Permutations({s1, s2}) \cup Permutations({n1, n2}) \cup Permutations({k1, k2})

-----------------------------------------------------------------------------
(* While another session overlaps it, the registered session knows of every  *)
(* stored message whose trigger has come (check_storage, PUT /notif), and a  *)
(* notification taken for direct delivery is kept until it is acked, unless  *)
(* its session had been replaced (save_and_notify_undelivered).              *)
OverlapKeeps == part = "overlapping" => Overlapping!StoredIsNoticed /\ Overlapping!AcceptedKept

(* Rotation and registration lose no channel when calls fail (migrate_user). *)
RotationKeeps == part = "rotating" => Rotating!ChannelsKept

(* A broadcast delta taken from the tracker reaches the peer or waits in the *)
(* socket (WebpushSocket::send_ws_ping).                                     *)
DeltaKept == part = "connection" => Connection!DeltaKept

(* No PongTimeout while a pong is there to be read (PingManager).            *)
NoFalseTimeout == [][part = "connection" => Connection!TimeoutHonest]_allVars

(* open_connections counts the open connections, whatever way they end.      *)
SlotsCounted == part = "slots" => Slots!SlotsCounted
=============================================================================
