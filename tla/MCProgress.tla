------------------------------ MODULE MCProgress ------------------------------
(***************************************************************************)
(* What must eventually happen, on instances small enough for liveness:    *)
(* a session reading its storage, a session and a connection of the legacy *)
(* server, a mobile bridge and the ADM access token.  They share no state  *)
(* here, so one run checks them all: a behaviour is one of the instance    *)
(* that `part` names, and the variables of the others stay as they         *)
(* started.                                                                *)
(***************************************************************************)
EXTENDS Naturals, TLC

CONSTANTS s1, n1, n2, c1, t1, NoTopic

VARIABLES
  part,
  stamped, kind, inflight, saved, saving, rows, expired, gone, acked, user,
  stored_timestamp, session, s_time, overtaken,                     \* WebPushClient
  router, tbl, registry, sess, pub, l_stamp, client, l_clock, time, l_expired, lost,
  orphaned, l_overtaken,                                            \* LegacySession
  conn, net, peer, open_connections, running, version, updater,     \* LegacyServer
  row, device, app, sender,                                         \* Bridge
  clock, token_info, lock, task                                     \* AdmToken

storageVars == <<stamped, kind, inflight, saved, saving, rows, expired, gone, acked, user,
                 stored_timestamp, session, s_time, overtaken>>
sessionVars == <<router, tbl, registry, sess, pub, l_stamp, client, l_clock, time, l_expired, lost,
                 orphaned, l_overtaken>>
serverVars == <<conn, net, peer, open_connections, running, version, updater>>
bridgeVars == <<row, device, app, sender>>
tokenVars == <<clock, token_info, lock, task>>
allVars == <<part, storageVars, sessionVars, serverVars, bridgeVars, tokenVars>>

(* A session, two messages and a topic, every read of one row; nothing direct.*)
Storage == INSTANCE WebPushClient WITH
  Sessions <- {s1}, Topics <- {t1}, MaxMessages <- 2, MaxDirect <- 0, MaxChecks <- 0,
  TopicLimit <- 1, TimestampLimit <- 1, MsgLimit <- 3, time <- s_time

(* A legacy session that finds messages of the last month, one that expires. *)
Session == INSTANCE LegacySession WITH
  Sessions <- {s1}, Nodes <- {n1}, Channels <- {c1}, Messages <- {1, 2}, TopicMessages <- {},
  ZeroTtl <- {}, Expiring <- {1}, CurrentMonth <- 4, StartMonths <- {3}, Batch <- 1,
  MsgLimit <- 9, Overlap <- TRUE, Failures <- {}, stamp <- l_stamp, clock <- l_clock,
  expired <- l_expired, overtaken <- l_overtaken

(* A connection whose peer may fall silent; and one whose send queue fills.  *)
Silent == INSTANCE LegacyServer WITH
  Connections <- {s1}, MaxConnections <- 1, CloseTimeout <- TRUE, Unsolicited <- FALSE,
  Stalls <- TRUE, MaxVersion <- 1, MaxTexts <- 1, MaxInbox <- 1
Polls == INSTANCE LegacyServer WITH
  Connections <- {s1}, MaxConnections <- 1, CloseTimeout <- FALSE, Unsolicited <- FALSE,
  Stalls <- TRUE, MaxVersion <- 2, MaxTexts <- 1, MaxInbox <- 1

(* A device of FCM that may be gone, where every request may fail.           *)
Fcm == INSTANCE Bridge WITH
  Type <- "fcm", OtherTypes <- {}, Senders <- {n1}, MaxToken <- 2, Channels <- {c1},
  GivesAps <- FALSE, HasAuthenticator <- TRUE, DbFails <- FALSE,
  Troubles <- {"Authentication", "RequestTimeout", "Connect", "Upstream", "BadResponse"}

(* Three notifications that share the ADM token.                             *)
Token == INSTANCE AdmToken WITH
  Tasks <- {n1, n2, s1}, Margin <- 2, Lifetimes <- {3, 5}, MaxDelay <- 1, MaxClock <- 5

ASSUME Assumptions ==
  /\ Session!LegacyConstants /\ Silent!ServerConstants /\ Polls!ServerConstants
  /\ Fcm!BridgeAssumption /\ Token!AdmTokenAssumption

Init ==
  /\ part \in {"storage", "session", "silent", "polls", "bridge", "token"}
  /\ Storage!Init /\ (part # "storage" => user = "ok")
  /\ Session!Init /\ ~router.old
  /\ Silent!Init /\ Fcm!Init /\ Token!Init

(* A step of one part.                                                       *)
OfStorage(A) ==
  part = "storage" /\ A /\ UNCHANGED <<part, sessionVars, serverVars, bridgeVars, tokenVars>>
OfSession(A) ==
  part = "session" /\ A /\ UNCHANGED <<part, storageVars, serverVars, bridgeVars, tokenVars>>
OfServer(name, A) ==
  part = name /\ A /\ UNCHANGED <<part, storageVars, sessionVars, bridgeVars, tokenVars>>
OfBridge(A) ==
  part = "bridge" /\ A /\ UNCHANGED <<part, storageVars, sessionVars, serverVars, tokenVars>>
OfToken(A) ==
  part = "token" /\ A /\ UNCHANGED <<part, storageVars, sessionVars, serverVars, bridgeVars>>

Next ==
  \/ OfStorage(Storage!Next)
  \/ OfSession(Session!Next)
  \/ OfServer("silent", Silent!Next)
  \/ OfServer("polls", Polls!Next)
  \/ OfBridge(Fcm!Next)
  \/ OfToken(Token!Next)

(* The fairness of each part's own specification.  A behaviour is one of one *)
(* part, so a condition may name a step of each: it asks for strong fairness *)
(* of the step of the part the behaviour belongs to.                         *)
Fairness ==
  /\ WF_allVars(OfStorage(Storage!Handler(s1)))
  /\ \A m \in 1..2 : WF_allVars(OfStorage(Storage!AckStored(s1, m)))
  /\ WF_allVars(OfSession(Session!SessionStep(s1)))
  /\ WF_allVars(OfServer("polls", Polls!PollStep(s1)))
  /\ WF_allVars(OfServer("silent", Silent!PollStep(s1)))
  /\ WF_allVars(OfServer("silent", Silent!TimerElapses(s1)))
  /\ WF_allVars(OfBridge(Fcm!Subscription(n1))) /\ WF_allVars(OfBridge(Fcm!drop_user(n1)))
  /\ WF_allVars(OfBridge(Fcm!HandleAnswer(n1))) /\ WF_allVars(OfBridge(Fcm!RemoveGone(n1)))
  /\ WF_allVars(OfBridge(Fcm!UpdateId(n1))) /\ WF_allVars(OfBridge(Fcm!route_notification(n1)))
  /\ WF_allVars(OfToken(\E t \in {n1, n2, s1} : Token!get_access_token(t)))
  /\ \A t \in {n1, n2, s1} : WF_allVars(OfToken(Token!TokenResponse(t) \/ Token!FetchFails(t)))
  /\ SF_allVars(\/ OfSession(Session!Ack(s1))
                \/ OfServer("silent", Silent!Poll(s1))
                \/ OfBridge(Fcm!Accepted(n1) \/ Fcm!Refused(n1)))
  /\ SF_allVars(\/ OfServer("silent", Silent!HandshakeTimeout(s1))
                \/ OfBridge(Fcm!route_notification(n1) /\ sender'[n1].pc = "sent"))
  /\ SF_allVars(OfServer("silent", Silent!HelloTimeout(s1)))
  /\ SF_allVars(OfServer("silent", Silent!ClientCalled(s1)))

Spec == Init /\ [][Next]_allVars /\ Fairness

-----------------------------------------------------------------------------
(* A session that has started to read storage, of autoconnect or of the      *)
(* legacy server, gets to the end of it as long as the client acks, or it    *)
(* ends (check_storage_loop; poll_check_storage).                            *)
Reading ==
  \/ part = "storage" /\ session[s1].phase # "offline" /\ session[s1].check_storage
  \/ part = "session" /\ Session!Live(s1) /\ sess[s1].check
StorageDrained == Reading ~> ~Reading

(* The slot of a legacy connection whose peer is gone is given back, or its  *)
(* send queue is full: then it is never pinged (LegacyServer).               *)
SilentIsDropped ==
  (part = "silent" /\ s1 \in Silent!Open /\ peer[s1].silent)
    ~> (part = "silent" => conn[s1].phase = "ended" \/ net[s1].full)

(* Every poll of a PingManager returns to the reactor (LegacyServer).        *)
PollReturns ==
  (part = "polls" /\ running # Polls!NoConn) ~> (part = "polls" => running = Polls!NoConn)

(* A device that is gone is forgotten, as notifications for it keep coming   *)
(* (handle_error, Bridge).                                                   *)
UninstalledForgotten ==
  (part = "bridge" /\ ~device.installed /\ app.pc \notin Fcm!Unanswered)
    ~> (part = "bridge" => ~Fcm!HasUser(row))

(* A notification that needs a token is not held up for ever by other ones   *)
(* whose requests for a token fail (get_access_token, AdmToken).             *)
Served ==
  \A t \in {n1, n2, s1} :
    (part = "token" /\ task[t].pc = "asking") ~> (part = "token" => task[t].pc # "asking")
=============================================================================
