------------------------- MODULE WebPushClientProofs -------------------------
(***************************************************************************)
(* What a user's sessions may rely on when they read its stored            *)
(* notifications, for any number of sessions, topics and messages and any  *)
(* batch sizes.                                                            *)
(***************************************************************************)
EXTENDS WebPushClient, FiniteSetTheorems, TLAPS

(* What the steps of a handler leave alone: all but phase and acking.        *)
Carries(T, S) ==
  /\ T \in SessionType
  /\ T.check_storage = S.check_storage
  /\ T.include_topic = S.include_topic
  /\ T.increment_storage = S.increment_storage
  /\ T.unacked_stored = S.unacked_stored
  /\ T.unacked_direct = S.unacked_direct
  /\ T.unacked_stored_highest = S.unacked_stored_highest
  /\ T.current_timestamp = S.current_timestamp
  /\ T.purge = S.purge

(* Where the loop goes: on with the read, to the pointer, or out.            *)
LoopPhase(T, S) ==
  /\ S.check_storage => T.phase = IF S.include_topic THEN "topics" ELSE "timestamps"
  /\ ~S.check_storage /\ S.increment_storage => T.phase = "increment"
  /\ ~S.check_storage /\ ~S.increment_storage => T.phase \in {"idle", "reset"}

(* Where an ack that leaves nothing to ack goes.                             *)
AckPhase(T, S) ==
  /\ ~S.check_storage => T.phase \in {"idle", "reset"}
  /\ S.check_storage /\ S.increment_storage => T.phase = "increment"
  /\ S.check_storage /\ ~S.increment_storage =>
       T.phase = IF S.include_topic THEN "topics" ELSE "timestamps"

Sent(S, live) ==
  [m \in MsgIds |-> IF m \in live THEN S.unacked_stored[m] + 1 ELSE S.unacked_stored[m]]

-----------------------------------------------------------------------------
(* The helpers of the handlers.                                              *)

LEMMA FinishKeeps ==
  ASSUME NEW S \in SessionType
  PROVE  Carries(Finish(S), S) /\ Finish(S).phase \in {"idle", "reset"}
BY DEF SessionType, Phases, Finish, Carries

LEMMA EnterLoopKeeps ==
  ASSUME NEW S \in SessionType
  PROVE  Carries(EnterLoop(S), S) /\ LoopPhase(EnterLoop(S), S)
<1>1. CASE S.check_storage
  BY <1>1 DEF SessionType, Phases, EnterLoop, Carries, LoopPhase
<1>2. CASE ~S.check_storage /\ S.increment_storage
  BY <1>2 DEF SessionType, Phases, EnterLoop, Carries, LoopPhase
<1>3. CASE ~S.check_storage /\ ~S.increment_storage
  <2>1. EnterLoop(S) = Finish(S)
    BY <1>3 DEF EnterLoop
  <2> QED BY <1>3, <2>1, FinishKeeps DEF LoopPhase
<1> QED BY <1>1, <1>2, <1>3

LEMMA CarriesOn ==
  ASSUME NEW S, NEW T, NEW U, Carries(T, S), Carries(U, T)
  PROVE  Carries(U, S)
BY DEF Carries

LEMMA PostProcessKeeps ==
  ASSUME NEW S \in SessionType
  PROVE  Carries(PostProcess(S), S) /\ AckPhase(PostProcess(S), S)
<1> DEFINE P == [S EXCEPT !.acking = TRUE]
<1>1. Carries(P, S)
  BY DEF SessionType, Carries
<1>2. PostProcess(S) = IF ~P.check_storage THEN Finish(P)
                       ELSE IF P.increment_storage THEN [P EXCEPT !.phase = "increment"]
                       ELSE EnterLoop(P)
  BY DEF PostProcess
<1> HIDE DEF P
<1>3. P \in SessionType
  BY <1>1 DEF Carries
<1>4. CASE ~P.check_storage
  <2>1. PostProcess(S) = Finish(P)
    BY <1>2, <1>4
  <2> QED BY <2>1, <1>1, <1>3, <1>4, FinishKeeps, CarriesOn DEF Carries, AckPhase
<1>5. CASE P.check_storage /\ P.increment_storage
  <2>1. PostProcess(S) = [P EXCEPT !.phase = "increment"]
    BY <1>2, <1>5
  <2>2. Carries([P EXCEPT !.phase = "increment"], P)
    BY <1>3 DEF SessionType, Phases, Carries
  <2>3. [P EXCEPT !.phase = "increment"].phase = "increment"
    BY <1>3 DEF SessionType
  <2>4. P.check_storage = S.check_storage /\ P.increment_storage = S.increment_storage
    BY <1>1 DEF Carries
  <2>5. Carries(PostProcess(S), S)
    BY <2>1, <2>2, <1>1, CarriesOn
  <2> QED BY <2>1, <2>3, <2>4, <2>5, <1>5 DEF AckPhase
<1>6. CASE P.check_storage /\ ~P.increment_storage
  <2>1. PostProcess(S) = EnterLoop(P)
    BY <1>2, <1>6
  <2>2. Carries(EnterLoop(P), P) /\ LoopPhase(EnterLoop(P), P)
    BY <1>3, EnterLoopKeeps
  <2>3. Carries(PostProcess(S), S)
    BY <2>1, <2>2, <1>1, CarriesOn
  <2>4. AckPhase(PostProcess(S), S)
    BY <2>1, <2>2, <1>1, <1>6 DEF LoopPhase, AckPhase, Carries
  <2> QED BY <2>3, <2>4
<1> QED BY <1>4, <1>5, <1>6

\* An ack: the session waits on, or goes on with nothing left to ack.
Acked(T, S) ==
  /\ Carries(T, S)
  /\ IF Unacked(S) THEN T = S ELSE AckPhase(T, S)

LEMMA AfterAckKeeps ==
  ASSUME NEW S \in SessionType
  PROVE  Acked(AfterAck(S), S)
<1>1. CASE Unacked(S)
  <2>1. AfterAck(S) = S
    BY <1>1 DEF AfterAck
  <2> QED BY <1>1, <2>1 DEF Acked, Carries
<1>2. CASE ~Unacked(S)
  <2>1. AfterAck(S) = PostProcess(S)
    BY <1>2 DEF AfterAck
  <2> QED BY <1>2, <2>1, PostProcessKeeps DEF Acked
<1> QED BY <1>1, <1>2

LEMMA MsgIdsFinite == IsFiniteSet(MsgIds)
BY BoundAssumption, FS_Interval DEF MsgIds

LEMMA Count ==
  ASSUME NEW B \in SUBSET MsgIds
  PROVE  IsFiniteSet(B) /\ Cardinality(B) \in Nat
BY MsgIdsFinite, FS_Subset, FS_CardinalityType

\* A batch was read: what is live is sent, and only an expired batch goes on.
Fetched(T, S, live) ==
  /\ T \in SessionType
  /\ T.check_storage = S.check_storage
  /\ T.include_topic = S.include_topic
  /\ T.increment_storage = S.increment_storage
  /\ T.unacked_stored = Sent(S, live)
  /\ T.unacked_direct = S.unacked_direct
  /\ T.unacked_stored_highest = S.unacked_stored_highest
  /\ T.current_timestamp = S.current_timestamp
  /\ T.purge = S.purge
  /\ IF live = {} THEN LoopPhase(T, S) ELSE T.phase \in {"idle", "reset"}

LEMMA AfterFetchKeeps ==
  ASSUME NEW S \in SessionType, NEW live \in SUBSET MsgIds
  PROVE  Fetched(AfterFetch(S, live), S, live)
<1> DEFINE sent == S.sent_from_storage + Cardinality(live)
           T == [S EXCEPT !.unacked_stored = Sent(S, live), !.sent_from_storage = sent]
<1>1. AfterFetch(S, live) =
        IF live = {} THEN EnterLoop(T)
        ELSE IF sent > MsgLimit THEN [T EXCEPT !.phase = "reset"]
        ELSE [T EXCEPT !.phase = "idle", !.acking = FALSE]
  BY DEF AfterFetch, Sent
<1>2. sent \in Nat
  BY Count DEF SessionType
<1>3. Sent(S, live) \in [MsgIds -> Nat]
  BY DEF Sent, SessionType
<1>4. T \in SessionType
  <2> HIDE DEF sent
  <2> QED BY <1>2, <1>3 DEF SessionType
<1>5. /\ T.check_storage = S.check_storage
      /\ T.include_topic = S.include_topic
      /\ T.increment_storage = S.increment_storage
      /\ T.unacked_stored = Sent(S, live)
      /\ T.unacked_direct = S.unacked_direct
      /\ T.unacked_stored_highest = S.unacked_stored_highest
      /\ T.current_timestamp = S.current_timestamp
      /\ T.purge = S.purge
  BY DEF SessionType
<1> HIDE DEF T, sent
<1>6. CASE live = {}
  <2>1. AfterFetch(S, live) = EnterLoop(T)
    BY <1>1, <1>6
  <2>2. Carries(EnterLoop(T), T) /\ LoopPhase(EnterLoop(T), T)
    BY <1>4, EnterLoopKeeps
  <2> QED BY <1>5, <1>6, <2>1, <2>2 DEF Carries, LoopPhase, Fetched
<1>7. CASE live # {}
  <2>1. PICK p \in {"idle", "reset"}, a \in BOOLEAN :
          AfterFetch(S, live) = [T EXCEPT !.phase = p, !.acking = a]
    <3>1. [T EXCEPT !.phase = "reset"] = [T EXCEPT !.phase = "reset", !.acking = T.acking]
      BY <1>4 DEF SessionType
    <3>2. T.acking \in BOOLEAN
      BY <1>4 DEF SessionType
    <3> QED BY <1>1, <1>7, <3>1, <3>2
  <2>2. /\ Carries([T EXCEPT !.phase = p, !.acking = a], T)
        /\ [T EXCEPT !.phase = p, !.acking = a].phase = p
    BY <1>4 DEF SessionType, Phases, Carries
  <2> QED BY <1>5, <1>7, <2>1, <2>2 DEF Carries, Fetched
<1> QED BY <1>6, <1>7

-----------------------------------------------------------------------------
(* What each step makes of the session it belongs to.                        *)

Moved(s, T) ==
  /\ T \in SessionType
  /\ session' \in [Sessions -> SessionType]
  /\ session'[s] = T
  /\ \A r \in Sessions : r # s => session'[r] = session[r]

LEMMA BecomesMoves ==
  ASSUME TypeOK, NEW s \in Sessions, NEW T \in SessionType, Becomes(s, T)
  PROVE  Moved(s, T)
<1>1. session \in [Sessions -> SessionType]
  BY DEF TypeOK
<1> QED BY <1>1 DEF Becomes, Moved

LEMMA SessionTyped ==
  ASSUME TypeOK, NEW s \in Sessions
  PROVE  session[s] \in SessionType
BY DEF TypeOK

LEMMA OfflineTyped == Offline \in SessionType
<1>1. [m \in MsgIds |-> 0] \in [MsgIds -> Nat]
  OBVIOUS
<1>2. 0 \in 0..MaxDirect /\ 0 \in 0..MaxChecks /\ None \in Timestamps
  BY BoundAssumption DEF None, Timestamps
<1> QED BY <1>1, <1>2 DEF Offline, SessionType, Phases

\* The session starts to read storage from its beginning.
Starts(T) ==
  /\ T.phase = "topics" /\ T.check_storage /\ T.include_topic
  /\ T.unacked_stored = [m \in MsgIds |-> 0]
  /\ T.unacked_stored_highest = None
  /\ T.current_timestamp = stored_timestamp
  /\ T.purge = {}

LEMMA HelloStep ==
  ASSUME TypeOK, NEW s \in Sessions, Hello(s)
  PROVE  \E T \in SessionType : Moved(s, T) /\ Starts(T)
<1> DEFINE U == [Offline EXCEPT !.phase = "topics",
                                !.check_storage = TRUE,
                                !.old_record_version = user = "old",
                                !.current_timestamp = stored_timestamp]
<1>1. stored_timestamp \in Timestamps /\ (user = "old") \in BOOLEAN
  BY DEF TypeOK
<1>2. U \in SessionType
  BY <1>1, OfflineTyped DEF SessionType, Phases
<1>3. Starts(U)
  BY <1>1, OfflineTyped DEF Offline, Starts
<1>4. Becomes(s, U)
  BY DEF Hello
<1> HIDE DEF U
<1> QED BY <1>2, <1>3, <1>4, BecomesMoves

LEMMA EndStep ==
  ASSUME TypeOK, NEW s \in Sessions, EndSession(s)
  PROVE  Moved(s, Offline)
BY OfflineTyped, BecomesMoves DEF EndSession

\* One more direct notification to ack.
OneMore(T, S) ==
  /\ T.phase = S.phase
  /\ T.check_storage = S.check_storage
  /\ T.include_topic = S.include_topic
  /\ T.increment_storage = S.increment_storage
  /\ T.unacked_stored = S.unacked_stored
  /\ T.unacked_direct = S.unacked_direct + 1
  /\ T.unacked_stored_highest = S.unacked_stored_highest
  /\ T.current_timestamp = S.current_timestamp
  /\ T.purge = S.purge

LEMMA NotifStep ==
  ASSUME TypeOK, NEW s \in Sessions, Notif(s)
  PROVE  \E T \in SessionType : Moved(s, T) /\ OneMore(T, session[s])
<1> DEFINE U == [session[s] EXCEPT !.unacked_direct = @ + 1]
<1>1. session[s] \in SessionType
  BY SessionTyped
<1>2. session[s].unacked_direct + 1 \in 0..MaxDirect
  BY <1>1, BoundAssumption DEF Notif, TypeOK, SessionType
<1>3. U \in SessionType /\ OneMore(U, session[s])
  BY <1>1, <1>2 DEF SessionType, OneMore
<1>4. Becomes(s, U)
  BY DEF Notif
<1> HIDE DEF U
<1> QED BY <1>3, <1>4, BecomesMoves

\* The session starts over, with what it has still to ack.
Restarts(T, S) ==
  /\ T.phase = "topics" /\ T.check_storage /\ T.include_topic
  /\ T.unacked_stored = S.unacked_stored
  /\ T.unacked_stored_highest = S.unacked_stored_highest
  /\ T.current_timestamp = S.current_timestamp
  /\ T.purge = S.purge

LEMMA CheckStorageStep ==
  ASSUME TypeOK, NEW s \in Sessions, CheckStorage(s)
  PROVE  \E T \in SessionType : Moved(s, T) /\ Restarts(T, session[s])
<1> DEFINE U == [session[s] EXCEPT !.checks = @ + 1, !.check_storage = TRUE,
                                   !.include_topic = TRUE, !.phase = "topics"]
<1>1. session[s] \in SessionType
  BY SessionTyped
<1>2. session[s].checks + 1 \in 0..MaxChecks
  BY <1>1, BoundAssumption DEF CheckStorage, SessionType
<1>3. U \in SessionType /\ Restarts(U, session[s])
  BY <1>1, <1>2 DEF SessionType, Restarts, Phases
<1>4. Becomes(s, U)
  BY DEF CheckStorage
<1> HIDE DEF U
<1> QED BY <1>3, <1>4, BecomesMoves

\* An ack of some of what the session has sent.
AckedSome(T, S, m) ==
  \E U \in SessionType :
    /\ Acked(T, U)
    /\ U.phase = S.phase
    /\ U.check_storage = S.check_storage
    /\ U.include_topic = S.include_topic
    /\ U.increment_storage = S.increment_storage
    /\ U.unacked_stored_highest = S.unacked_stored_highest
    /\ U.current_timestamp = S.current_timestamp
    /\ U.purge = S.purge
    /\ \A n \in MsgIds : n # m => U.unacked_stored[n] = S.unacked_stored[n]
    /\ m \in MsgIds => U.unacked_stored[m] <= S.unacked_stored[m]

LEMMA AckDirectStep ==
  ASSUME TypeOK, NEW s \in Sessions, AckDirect(s)
  PROVE  \E T \in SessionType : Moved(s, T) /\ AckedSome(T, session[s], None)
<1> DEFINE U == [session[s] EXCEPT !.unacked_direct = @ - 1]
<1>1. session[s] \in SessionType
  BY SessionTyped
<1>2. session[s].unacked_direct - 1 \in 0..MaxDirect
  BY <1>1, BoundAssumption DEF AckDirect, SessionType
<1>3. U \in SessionType
  BY <1>1, <1>2 DEF SessionType
<1>4. /\ U.phase = session[s].phase
      /\ U.check_storage = session[s].check_storage
      /\ U.include_topic = session[s].include_topic
      /\ U.increment_storage = session[s].increment_storage
      /\ U.unacked_stored_highest = session[s].unacked_stored_highest
      /\ U.current_timestamp = session[s].current_timestamp
      /\ U.purge = session[s].purge
      /\ U.unacked_stored = session[s].unacked_stored
  BY <1>1 DEF SessionType
<1>5. Becomes(s, AfterAck(U))
  BY DEF AckDirect
<1>6. None \notin MsgIds
  BY BoundAssumption DEF None, MsgIds
<1> HIDE DEF U
<1>7. Acked(AfterAck(U), U) /\ AfterAck(U) \in SessionType
  BY <1>3, AfterAckKeeps DEF Acked, Carries
<1>8. AckedSome(AfterAck(U), session[s], None)
  BY <1>3, <1>4, <1>6, <1>7 DEF AckedSome
<1> QED BY <1>5, <1>7, <1>8, BecomesMoves

LEMMA AckStoredStep ==
  ASSUME TypeOK, NEW s \in Sessions, NEW m \in MsgIds, AckStored(s, m)
  PROVE  \E T \in SessionType : Moved(s, T) /\ AckedSome(T, session[s], m)
<1> DEFINE sent == [session[s].unacked_stored EXCEPT ![m] = @ - 1]
           U == [session[s] EXCEPT !.unacked_stored = sent]
<1>1. session[s] \in SessionType
  BY SessionTyped
<1>2. session[s].unacked_stored \in [MsgIds -> Nat]
  BY <1>1 DEF SessionType
<1>3. /\ sent \in [MsgIds -> Nat]
      /\ \A n \in MsgIds : n # m => sent[n] = session[s].unacked_stored[n]
      /\ sent[m] <= session[s].unacked_stored[m]
  BY <1>2 DEF AckStored
<1>4. Becomes(s, AfterAck(U))
  BY DEF AckStored
<1> HIDE DEF sent
<1>5. U \in SessionType /\ U.unacked_stored = sent
  BY <1>1, <1>3 DEF SessionType
<1>6. /\ U.phase = session[s].phase
      /\ U.check_storage = session[s].check_storage
      /\ U.include_topic = session[s].include_topic
      /\ U.increment_storage = session[s].increment_storage
      /\ U.unacked_stored_highest = session[s].unacked_stored_highest
      /\ U.current_timestamp = session[s].current_timestamp
      /\ U.purge = session[s].purge
  BY <1>1 DEF SessionType
<1> HIDE DEF U
<1>7. Acked(AfterAck(U), U) /\ AfterAck(U) \in SessionType
  BY <1>5, AfterAckKeeps DEF Acked, Carries
<1>8. AckedSome(AfterAck(U), session[s], m)
  BY <1>3, <1>5, <1>6, <1>7 DEF AckedSome
<1> QED BY <1>4, <1>7, <1>8, BecomesMoves

LEMMA AckUnknownStep ==
  ASSUME TypeOK, NEW s \in Sessions, AckUnknown(s)
  PROVE  \E T \in SessionType : Moved(s, T) /\ AckedSome(T, session[s], None)
<1>1. session[s] \in SessionType
  BY SessionTyped
<1>2. None \notin MsgIds
  BY BoundAssumption DEF None, MsgIds
<1>3. Acked(AfterAck(session[s]), session[s]) /\ AfterAck(session[s]) \in SessionType
  BY <1>1, AfterAckKeeps DEF Acked, Carries
<1>4. AckedSome(AfterAck(session[s]), session[s], None)
  BY <1>1, <1>2, <1>3 DEF AckedSome
<1>5. Becomes(s, AfterAck(session[s]))
  BY DEF AckUnknown
<1> QED BY <1>3, <1>4, <1>5, BecomesMoves

\* Topics were asked for: none were found, or they are the batch, and the
\* timestamp messages will be read from the record's pointer again.
Topical(T, S) ==
  \/ Carries(T, S) /\ T.phase = "timestamps"
  \/ \E U \in SessionType, live \in SUBSET MsgIds :
       /\ Fetched(T, U, live)
       /\ U.check_storage = S.check_storage
       /\ U.include_topic = S.include_topic
       /\ U.unacked_stored = S.unacked_stored
       /\ U.unacked_direct = S.unacked_direct
       /\ U.current_timestamp = S.current_timestamp
       /\ U.unacked_stored_highest = None
       /\ ~U.increment_storage
       /\ \A m \in live : kind[m] # NoTopic /\ m \in rows

LEMMA FetchTopicsStep ==
  ASSUME TypeOK, NEW s \in Sessions, FetchTopics(s)
  PROVE  \E T \in SessionType : Moved(s, T) /\ Topical(T, session[s])
<1>1. session[s] \in SessionType
  BY SessionTyped
<1>2. PICK B \in fetch_topic_messages :
        IF B = {}
        THEN Becomes(s, [session[s] EXCEPT !.phase = "timestamps"])
        ELSE Becomes(s, AfterFetch([session[s] EXCEPT
                                      !.unacked_stored_highest = None,
                                      !.increment_storage = FALSE,
                                      !.purge = {kind[m] : m \in B \cap expired}],
                                   B \ expired))
  BY DEF FetchTopics
<1>3. /\ B \subseteq MsgIds
      /\ \A m \in B : kind[m] # NoTopic /\ m \in rows
      /\ \A m \in B : kind[m] \in Topics
  BY DEF fetch_topic_messages, TopicRows, Readable, TypeOK
<1>4. CASE B = {}
  <2> DEFINE T == [session[s] EXCEPT !.phase = "timestamps"]
  <2>1. Carries(T, session[s]) /\ T.phase = "timestamps"
    BY <1>1 DEF SessionType, Phases, Carries
  <2>2. Becomes(s, T)
    BY <1>2, <1>4
  <2> HIDE DEF T
  <2>3. T \in SessionType
    BY <2>1 DEF Carries
  <2> QED BY <2>1, <2>2, <2>3, BecomesMoves DEF Topical
<1>5. CASE B # {}
  <2> DEFINE old == {kind[m] : m \in B \cap expired}
             live == B \ expired
             U == [session[s] EXCEPT !.unacked_stored_highest = None,
                                     !.increment_storage = FALSE,
                                     !.purge = old]
             T == AfterFetch(U, live)
  <2>1. old \subseteq Topics
    BY <1>3
  <2>2. live \in SUBSET MsgIds /\ \A m \in live : kind[m] # NoTopic /\ m \in rows
    BY <1>3
  <2>3. None \in Timestamps
    BY BoundAssumption DEF None, Timestamps
  <2>4. Becomes(s, T)
    BY <1>2, <1>5
  <2> HIDE DEF old
  <2>5. U \in SessionType
    BY <1>1, <2>1, <2>3 DEF SessionType
  <2>6. /\ U.check_storage = session[s].check_storage
        /\ U.include_topic = session[s].include_topic
        /\ U.unacked_stored = session[s].unacked_stored
        /\ U.unacked_direct = session[s].unacked_direct
        /\ U.current_timestamp = session[s].current_timestamp
        /\ U.unacked_stored_highest = None
        /\ ~U.increment_storage
    BY <1>1 DEF SessionType
  <2> HIDE DEF U, live
  <2>7. Fetched(T, U, live)
    BY <2>2, <2>5, AfterFetchKeeps
  <2> HIDE DEF T
  <2>8. T \in SessionType
    BY <2>7 DEF Fetched
  <2>9. Topical(T, session[s])
    BY <2>2, <2>5, <2>6, <2>7 DEF Topical
  <2> QED BY <2>4, <2>8, <2>9, BecomesMoves
<1> QED BY <1>4, <1>5

\* All but purge, which loses a topic.
Purged(T, S) ==
  /\ T.phase = S.phase
  /\ T.check_storage = S.check_storage
  /\ T.include_topic = S.include_topic
  /\ T.increment_storage = S.increment_storage
  /\ T.unacked_stored = S.unacked_stored
  /\ T.unacked_direct = S.unacked_direct
  /\ T.unacked_stored_highest = S.unacked_stored_highest
  /\ T.current_timestamp = S.current_timestamp

LEMMA PurgeTopicStep ==
  ASSUME TypeOK, NEW s \in Sessions, NEW t, PurgeTopic(s, t)
  PROVE  \E T \in SessionType : Moved(s, T) /\ Purged(T, session[s])
<1> DEFINE left == session[s].purge \ {t}
           T == [session[s] EXCEPT !.purge = left]
<1>1. session[s] \in SessionType
  BY SessionTyped
<1>2. left \subseteq Topics
  BY <1>1 DEF SessionType
<1>3. Becomes(s, T)
  BY DEF PurgeTopic
<1> HIDE DEF left
<1>4. T \in SessionType /\ Purged(T, session[s])
  BY <1>1, <1>2 DEF SessionType, Purged
<1> HIDE DEF T
<1> QED BY <1>3, <1>4, BecomesMoves

\* The end of storage: every timestamp message after `from` is gone.
Ended(T, S, from) ==
  \E U \in SessionType :
    /\ Carries(T, U) /\ LoopPhase(T, U)
    /\ ~U.check_storage /\ ~U.include_topic
    /\ U.increment_storage = S.increment_storage
    /\ U.unacked_stored = S.unacked_stored
    /\ U.unacked_direct = S.unacked_direct
    /\ U.current_timestamp = S.current_timestamp
    /\ U.unacked_stored_highest = from
    /\ TimestampRows(from) = {}

\* A batch: every timestamp message from `from` to its last is in it, gone or
\* overtaken.
Batch(T, S, from, batch) ==
  /\ batch \subseteq TimestampRows(from)
  /\ \E U \in SessionType, last \in batch :
       /\ Fetched(T, U, batch \ expired)
       /\ U.check_storage = S.check_storage /\ ~U.include_topic
       /\ U.increment_storage
       /\ U.unacked_stored = S.unacked_stored
       /\ U.unacked_direct = S.unacked_direct
       /\ U.current_timestamp = S.current_timestamp
       /\ U.unacked_stored_highest = time[last]
       /\ \A m \in TimestampRows(from) : time[m] <= time[last] => m \in batch \cup overtaken'

LEMMA FetchTimestampsStep ==
  ASSUME TypeOK, NEW s \in Sessions, FetchTimestamps(s)
  PROVE  \E T \in SessionType :
           /\ Moved(s, T)
           /\ \/ Ended(T, session[s], ReadFrom(session[s]))
              \/ \E batch : Batch(T, session[s], ReadFrom(session[s]), batch)
<1> DEFINE from == ReadFrom(session[s])
           S == [session[s] EXCEPT !.include_topic = FALSE]
<1>1. session[s] \in SessionType
  BY SessionTyped
<1>2. from \in Timestamps
  BY <1>1 DEF ReadFrom, SessionType
<1>3. PICK batch \in fetch_timestamp_messages(from) :
        IF batch = {}
        THEN /\ Becomes(s, EnterLoop([S EXCEPT !.unacked_stored_highest = from,
                                               !.check_storage = FALSE,
                                               !.sent_from_storage = 0]))
             /\ UNCHANGED overtaken
        ELSE \E last \in batch :
             /\ \A m \in batch : time[m] <= time[last]
             /\ Becomes(s, AfterFetch([S EXCEPT !.unacked_stored_highest = time[last],
                                                !.increment_storage = TRUE],
                                      batch \ expired))
             /\ overtaken' = overtaken \cup
                  {m \in TimestampRows(from) \ batch : time[m] <= time[last]}
  BY DEF FetchTimestamps
<1>4. batch \in SUBSET MsgIds /\ batch \subseteq TimestampRows(from)
  BY DEF fetch_timestamp_messages, TimestampRows, Readable, TypeOK
<1>5. CASE batch = {}
  <2>1. TimestampRows(from) = {}
    BY <1>5, LimitAssumption, FS_EmptySet DEF fetch_timestamp_messages
  <2> DEFINE U == [S EXCEPT !.unacked_stored_highest = from, !.check_storage = FALSE,
                            !.sent_from_storage = 0]
  <2>3. Becomes(s, EnterLoop(U))
    BY <1>3, <1>5
  <2> HIDE DEF from
  <2>4. S \in SessionType
    BY <1>1 DEF SessionType
  <2>5. /\ ~S.include_topic
        /\ S.increment_storage = session[s].increment_storage
        /\ S.unacked_stored = session[s].unacked_stored
        /\ S.unacked_direct = session[s].unacked_direct
        /\ S.current_timestamp = session[s].current_timestamp
    BY <1>1 DEF SessionType
  <2> HIDE DEF S
  <2>6. U \in SessionType
    BY <1>2, <2>4 DEF SessionType
  <2>7. /\ ~U.check_storage
        /\ U.include_topic = S.include_topic
        /\ U.increment_storage = S.increment_storage
        /\ U.unacked_stored = S.unacked_stored
        /\ U.unacked_direct = S.unacked_direct
        /\ U.current_timestamp = S.current_timestamp
        /\ U.unacked_stored_highest = from
    BY <2>4 DEF SessionType
  <2> HIDE DEF U
  <2>8. Carries(EnterLoop(U), U) /\ LoopPhase(EnterLoop(U), U)
    BY <2>6, EnterLoopKeeps
  <2>9. EnterLoop(U) \in SessionType
    BY <2>8 DEF Carries
  <2>10. Ended(EnterLoop(U), session[s], from)
    BY <2>1, <2>5, <2>6, <2>7, <2>8 DEF Ended
  <2> QED BY <2>3, <2>9, <2>10, BecomesMoves DEF from
<1>6. CASE batch # {}
  <2>1. PICK last \in batch :
          /\ Becomes(s, AfterFetch([S EXCEPT !.unacked_stored_highest = time[last],
                                             !.increment_storage = TRUE],
                                   batch \ expired))
          /\ overtaken' = overtaken \cup
               {m \in TimestampRows(from) \ batch : time[m] <= time[last]}
    BY <1>3, <1>6
  <2> DEFINE U == [S EXCEPT !.unacked_stored_highest = time[last], !.increment_storage = TRUE]
             live == batch \ expired
  <2>2. \A m \in TimestampRows(from) : time[m] <= time[last] => m \in batch \cup overtaken'
    <3> HIDE DEF from
    <3> QED BY <2>1
  <2>3. Becomes(s, AfterFetch(U, live)) /\ live \in SUBSET MsgIds
    BY <1>4, <2>1
  <2>4. time[last] \in Timestamps
    BY <1>4 DEF TypeOK
  <2> HIDE DEF from
  <2>5. S \in SessionType
    BY <1>1 DEF SessionType
  <2>6. /\ ~S.include_topic
        /\ S.check_storage = session[s].check_storage
        /\ S.unacked_stored = session[s].unacked_stored
        /\ S.unacked_direct = session[s].unacked_direct
        /\ S.current_timestamp = session[s].current_timestamp
    BY <1>1 DEF SessionType
  <2> HIDE DEF S
  <2>7. U \in SessionType
    BY <2>4, <2>5 DEF SessionType
  <2>8. /\ U.check_storage = S.check_storage
        /\ U.include_topic = S.include_topic
        /\ U.increment_storage
        /\ U.unacked_stored = S.unacked_stored
        /\ U.unacked_direct = S.unacked_direct
        /\ U.current_timestamp = S.current_timestamp
        /\ U.unacked_stored_highest = time[last]
    BY <2>5 DEF SessionType
  <2>9. live = batch \ expired
    OBVIOUS
  <2> HIDE DEF U, live
  <2>10. Fetched(AfterFetch(U, live), U, live)
    BY <2>3, <2>7, AfterFetchKeeps
  <2>11. AfterFetch(U, live) \in SessionType
    BY <2>10 DEF Fetched
  <2>12. Batch(AfterFetch(U, live), session[s], from, batch)
    BY <1>4, <2>2, <2>6, <2>7, <2>8, <2>9, <2>10 DEF Batch
  <2> QED BY <2>3, <2>11, <2>12, BecomesMoves DEF from
<1> QED BY <1>5, <1>6

\* The pointer was written: the session reads on after it.
Incremented(T, S) ==
  \E U \in SessionType :
    /\ Carries(T, U) /\ LoopPhase(T, U)
    /\ U.check_storage = S.check_storage
    /\ U.include_topic = S.include_topic
    /\ ~U.increment_storage
    /\ U.unacked_stored = S.unacked_stored
    /\ U.unacked_direct = S.unacked_direct
    /\ U.unacked_stored_highest = S.unacked_stored_highest
    /\ U.current_timestamp = S.unacked_stored_highest

LEMMA IncrementStorageStep ==
  ASSUME TypeOK, NEW s \in Sessions, IncrementStorage(s)
  PROVE  \E T \in SessionType : Moved(s, T) /\ Incremented(T, session[s])
<1> DEFINE U == [session[s] EXCEPT !.current_timestamp = session[s].unacked_stored_highest,
                                   !.increment_storage = FALSE]
<1>1. session[s] \in SessionType
  BY SessionTyped
<1>2. U \in SessionType
  BY <1>1 DEF SessionType
<1>3. /\ U.check_storage = session[s].check_storage
      /\ U.include_topic = session[s].include_topic
      /\ ~U.increment_storage
      /\ U.unacked_stored = session[s].unacked_stored
      /\ U.unacked_direct = session[s].unacked_direct
      /\ U.unacked_stored_highest = session[s].unacked_stored_highest
      /\ U.current_timestamp = session[s].unacked_stored_highest
  BY <1>1 DEF SessionType
<1>4. Becomes(s, EnterLoop(U))
  BY DEF IncrementStorage
<1> HIDE DEF U
<1>5. Carries(EnterLoop(U), U) /\ LoopPhase(EnterLoop(U), U)
  BY <1>2, EnterLoopKeeps
<1>6. EnterLoop(U) \in SessionType
  BY <1>5 DEF Carries
<1>7. Incremented(EnterLoop(U), session[s])
  BY <1>2, <1>3, <1>5 DEF Incremented
<1> QED BY <1>4, <1>6, <1>7, BecomesMoves

-----------------------------------------------------------------------------
(* Types.                                                                    *)

LEMMA MovedTypes ==
  ASSUME NEW s \in Sessions, NEW T, Moved(s, T)
  PROVE  session' \in [Sessions -> SessionType]
BY DEF Moved

LEMMA EndTypes ==
  ASSUME TypeOK, NEW s \in Sessions, EndSession(s)
  PROVE  saving' \in Nat /\ session' \in [Sessions -> SessionType]
<1>1. session[s].unacked_direct \in Nat /\ saving \in Nat
  BY SessionTyped, BoundAssumption DEF SessionType, TypeOK
<1> QED BY <1>1, EndStep DEF EndSession, Moved

LEMMA InitTypes == ASSUME Init PROVE TypeOK
<1>1. session \in [Sessions -> SessionType]
  BY OfflineTyped DEF Init
<1>2. stored_timestamp \in Timestamps /\ 0 \in 0..MaxMessages
  BY BoundAssumption DEF Init, None, Timestamps
<1> QED BY <1>1, <1>2 DEF Init, TypeOK

LEMMA InstantTypes ==
  ASSUME TypeOK
  PROVE  LastInstant \in Timestamps /\ LastInstant + 1 \in Timestamps
<1>1. stamped # 0 => stamped \in MsgIds
  BY BoundAssumption DEF TypeOK, MsgIds
<1> QED BY <1>1 DEF LastInstant, TypeOK, Timestamps

LEMMA StampInTypes ==
  ASSUME TypeOK, NEW instant \in Timestamps, StampIn(instant)
  PROVE  /\ stamped + 1 \in MsgIds /\ stamped' \in 0..MaxMessages
         /\ time' \in [MsgIds -> Timestamps]
<1>1. stamped + 1 \in MsgIds /\ stamped + 1 \in 0..MaxMessages
  BY BoundAssumption DEF StampIn, TypeOK, MsgIds
<1> QED BY <1>1 DEF StampIn, TypeOK

LEMMA StampTypes ==
  ASSUME TypeOK, StampTimestamp
  PROVE  /\ stamped + 1 \in MsgIds /\ stamped' \in 0..MaxMessages
         /\ time' \in [MsgIds -> Timestamps] /\ inflight' \subseteq MsgIds
<1>1. PICK instant \in {LastInstant, LastInstant + 1} \ {0} : StampIn(instant)
  BY DEF StampTimestamp
<1>2. instant \in Timestamps
  BY InstantTypes
<1> QED BY <1>1, <1>2, StampInTypes DEF StampTimestamp, TypeOK

LEMMA NextTypes == ASSUME TypeOK, [Next]_vars PROVE TypeOK'
<1>1. CASE UNCHANGED vars
  BY <1>1 DEF TypeOK, vars, publisherVars, storageVars
<1>2. CASE Stamp
  <2>1. StampTimestamp
    BY <1>2 DEF Stamp
  <2> QED BY <1>2, <2>1, StampTypes DEF TypeOK, Stamp, storageVars
<1>3. CASE StampSaved
  <2>1. StampTimestamp /\ saving - 1 \in Nat
    BY <1>3 DEF StampSaved, TypeOK
  <2>2. stamped + 1 \in MsgIds
    BY <2>1, StampTypes
  <2> QED BY <1>3, <2>1, <2>2, StampTypes DEF TypeOK, StampSaved, storageVars
<1>4. ASSUME NEW m \in MsgIds, Store(m) PROVE TypeOK'
  BY <1>4 DEF TypeOK, Store
<1>5. ASSUME NEW m \in MsgIds, Expire(m) PROVE TypeOK'
  BY <1>5 DEF TypeOK, Expire, publisherVars
<1>6. ASSUME NEW t \in Topics, StoreTopic(t) PROVE TypeOK'
  <2>1. /\ stamped + 1 \in MsgIds /\ stamped' \in 0..MaxMessages
        /\ time' \in [MsgIds -> Timestamps]
    BY <1>6, InstantTypes, StampInTypes DEF StoreTopic
  <2>2. kind' \in [MsgIds -> Topics \cup {NoTopic}]
    BY <1>6, <2>1 DEF TypeOK, StoreTopic
  <2>3. rows' \subseteq MsgIds
    BY <1>6, <2>1 DEF TypeOK, StoreTopic
  <2> QED BY <1>6, <2>1, <2>2, <2>3 DEF TypeOK, StoreTopic
<1>7. ASSUME NEW s \in Sessions, Hello(s) PROVE TypeOK'
  <2>1. session' \in [Sessions -> SessionType]
    BY <1>7, HelloStep, MovedTypes
  <2> QED BY <1>7, <2>1 DEF TypeOK, Hello, publisherVars, storageVars
<1>8. ASSUME NEW s \in Sessions, HelloIncomplete(s) PROVE TypeOK'
  BY <1>8 DEF TypeOK, HelloIncomplete, publisherVars
<1>9. ASSUME NEW s \in Sessions, Drop(s) PROVE TypeOK'
  <2>1. saving' \in Nat /\ session' \in [Sessions -> SessionType]
    BY <1>9, EndTypes DEF Drop
  <2> QED BY <1>9, <2>1 DEF TypeOK, Drop, storageVars
<1>10. ASSUME NEW s \in Sessions, Notif(s) PROVE TypeOK'
  <2>1. session' \in [Sessions -> SessionType]
    BY <1>10, NotifStep, MovedTypes
  <2> QED BY <1>10, <2>1 DEF TypeOK, Notif, publisherVars, storageVars
<1>11. ASSUME NEW s \in Sessions, CheckStorage(s) PROVE TypeOK'
  <2>1. session' \in [Sessions -> SessionType]
    BY <1>11, CheckStorageStep, MovedTypes
  <2> QED BY <1>11, <2>1 DEF TypeOK, CheckStorage, publisherVars, storageVars
<1>12. ASSUME NEW s \in Sessions, NEW m \in MsgIds, AckStored(s, m) PROVE TypeOK'
  <2>1. session' \in [Sessions -> SessionType]
    BY <1>12, AckStoredStep, MovedTypes
  <2> QED BY <1>12, <2>1 DEF TypeOK, AckStored, publisherVars
<1>13. ASSUME NEW s \in Sessions, AckDirect(s) PROVE TypeOK'
  <2>1. session' \in [Sessions -> SessionType]
    BY <1>13, AckDirectStep, MovedTypes
  <2> QED BY <1>13, <2>1 DEF TypeOK, AckDirect, publisherVars, storageVars
<1>14. ASSUME NEW s \in Sessions, AckUnknown(s) PROVE TypeOK'
  <2>1. session' \in [Sessions -> SessionType]
    BY <1>14, AckUnknownStep, MovedTypes
  <2> QED BY <1>14, <2>1 DEF TypeOK, AckUnknown, publisherVars, storageVars
<1>15. ASSUME NEW s \in Sessions, FetchTopics(s) PROVE TypeOK'
  <2>1. session' \in [Sessions -> SessionType]
    BY <1>15, FetchTopicsStep, MovedTypes
  <2> QED BY <1>15, <2>1 DEF TypeOK, FetchTopics, publisherVars, storageVars
<1>16. ASSUME NEW s \in Sessions, FetchTimestamps(s) PROVE TypeOK'
  <2>1. session' \in [Sessions -> SessionType]
    BY <1>16, FetchTimestampsStep, MovedTypes
  <2>2. overtaken' \subseteq MsgIds
    BY <1>16 DEF TypeOK, FetchTimestamps, TimestampRows, Readable
  <2> QED BY <1>16, <2>1, <2>2 DEF TypeOK, FetchTimestamps, publisherVars, storageVars
<1>17. ASSUME NEW s \in Sessions, IncrementStorage(s) PROVE TypeOK'
  <2>1. session' \in [Sessions -> SessionType]
    BY <1>17, IncrementStorageStep, MovedTypes
  <2>2. session[s].unacked_stored_highest \in Timestamps
    BY SessionTyped DEF SessionType
  <2> QED BY <1>17, <2>1, <2>2 DEF TypeOK, IncrementStorage, publisherVars
<1>18. ASSUME NEW s \in Sessions, IncrementFails(s) PROVE TypeOK'
  <2>1. saving' \in Nat /\ session' \in [Sessions -> SessionType]
    BY <1>18, EndTypes DEF IncrementFails
  <2> QED BY <1>18, <2>1 DEF TypeOK, IncrementFails, storageVars
<1>19. ASSUME NEW s \in Sessions, ResetUser(s) PROVE TypeOK'
  <2>1. saving' \in Nat /\ session' \in [Sessions -> SessionType]
    BY <1>19, EndTypes DEF ResetUser
  <2>2. None \in Timestamps
    BY BoundAssumption DEF None, Timestamps
  <2> QED BY <1>19, <2>1, <2>2 DEF TypeOK, ResetUser
<1>20. ASSUME NEW s \in Sessions, NEW t \in Topics, PurgeTopic(s, t) PROVE TypeOK'
  <2>1. session' \in [Sessions -> SessionType]
    BY <1>20, PurgeTopicStep, MovedTypes
  <2> QED BY <1>20, <2>1 DEF TypeOK, PurgeTopic, publisherVars
<1> QED BY <1>1, <1>2, <1>3, <1>4, <1>5, <1>6, <1>7, <1>8, <1>9, <1>10, <1>11, <1>12,
           <1>13, <1>14, <1>15, <1>16, <1>17, <1>18, <1>19, <1>20 DEF Next, Handler

-----------------------------------------------------------------------------
(* A session that waits in the middle of a read waits for an ack.            *)

Waits(S) == S.phase = "idle" /\ S.check_storage => Unacked(S)
WaitInv == \A s \in Sessions : Waits(session[s])

LEMMA MovedWaits ==
  ASSUME WaitInv, NEW s \in Sessions, NEW T, Moved(s, T), Waits(T)
  PROVE  WaitInv'
BY DEF WaitInv, Moved

LEMMA StaysWaiting == ASSUME WaitInv, UNCHANGED session PROVE WaitInv'
BY DEF WaitInv

LEMMA AckedWaits ==
  ASSUME NEW S, NEW T, NEW m, AckedSome(T, S, m)
  PROVE  Waits(T)
BY DEF AckedSome, Acked, AckPhase, Carries, Waits

LEMMA FetchedWaits ==
  ASSUME NEW S \in SessionType, NEW T, NEW live \in SUBSET MsgIds, Fetched(T, S, live)
  PROVE  Waits(T)
<1>1. CASE live = {}
  BY <1>1 DEF Fetched, LoopPhase, Waits
<1>2. CASE live # {}
  <2>1. PICK m \in live : TRUE
    BY <1>2
  <2>2. S.unacked_stored[m] \in Nat /\ m \in MsgIds
    BY DEF SessionType
  <2>3. Sent(S, live)[m] > 0 /\ m \in DOMAIN Sent(S, live)
    BY <2>2 DEF Sent
  <2>4. T.unacked_stored = Sent(S, live)
    BY DEF Fetched
  <2> QED BY <2>2, <2>3, <2>4 DEF Waits, Unacked
<1> QED BY <1>1, <1>2

LEMMA LoopedWaits ==
  ASSUME NEW S, NEW T, Carries(T, S), LoopPhase(T, S)
  PROVE  Waits(T)
BY DEF Carries, LoopPhase, Waits

LEMMA NextWaits == ASSUME TypeOK, WaitInv, [Next]_vars PROVE WaitInv'
<1>1. CASE UNCHANGED session
  BY <1>1, StaysWaiting
<1>2. ASSUME NEW s \in Sessions, Hello(s) PROVE WaitInv'
  <2>1. PICK T \in SessionType : Moved(s, T) /\ Starts(T)
    BY <1>2, HelloStep
  <2> QED BY <2>1, MovedWaits DEF Starts, Waits
<1>3. ASSUME NEW s \in Sessions, EndSession(s) PROVE WaitInv'
  <2>1. Waits(Offline)
    BY DEF Offline, Waits
  <2> QED BY <1>3, <2>1, EndStep, MovedWaits
<1>4. ASSUME NEW s \in Sessions, Notif(s) PROVE WaitInv'
  <2>1. PICK T \in SessionType : Moved(s, T) /\ OneMore(T, session[s])
    BY <1>4, NotifStep
  <2>2. session[s].unacked_direct \in Nat
    BY SessionTyped, BoundAssumption DEF SessionType
  <2>3. Waits(T)
    BY <2>1, <2>2 DEF OneMore, Waits, Unacked
  <2> QED BY <2>1, <2>3, MovedWaits
<1>5. ASSUME NEW s \in Sessions, CheckStorage(s) PROVE WaitInv'
  <2>1. PICK T \in SessionType : Moved(s, T) /\ Restarts(T, session[s])
    BY <1>5, CheckStorageStep
  <2> QED BY <2>1, MovedWaits DEF Restarts, Waits
<1>6. ASSUME NEW s \in Sessions, NEW m \in MsgIds, AckStored(s, m) PROVE WaitInv'
  BY <1>6, AckStoredStep, AckedWaits, MovedWaits
<1>7. ASSUME NEW s \in Sessions, AckDirect(s) PROVE WaitInv'
  BY <1>7, AckDirectStep, AckedWaits, MovedWaits
<1>8. ASSUME NEW s \in Sessions, AckUnknown(s) PROVE WaitInv'
  BY <1>8, AckUnknownStep, AckedWaits, MovedWaits
<1>9. ASSUME NEW s \in Sessions, FetchTopics(s) PROVE WaitInv'
  <2>1. PICK T \in SessionType : Moved(s, T) /\ Topical(T, session[s])
    BY <1>9, FetchTopicsStep
  <2>2. Waits(T)
    BY <2>1, FetchedWaits DEF Topical, Waits
  <2> QED BY <2>1, <2>2, MovedWaits
<1>10. ASSUME NEW s \in Sessions, FetchTimestamps(s) PROVE WaitInv'
  <2>1. PICK T \in SessionType :
          /\ Moved(s, T)
          /\ \/ Ended(T, session[s], ReadFrom(session[s]))
             \/ \E batch : Batch(T, session[s], ReadFrom(session[s]), batch)
    BY <1>10, FetchTimestampsStep
  <2>2. CASE Ended(T, session[s], ReadFrom(session[s]))
    BY <2>1, <2>2, LoopedWaits, MovedWaits DEF Ended
  <2>3. ASSUME NEW batch, Batch(T, session[s], ReadFrom(session[s]), batch) PROVE WaitInv'
    <3>1. batch \ expired \in SUBSET MsgIds
      BY <2>3 DEF Batch, TimestampRows, Readable, TypeOK
    <3> QED BY <2>1, <2>3, <3>1, FetchedWaits, MovedWaits DEF Batch
  <2> QED BY <2>1, <2>2, <2>3
<1>11. ASSUME NEW s \in Sessions, IncrementStorage(s) PROVE WaitInv'
  BY <1>11, IncrementStorageStep, LoopedWaits, MovedWaits DEF Incremented
<1>12. ASSUME NEW s \in Sessions, NEW t \in Topics, PurgeTopic(s, t) PROVE WaitInv'
  <2>1. PICK T \in SessionType : Moved(s, T) /\ Purged(T, session[s])
    BY <1>12, PurgeTopicStep
  <2>2. Waits(T)
    BY <2>1 DEF WaitInv, Purged, Waits, Unacked
  <2> QED BY <2>1, <2>2, MovedWaits
<1> QED BY <1>1, <1>2, <1>3, <1>4, <1>5, <1>6, <1>7, <1>8, <1>9, <1>10, <1>11, <1>12
        DEF Next, Handler, vars, Stamp, StampSaved, Store, Expire, StoreTopic,
            HelloIncomplete, Drop, IncrementFails, ResetUser

(***************************************************************************)
(* check_storage, ack and post_process_all_acked never leave a session      *)
(* idle in the middle of a read of storage with nothing for the client to   *)
(* ack: only an ack continues the read.  Any number of sessions, whatever   *)
(* the order in which rows are written.                                     *)
(***************************************************************************)
THEOREM ReadGoesOn == Spec => []NeverStuck
<1>1. Init => TypeOK /\ WaitInv
  <2>1. ASSUME Init PROVE WaitInv
    BY <2>1 DEF Init, Offline, WaitInv, Waits
  <2> QED BY <2>1, InitTypes
<1>2. TypeOK /\ WaitInv /\ [Next]_vars => (TypeOK /\ WaitInv)'
  BY NextTypes, NextWaits
<1>3. WaitInv => NeverStuck
  BY DEF WaitInv, Waits, NeverStuck, Idle, At
<1> QED BY <1>1, <1>2, <1>3, PTL DEF Spec

-----------------------------------------------------------------------------
(* The pointer and the rows it has passed.                                   *)

\* No timestamp row at or before x is still to be delivered, but for those that
\* a read has passed.
Below(x) == \A m \in rows : kind[m] = NoTopic /\ time[m] <= x => m \in Settled \cup overtaken

RowsOK ==
  /\ rows \subseteq 1..stamped
  /\ inflight \subseteq 1..stamped
  /\ rows \cap inflight = {}
  /\ gone \subseteq expired
  /\ \A n \in inflight : time[n] > None
  /\ \A n \in rows : kind[n] = NoTopic => time[n] > None

(* What a session has read: all of it is settled where the session is about  *)
(* to read on or to write the pointer, else it is settled or unacked there.  *)
ReadOK(S) ==
  /\ Below(S.current_timestamp)
  /\ S.phase = "topics" => S.include_topic
  /\ S.phase = "timestamps" => Below(ReadFrom(S))
  /\ S.phase = "increment" => Below(S.unacked_stored_highest)
  /\ \A m \in rows :
       kind[m] = NoTopic /\ time[m] <= S.unacked_stored_highest =>
         m \in Settled \cup overtaken \/ S.unacked_stored[m] > 0

PointerOK == user \in {"ok", "old"} => Below(stored_timestamp)

ReadInv == RowsOK /\ PointerOK /\ \A s \in Sessions : ReadOK(session[s])

\* Nothing that was acked, has expired or was overtaken is forgotten.
Grows == acked \subseteq acked' /\ expired \subseteq expired' /\ overtaken \subseteq overtaken'

\* A step that puts no timestamp row at or before x unseen.
Kept(x) ==
  \A n \in rows' :
    kind'[n] = NoTopic /\ time'[n] <= x =>
      n \in overtaken' \/ (n \in rows /\ kind[n] = NoTopic /\ time[n] <= x)

\* A step that adds no timestamp row.
Calm ==
  /\ Grows
  /\ \A n \in rows' : kind'[n] = NoTopic => n \in rows /\ kind[n] = NoTopic /\ time'[n] = time[n]

LEMMA CalmKept == ASSUME Calm, NEW x PROVE Grows /\ Kept(x)
BY DEF Calm, Kept

LEMMA KeptBelow ==
  ASSUME Grows, NEW x, Kept(x), Below(x)
  PROVE  Below(x)'
BY DEF Grows, Kept, Below, Settled

LEMMA SessionFields ==
  ASSUME NEW S \in SessionType
  PROVE  /\ S.current_timestamp \in Timestamps
         /\ S.unacked_stored_highest \in Timestamps
         /\ ReadFrom(S) \in Timestamps
         /\ S.unacked_stored \in [MsgIds -> Nat]
         /\ S.check_storage \in BOOLEAN
         /\ S.include_topic \in BOOLEAN
         /\ S.increment_storage \in BOOLEAN
BY DEF SessionType, ReadFrom

LEMMA KeptReads ==
  ASSUME Grows, NEW S, Kept(S.current_timestamp), Kept(S.unacked_stored_highest), ReadOK(S)
  PROVE  ReadOK(S)'
<1>1. Below(S.current_timestamp)'
  BY KeptBelow DEF ReadOK
<1>2. S.phase = "topics" => S.include_topic
  BY DEF ReadOK
<1>3. S.phase = "timestamps" => Below(ReadFrom(S))'
  BY KeptBelow DEF ReadOK, ReadFrom
<1>4. S.phase = "increment" => Below(S.unacked_stored_highest)'
  BY KeptBelow DEF ReadOK
<1>5. ASSUME NEW m \in rows', kind'[m] = NoTopic, time'[m] <= S.unacked_stored_highest
      PROVE  m \in (Settled \cup overtaken)' \/ S.unacked_stored[m] > 0
  BY <1>5 DEF Kept, Grows, ReadOK, Settled
<1> QED BY <1>1, <1>2, <1>3, <1>4, <1>5 DEF ReadOK, ReadFrom

LEMMA CalmReads ==
  ASSUME Calm, NEW S, ReadOK(S)
  PROVE  ReadOK(S)'
BY CalmKept, KeptReads

LEMMA CalmPointer ==
  ASSUME Grows, Kept(stored_timestamp), PointerOK, UNCHANGED stored_timestamp,
         user' \in {"ok", "old"} => user \in {"ok", "old"}
  PROVE  PointerOK'
<1>1. ASSUME NEW x, x = stored_timestamp, Below(stored_timestamp) PROVE Below(x)'
  BY <1>1, KeptBelow
<1> QED BY <1>1 DEF PointerOK, Below

LEMMA OthersRead ==
  ASSUME Calm, ReadInv, NEW s \in Sessions, NEW T, Moved(s, T), ReadOK(T)'
  PROVE  \A r \in Sessions : ReadOK(session[r])'
<1> SUFFICES ASSUME NEW r \in Sessions PROVE ReadOK(session[r])'
  OBVIOUS
<1>1. ASSUME NEW R, R = session'[r] PROVE ReadOK(R)'
  <2>1. R = session[r] \/ R = T
    BY <1>1 DEF Moved
  <2>2. R = session[r] => ReadOK(R)
    BY DEF ReadInv
  <2> QED BY <1>1, <2>1, <2>2, CalmReads
<1> QED BY <1>1 DEF ReadOK, ReadFrom, Below, Settled

\* Nothing is at or before None.
LEMMA NoneOK ==
  ASSUME TypeOK, RowsOK
  PROVE  Below(None)
<1>1. \A m \in rows : time[m] \in Nat
  BY DEF TypeOK, Timestamps
<1> QED BY <1>1 DEF RowsOK, Below, None

LEMMA StartsReads ==
  ASSUME TypeOK, RowsOK, NEW T \in SessionType, Starts(T), Below(stored_timestamp)
  PROVE  ReadOK(T)
BY NoneOK DEF Starts, ReadOK, Below

LEMMA OfflineReads == ASSUME TypeOK, RowsOK PROVE ReadOK(Offline)
<1>1. /\ Offline.phase = "offline"
      /\ Offline.current_timestamp = None
      /\ Offline.unacked_stored_highest = None
  BY DEF Offline
<1> QED BY <1>1, NoneOK DEF ReadOK, Below

LEMMA SameReads ==
  ASSUME NEW S, NEW T, ReadOK(S), OneMore(T, S) \/ Purged(T, S)
  PROVE  ReadOK(T)
<1>1. ReadFrom(T) = ReadFrom(S)
  BY DEF ReadFrom, OneMore, Purged
<1> QED BY <1>1 DEF ReadOK, OneMore, Purged

LEMMA RestartsReads ==
  ASSUME NEW S, NEW T, ReadOK(S), Restarts(T, S)
  PROVE  ReadOK(T)
BY DEF ReadOK, Restarts

LEMMA TopicalReads ==
  ASSUME TypeOK, RowsOK, NEW S \in SessionType, NEW T \in SessionType, ReadOK(S),
         S.phase = "topics", Topical(T, S)
  PROVE  ReadOK(T)
<1>1. CASE Carries(T, S) /\ T.phase = "timestamps"
  <2>1. ReadFrom(T) = T.current_timestamp
    BY <1>1 DEF Carries, ReadFrom, ReadOK
  <2> QED BY <1>1, <2>1 DEF Carries, ReadOK
<1>2. ASSUME NEW U \in SessionType, NEW live \in SUBSET MsgIds,
             Fetched(T, U, live),
             U.current_timestamp = S.current_timestamp,
             U.unacked_stored_highest = None,
             ~U.increment_storage
      PROVE  ReadOK(T)
  <2>1. /\ T.current_timestamp = S.current_timestamp
        /\ T.unacked_stored_highest = None
    BY <1>2 DEF Fetched
  <2>2. ReadFrom(T) = T.current_timestamp
    BY <2>1 DEF ReadFrom
  <2>3. T.phase # "increment" /\ (T.phase = "topics" => T.include_topic)
    BY <1>2, SessionFields DEF Fetched, LoopPhase
  <2> QED BY <2>1, <2>2, <2>3, NoneOK DEF ReadOK, Below
<1> QED BY <1>1, <1>2 DEF Topical

LEMMA EndedReads ==
  ASSUME TypeOK, NEW S \in SessionType, NEW T \in SessionType, ReadOK(S),
         S.phase = "timestamps", Ended(T, S, ReadFrom(S))
  PROVE  ReadOK(T)
<1>1. Below(ReadFrom(S))
  BY DEF ReadOK
<1>2. /\ T.current_timestamp = S.current_timestamp
      /\ T.unacked_stored_highest = ReadFrom(S)
      /\ T.phase \in {"increment", "idle", "reset"}
  BY SessionFields DEF Ended, Carries, LoopPhase
<1> QED BY <1>1, <1>2 DEF ReadOK, Below

\* A batch of live messages is unacked; an expired one leaves all settled.
LEMMA BatchReads ==
  ASSUME TypeOK, RowsOK, NEW S \in SessionType, NEW T \in SessionType, ReadOK(S),
         S.phase = "timestamps", NEW batch, Batch(T, S, ReadFrom(S), batch),
         UNCHANGED <<rows, kind, time, acked, expired>>, overtaken \subseteq overtaken'
  PROVE  ReadOK(T)'
<1> DEFINE from == ReadFrom(S)
<1>1. PICK U \in SessionType, last \in batch :
        /\ Fetched(T, U, batch \ expired)
        /\ ~U.include_topic
        /\ U.current_timestamp = S.current_timestamp
        /\ U.unacked_stored_highest = time[last]
        /\ \A m \in TimestampRows(from) : time[m] <= time[last] => m \in batch \cup overtaken'
  BY DEF Batch
<1>2. /\ T.current_timestamp = S.current_timestamp
      /\ T.unacked_stored_highest = time[last]
      /\ T.unacked_stored = Sent(U, batch \ expired)
      /\ ~T.include_topic
  BY <1>1 DEF Fetched
<1>3. Below(from)
  BY DEF ReadOK
<1>4. from \in Nat /\ \A m \in rows : time[m] \in Nat
  BY SessionFields DEF Timestamps, TypeOK
<1>5. batch \subseteq {m \in rows : kind[m] = NoTopic}
  BY DEF Batch, TimestampRows, Readable
<1> HIDE DEF from
<1>6. ASSUME NEW m \in rows, kind[m] = NoTopic, time[m] <= T.unacked_stored_highest
      PROVE  m \in Settled \cup overtaken' \/ m \in batch \ expired
  <2>1. CASE time[m] <= from
    BY <1>3, <1>6, <2>1 DEF Below
  <2>2. CASE m \in gone
    BY <2>2 DEF RowsOK, Settled
  <2>3. CASE time[m] > from /\ m \notin gone
    <3>1. m \in TimestampRows(from)
      BY <1>6, <2>3 DEF TimestampRows, Readable
    <3> QED BY <1>1, <1>2, <1>6, <3>1 DEF Settled
  <2> QED BY <1>4, <2>1, <2>2, <2>3
<1>7. \A m \in batch \ expired : T.unacked_stored[m] > 0
  <2>1. U.unacked_stored \in [MsgIds -> Nat]
    BY SessionFields
  <2>2. rows \subseteq MsgIds
    BY DEF TypeOK
  <2> QED BY <1>2, <1>5, <2>1, <2>2 DEF Sent
<1>8. batch \ expired = {} => Below(T.unacked_stored_highest)'
  BY <1>6 DEF Below, Settled
<1>9. T.phase \in {"timestamps", "increment"} => batch \ expired = {}
  BY <1>1 DEF Fetched
<1>10. T.phase # "topics"
  BY <1>1, SessionFields DEF Fetched, LoopPhase
<1>11. ReadFrom(T) \in {T.current_timestamp, T.unacked_stored_highest}
  BY DEF ReadFrom
<1>12. Below(T.current_timestamp)'
  BY <1>2 DEF ReadOK, Below, Settled
<1>13. T.phase = "timestamps" => Below(ReadFrom(T))'
  BY <1>8, <1>9, <1>11, <1>12
<1>14. \A m \in rows' :
         kind'[m] = NoTopic /\ time'[m] <= T.unacked_stored_highest =>
           m \in (Settled \cup overtaken)' \/ T.unacked_stored[m] > 0
  BY <1>6, <1>7 DEF Settled
<1> QED BY <1>8, <1>9, <1>10, <1>12, <1>13, <1>14 DEF ReadOK, ReadFrom

LEMMA IncrementedReads ==
  ASSUME NEW S \in SessionType, NEW T \in SessionType, ReadOK(S), S.phase = "increment",
         Incremented(T, S)
  PROVE  ReadOK(T)
<1>1. /\ T.current_timestamp = S.unacked_stored_highest
      /\ T.unacked_stored_highest = S.unacked_stored_highest
      /\ T.unacked_stored = S.unacked_stored
      /\ T.phase = "topics" => T.include_topic
  BY SessionFields DEF Incremented, Carries, LoopPhase
<1>2. ReadFrom(T) = S.unacked_stored_highest
  BY <1>1 DEF ReadFrom
<1> QED BY <1>1, <1>2 DEF ReadOK

\* The ack of m leaves the other unacked messages; with none left all is settled.
LEMMA AckedReads ==
  ASSUME TypeOK, TypeOK', Calm, NEW S \in SessionType, NEW T \in SessionType, ReadOK(S),
         S.phase = "idle", NEW m, m \in MsgIds => m \in acked', AckedSome(T, S, m)
  PROVE  ReadOK(T)'
<1>1. PICK U \in SessionType :
        /\ Acked(T, U)
        /\ U.phase = S.phase
        /\ U.include_topic = S.include_topic
        /\ U.unacked_stored_highest = S.unacked_stored_highest
        /\ U.current_timestamp = S.current_timestamp
        /\ \A n \in MsgIds : n # m => U.unacked_stored[n] = S.unacked_stored[n]
  BY DEF AckedSome
<1>2. /\ T.unacked_stored_highest = S.unacked_stored_highest
      /\ T.current_timestamp = S.current_timestamp
      /\ T.unacked_stored = U.unacked_stored
  BY <1>1 DEF Acked, Carries
<1>3. ReadOK(S)'
  BY CalmReads
<1>4. Below(T.current_timestamp)'
  BY <1>2, <1>3 DEF ReadOK
<1>5. \A n \in rows' : kind'[n] = NoTopic /\ time'[n] <= T.unacked_stored_highest =>
        n \in (Settled \cup overtaken)' \/ T.unacked_stored[n] > 0
  <2>1. rows' \subseteq MsgIds
    BY DEF TypeOK
  <2> QED BY <1>1, <1>2, <1>3, <2>1 DEF ReadOK, Settled
<1>6. CASE Unacked(U)
  <2>1. T.phase = "idle"
    BY <1>1, <1>6 DEF Acked
  <2> QED BY <1>4, <1>5, <2>1 DEF ReadOK
<1>7. CASE ~Unacked(U)
  <2>1. \A n \in MsgIds : ~(T.unacked_stored[n] > 0)
    BY <1>2, <1>7, SessionFields DEF Unacked
  <2>2. rows' \subseteq MsgIds
    BY DEF TypeOK
  <2>3. Below(T.unacked_stored_highest)'
    BY <1>5, <2>1, <2>2 DEF Below
  <2>4. T.phase = "topics" => T.include_topic
    BY <1>1, <1>7, SessionFields DEF Acked, AckPhase, Carries
  <2>5. Below(ReadFrom(T))'
    BY <1>4, <2>3 DEF ReadFrom
  <2> QED BY <1>4, <1>5, <2>3, <2>4, <2>5 DEF ReadOK
<1> QED BY <1>6, <1>7

\* A step that writes no row and stamps no message.
Shrinks ==
  /\ UNCHANGED <<stamped, kind, time, inflight, expired, gone>>
  /\ rows' \subseteq rows /\ acked \subseteq acked' /\ overtaken \subseteq overtaken'

LEMMA ShrinksIsCalm ==
  ASSUME RowsOK, Shrinks
  PROVE  Calm /\ RowsOK'
BY DEF Shrinks, Calm, Grows, RowsOK

\* The session of the step has read what it says it has.
LEMMA SessionEnds ==
  ASSUME ReadInv, Shrinks, UNCHANGED <<user, stored_timestamp>>,
         NEW s \in Sessions, NEW T, Moved(s, T), ReadOK(T)'
  PROVE  ReadInv'
<1>1. Calm /\ RowsOK'
  BY ShrinksIsCalm DEF ReadInv
<1>2. PointerOK'
  BY <1>1, CalmKept, CalmPointer DEF ReadInv
<1> QED BY <1>1, <1>2, OthersRead DEF ReadInv

LEMMA SessionStep ==
  ASSUME ReadInv, Shrinks, UNCHANGED <<user, stored_timestamp>>,
         NEW s \in Sessions, NEW T, Moved(s, T), ReadOK(T)
  PROVE  ReadInv'
<1>1. ReadOK(T)'
  BY ShrinksIsCalm, CalmReads DEF ReadInv
<1> QED BY <1>1, SessionEnds

LEMMA AckStep ==
  ASSUME TypeOK, TypeOK', ReadInv, Shrinks, UNCHANGED <<user, stored_timestamp>>,
         NEW s \in Sessions, session[s].phase = "idle",
         NEW T \in SessionType, Moved(s, T), NEW m, AckedSome(T, session[s], m),
         m \in MsgIds => m \in acked'
  PROVE  ReadInv'
<1>1. Calm
  BY ShrinksIsCalm DEF ReadInv
<1>2. session[s] \in SessionType /\ ReadOK(session[s])
  BY SessionTyped DEF ReadInv
<1>3. ReadOK(T)'
  BY <1>1, <1>2, AckedReads
<1> QED BY <1>3, SessionEnds

\* No session moves: nothing new is at or before any of the pointers.
LEMMA WriterStep ==
  ASSUME ReadInv, Grows, RowsOK', Kept(stored_timestamp),
         \A r \in Sessions : /\ Kept(session[r].current_timestamp)
                             /\ Kept(session[r].unacked_stored_highest),
         UNCHANGED <<user, stored_timestamp, session>>
  PROVE  ReadInv'
<1>1. PointerOK'
  BY CalmPointer DEF ReadInv
<1>2. ASSUME NEW r \in Sessions PROVE ReadOK(session[r])'
  <2>1. ASSUME NEW R, R = session[r] PROVE ReadOK(R)'
    BY <2>1, KeptReads DEF ReadInv
  <2> QED BY <2>1 DEF ReadOK, ReadFrom, Below, Settled
<1> QED BY <1>1, <1>2 DEF ReadInv

LEMMA CalmStep ==
  ASSUME ReadInv, Calm, RowsOK', UNCHANGED <<user, stored_timestamp, session>>
  PROVE  ReadInv'
BY CalmKept, WriterStep

\* A stamped timestamp message is no row yet.
LEMMA StampedRows ==
  ASSUME TypeOK, RowsOK, StampTimestamp, UNCHANGED <<kind, rows, expired, gone, acked, overtaken>>
  PROVE  Calm /\ RowsOK'
<1>1. PICK instant \in {LastInstant, LastInstant + 1} \ {0} :
        /\ StampIn(instant)
        /\ inflight' = inflight \cup {stamped + 1}
  BY DEF StampTimestamp
<1>2. instant > None /\ stamped \in Nat /\ stamped + 1 \in MsgIds
  BY <1>1, InstantTypes, StampTypes DEF Timestamps, None, TypeOK
<1>3. /\ time'[stamped + 1] = instant
      /\ \A n \in 1..stamped : time'[n] = time[n]
  <2>1. time \in [MsgIds -> Timestamps] /\ stamped + 1 \notin 1..stamped
    BY <1>2 DEF TypeOK
  <2>2. 1..stamped \subseteq MsgIds
    BY <1>2, BoundAssumption DEF MsgIds
  <2> QED BY <1>1, <1>2, <2>1, <2>2 DEF StampIn
<1>4. Calm
  BY <1>3 DEF Calm, Grows, RowsOK
<1>5. 1..stamped \subseteq 1..stamped' /\ stamped + 1 \in 1..stamped' /\ stamped + 1 \notin 1..stamped
  BY <1>1, <1>2 DEF StampIn
<1>6. RowsOK'
  BY <1>1, <1>2, <1>3, <1>5 DEF RowsOK
<1> QED BY <1>4, <1>6

\* A row written behind a pointer is overtaken.
LEMMA StoredRows ==
  ASSUME TypeOK, RowsOK, NEW m \in MsgIds, Store(m)
  PROVE  /\ Grows /\ RowsOK' /\ Kept(stored_timestamp)
         /\ \A r \in Sessions : /\ Kept(session[r].current_timestamp)
                                /\ Kept(session[r].unacked_stored_highest)
<1>1. /\ rows' \subseteq rows \cup {m} /\ m \in inflight /\ inflight' = inflight \ {m}
      /\ UNCHANGED <<stamped, kind, time, expired, gone, acked>>
      /\ overtaken' = IF PassedBy(time[m]) THEN overtaken \cup {m} ELSE overtaken
  BY DEF Store
<1>2. Grows
  BY <1>1 DEF Grows
<1>3. RowsOK'
  BY <1>1 DEF RowsOK
<1>4. ASSUME NEW x, time[m] <= x => PassedBy(time[m]) PROVE Kept(x)
  BY <1>1, <1>4 DEF Kept
<1>5. Kept(stored_timestamp)
  BY <1>4 DEF PassedBy
<1>6. ASSUME NEW r \in Sessions
      PROVE  Kept(session[r].current_timestamp) /\ Kept(session[r].unacked_stored_highest)
  BY <1>4 DEF PassedBy
<1> QED BY <1>2, <1>3, <1>5, <1>6

\* A topic row is no timestamp row.
LEMMA TopicStored ==
  ASSUME TypeOK, RowsOK, NEW t \in Topics, StoreTopic(t)
  PROVE  Calm /\ RowsOK'
<1>1. stamped \in Nat /\ stamped + 1 \in MsgIds /\ stamped + 1 \notin 1..stamped
  <2>1. stamped \in Nat
    BY BoundAssumption DEF TypeOK
  <2>2. LastInstant \in Timestamps /\ StampIn(LastInstant)
    BY InstantTypes DEF StoreTopic
  <2> QED BY <2>1, <2>2, StampInTypes
<1>2. /\ stamped' = stamped + 1
      /\ rows' \subseteq rows \cup {stamped + 1}
      /\ UNCHANGED <<inflight, expired, gone, acked, overtaken>>
  BY DEF StoreTopic, StampIn
<1>3. /\ kind'[stamped + 1] # NoTopic
      /\ \A n \in 1..stamped : kind'[n] = kind[n] /\ time'[n] = time[n]
  <2>1. kind \in [MsgIds -> Topics \cup {NoTopic}] /\ time \in [MsgIds -> Timestamps]
    BY DEF TypeOK
  <2>2. 1..stamped \subseteq MsgIds
    BY <1>1, BoundAssumption DEF MsgIds
  <2> QED BY <1>1, <2>1, <2>2, TopicAssumption DEF StoreTopic, StampIn
<1>4. Calm
  BY <1>2, <1>3 DEF Calm, Grows, RowsOK
<1>5. 1..stamped \subseteq 1..stamped' /\ stamped + 1 \in 1..stamped'
  BY <1>1, <1>2
<1>6. RowsOK'
  BY <1>1, <1>2, <1>3, <1>5 DEF RowsOK
<1> QED BY <1>4, <1>6

LEMMA NextReads == ASSUME TypeOK, TypeOK', ReadInv, [Next]_vars PROVE ReadInv'
<1> USE DEF publisherVars, storageVars
<1>0. /\ RowsOK /\ PointerOK
      /\ \A s \in Sessions : session[s] \in SessionType /\ ReadOK(session[s])
  BY SessionTyped DEF ReadInv
<1>1. CASE UNCHANGED vars
  <2>1. Calm /\ RowsOK'
    BY <1>0, <1>1 DEF vars, Calm, Grows, RowsOK
  <2> QED BY <1>1, <2>1, CalmStep DEF vars
<1>2. CASE Stamp
  BY <1>0, <1>2, StampedRows, CalmStep DEF Stamp
<1>3. CASE StampSaved
  BY <1>0, <1>3, StampedRows, CalmStep DEF StampSaved
<1>4. ASSUME NEW m \in MsgIds, Store(m) PROVE ReadInv'
  BY <1>0, <1>4, StoredRows, WriterStep DEF Store
<1>5. ASSUME NEW m \in MsgIds, Expire(m) PROVE ReadInv'
  <2>1. Calm /\ RowsOK'
    BY <1>0, <1>5 DEF Expire, Calm, Grows, RowsOK
  <2> QED BY <1>5, <2>1, CalmStep DEF Expire
<1>6. ASSUME NEW t \in Topics, StoreTopic(t) PROVE ReadInv'
  BY <1>0, <1>6, TopicStored, CalmStep DEF StoreTopic
<1>7. ASSUME NEW s \in Sessions, Hello(s) PROVE ReadInv'
  <2>1. PICK T \in SessionType : Moved(s, T) /\ Starts(T)
    BY <1>7, HelloStep
  <2>2. ReadOK(T)
    BY <1>0, <1>7, <2>1, StartsReads DEF Hello, PointerOK
  <2> QED BY <1>7, <2>1, <2>2, SessionStep DEF Hello, Shrinks
<1>8. ASSUME NEW s \in Sessions, HelloIncomplete(s) PROVE ReadInv'
  <2>1. Shrinks
    BY <1>8 DEF HelloIncomplete, Shrinks
  <2>2. Calm /\ RowsOK'
    BY <1>0, <2>1, ShrinksIsCalm
  <2>3. PointerOK'
    BY <1>0, <1>8, <2>2, CalmKept, CalmPointer DEF HelloIncomplete
  <2>4. ASSUME NEW r \in Sessions PROVE ReadOK(session[r])'
    <3>1. ASSUME NEW R, R = session[r] PROVE ReadOK(R)'
      BY <1>0, <2>2, <3>1, CalmReads
    <3> QED BY <1>8, <3>1 DEF HelloIncomplete, ReadOK, ReadFrom, Below, Settled
  <2> QED BY <2>2, <2>3, <2>4 DEF ReadInv
<1>9. ASSUME NEW s \in Sessions, Drop(s) \/ IncrementFails(s) PROVE ReadInv'
  <2>1. Moved(s, Offline) /\ ReadOK(Offline)
    BY <1>0, <1>9, EndStep, OfflineReads DEF Drop, IncrementFails
  <2> QED BY <1>9, <2>1, SessionStep DEF Drop, IncrementFails, Shrinks
<1>10. ASSUME NEW s \in Sessions, Notif(s) PROVE ReadInv'
  <2>1. PICK T \in SessionType : Moved(s, T) /\ OneMore(T, session[s])
    BY <1>10, NotifStep
  <2>2. ReadOK(T)
    BY <1>0, <2>1, SameReads
  <2> QED BY <1>10, <2>1, <2>2, SessionStep DEF Notif, Shrinks
<1>11. ASSUME NEW s \in Sessions, CheckStorage(s) PROVE ReadInv'
  <2>1. PICK T \in SessionType : Moved(s, T) /\ Restarts(T, session[s])
    BY <1>11, CheckStorageStep
  <2>2. ReadOK(T)
    BY <1>0, <2>1, RestartsReads
  <2> QED BY <1>11, <2>1, <2>2, SessionStep DEF CheckStorage, Shrinks
<1>12. ASSUME NEW s \in Sessions, NEW m \in MsgIds, AckStored(s, m) PROVE ReadInv'
  <2>1. PICK T \in SessionType : Moved(s, T) /\ AckedSome(T, session[s], m)
    BY <1>12, AckStoredStep
  <2>2. Shrinks /\ m \in acked' /\ session[s].phase = "idle"
    BY <1>12 DEF AckStored, Shrinks, Idle, At
  <2> QED BY <1>12, <2>1, <2>2, AckStep DEF AckStored
<1>13. ASSUME NEW s \in Sessions, AckDirect(s) \/ AckUnknown(s) PROVE ReadInv'
  <2>1. PICK T \in SessionType : Moved(s, T) /\ AckedSome(T, session[s], None)
    BY <1>13, AckDirectStep, AckUnknownStep
  <2>2. Shrinks /\ session[s].phase = "idle" /\ UNCHANGED <<user, stored_timestamp>>
    BY <1>13 DEF AckDirect, AckUnknown, Shrinks, Idle, At
  <2>3. None \notin MsgIds
    BY BoundAssumption DEF None, MsgIds
  <2> QED BY <2>1, <2>2, <2>3, AckStep
<1>14. ASSUME NEW s \in Sessions, FetchTopics(s) PROVE ReadInv'
  <2>1. PICK T \in SessionType : Moved(s, T) /\ Topical(T, session[s])
    BY <1>14, FetchTopicsStep
  <2>2. ReadOK(T)
    BY <1>0, <1>14, <2>1, TopicalReads DEF FetchTopics, At
  <2> QED BY <1>14, <2>1, <2>2, SessionStep DEF FetchTopics, Shrinks
<1>15. ASSUME NEW s \in Sessions, FetchTimestamps(s) PROVE ReadInv'
  <2>1. PICK T \in SessionType :
          /\ Moved(s, T)
          /\ \/ Ended(T, session[s], ReadFrom(session[s]))
             \/ \E batch : Batch(T, session[s], ReadFrom(session[s]), batch)
    BY <1>15, FetchTimestampsStep
  <2>2. session[s].phase = "timestamps"
    BY <1>15 DEF FetchTimestamps, At
  <2>3. /\ UNCHANGED <<stamped, kind, time, inflight, rows, expired, gone, acked>>
        /\ UNCHANGED <<user, stored_timestamp>>
        /\ overtaken \subseteq overtaken'
    BY <1>15 DEF FetchTimestamps
  <2>4. Shrinks
    BY <2>3 DEF Shrinks
  <2>5. CASE Ended(T, session[s], ReadFrom(session[s]))
    <3>1. ReadOK(T)
      BY <1>0, <2>2, <2>5, EndedReads
    <3> QED BY <2>1, <2>3, <2>4, <3>1, SessionStep
  <2>6. ASSUME NEW batch, Batch(T, session[s], ReadFrom(session[s]), batch) PROVE ReadInv'
    <3>1. ReadOK(T)'
      BY <1>0, <2>2, <2>3, <2>6, BatchReads
    <3> QED BY <2>1, <2>3, <2>4, <3>1, SessionEnds
  <2> QED BY <2>1, <2>5, <2>6
<1>16. ASSUME NEW s \in Sessions, IncrementStorage(s) PROVE ReadInv'
  <2>1. PICK T \in SessionType : Moved(s, T) /\ Incremented(T, session[s])
    BY <1>16, IncrementStorageStep
  <2>2. session[s].phase = "increment"
    BY <1>16 DEF IncrementStorage, At
  <2>3. ReadOK(T)
    BY <1>0, <2>1, <2>2, IncrementedReads
  <2>4. Shrinks /\ stored_timestamp' = session[s].unacked_stored_highest
    BY <1>16 DEF IncrementStorage, Shrinks
  <2>5. Calm /\ RowsOK'
    BY <1>0, <2>4, ShrinksIsCalm
  <2>6. ReadOK(T)'
    BY <2>3, <2>5, CalmReads
  <2>7. T.current_timestamp = stored_timestamp'
    BY <2>1, <2>4 DEF Incremented, Carries
  <2>8. PointerOK'
    BY <2>6, <2>7 DEF ReadOK, PointerOK, Below, Settled
  <2> QED BY <2>1, <2>5, <2>6, <2>8, OthersRead DEF ReadInv
<1>17. ASSUME NEW s \in Sessions, ResetUser(s) PROVE ReadInv'
  <2>1. Moved(s, Offline) /\ ReadOK(Offline)
    BY <1>0, <1>17, EndStep, OfflineReads DEF ResetUser
  <2>2. Shrinks
    BY <1>17 DEF ResetUser, Shrinks
  <2>3. Calm /\ RowsOK'
    BY <1>0, <2>2, ShrinksIsCalm
  <2>4. ASSUME NEW T, T = Offline PROVE ReadOK(T)'
    BY <2>1, <2>3, <2>4, CalmReads
  <2>5. PointerOK'
    BY <1>17 DEF ResetUser, PointerOK
  <2> QED BY <2>1, <2>3, <2>4, <2>5, OthersRead DEF ReadInv
<1>18. ASSUME NEW s \in Sessions, NEW t \in Topics, PurgeTopic(s, t) PROVE ReadInv'
  <2>1. PICK T \in SessionType : Moved(s, T) /\ Purged(T, session[s])
    BY <1>18, PurgeTopicStep
  <2>2. ReadOK(T)
    BY <1>0, <2>1, SameReads
  <2> QED BY <1>18, <2>1, <2>2, SessionStep DEF PurgeTopic, Shrinks
<1> QED BY <1>1, <1>2, <1>3, <1>4, <1>5, <1>6, <1>7, <1>8, <1>9, <1>10, <1>11, <1>12,
           <1>13, <1>14, <1>15, <1>16, <1>17, <1>18 DEF Next, Handler

LEMMA InitReads == ASSUME Init PROVE ReadInv
<1>0. RowsOK
  BY DEF Init, RowsOK
<1>1. TypeOK
  BY InitTypes
<1>2. \A s \in Sessions : ReadOK(session[s])
  BY <1>0, <1>1, OfflineReads DEF Init
<1>3. PointerOK
  BY <1>1, <1>0, NoneOK DEF Init, PointerOK
<1> QED BY <1>0, <1>2, <1>3 DEF ReadInv

(***************************************************************************)
(* increment_storage never writes a current_timestamp past a timestamp      *)
(* message that is stored and neither acked nor expired, except for one      *)
(* whose row was written when a read had already passed its millisecond, or *)
(* that the limit of a read cut off within its millisecond.  So whatever    *)
(* the sessions of the user, on however many nodes, read and ack between    *)
(* the steps of check_storage, they lose nothing of what their reads        *)
(* returned.                                                                *)
(***************************************************************************)
THEOREM PointerPassesOnlySettled == Spec => []NothingSkipped
<1>1. Init => TypeOK /\ ReadInv
  BY InitTypes, InitReads
<1>2. TypeOK /\ ReadInv /\ [Next]_vars => (TypeOK /\ ReadInv)'
  BY NextTypes, NextReads
<1>3. ReadInv => NothingSkipped
  BY DEF ReadInv, PointerOK, Below, NothingSkipped, Passed
<1> QED BY <1>1, <1>2, <1>3, PTL DEF Spec

-----------------------------------------------------------------------------
(* What the pointer remembers, when the user has one session at a time.      *)

\* The rows that have been written.
Written == (1..stamped) \ inflight

\* The client was sent timestamp message m by S or has acked it earlier.
Out(S, m) == kind[m] = NoTopic /\ (m \in acked \/ S.unacked_stored[m] > 0)
WasSent(S, m) == m \in rows /\ Out(S, m)

\* The pointer has passed m, will be moved past it, or m will be read again.
Noted(S, m) ==
  \/ time[m] <= stored_timestamp
  \/ S.phase = "increment" /\ time[m] <= S.unacked_stored_highest
  \/ /\ S.check_storage
     /\ \/ S.include_topic
        \/ S.unacked_stored_highest = None
        \/ time[m] > S.unacked_stored_highest
        \/ S.increment_storage

Online(S) ==
  /\ user \in {"ok", "old"}
  /\ S.current_timestamp = stored_timestamp
  /\ S.phase \in {"topics", "timestamps"} => S.check_storage
  /\ S.unacked_stored_highest = None \/ S.current_timestamp <= S.unacked_stored_highest
  /\ \A m \in MsgIds \ expired : WasSent(S, m) => Noted(S, m)

(* What the session sent was written, and it notes what is still stored.     *)
AloneOK(S) ==
  /\ \A m \in MsgIds : Out(S, m) => m \in Written
  /\ S.phase # "offline" => Online(S)

AloneInv ==
  /\ user # "partial"
  /\ \A s \in Sessions : AloneOK(session[s])

\* A step that writes no row a second time and makes no timestamp row of a topic row.
Steady ==
  /\ \A n \in MsgIds : kind'[n] = NoTopic => kind[n] = NoTopic
  /\ \A n \in Written : n \in Written' /\ (n \in rows' => n \in rows) /\ time'[n] = time[n]
  /\ expired \subseteq expired'

LEMMA StoredNat ==
  ASSUME TypeOK
  PROVE  stored_timestamp \in Nat /\ \A m \in MsgIds : time[m] \in Nat
BY DEF TypeOK, Timestamps

LEMMA SteadyAlone ==
  ASSUME Steady, NEW S, AloneOK(S), UNCHANGED <<acked, user, stored_timestamp>>
  PROVE  AloneOK(S)'
<1>1. \A m \in MsgIds : Out(S, m)' => Out(S, m) /\ m \in Written
  BY DEF AloneOK, Steady, Out
<1>2. \A m \in MsgIds : Out(S, m)' => m \in Written'
  BY <1>1 DEF Steady
<1>3. \A m \in MsgIds : WasSent(S, m)' => WasSent(S, m) /\ m \in Written
  BY <1>1 DEF Steady, WasSent
<1>4. \A m \in Written : Noted(S, m) => Noted(S, m)'
  BY DEF Noted, Steady
<1>5. S.phase # "offline" => Online(S)'
  BY <1>3, <1>4 DEF AloneOK, Online, Steady
<1> QED BY <1>2, <1>5 DEF AloneOK

LEMMA WriterAlone ==
  ASSUME AloneInv, Steady, UNCHANGED <<acked, user, stored_timestamp, session>>
  PROVE  AloneInv'
<1>1. \A s \in Sessions : AloneOK(session[s])'
  <2> SUFFICES ASSUME NEW s \in Sessions PROVE AloneOK(session[s])'
    OBVIOUS
  <2>1. ASSUME NEW S, S = session[s] PROVE AloneOK(S)'
    BY <2>1, SteadyAlone DEF AloneInv
  <2> QED BY <2>1 DEF AloneOK, Online, WasSent, Out, Noted
<1> QED BY <1>1 DEF AloneInv

LEMMA MovedAlone ==
  ASSUME NEW s, Sessions = {s}, NEW T, Moved(s, T), AloneOK(T)', user' # "partial"
  PROVE  AloneInv'
<1>1. \A r \in Sessions : session'[r] = T
  BY DEF Moved
<1> QED BY <1>1 DEF AloneInv, AloneOK, Online, WasSent, Out, Noted

LEMMA OfflineAlone ==
  ASSUME Steady, UNCHANGED acked, NEW S, AloneOK(S)
  PROVE  AloneOK(Offline)'
<1>1. Offline.phase = "offline" /\ Offline.unacked_stored = [m \in MsgIds |-> 0]
  BY DEF Offline
<1>2. \A m \in MsgIds : Out(Offline, m)' => Out(S, m)
  BY <1>1 DEF Out, Steady
<1> QED BY <1>1, <1>2 DEF AloneOK, Steady

LEMMA StartsAlone ==
  ASSUME NEW S, AloneOK(S), user \in {"ok", "old"}, NEW T, Starts(T)
  PROVE  AloneOK(T)
<1>1. \A m \in MsgIds : Out(T, m) => Out(S, m) /\ Noted(T, m)
  BY DEF Starts, Out, Noted
<1> QED BY <1>1 DEF WasSent, AloneOK, Online, Starts

LEMMA SameAlone ==
  ASSUME NEW S, AloneOK(S), NEW T, OneMore(T, S) \/ Purged(T, S)
  PROVE  AloneOK(T)
<1>1. \A m \in MsgIds : Out(T, m) => Out(S, m)
  BY DEF OneMore, Purged, Out
<1>2. \A m \in MsgIds : Noted(S, m) => Noted(T, m)
  BY DEF OneMore, Purged, Noted
<1> QED BY <1>1, <1>2 DEF WasSent, AloneOK, Online, OneMore, Purged

LEMMA RestartsAlone ==
  ASSUME NEW S, S.phase # "offline", AloneOK(S), NEW T, Restarts(T, S)
  PROVE  AloneOK(T)
<1>1. \A m \in MsgIds : Out(T, m) => Out(S, m) /\ Noted(T, m)
  BY DEF Restarts, Out, Noted
<1> QED BY <1>1 DEF WasSent, AloneOK, Online, Restarts

LEMMA TopicalAlone ==
  ASSUME TypeOK, NEW S \in SessionType, S.phase = "topics", AloneOK(S),
         NEW T \in SessionType, Topical(T, S)
  PROVE  AloneOK(T)
<1>1. CASE Carries(T, S) /\ T.phase = "timestamps"
  <2>1. \A m \in MsgIds : Out(T, m) => Out(S, m)
    BY <1>1 DEF Carries, Out
  <2>2. \A m \in MsgIds : Noted(S, m) => Noted(T, m)
    BY <1>1 DEF Carries, Noted
  <2> QED BY <1>1, <2>1, <2>2 DEF WasSent, AloneOK, Online, Carries
<1>2. ASSUME NEW U \in SessionType, NEW live \in SUBSET MsgIds,
             Fetched(T, U, live),
             U.check_storage = S.check_storage,
             U.include_topic = S.include_topic,
             U.unacked_stored = S.unacked_stored,
             U.current_timestamp = S.current_timestamp,
             U.unacked_stored_highest = None,
             \A m \in live : kind[m] # NoTopic /\ m \in rows
      PROVE  AloneOK(T)
  <2>1. \A m \in MsgIds : Out(T, m) => Out(S, m)
    BY <1>2 DEF Fetched, Sent, Out
  <2>2. \A m \in MsgIds : Noted(S, m) => Noted(T, m)
    BY <1>2 DEF Fetched, Noted
  <2> QED BY <1>2, <2>1, <2>2 DEF WasSent, AloneOK, Online, Fetched
<1> QED BY <1>1, <1>2 DEF Topical

\* A stored message sent, not expired and after `from` is read.
LEMMA SentIsRead ==
  ASSUME gone \subseteq expired, NEW S, NEW from,
         NEW m \in MsgIds \ expired, WasSent(S, m), time[m] > from
  PROVE  m \in TimestampRows(from)
BY DEF WasSent, Out, TimestampRows, Readable

LEMMA EndedAlone ==
  ASSUME TypeOK, gone \subseteq expired, NEW S \in SessionType, S.phase = "timestamps",
         AloneOK(S), NEW T \in SessionType, Ended(T, S, ReadFrom(S))
  PROVE  AloneOK(T)
<1>1. /\ T.current_timestamp = S.current_timestamp
      /\ T.unacked_stored_highest = ReadFrom(S)
      /\ T.unacked_stored = S.unacked_stored
      /\ ~T.check_storage
      /\ IF S.increment_storage THEN T.phase = "increment" ELSE T.phase \in {"idle", "reset"}
      /\ TimestampRows(ReadFrom(S)) = {}
  BY DEF Ended, Carries, LoopPhase
<1>2. /\ ReadFrom(S) \in Nat /\ stored_timestamp \in Nat
      /\ \A m \in MsgIds : time[m] \in Nat
  BY SessionFields, StoredNat DEF Timestamps
<1>3. Online(S)
  BY DEF AloneOK
<1>4. ASSUME NEW m \in MsgIds \ expired, WasSent(S, m) PROVE Noted(T, m)
  <2>1. time[m] <= ReadFrom(S)
    BY <1>1, <1>2, <1>4, SentIsRead
  <2>2. CASE S.increment_storage
    BY <1>1, <2>1, <2>2 DEF Noted
  <2>3. CASE ~S.increment_storage
    <3>1. Noted(S, m)
      BY <1>3, <1>4 DEF Online
    <3>2. time[m] <= stored_timestamp
      BY <1>2, <1>3, <2>1, <2>3, <3>1 DEF Noted, ReadFrom, Online
    <3> QED BY <3>2 DEF Noted
  <2> QED BY <2>2, <2>3
<1>5. \A m \in MsgIds : Out(T, m) => Out(S, m)
  BY <1>1 DEF Out
<1>6. T.current_timestamp <= T.unacked_stored_highest
  BY <1>1, <1>2, <1>3 DEF Online, ReadFrom
<1> QED BY <1>1, <1>3, <1>4, <1>5, <1>6 DEF AloneOK, Online, WasSent

LEMMA BatchAlone ==
  ASSUME TypeOK, RowsOK, NEW S \in SessionType, S.phase = "timestamps",
         AloneOK(S), NEW T \in SessionType, NEW batch, Batch(T, S, ReadFrom(S), batch)
  PROVE  AloneOK(T)
<1>1. PICK U \in SessionType, last \in batch :
        /\ Fetched(T, U, batch \ expired)
        /\ U.check_storage = S.check_storage
        /\ U.increment_storage
        /\ U.unacked_stored = S.unacked_stored
        /\ U.current_timestamp = S.current_timestamp
        /\ U.unacked_stored_highest = time[last]
  BY DEF Batch
<1>2. Online(S) /\ S.check_storage
  BY DEF AloneOK, Online
<1>3. /\ T.check_storage /\ T.increment_storage
      /\ T.current_timestamp = S.current_timestamp
      /\ T.unacked_stored_highest = time[last]
      /\ T.unacked_stored = Sent(S, batch \ expired)
      /\ T.phase # "offline"
  BY <1>1, <1>2, SessionFields DEF Fetched, LoopPhase, Sent
<1>4. batch \subseteq TimestampRows(ReadFrom(S))
  BY DEF Batch
<1>5. \A m \in MsgIds : Out(T, m) => m \in Written
  <2>1. batch \subseteq Written
    BY <1>4 DEF TimestampRows, Readable, RowsOK, Written
  <2> QED BY <1>3, <2>1 DEF AloneOK, Out, Sent
<1>6. T.current_timestamp <= T.unacked_stored_highest
  <2>1. T.unacked_stored_highest > ReadFrom(S)
    BY <1>1, <1>3, <1>4 DEF TimestampRows
  <2>2. /\ ReadFrom(S) \in Nat /\ T.unacked_stored_highest \in Nat
        /\ S.current_timestamp \in Nat
    BY SessionFields, BoundAssumption DEF Timestamps
  <2>3. S.current_timestamp <= ReadFrom(S)
    BY <1>2, <2>2 DEF ReadFrom, Online
  <2> QED BY <1>3, <2>1, <2>2, <2>3
<1>7. \A m \in MsgIds : Noted(T, m)
  BY <1>3 DEF Noted
<1> QED BY <1>2, <1>3, <1>5, <1>6, <1>7 DEF AloneOK, Online

\* The pointer is written: user and rows stay, stored_timestamp moves on.
LEMMA IncrementedAlone ==
  ASSUME TypeOK, TypeOK', NEW S \in SessionType, S.phase = "increment", AloneOK(S),
         S.unacked_stored_highest # None, stored_timestamp' = S.unacked_stored_highest,
         UNCHANGED <<stamped, inflight, rows, kind, time, acked, expired, user>>,
         NEW T \in SessionType, Incremented(T, S)
  PROVE  AloneOK(T)'
<1>1. /\ T.current_timestamp = S.unacked_stored_highest
      /\ T.unacked_stored_highest = S.unacked_stored_highest
      /\ T.unacked_stored = S.unacked_stored
      /\ T.check_storage = S.check_storage
      /\ T.include_topic = S.include_topic
      /\ T.phase \in {"topics", "timestamps"} => T.check_storage
  BY SessionFields DEF Incremented, Carries, LoopPhase
<1>2. /\ stored_timestamp \in Nat /\ S.unacked_stored_highest \in Nat
      /\ \A m \in MsgIds : time[m] \in Nat
  BY SessionFields, StoredNat DEF Timestamps
<1>3. Online(S)
  BY DEF AloneOK
<1>4. \A m \in MsgIds : Out(T, m)' => Out(S, m)
  BY <1>1 DEF Out
<1>5. ASSUME NEW m \in MsgIds, Noted(S, m) PROVE Noted(T, m)'
  <2>1. CASE time[m] <= S.unacked_stored_highest
    BY <2>1 DEF Noted
  <2>2. CASE time[m] > S.unacked_stored_highest
    <3>1. S.check_storage
      BY <1>2, <1>3, <1>5, <2>2 DEF Noted, Online
    <3> QED BY <1>1, <2>2, <3>1 DEF Noted
  <2> QED BY <1>2, <2>1, <2>2
<1>6. Online(T)'
  BY <1>1, <1>2, <1>3, <1>4, <1>5 DEF Online, WasSent
<1> QED BY <1>4, <1>6 DEF AloneOK, Written

LEMMA AckedAlone ==
  ASSUME TypeOK, Steady, UNCHANGED <<expired, user, stored_timestamp>>,
         NEW S \in SessionType, S.phase = "idle", AloneOK(S),
         NEW m, acked' \subseteq acked \cup {m}, m \in MsgIds => S.unacked_stored[m] > 0,
         NEW T \in SessionType, AckedSome(T, S, m)
  PROVE  AloneOK(T)'
<1>1. PICK U \in SessionType :
        /\ Acked(T, U)
        /\ U.phase = S.phase
        /\ U.check_storage = S.check_storage
        /\ U.include_topic = S.include_topic
        /\ U.increment_storage = S.increment_storage
        /\ U.unacked_stored_highest = S.unacked_stored_highest
        /\ U.current_timestamp = S.current_timestamp
        /\ \A n \in MsgIds : n # m => U.unacked_stored[n] = S.unacked_stored[n]
  BY DEF AckedSome
<1>2. /\ T.unacked_stored_highest = S.unacked_stored_highest
      /\ T.current_timestamp = S.current_timestamp
      /\ T.check_storage = S.check_storage
      /\ T.include_topic = S.include_topic
      /\ T.increment_storage = S.increment_storage
      /\ T.unacked_stored = U.unacked_stored
  BY <1>1 DEF Acked, Carries
<1>3. T.phase \in {"topics", "timestamps"} => T.check_storage
  BY <1>1, <1>2, SessionFields DEF Acked, AckPhase
<1>4. \A n \in MsgIds : Out(T, n)' => Out(S, n) /\ n \in Written
  BY <1>1, <1>2 DEF Out, Steady, AloneOK
<1>5. \A n \in Written : Noted(S, n) => Noted(T, n)'
  BY <1>2 DEF Noted, Steady
<1>6. Online(S)
  BY DEF AloneOK
<1>7. Online(T)'
  BY <1>2, <1>3, <1>4, <1>5, <1>6 DEF Online, WasSent, Steady
<1>8. \A n \in MsgIds : Out(T, n)' => n \in Written'
  BY <1>4 DEF Steady
<1> QED BY <1>7, <1>8 DEF AloneOK

\* A step of the session that changes nothing else that is noted.
LEMMA QuietAlone ==
  ASSUME NEW s, Sessions = {s}, AloneInv, Steady,
         UNCHANGED <<acked, user, stored_timestamp>>,
         NEW T, Moved(s, T), AloneOK(T)
  PROVE  AloneInv'
<1>1. AloneOK(T)'
  BY SteadyAlone
<1> QED BY <1>1, MovedAlone DEF AloneInv

LEMMA NextAlone ==
  ASSUME NEW o, Sessions = {o}, TypeOK, TypeOK', RowsOK, AloneInv, [Next]_vars
  PROVE  AloneInv'
<1> USE DEF publisherVars, storageVars
<1> DEFINE S == session[o]
<1>0. /\ o \in Sessions /\ S \in SessionType /\ AloneOK(S)
      /\ gone \subseteq expired /\ user # "partial"
  BY SessionTyped DEF AloneInv, RowsOK
<1>a. UNCHANGED <<stamped, inflight, kind, time, rows, expired>> => Steady
  BY DEF Steady, Written
<1>b. StampTimestamp /\ UNCHANGED <<kind, rows, expired>> => Steady
  <2> SUFFICES ASSUME StampTimestamp, UNCHANGED <<kind, rows, expired>> PROVE Steady
    OBVIOUS
  <2>1. /\ stamped \in Nat /\ stamped' = stamped + 1
        /\ inflight' = inflight \cup {stamped + 1}
        /\ \E instant : time' = [time EXCEPT ![stamped + 1] = instant]
    <3>1. PICK instant \in {LastInstant, LastInstant + 1} \ {0} : StampIn(instant)
      BY DEF StampTimestamp
    <3>2. stamped \in Nat
      BY BoundAssumption DEF TypeOK
    <3>3. time' = [time EXCEPT ![stamped + 1] = instant]
      BY <3>1 DEF StampIn
    <3> QED BY <3>1, <3>2, <3>3 DEF StampIn, StampTimestamp
  <2>2. \A n \in Written : n \in 1..stamped' /\ n # stamped + 1 /\ n \in MsgIds
    BY <2>1, BoundAssumption DEF Written, TypeOK, MsgIds
  <2> QED BY <2>1, <2>2 DEF Steady, Written, TypeOK
<1> HIDE DEF S
<1>1. CASE UNCHANGED vars
  BY <1>0, <1>1, <1>a, WriterAlone DEF vars
<1>2. CASE Stamp
  BY <1>0, <1>2, <1>b, WriterAlone DEF Stamp
<1>3. CASE StampSaved
  BY <1>0, <1>3, <1>b, WriterAlone DEF StampSaved
<1>4. ASSUME NEW m \in MsgIds, Store(m) PROVE AloneInv'
  <2>1. Steady
    BY <1>4 DEF Store, Steady, Written
  <2> QED BY <1>0, <1>4, <2>1, WriterAlone DEF Store
<1>5. ASSUME NEW m \in MsgIds, Expire(m) PROVE AloneInv'
  <2>1. Steady
    BY <1>0, <1>5 DEF Expire, Steady, Written
  <2> QED BY <1>5, <2>1, WriterAlone DEF Expire
<1>6. ASSUME NEW t \in Topics, StoreTopic(t) PROVE AloneInv'
  <2>1. kind \in [MsgIds -> Topics \cup {NoTopic}] /\ stamped \in Nat
    BY BoundAssumption DEF TypeOK
  <2>2. /\ stamped' = stamped + 1 /\ UNCHANGED <<inflight, expired>>
        /\ \E instant : time' = [time EXCEPT ![stamped + 1] = instant]
        /\ kind' = [kind EXCEPT ![stamped + 1] = t]
        /\ rows' \subseteq rows \cup {stamped + 1}
    BY <1>6 DEF StoreTopic, StampIn
  <2>3. \A n \in Written : n \in 1..stamped' /\ n # stamped + 1 /\ n \in MsgIds
    BY <2>1, <2>2, BoundAssumption DEF Written, TypeOK, MsgIds
  <2>4. \A n \in MsgIds : kind'[n] = NoTopic => kind[n] = NoTopic
    BY <2>1, <2>2, TopicAssumption
  <2>5. \A n \in Written : n \in Written' /\ (n \in rows' => n \in rows) /\ time'[n] = time[n]
    BY <2>2, <2>3 DEF Written, TypeOK
  <2>6. Steady
    BY <2>2, <2>4, <2>5 DEF Steady
  <2> QED BY <1>0, <1>6, <2>6, WriterAlone DEF StoreTopic
<1>7. CASE Hello(o)
  <2>1. PICK T \in SessionType : Moved(o, T) /\ Starts(T)
    BY <1>0, <1>7, HelloStep
  <2>2. AloneOK(T)
    BY <1>0, <1>7, <2>1, StartsAlone DEF Hello
  <2> QED BY <1>0, <1>7, <1>a, <2>1, <2>2, QuietAlone DEF Hello
<1>8. CASE HelloIncomplete(o)
  BY <1>0, <1>8 DEF HelloIncomplete
<1>9. CASE Drop(o) \/ IncrementFails(o)
  <2>1. Moved(o, Offline)
    BY <1>0, <1>9, EndStep DEF Drop, IncrementFails
  <2>2. Steady /\ UNCHANGED <<acked, user>>
    BY <1>9, <1>a DEF Drop, IncrementFails
  <2>3. AloneOK(Offline)'
    BY <1>0, <2>2, OfflineAlone
  <2> QED BY <1>0, <2>1, <2>2, <2>3, MovedAlone
<1>10. CASE Notif(o)
  <2>1. PICK T \in SessionType : Moved(o, T) /\ OneMore(T, S)
    BY <1>0, <1>10, NotifStep DEF S
  <2>2. AloneOK(T)
    BY <1>0, <2>1, SameAlone
  <2> QED BY <1>0, <1>10, <1>a, <2>1, <2>2, QuietAlone DEF Notif
<1>11. CASE CheckStorage(o)
  <2>1. PICK T \in SessionType : Moved(o, T) /\ Restarts(T, S)
    BY <1>0, <1>11, CheckStorageStep DEF S
  <2>2. S.phase # "offline"
    BY <1>11 DEF CheckStorage, Idle, At, S
  <2>3. AloneOK(T)
    BY <1>0, <2>1, <2>2, RestartsAlone
  <2> QED BY <1>0, <1>11, <1>a, <2>1, <2>3, QuietAlone DEF CheckStorage
<1>12. ASSUME NEW m \in MsgIds, AckStored(o, m) PROVE AloneInv'
  <2>1. PICK T \in SessionType : Moved(o, T) /\ AckedSome(T, S, m)
    BY <1>0, <1>12, AckStoredStep DEF S
  <2>2. /\ S.phase = "idle" /\ S.unacked_stored[m] > 0 /\ acked' = acked \cup {m}
        /\ UNCHANGED <<expired, user, stored_timestamp>>
    BY <1>12 DEF AckStored, Idle, At, S
  <2>3. Steady
    BY <1>12 DEF AckStored, Steady, Written
  <2>4. AloneOK(T)'
    BY <1>0, <2>1, <2>2, <2>3, AckedAlone
  <2> QED BY <1>0, <2>1, <2>2, <2>4, MovedAlone
<1>13. CASE AckDirect(o) \/ AckUnknown(o)
  <2>1. PICK T \in SessionType : Moved(o, T) /\ AckedSome(T, S, None)
    BY <1>0, <1>13, AckDirectStep, AckUnknownStep DEF S
  <2>2. S.phase = "idle" /\ Steady
        /\ UNCHANGED <<acked, expired, user, stored_timestamp>>
    BY <1>13, <1>a DEF AckDirect, AckUnknown, Idle, At, S
  <2>3. None \notin MsgIds
    BY BoundAssumption DEF None, MsgIds
  <2>4. AloneOK(T)'
    BY <1>0, <2>1, <2>2, <2>3, AckedAlone
  <2> QED BY <1>0, <2>1, <2>2, <2>4, MovedAlone
<1>14. CASE FetchTopics(o)
  <2>1. PICK T \in SessionType : Moved(o, T) /\ Topical(T, S)
    BY <1>0, <1>14, FetchTopicsStep DEF S
  <2>2. S.phase = "topics"
    BY <1>14 DEF FetchTopics, At, S
  <2>3. AloneOK(T)
    BY <1>0, <2>1, <2>2, TopicalAlone
  <2> QED BY <1>0, <1>14, <1>a, <2>1, <2>3, QuietAlone DEF FetchTopics
<1>15. CASE FetchTimestamps(o)
  <2>1. PICK T \in SessionType :
          /\ Moved(o, T)
          /\ \/ Ended(T, S, ReadFrom(S))
             \/ \E batch : Batch(T, S, ReadFrom(S), batch)
    BY <1>0, <1>15, FetchTimestampsStep DEF S
  <2>2. S.phase = "timestamps"
    BY <1>15 DEF FetchTimestamps, At, S
  <2>3. AloneOK(T)
    BY <1>0, <2>1, <2>2, EndedAlone, BatchAlone
  <2> QED BY <1>0, <1>15, <1>a, <2>1, <2>3, QuietAlone DEF FetchTimestamps
<1>16. CASE IncrementStorage(o)
  <2>1. PICK T \in SessionType : Moved(o, T) /\ Incremented(T, S)
    BY <1>0, <1>16, IncrementStorageStep DEF S
  <2>2. S.phase = "increment" /\ S.unacked_stored_highest # None
    BY <1>16 DEF IncrementStorage, At, S
  <2>3. user \in {"ok", "old"}
    BY <1>0, <2>2 DEF AloneOK, Online
  <2>4. /\ stored_timestamp' = S.unacked_stored_highest
        /\ UNCHANGED <<stamped, inflight, rows, kind, time, acked, expired, user>>
    BY <1>16, <2>3 DEF IncrementStorage, S
  <2>5. AloneOK(T)'
    BY <1>0, <2>1, <2>2, <2>4, IncrementedAlone
  <2> QED BY <1>0, <2>1, <2>4, <2>5, MovedAlone
<1>17. CASE ResetUser(o)
  <2>1. Moved(o, Offline)
    BY <1>0, <1>17, EndStep DEF ResetUser
  <2>2. Steady /\ UNCHANGED acked /\ user' = "none"
    BY <1>17, <1>a DEF ResetUser
  <2>3. AloneOK(Offline)'
    BY <1>0, <2>2, OfflineAlone
  <2> QED BY <1>0, <2>1, <2>2, <2>3, MovedAlone
<1>18. ASSUME NEW t \in Topics, PurgeTopic(o, t) PROVE AloneInv'
  <2>1. PICK T \in SessionType : Moved(o, T) /\ Purged(T, S)
    BY <1>0, <1>18, PurgeTopicStep DEF S
  <2>2. AloneOK(T)
    BY <1>0, <2>1, SameAlone
  <2>3. Steady
    BY <1>18 DEF PurgeTopic, Steady, Written
  <2> QED BY <1>0, <1>18, <2>1, <2>2, <2>3, QuietAlone DEF PurgeTopic
<1> QED BY <1>1, <1>2, <1>3, <1>4, <1>5, <1>6, <1>7, <1>8, <1>9, <1>10, <1>11, <1>12,
           <1>13, <1>14, <1>15, <1>16, <1>17, <1>18 DEF Next, Handler

LEMMA InitAlone == ASSUME Init PROVE AloneInv
<1>1. Offline.phase = "offline" /\ Offline.unacked_stored = [m \in MsgIds |-> 0]
  BY DEF Offline
<1>2. AloneOK(Offline)
  BY <1>1 DEF Init, AloneOK, Out
<1> QED BY <1>2 DEF Init, AloneInv

(***************************************************************************)
(* With one session at a time, a session that has read storage to its end   *)
(* and has nothing left to ack leaves a current_timestamp past every        *)
(* stored timestamp message the client ever acked and that has not expired: *)
(* increment_storage is not forgotten on any path through ack,              *)
(* check_storage and a CheckStorage notification that restarts the read, so *)
(* the next hello sends none of them again.                                 *)
(***************************************************************************)
THEOREM AckedIsRemembered ==
  ASSUME NEW s, Sessions = {s}
  PROVE  Spec => []AckedNotRedelivered
<1>1. Init => TypeOK /\ ReadInv /\ AloneInv
  BY InitTypes, InitReads, InitAlone
<1>2. TypeOK /\ ReadInv /\ AloneInv /\ [Next]_vars => (TypeOK /\ ReadInv /\ AloneInv)'
  BY NextTypes, NextReads, NextAlone DEF ReadInv
<1>3. TypeOK /\ AloneInv => AckedNotRedelivered
  <2> SUFFICES ASSUME TypeOK, AloneInv, NEW r \in Sessions,
                      Idle(r), ~session[r].check_storage,
                      NEW m \in (acked \cap rows) \ expired, kind[m] = NoTopic
               PROVE  Passed(m)
    BY DEF AckedNotRedelivered
  <2>1. session[r].phase = "idle"
    BY DEF Idle, At
  <2>2. Online(session[r])
    BY <2>1 DEF AloneInv, AloneOK
  <2>3. m \in MsgIds \ expired /\ WasSent(session[r], m)
    BY DEF TypeOK, WasSent, Out
  <2> QED BY <2>1, <2>2, <2>3 DEF Online, Noted, Passed
<1> QED BY <1>1, <1>2, <1>3, PTL DEF Spec
=============================================================================
