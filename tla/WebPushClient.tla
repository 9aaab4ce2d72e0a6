---------------------------- MODULE WebPushClient ----------------------------
(***************************************************************************)
(* How identified WebSocket sessions of one user drain its stored          *)
(* notifications (autoconnect's WebPushClient over the Bigtable tables).   *)
(*                                                                         *)
(* Messages are numbered in the order in which an autoendpoint (or a       *)
(* session saving its unacked direct notifications) stamped them with a    *)
(* sortkey_timestamp, in milliseconds; the row is written some time later. *)
(* The key of a row is its millisecond and its channel: messages of one    *)
(* millisecond are ordered by channel, and share a row if it is the same.  *)
(* Topic messages replace the stored row of their topic and are deleted    *)
(* when they are acked; timestamp messages stay until their TTL removes    *)
(* them, and the user record's current_timestamp remembers how far they    *)
(* were read.  Every database call of a handler is a step of its own, so   *)
(* the publishers and the other sessions of the user run between any two.  *)
(***************************************************************************)
EXTENDS Naturals, FiniteSets

CONSTANTS
  Sessions,       \* sessions of the user, possibly on several nodes
  Topics,         \* (channel, topic) pairs
  NoTopic,        \* the message is a timestamp message
  MaxMessages,    \* bound on the messages ever stamped
  MaxDirect,      \* bound on a session's unacked direct notifications
  MaxChecks,      \* bound on the CheckStorage notifications of a session
  TopicLimit,     \* rows read by fetch_topic_messages (11 in the code)
  TimestampLimit, \* rows read by fetch_timestamp_messages (10 in the code)
  MsgLimit        \* Settings::msg_limit

ASSUME TopicAssumption == NoTopic \notin Topics
ASSUME BoundAssumption ==
  MaxMessages \in Nat /\ MaxDirect \in Nat /\ MaxChecks \in Nat /\ MsgLimit \in Nat
ASSUME LimitAssumption == TopicLimit \in Nat \ {0} /\ TimestampLimit \in Nat \ {0}

MsgIds == 1..MaxMessages
None == 0                \* no timestamp (Option::None)
Timestamps == Nat        \* milliseconds, counted from the first stamp

VARIABLES
  stamped,  \* how many messages have been given a sortkey
  kind,     \* message -> its topic, or NoTopic
  time,     \* message -> its sortkey_timestamp
  inflight, \* timestamp messages stamped and not yet written
  saved,    \* messages that are saved direct notifications
  saving,   \* direct notifications of ended sessions not yet stamped
  rows,     \* messages in storage
  expired,  \* messages past timestamp + ttl
  gone,     \* messages past the expiry of their cells: no longer readable
  acked,    \* messages the client has acked, in any session
  overtaken, \* history: messages a read has passed without returning them
  user,     \* the user record: "ok", "old" (record_version), "none", "partial"
  stored_timestamp, \* current_timestamp in the user record
  session   \* the WebPushClient of each session

publisherVars == <<stamped, kind, time, inflight, saved, saving>>
storageVars == <<rows, expired, gone, user, stored_timestamp>>
vars == <<publisherVars, storageVars, acked, overtaken, session>>

Phases == {"offline", "idle", "topics", "timestamps", "increment", "reset"}

SessionType ==
  [phase : Phases,            \* the database call the handler is at
   acking : BOOLEAN,          \* the handler is post_process_all_acked
   check_storage : BOOLEAN,
   include_topic : BOOLEAN,
   increment_storage : BOOLEAN,
   old_record_version : BOOLEAN,
   unacked_stored : [MsgIds -> Nat],   \* copies sent and not acked
   unacked_direct : 0..MaxDirect,
   unacked_stored_highest : Timestamps,
   current_timestamp : Timestamps,
   sent_from_storage : Nat,
   checks : 0..MaxChecks,     \* CheckStorage notifications so far
   purge : SUBSET Topics]     \* expired topic rows still to be removed

Offline ==
  [phase |-> "offline", acking |-> FALSE, check_storage |-> FALSE,
   include_topic |-> TRUE, increment_storage |-> FALSE,
   old_record_version |-> FALSE,
   unacked_stored |-> [m \in MsgIds |-> 0], unacked_direct |-> 0,
   unacked_stored_highest |-> None, current_timestamp |-> None,
   sent_from_storage |-> 0, checks |-> 0, purge |-> {}]

TypeOK ==
  /\ stamped \in 0..MaxMessages
  /\ kind \in [MsgIds -> Topics \cup {NoTopic}]
  /\ time \in [MsgIds -> Timestamps]
  /\ inflight \subseteq MsgIds
  /\ saved \subseteq MsgIds
  /\ saving \in Nat
  /\ rows \subseteq MsgIds
  /\ expired \subseteq MsgIds
  /\ gone \subseteq MsgIds
  /\ acked \subseteq MsgIds
  /\ overtaken \subseteq MsgIds
  /\ user \in {"ok", "old", "none", "partial"}
  /\ stored_timestamp \in Timestamps
  /\ session \in [Sessions -> SessionType]

Init ==
  /\ stamped = 0
  /\ kind = [m \in MsgIds |-> NoTopic]
  /\ time = [m \in MsgIds |-> None]
  /\ inflight = {}
  /\ saved = {}
  /\ saving = 0
  /\ rows = {}
  /\ expired = {}
  /\ gone = {}
  /\ acked = {}
  /\ overtaken = {}
  /\ user \in {"ok", "old"}
  /\ stored_timestamp = None
  /\ session = [s \in Sessions |-> Offline]

-----------------------------------------------------------------------------
(* Writers of the message table. *)

Readable == rows \ gone
TopicRows == {m \in Readable : kind[m] # NoTopic}
TimestampRows(from) == {m \in Readable : kind[m] = NoTopic /\ time[m] > from}

\* The next message is stamped in the millisecond of the last one, or later.
LastInstant == IF stamped = 0 THEN 0 ELSE time[stamped]
StampIn(instant) ==
  /\ stamped < MaxMessages
  /\ stamped' = stamped + 1
  /\ time' = [time EXCEPT ![stamped + 1] = instant]

StampTimestamp ==
  /\ \E instant \in {LastInstant, LastInstant + 1} \ {0} : StampIn(instant)
  /\ inflight' = inflight \cup {stamped + 1}

\* An autoendpoint stamps a timestamp message for this user.
Stamp ==
  /\ StampTimestamp
  /\ UNCHANGED <<kind, saved, saving, storageVars, acked, overtaken, session>>

\* The task of an ended session stamps a direct notification it saves
\* (chidmessageid gives a sortkey_timestamp of 0 the current time).
StampSaved ==
  /\ saving > 0
  /\ saving' = saving - 1
  /\ StampTimestamp
  /\ saved' = saved \cup {stamped + 1}
  /\ UNCHANGED <<kind, storageVars, acked, overtaken, session>>

\* A session or the user record has read past this millisecond.
PassedBy(instant) ==
  \/ instant <= stored_timestamp
  \/ \E s \in Sessions : \/ instant <= session[s].current_timestamp
                          \/ instant <= session[s].unacked_stored_highest

\* The row of a timestamp message is written, over one of the same millisecond
\* if that is of the same channel.
Store(m) ==
  /\ m \in inflight
  /\ inflight' = inflight \ {m}
  /\ \E over \in {{}} \cup {{n} : n \in {k \in rows : kind[k] = NoTopic /\ time[k] = time[m]}} :
       rows' = (rows \ over) \cup {m}
  /\ overtaken' = IF PassedBy(time[m]) THEN overtaken \cup {m} ELSE overtaken
  /\ UNCHANGED <<stamped, kind, time, saved, saving, expired, gone, user, stored_timestamp,
                 acked, session>>

\* A topic message is stamped and written over the row of its topic.
StoreTopic(t) ==
  /\ StampIn(LastInstant)
  /\ kind' = [kind EXCEPT ![stamped + 1] = t]
  /\ rows' = {m \in rows : kind[m] # t} \cup {stamped + 1}
  /\ UNCHANGED <<inflight, saved, saving, expired, gone, user, stored_timestamp,
                 acked, overtaken, session>>

\* Time passes: first a message expires, then its cells do (they were written
\* after the message was stamped, with the same TTL).
Expire(m) ==
  /\ m \in rows \ gone
  /\ IF m \in expired THEN gone' = gone \cup {m} /\ UNCHANGED expired
                      ELSE expired' = expired \cup {m} /\ UNCHANGED gone
  /\ UNCHANGED <<publisherVars, rows, user, stored_timestamp, acked, overtaken, session>>

-----------------------------------------------------------------------------
(* Helpers of the session's handlers. *)

\* The first TimestampLimit rows after from: of those in the last millisecond
\* that is read, which ones depends on their channels.
fetch_timestamp_messages(from) ==
  {B \in SUBSET TimestampRows(from) :
     /\ Cardinality(B) <= TimestampLimit
     /\ B # TimestampRows(from) => Cardinality(B) = TimestampLimit
     /\ \A m \in B, n \in TimestampRows(from) \ B : time[m] <= time[n]}

\* At most TopicLimit topic rows; which ones depends on the topics' names.
fetch_topic_messages ==
  {B \in SUBSET TopicRows :
     /\ Cardinality(B) <= TopicLimit
     /\ B # TopicRows => Cardinality(B) = TopicLimit}

Unacked(S) ==
  S.unacked_direct > 0 \/ \E m \in DOMAIN S.unacked_stored : S.unacked_stored[m] > 0

\* The handler is done; after the last ack an outdated user record is reset.
Finish(S) ==
  [S EXCEPT !.phase = IF S.acking /\ S.old_record_version THEN "reset" ELSE "idle",
            !.acking = FALSE]

\* check_storage_loop: another iteration, or out of the loop.
EnterLoop(S) ==
  IF S.check_storage THEN [S EXCEPT !.phase = IF S.include_topic THEN "topics" ELSE "timestamps"]
  ELSE IF S.increment_storage THEN [S EXCEPT !.phase = "increment"]
  ELSE Finish(S)

\* post_process_all_acked
PostProcess(S) ==
  LET P == [S EXCEPT !.acking = TRUE]
  IN  IF ~P.check_storage THEN Finish(P)
      ELSE IF P.increment_storage THEN [P EXCEPT !.phase = "increment"]
      ELSE EnterLoop(P)

\* Mutant: an ack goes on although other messages are still unacked.
AfterAckEager(S) == PostProcess(S)

\* The end of ack: go on only when nothing is left to ack.
AfterAck(S) == IF Unacked(S) THEN S ELSE PostProcess(S)

\* Mutant: a batch of expired messages ends the read without reaching the end.
AfterFetchStop(S, live) ==
  [S EXCEPT !.unacked_stored = [m \in MsgIds |-> IF m \in live THEN @[m] + 1 ELSE @[m]],
            !.sent_from_storage = @ + Cardinality(live),
            !.phase = "idle", !.acking = FALSE]

\* The end of check_storage_advance: send what is live, subject to msg_limit.
AfterFetch(S, live) ==
  LET sent == S.sent_from_storage + Cardinality(live)
      T == [S EXCEPT
              !.unacked_stored = [m \in MsgIds |-> IF m \in live THEN @[m] + 1 ELSE @[m]],
              !.sent_from_storage = sent]
  IN  IF live = {} THEN EnterLoop(T)
      ELSE IF sent > MsgLimit THEN [T EXCEPT !.phase = "reset"]
      ELSE [T EXCEPT !.phase = "idle", !.acking = FALSE]

Becomes(s, S) == session' = [session EXCEPT ![s] = S]
\* The handler is at phase and has removed the expired topic rows it read.
At(s, phase) == session[s].phase = phase /\ session[s].purge = {}
Idle(s) == At(s, "idle")

-----------------------------------------------------------------------------
(* Connecting and disconnecting. *)

\* Hello of a known user: update_user, then WebPushClient::new checks storage.
Hello(s) ==
  /\ session[s].phase = "offline"
  /\ user \in {"ok", "old"}
  /\ Becomes(s, [Offline EXCEPT !.phase = "topics",
                                !.check_storage = TRUE,
                                !.old_record_version = user = "old",
                                !.current_timestamp = stored_timestamp])
  /\ UNCHANGED <<publisherVars, storageVars, acked, overtaken>>

\* Hello of a user whose record lacks mandatory cells: get_user removes it and
\* the client is given another uaid.
HelloIncomplete(s) ==
  /\ session[s].phase = "offline"
  /\ user = "partial"
  /\ user' = "none"
  /\ UNCHANGED <<publisherVars, rows, expired, gone, stored_timestamp, acked, overtaken, session>>

\* The session ends: its socket closes, or any database call fails.  Unacked
\* direct notifications are handed to the saving task, the rest is dropped.
EndSession(s) ==
  /\ Becomes(s, Offline)
  /\ saving' = saving + session[s].unacked_direct

Drop(s) ==
  /\ session[s].phase # "offline"
  /\ EndSession(s)
  /\ UNCHANGED <<stamped, kind, time, inflight, saved, storageVars, acked, overtaken>>

-----------------------------------------------------------------------------
(* Inputs of an idle session. *)

\* A direct notification (with a TTL) is sent to the client.
Notif(s) ==
  /\ Idle(s)
  /\ saving + session[s].unacked_direct < MaxDirect
  /\ Becomes(s, [session[s] EXCEPT !.unacked_direct = @ + 1])
  /\ UNCHANGED <<publisherVars, storageVars, acked, overtaken>>

\* ServerNotification::CheckStorage
CheckStorage(s) ==
  /\ Idle(s)
  /\ session[s].checks < MaxChecks
  /\ Becomes(s, [session[s] EXCEPT !.checks = @ + 1, !.check_storage = TRUE,
                                   !.include_topic = TRUE, !.phase = "topics"])
  /\ UNCHANGED <<publisherVars, storageVars, acked, overtaken>>

AckDirect(s) ==
  /\ Idle(s)
  /\ session[s].unacked_direct > 0
  /\ Becomes(s, AfterAck([session[s] EXCEPT !.unacked_direct = @ - 1]))
  /\ UNCHANGED <<publisherVars, storageVars, acked, overtaken>>

\* An ack of a stored message; the row of a topic is deleted by its key.
AckStored(s, m) ==
  /\ Idle(s)
  /\ session[s].unacked_stored[m] > 0
  /\ acked' = acked \cup {m}
  /\ rows' = {n \in rows : kind[m] = NoTopic \/ kind[n] # kind[m]}
  /\ Becomes(s, AfterAck([session[s] EXCEPT !.unacked_stored[m] = @ - 1]))
  /\ UNCHANGED <<publisherVars, expired, gone, user, stored_timestamp, overtaken>>

\* An ack of something the session does not know still ends in post-processing.
AckUnknown(s) ==
  /\ Idle(s)
  /\ Becomes(s, AfterAck(session[s]))
  /\ UNCHANGED <<publisherVars, storageVars, acked, overtaken>>

-----------------------------------------------------------------------------
(* The steps of check_storage_loop, one per database call. *)

\* Topic rows are read first.  If there are any they are the response, without
\* a timestamp; expired ones will be removed and are not sent.
FetchTopics(s) ==
  /\ At(s, "topics")
  /\ \E B \in fetch_topic_messages :
       IF B = {}
       THEN Becomes(s, [session[s] EXCEPT !.phase = "timestamps"])
       ELSE Becomes(s, AfterFetch([session[s] EXCEPT
                                     !.unacked_stored_highest = None,
                                     !.increment_storage = FALSE,
                                     !.purge = {kind[m] : m \in B \cap expired}],
                                  B \ expired))
  /\ UNCHANGED <<publisherVars, storageVars, acked, overtaken>>

\* An expired topic row that was read is removed by its key.
PurgeTopic(s, t) ==
  /\ t \in session[s].purge
  /\ rows' = {m \in rows : kind[m] # t}
  /\ Becomes(s, [session[s] EXCEPT !.purge = @ \ {t}])
  /\ UNCHANGED <<publisherVars, expired, gone, user, stored_timestamp, acked, overtaken>>

\* Where do_check_storage starts reading: from the record's timestamp if topics
\* were asked for, otherwise after the batch read last.
ReadFrom(S) ==
  IF S.include_topic \/ S.unacked_stored_highest = None
  THEN S.current_timestamp
  ELSE S.unacked_stored_highest

\* No topic rows: the next batch of timestamp rows, which moves
\* unacked_stored_highest past its last one, or the end of storage.  The next
\* read starts after that millisecond, whatever the limit has left in it.
FetchTimestamps(s) ==
  LET from == ReadFrom(session[s])
      S == [session[s] EXCEPT !.include_topic = FALSE]
  IN  /\ At(s, "timestamps")
      /\ \E batch \in fetch_timestamp_messages(from) :
           IF batch = {}
           THEN /\ Becomes(s, EnterLoop([S EXCEPT !.unacked_stored_highest = from,
                                                  !.check_storage = FALSE,
                                                  !.sent_from_storage = 0]))
                /\ UNCHANGED overtaken
           ELSE \E last \in batch :
                /\ \A m \in batch : time[m] <= time[last]
                /\ Becomes(s, AfterFetch([S EXCEPT !.unacked_stored_highest = time[last],
                                                   !.increment_storage = TRUE],
                                         batch \ expired))
                /\ overtaken' = overtaken \cup
                     {m \in TimestampRows(from) \ batch : time[m] <= time[last]}
      /\ UNCHANGED <<publisherVars, storageVars, acked>>

\* Mutant: the pointer moves in the session and not in the record.
IncrementLocally(s) ==
  LET highest == session[s].unacked_stored_highest
  IN  /\ At(s, "increment")
      /\ highest # None
      /\ Becomes(s, EnterLoop([session[s] EXCEPT !.current_timestamp = highest,
                                                 !.increment_storage = FALSE]))
      /\ UNCHANGED <<publisherVars, storageVars, acked, overtaken>>

\* Mutant: the flag that asked for the increment stays set.
IncrementAgain(s) ==
  LET highest == session[s].unacked_stored_highest
  IN  /\ At(s, "increment")
      /\ highest # None
      /\ stored_timestamp' = highest
      /\ user' = IF user = "none" THEN "partial" ELSE user
      /\ Becomes(s, [session[s] EXCEPT !.current_timestamp = highest])
      /\ UNCHANGED <<publisherVars, rows, expired, gone, acked, overtaken>>

\* increment_storage writes the pointer into the user record, unconditionally:
\* without a record this creates one that lacks its mandatory cells.
IncrementStorage(s) ==
  LET highest == session[s].unacked_stored_highest
  IN  /\ At(s, "increment")
      /\ highest # None
      /\ stored_timestamp' = highest
      /\ user' = IF user = "none" THEN "partial" ELSE user
      /\ Becomes(s, EnterLoop([session[s] EXCEPT !.current_timestamp = highest,
                                                 !.increment_storage = FALSE]))
      /\ UNCHANGED <<publisherVars, rows, expired, gone, acked, overtaken>>

\* ... and without a pointer it is an internal error that ends the session.
IncrementFails(s) ==
  /\ At(s, "increment")
  /\ session[s].unacked_stored_highest = None
  /\ EndSession(s)
  /\ UNCHANGED <<stamped, kind, time, inflight, saved, storageVars, acked, overtaken>>

\* remove_user and UaidReset: too many messages, or an old record, all acked.
ResetUser(s) ==
  /\ At(s, "reset")
  /\ user' = "none"
  /\ stored_timestamp' = None
  /\ EndSession(s)
  /\ UNCHANGED <<stamped, kind, time, inflight, saved, rows, expired, gone, acked, overtaken>>

-----------------------------------------------------------------------------
Handler(s) ==
  \/ FetchTopics(s) \/ FetchTimestamps(s)
  \/ IncrementStorage(s) \/ IncrementFails(s) \/ ResetUser(s)
  \/ \E t \in Topics : PurgeTopic(s, t)

Next ==
  \/ Stamp \/ StampSaved
  \/ \E m \in MsgIds : Store(m) \/ Expire(m)
  \/ \E t \in Topics : StoreTopic(t)
  \/ \E s \in Sessions : \/ Hello(s) \/ HelloIncomplete(s) \/ Drop(s)
                         \/ Notif(s) \/ CheckStorage(s)
                         \/ \E m \in MsgIds : AckStored(s, m)
                         \/ AckDirect(s) \/ AckUnknown(s) \/ Handler(s)

\* A handler, once started, runs on, and clients ack what they were sent.
Fairness ==
  \A s \in Sessions :
    /\ WF_vars(Handler(s))
    /\ WF_vars(AckDirect(s))
    /\ \A m \in MsgIds : WF_vars(AckStored(s, m))

Spec == Init /\ [][Next]_vars
FairSpec == Spec /\ Fairness

-----------------------------------------------------------------------------
(* Properties. *)

Settled == acked \cup expired

Passed(m) == kind[m] = NoTopic /\ time[m] <= stored_timestamp

(***************************************************************************)
(* The pointer in the user record passes a message the client still has to *)
(* get in two ways only: the row was written after a read had gone past    *)
(* its millisecond, or the limit of a read cut that millisecond in two.    *)
(* Every other row at or before current_timestamp was acked or has expired *)
(* (check_storage_loop, increment_storage).                                *)
(***************************************************************************)
NothingSkipped ==
  user \in {"ok", "old"} => \A m \in rows : Passed(m) => m \in Settled \cup overtaken

(***************************************************************************)
(* The same without exception.  Fails, in both ways.                       *)
(***************************************************************************)
NeverOvertaken ==
  user \in {"ok", "old"} => \A m \in rows : Passed(m) => m \in Settled

(***************************************************************************)
(* Direct notifications saved when their session ends are not lost: the    *)
(* pointer never passes one that is in storage and was not acked.  Fails.  *)
(***************************************************************************)
SavedNotLost ==
  user \in {"ok", "old"} => \A m \in rows \cap saved : Passed(m) => m \in Settled

(***************************************************************************)
(* Once a session has read storage to its end and everything is acked, the *)
(* user record points past every timestamp message the client acked: the   *)
(* next hello does not send them again.                                    *)
(***************************************************************************)
AckedNotRedelivered ==
  \A s \in Sessions :
    LET S == session[s]
    IN  Idle(s) /\ ~S.check_storage /\ ~Unacked(S) =>
          \A m \in (acked \cap rows) \ expired : kind[m] = NoTopic => Passed(m)

(***************************************************************************)
(* A stored topic message disappears only after it was acked or expired,   *)
(* or because a newer message replaced it: the client sees the latest one. *)
(***************************************************************************)
LatestTopicKept ==
  [][\A m \in rows \ rows' :
       \/ kind[m] = NoTopic
       \/ m \in acked' \cup expired
       \/ \E n \in rows' : n > m /\ kind'[n] = kind[m]]_vars

(***************************************************************************)
(* increment_storage is never reached without unacked_stored_highest: it   *)
(* would end the session with an internal error.                           *)
(***************************************************************************)
PointerKnown ==
  \A s \in Sessions :
    session[s].phase = "increment" => session[s].unacked_stored_highest # None

(***************************************************************************)
(* A session waiting for the client in the middle of a read of storage has *)
(* something for it to ack: the read can only go on from an ack.           *)
(***************************************************************************)
NeverStuck ==
  \A s \in Sessions :
    Idle(s) => (session[s].check_storage => Unacked(session[s]))

(***************************************************************************)
(* A session that started to read storage gets to the end of it, as long   *)
(* as the client acks, or it goes offline.                                 *)
(***************************************************************************)
StorageDrained ==
  \A s \in Sessions :
    session[s].check_storage ~> (session[s].phase = "offline" \/ ~session[s].check_storage)
=============================================================================
