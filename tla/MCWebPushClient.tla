--------------------------- MODULE MCWebPushClient ---------------------------
(***************************************************************************)
(* The storage of a user: one session with topics and storage checks, with *)
(* direct notifications, or with batches of two rows; and two sessions     *)
(* that overlap.  A behaviour is one of the instance that `part` names.    *)
(* The invariants of WebPushClient are those of session s1: as the two     *)
(* sessions are alike and no symmetry is used, they are those of the other *)
(* one too.                                                                *)
(***************************************************************************)
EXTENDS WebPushClient

CONSTANTS s1, s2, t1

VARIABLE part

allVars == <<part, vars>>

(* Direct notifications, which are saved when the session ends.             *)
Direct == INSTANCE WebPushClient WITH
  Sessions <- {s1}, Topics <- {t1}, MaxMessages <- 2, MaxDirect <- 1, MaxChecks <- 1,
  TopicLimit <- 1, TimestampLimit <- 1, MsgLimit <- 3

(* Batches of two, of three messages.                                        *)
Wide == INSTANCE WebPushClient WITH
  Sessions <- {s1}, Topics <- {}, MaxMessages <- 3, MaxDirect <- 0, MaxChecks <- 1,
  TopicLimit <- 1, TimestampLimit <- 2, MsgLimit <- 3

(* Two sessions that read and ack the same timestamp messages.               *)
Two == INSTANCE WebPushClient WITH
  Sessions <- {s1, s2}, Topics <- {}, MaxMessages <- 2, MaxDirect <- 0, MaxChecks <- 1,
  TopicLimit <- 1, TimestampLimit <- 1, MsgLimit <- 3

MCInit ==
  \/ part = "one" /\ Init
  \/ part = "direct" /\ Direct!Init
  \/ part = "wide" /\ Wide!Init
  \/ part = "two" /\ Two!Init

MCNext ==
  /\ \/ part = "one" /\ Next
     \/ part = "direct" /\ Direct!Next
     \/ part = "wide" /\ Wide!Next
     \/ part = "two" /\ Two!Next
  /\ UNCHANGED part

MCSpec == MCInit /\ [][MCNext]_allVars

-----------------------------------------------------------------------------
(* Once the only session of the user has read storage to its end and all is  *)
(* acked, the next hello sends no acked message again (increment_storage).   *)
AckedNotRedeliveredAlone == part # "two" => AckedNotRedelivered
=============================================================================
