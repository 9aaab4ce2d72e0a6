------------------------------ MODULE MCDatabase ------------------------------
(***************************************************************************)
(* The database clients of autopush-common on small instances: the user    *)
(* record and the message rows of Bigtable, the merging of a read, and the *)
(* dual client.  They share no state here, so one run checks them all: a   *)
(* behaviour is one of the instance that `part` names, and the variables   *)
(* of the others stay as they started.  The constants of UserRecord are    *)
(* those of part "record".                                                 *)
(***************************************************************************)
EXTENDS UserRecord, Integers, Sequences

CONSTANTS t1, t2, c1, c2

VARIABLES
  part,
  m_row, pending, saved, newest, now,               \* MessageTable
  srv, committed, merger, rows, result,             \* RowMerger
  primary, secondary, d_task, registered, removed, connected, read, acked, pointer  \* DualDb

messageVars == <<m_row, pending, saved, newest, now>>
mergerVars == <<srv, committed, merger, rows, result>>
dualVars == <<primary, secondary, d_task, registered, removed, connected, read, acked, pointer>>
allVars == <<part, vars, messageVars, mergerVars, dualVars>>

(* Two tasks over one user's row: a call is tried twice and answers get      *)
(* lost, or it is tried once and its answer comes.                           *)
Answered == INSTANCE UserRecord WITH RetryCount <- 0, AnswersLost <- FALSE

(* Three messages of a topic, with two TTLs, with and without a body.        *)
Mixed == INSTANCE MessageTable WITH
  TTLs <- {1, 3}, Bodies <- {TRUE, FALSE}, MaxMessages <- 3, MaxNow <- 5, row <- m_row

(* Three rows of a router table, without and with values that are split.     *)
RouterColumns == << <<"router", "connected_at">>, <<"router", "version">> >>
Whole == INSTANCE RowMerger WITH
  MaxKey <- 3, Columns <- RouterColumns, MaxVersions <- 2, Splits <- FALSE
Split == INSTANCE RowMerger WITH
  MaxKey <- 3, Columns <- RouterColumns, MaxVersions <- 2, Splits <- TRUE

(* A user at the median, so that it is migrated: written to both databases;  *)
(* to Bigtable only; and by two tasks whose calls may fail.                  *)
Dual == INSTANCE DualDb WITH
  Tasks <- {t1}, Channels <- {c1, c2}, Messages <- {1, 2, 3}, Topics <- {2},
  WriteToSecondary <- TRUE, Median <- 16, EndMedian <- -1, FirstByte <- 16, LastByte <- 0,
  MaxConnected <- 3, Failures <- FALSE, task <- d_task
WindDown == INSTANCE DualDb WITH
  Tasks <- {t1}, Channels <- {c1}, Messages <- {1, 2}, Topics <- {1},
  WriteToSecondary <- FALSE, Median <- 16, EndMedian <- -1, FirstByte <- 16, LastByte <- 0,
  MaxConnected <- 3, Failures <- FALSE, task <- d_task
Race == INSTANCE DualDb WITH
  Tasks <- {t1, t2}, Channels <- {c1}, Messages <- {}, Topics <- {},
  WriteToSecondary <- FALSE, Median <- 16, EndMedian <- -1, FirstByte <- 16, LastByte <- 0,
  MaxConnected <- 3, Failures <- TRUE, task <- d_task

ASSUME Assumptions ==
  /\ UserRecordAssumption /\ Answered!UserRecordAssumption
  /\ Mixed!MessageTableAssumption
  /\ Whole!RowMergerAssumption /\ Whole!ColumnNames
  /\ Dual!DualDbAssumption /\ WindDown!DualDbAssumption /\ Race!DualDbAssumption

MCInit ==
  /\ Init /\ Mixed!Init /\ Whole!Init
  /\ \/ part = "dual" /\ Dual!Init
     \/ part = "wind down" /\ WindDown!Init
     \/ part = "race" /\ Race!Init
     \/ /\ part \in {"record", "answered", "mixed", "whole", "split"}
        /\ Race!Init /\ secondary = Race!Empty

MCNext ==
  \/ part = "record" /\ Next /\ UNCHANGED <<part, messageVars, mergerVars, dualVars>>
  \/ part = "answered" /\ Answered!Next /\ UNCHANGED <<part, messageVars, mergerVars, dualVars>>
  \/ part = "mixed" /\ Mixed!Next /\ UNCHANGED <<part, vars, mergerVars, dualVars>>
  \/ part = "whole" /\ Whole!Next /\ UNCHANGED <<part, vars, messageVars, dualVars>>
  \/ part = "split" /\ Split!Next /\ UNCHANGED <<part, vars, messageVars, dualVars>>
  \/ part = "dual" /\ Dual!Next /\ UNCHANGED <<part, vars, messageVars, mergerVars>>
  \/ part = "wind down" /\ WindDown!Next /\ UNCHANGED <<part, vars, messageVars, mergerVars>>
  \/ part = "race" /\ Race!Next /\ UNCHANGED <<part, vars, messageVars, mergerVars>>

MCSpec == MCInit /\ [][MCNext]_allVars

Symmetry == Permutations({t1, t2}) \cup Permutations({c1, c2})

-----------------------------------------------------------------------------
(* NoIntegrityError of UserRecord holds in every part.                       *)

(* A user record is never put back by an older one: not by a late hello as   *)
(* long as every request is applied at most once (update_user), nor by one   *)
(* of two tasks that migrate and take over a user while calls fail (get_user *)
(* of the dual client).  A late remove_node_id clears only the node it read, *)
(* of the session whose connected_at it read.                                *)
RecordMovesOn ==
  [][/\ part = "answered" =>
          Answered!NotOlder /\ Answered!ReadNodeCleared /\ Answered!ConnectedAtMatches
     /\ part = "race" => Race!NotOlder]_allVars

(* Whatever TTLs the messages of a topic have, a message row that is read    *)
(* has its required cells (row_to_notification) and has not expired          *)
(* (message_gc_policy_filter).                                               *)
ReadIsWhole == Mixed!ReadableWhole /\ Mixed!ExpiredNotRead

(* Of the messages of a topic the newest is handed out, or one that was      *)
(* given a longer life; and one that was sent with data has its own, whatever*)
(* was in the row before (save_message, fetch_topic_messages).               *)
NewestReplaces == Mixed!NewestReplaces /\ Mixed!DataIsOwn

(* A read returns the rows the server committed, with the latest version of  *)
(* each column (process_chunks): without split values no stream the protocol *)
(* allows is refused, and one that stops inside a row is an error, split     *)
(* values or not (finalize).                                                 *)
ResultIsSent ==
  /\ part = "whole" => Whole!MergedIsSent /\ Whole!LegalStreamAccepted
  /\ Split!NoPartialResult

(* Without failures a migrated user has in Bigtable every channel its user   *)
(* agent holds (get_user, add_channels of the dual client), and none that it *)
(* has given back (remove_channel).                                          *)
ChannelsKept == part = "dual" => Dual!ChannelsKept /\ Dual!GivenBackStaysGone

(* A removed user is not migrated again, although DynamoDB is no longer      *)
(* written to (remove_user, get_user), and an acked topic message is in      *)
(* neither database (remove_message).                                        *)
RemovedStaysGone ==
  /\ part = "wind down" => WindDown!RemovedStaysGone
  /\ part = "dual" => Dual!AckedTopicGone
=============================================================================
