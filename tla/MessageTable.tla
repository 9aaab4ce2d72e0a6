----------------------------- MODULE MessageTable -----------------------------
(***************************************************************************)
(* One row of the message table in Bigtable: the messages of one topic of a *)
(* channel, which share their row key (bigtable_client/mod.rs).  A save     *)
(* writes the cells of one message, each with the message's expiry as its   *)
(* Bigtable timestamp; a read takes the cell with the highest timestamp of  *)
(* each column and then drops the ones whose timestamp has passed.  Saves   *)
(* of several endpoint nodes are in flight at once and may be applied in    *)
(* any order, and again after a lost answer.                                *)
(***************************************************************************)
EXTENDS Naturals, Sequences, TLC

CONSTANTS
  TTLs,         \* the TTLs publishers use
  Bodies,       \* which messages publishers send: TRUE with data, FALSE without
  MaxMessages,  \* bound on the messages saved
  MaxNow        \* bound on the clock

(* What the constants may be: assumed where the module is instantiated.      *)
MessageTableAssumption ==
  TTLs \subseteq Nat /\ Bodies \subseteq BOOLEAN /\ MaxMessages \in Nat /\ MaxNow \in Nat

VARIABLES
  row,      \* function from columns to cells [val, at]
  pending,  \* save requests that may still be applied
  saved,    \* every message saved, by version
  newest,   \* the version of the message sent last among the applied, 0 if none
  now       \* the clock
vars == <<row, pending, saved, newest, now>>

NoRow == <<>>

Init ==
  /\ row = NoRow
  /\ pending = {}
  /\ saved = <<>>
  /\ newest = 0
  /\ now = 1

-----------------------------------------------------------------------------
(* What a save does that stamps the body with the time it is written at.     *)
MessageCellsBodyNow(m) ==
  [c \in {"ttl", "timestamp", "version"} \cup (IF m.body THEN {"data", "headers"} ELSE {}) |->
     [val |-> m.version, at |-> IF c \in {"data", "headers"} THEN m.sent ELSE m.expiry]]

(* The cells of a message: headers and data only when it has a body.         *)
MessageCells(m) ==
  [c \in {"ttl", "timestamp", "version"} \cup (IF m.body THEN {"data", "headers"} ELSE {}) |->
     [val |-> m.version, at |-> m.expiry]]

(* A cell is seen when no cell of its column has a later timestamp.          *)
Write(r, cells) ==
  [c \in DOMAIN r \cup DOMAIN cells |->
     IF c \in DOMAIN cells /\ (c \notin DOMAIN r \/ r[c].at <= cells[c].at) THEN cells[c] ELSE r[c]]

(* What a read without the timestamp filter would be given.                  *)
LiveAll(r) == r

(* message_gc_policy_filter: the latest cells, then those not yet expired.   *)
Live(r) == [c \in {d \in DOMAIN r : r[d].at >= now} |-> r[c]]

NoMessage == [version |-> 0, data |-> 0, whole |-> TRUE]

(* row_to_notification: version, ttl and timestamp are required.             *)
row_to_notification(r) ==
  IF r = NoRow THEN NoMessage
  ELSE [version |-> IF "version" \in DOMAIN r THEN r["version"].val ELSE 0,
        data |-> IF "data" \in DOMAIN r THEN r["data"].val ELSE 0,
        whole |-> {"version", "ttl", "timestamp"} \subseteq DOMAIN r]

(* What a session that checks its storage now would be given.                *)
fetch_topic_messages == row_to_notification(Live(row))

(* An endpoint node takes a message and builds the request.                  *)
SaveRequest ==
  /\ Len(saved) < MaxMessages
  /\ \E ttl \in TTLs, body \in Bodies :
       LET m == [version |-> Len(saved) + 1, sent |-> now, expiry |-> now + ttl, body |-> body]
       IN /\ saved' = Append(saved, m)
          /\ pending' = pending \cup {m}
  /\ UNCHANGED <<row, newest, now>>

(* save_message reaches the table; the request may be tried again.           *)
save_message ==
  /\ \E m \in pending :
       /\ row' = Write(row, MessageCells(m))
       /\ newest' = IF newest = 0 \/ saved[newest].sent <= m.sent THEN m.version ELSE newest
       /\ \E again \in BOOLEAN : pending' = IF again THEN pending ELSE pending \ {m}
  /\ UNCHANGED <<saved, now>>

(* The user agent has acked what it was given: the row is deleted.           *)
remove_message ==
  /\ fetch_topic_messages # NoMessage
  /\ row' = NoRow
  /\ newest' = 0
  /\ UNCHANGED <<pending, saved, now>>

Tick ==
  /\ now < MaxNow
  /\ now' = now + 1
  /\ UNCHANGED <<row, pending, saved, newest>>

Next == SaveRequest \/ save_message \/ remove_message \/ Tick

Spec == Init /\ [][Next]_vars

-----------------------------------------------------------------------------
(* However saves with different TTLs, with and without a body, are applied   *)
(* and expire, a row that is read has its required cells: no session fails   *)
(* on an Integrity error (row_to_notification).                              *)
ReadableWhole == fetch_topic_messages.whole

(* No message is handed out after its expiry.                                *)
ExpiredNotRead ==
  LET n == fetch_topic_messages IN n.version # 0 => saved[n.version].expiry >= now

(* A message that was sent with data is handed out with its own data, not    *)
(* with that of a message it replaced, and not without.                      *)
DataIsOwn ==
  LET n == fetch_topic_messages IN
  n.version # 0 /\ saved[n.version].body => n.data = n.version

(* The same of a message without data: it does not hold, because nothing     *)
(* deletes the data cell of the message that was replaced.                   *)
BodyIsOwn ==
  LET n == fetch_topic_messages IN
  n.version # 0 => n.data = IF saved[n.version].body THEN n.version ELSE 0

(* The newest message of a topic replaces the ones before: until it expires  *)
(* it is the one handed out, unless one that was not sent later was given a  *)
(* longer life.  In whatever order the saves are applied, an older message   *)
(* never hides it otherwise, and never is there nothing to read.             *)
NewestReplaces ==
  LET n == fetch_topic_messages IN
  newest # 0 /\ saved[newest].expiry >= now =>
    /\ n.version # 0
    /\ n.version # newest => /\ saved[n.version].sent <= saved[newest].sent
                             /\ saved[n.version].expiry >= saved[newest].expiry

(* The same without the exception, which does not hold: a newer message with *)
(* a shorter TTL is hidden by the older one.                                 *)
NewestAlwaysReplaces ==
  newest # 0 /\ saved[newest].expiry >= now => fetch_topic_messages.version = newest
=============================================================================
