------------------------------- MODULE Mailbox -------------------------------
(***************************************************************************)
(* What the push service promises the senders of one user's notifications:  *)
(* a mailbox that delivers at least once.  A notification is taken in while *)
(* its sender waits, and from the answer on it is held until the user agent *)
(* acks it; only a failure of the service loses it, and once no copy of it  *)
(* is held it does not come back.                                           *)
(***************************************************************************)
CONSTANTS
  Messages, \* notifications
  ZeroTTL   \* those that are delivered at once or not at all

VARIABLES
  promised, \* notifications whose sender was told they are accepted
  held,     \* notifications the service holds a copy of
  acked,    \* notifications the user agent acked
  lost      \* notifications of which a failure destroyed a copy

vars == <<promised, held, acked, lost>>

Init == promised = {} /\ held = {} /\ acked = {} /\ lost = {}

(* A copy of a notification is made only while its sender waits.             *)
Take(m) ==
  /\ m \notin promised
  /\ held' = held \cup {m}
  /\ promised' \in {promised, promised \cup {m}}
  /\ UNCHANGED <<acked, lost>>

(* The answer: the notification is held, or has been.                        *)
Promise(m) ==
  /\ m \in held \cup acked \cup lost \cup ZeroTTL
  /\ promised' = promised \cup {m}
  /\ UNCHANGED <<held, acked, lost>>

(* An ack deletes a copy, which need not be the last one.                    *)
Ack(m) ==
  /\ m \in held
  /\ acked' = acked \cup {m}
  /\ held' \in {held, held \ {m}}
  /\ UNCHANGED <<promised, lost>>

(* A notification with a TTL of 0 is sent and forgotten.                     *)
Expire(m) ==
  /\ m \in ZeroTTL
  /\ held' = held \ {m}
  /\ UNCHANGED <<promised, acked, lost>>

(* Some copies are lost to a failure.                                        *)
Fail ==
  /\ lost' \in SUBSET (lost \cup held) /\ lost \subseteq lost'
  /\ held' \in SUBSET held /\ held \ held' \subseteq lost'
  /\ UNCHANGED <<promised, acked>>

Next ==
  \/ \E m \in Messages : Take(m) \/ Promise(m) \/ Ack(m) \/ Expire(m)
  \/ Fail

Spec == Init /\ [][Next]_vars
==============================================================================
