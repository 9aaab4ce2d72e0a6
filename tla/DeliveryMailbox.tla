--------------------------- MODULE DeliveryMailbox ---------------------------
(***************************************************************************)
(* The router, the sessions and their saving tasks (module Delivery)        *)
(* implement the mailbox of module Mailbox: a notification is held while it *)
(* is in storage or in the memory of a session that has not ended.          *)
(***************************************************************************)
EXTENDS Delivery

Promised == {m \in Messages : Answered(m)}
Held == rows \cup UNION {InMemory(session[s]) : s \in {t \in Sessions : ~At(t, "done")}}

Service == INSTANCE Mailbox WITH promised <- Promised, held <- Held, acked <- acked, lost <- lost

(***************************************************************************)
(* Every behaviour of the servers is one of the mailbox: what a sender was  *)
(* told is accepted stays held until it is acked or lost to a failure, a    *)
(* copy moves from a session to storage without a gap, an ack deletes at    *)
(* most what it acks, and a notification that was acked does not come back  *)
(* once its sender has the answer, although routers, sessions and saving    *)
(* tasks copy it independently (route_notification, shutdown,               *)
(* save_and_notify_unacked_direct_notifs).                                  *)
(***************************************************************************)
ImplementsMailbox == Service!Spec
==============================================================================
