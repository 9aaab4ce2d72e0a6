----------------------------- MODULE MCDelivery ------------------------------
(* Two sessions of a user: with one message, on two nodes, one of which may  *)
(* crash; or with two messages, one of TTL 0, on one node.                   *)
EXTENDS DeliveryMailbox

CONSTANTS m1, m2, s1, s2, n1, n2

OneMessage == {m1}
TwoMessages == {m1, m2}
SecondMessage == {m2}
NoMessages == {}
TwoSessions == {s1, s2}
OneNode == {n1}
TwoNodes == {n1, n2}
=============================================================================
