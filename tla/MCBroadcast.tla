----------------------------- MODULE MCBroadcast -----------------------------
(* Two broadcasts and two versions: a response can change one broadcast,     *)
(* both or none, and a version can return (A-B-A).  One session: sessions    *)
(* only read the tracker, so a second one changes nothing for the first.     *)
EXTENDS Broadcast

CONSTANTS b1, b2, v1, v2, c1

MCBroadcastIds == {b1, b2}
MCVersions == {v1, v2}
MCClients == {c1}
=============================================================================
