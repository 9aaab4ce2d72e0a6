------------------------------- MODULE AdmToken -------------------------------
(***************************************************************************)
(* The access token an AdmClient shares between the notifications of its    *)
(* profile (routers/adm/client.rs): it is cached with the time it expires,  *)
(* and a request that finds it out of date fetches another while it holds   *)
(* the lock.  Time is counted in units the network never takes more than    *)
(* MaxDelay of for one way.                                                  *)
(***************************************************************************)
EXTENDS Naturals

CONSTANTS
  Tasks,     \* notifications, each sent once
  Margin,    \* the 60 seconds of get_access_token
  Lifetimes, \* expires_in of the tokens ADM gives out
  MaxDelay,  \* the longest way from ADM or to ADM
  MaxClock   \* bound on the clock

(* What the constants may be: assumed where the module is instantiated.      *)
AdmTokenAssumption ==
  /\ Margin \in Nat /\ MaxDelay \in Nat /\ MaxClock \in Nat /\ Lifetimes \subseteq Nat
  /\ 2 * MaxDelay <= Margin
  /\ \A life \in Lifetimes : 2 * MaxDelay < life

VARIABLES
  clock,      \* sec_since_epoch
  token_info, \* the cached token: the time ADM forgets it, and expiration_time
  lock,       \* whether the lock of token_info is held
  task        \* the requests
vars == <<clock, token_info, lock, task>>

(* "until" stands for the token: the time until which ADM accepts it.        *)
Idle == [pc |-> "idle", until |-> 0, life |-> 0, since |-> 0, accepted |-> TRUE]

Init ==
  /\ clock = 1
  /\ token_info = [until |-> 0, expiration_time |-> 0]
  /\ lock = FALSE
  /\ task = [t \in Tasks |-> Idle]

Set(t, record) == task' = [task EXCEPT ![t] = record]

(* Nothing is on its way for longer than MaxDelay.                           *)
Tick ==
  /\ clock < MaxClock
  /\ \A t \in Tasks : task[t].pc \in {"answering", "sending"} => clock < task[t].since + MaxDelay
  /\ clock' = clock + 1
  /\ UNCHANGED <<token_info, lock, task>>

-----------------------------------------------------------------------------
send(t) ==
  /\ task[t].pc = "idle"
  /\ Set(t, [Idle EXCEPT !.pc = "asking"])
  /\ UNCHANGED <<clock, token_info, lock>>

Ready(t, until) == Set(t, [Idle EXCEPT !.pc = "sending", !.until = until, !.since = clock])

(* What a cache without a margin would do.                                   *)
get_access_token_no_margin(t) ==
  /\ task[t].pc = "asking" /\ ~lock
  /\ IF token_info.expiration_time > clock
     THEN Ready(t, token_info.until) /\ UNCHANGED lock
     ELSE Set(t, [task[t] EXCEPT !.pc = "fetching"]) /\ lock' = TRUE
  /\ UNCHANGED <<clock, token_info>>

(* get_access_token once it has the lock: a cached token is returned at once.*)
get_access_token(t) ==
  /\ task[t].pc = "asking" /\ ~lock
  /\ IF token_info.expiration_time > clock + Margin
     THEN Ready(t, token_info.until) /\ UNCHANGED lock
     ELSE Set(t, [task[t] EXCEPT !.pc = "fetching"]) /\ lock' = TRUE
  /\ UNCHANGED <<clock, token_info>>

(* ADM gives a token out, and its answer starts on its way.                  *)
Issue(t) ==
  /\ task[t].pc = "fetching"
  /\ \E life \in Lifetimes :
       Set(t, [task[t] EXCEPT !.pc = "answering", !.life = life, !.until = clock + life, !.since = clock])
  /\ UNCHANGED <<clock, token_info, lock>>

TokenResponse(t) ==
  /\ task[t].pc = "answering"
  /\ token_info' = [until |-> task[t].until, expiration_time |-> clock + task[t].life]
  /\ Ready(t, task[t].until)
  /\ lock' = FALSE
  /\ UNCHANGED clock

(* What an error path that keeps the lock would do.                          *)
FetchFailsLocked(t) ==
  /\ task[t].pc \in {"fetching", "answering"}
  /\ Set(t, [Idle EXCEPT !.pc = "failed"])
  /\ UNCHANGED <<clock, token_info, lock>>

(* The request or its answer fails: the guard is dropped, the cache is left. *)
FetchFails(t) ==
  /\ task[t].pc \in {"fetching", "answering"}
  /\ Set(t, [Idle EXCEPT !.pc = "failed"])
  /\ lock' = FALSE
  /\ UNCHANGED <<clock, token_info>>

(* The notification reaches ADM with the token.                              *)
Deliver(t) ==
  /\ task[t].pc = "sending"
  /\ Set(t, [Idle EXCEPT !.pc = "sent", !.accepted = (task[t].until > clock)])
  /\ UNCHANGED <<clock, token_info, lock>>

Next ==
  \/ Tick
  \/ \E t \in Tasks : \/ send(t) \/ get_access_token(t) \/ Issue(t) \/ TokenResponse(t)
                      \/ FetchFails(t) \/ Deliver(t)

Spec == Init /\ [][Next]_vars

(* A lock that is free is taken by one of the tasks that wait for it, by any *)
(* of them (futures' Mutex wakes a waiter, and a newcomer may come first),   *)
(* and a request for a token ends: the HTTP client has a timeout.            *)
Fairness ==
  /\ WF_vars(\E t \in Tasks : get_access_token(t))
  /\ \A t \in Tasks : WF_vars(TokenResponse(t) \/ FetchFails(t))

LiveSpec == Spec /\ Fairness

-----------------------------------------------------------------------------
(* ADM never sees a token that it has forgotten, however long the answers    *)
(* and the notification take (get_access_token).                             *)
NeverExpired == \A t \in Tasks : task[t].accepted

(* One request for a token at a time, so the cached token is never replaced  *)
(* by one that was given out before it (get_access_token).                   *)
OneFetch ==
  \A t, u \in Tasks :
    task[t].pc \in {"fetching", "answering"} /\ task[u].pc \in {"fetching", "answering"} => t = u

(* A notification that needs a token is not held up for ever by other ones   *)
(* whose requests for a token fail (get_access_token): as long as not ever   *)
(* more notifications come, it has its turn.                                 *)
Served == \A t \in Tasks : task[t].pc = "asking" ~> task[t].pc # "asking"
=============================================================================
