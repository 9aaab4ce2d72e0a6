------------------------------ MODULE LegacyProofs --------------------------
(***************************************************************************)
(* Proofs about module LegacySession: for any number of sessions, nodes,   *)
(* channels and messages, overlapping or not, whatever calls fail; and, at *)
(* the end, about module LegacyServer, for any number of connections.      *)
(***************************************************************************)
EXTENDS LegacySession, FiniteSetTheorems, WellFoundedInduction, TLAPS

Phases == Unauthenticated \cup Authenticated \cup Ended
Fields == {"phase", "node", "connectedAt", "month", "includeTopic", "increment", "check", "old",
           "rotate", "deferred", "queue", "direct", "stored", "highest", "sent", "batch", "chids",
           "topics"}
TableFields == {"reg", "chids", "ptr", "rows"}

(* The fields that decide what a session reads and what it does next.        *)
Shape(r) ==
  /\ DOMAIN r = Fields /\ r.phase \in Phases
  /\ r.includeTopic \in BOOLEAN /\ r.increment \in BOOLEAN /\ r.check \in BOOLEAN
  /\ r.rotate \in BOOLEAN /\ r.highest \in Nat
  /\ IsFiniteSet(r.direct)

(* The flags agree with the phase: a pointer is only to be written with a    *)
(* timestamp to write, and while storage is still to be checked.             *)
FlagsOK(r) ==
  /\ r.phase \in Authenticated \cup {"register", "connect"} => r.month \in Months
  /\ r.phase = "input" /\ ~unacked_messages(r) => ~r.check /\ ~r.rotate /\ ~r.old
  /\ r.increment => r.check /\ r.highest # 0
  /\ r.phase \in {"check", "fetch"} => r.check /\ ~r.increment
  /\ r.phase = "increment" => r.increment
  /\ r.phase \in {"channels", "copy", "month"} => ~r.check
  /\ r.phase \in Unauthenticated => ~r.increment /\ r.includeTopic

(* Every row up to a timestamp is of a message that is out.                  *)
Passed(rows, k, out) == \A x \in rows : x[1] # 0 /\ x[1] <= k => x[2] \in out
Out(r, done) == done \cup (IF r.phase = "send" THEN r.batch ELSE {})

SessOK(r, T, c, done) ==
  /\ Shape(r) /\ FlagsOK(r) /\ r.highest <= c
  /\ Relies(r) => Passed(T[r.month].rows, r.highest, Out(r, done))

TableOK(t, c, done) ==
  /\ DOMAIN t = TableFields /\ t.ptr \in Nat /\ t.ptr <= c
  /\ IsFiniteSet(t.rows) /\ \A x \in t.rows : x[1] \in Nat /\ x[1] <= c
  /\ Passed(t.rows, t.ptr, done)

TblOK(T, c, done) ==
  /\ DOMAIN T = Months /\ c \in Nat
  /\ \A mo \in Months : TableOK(T[mo], c, done)

(* What was sent, has expired, or was overtaken by a read.                   *)
Gone == client.got \cup expired \cup overtaken

(* Keys are given out up to the clock.                                       *)
StampOK == \A m \in Messages : stamp[m].key \in Nat /\ stamp[m].key <= clock

IInv ==
  /\ DOMAIN sess = Sessions
  /\ DOMAIN client = {"known", "gone", "chans", "got", "acked"}
  /\ TblOK(tbl, clock, Gone) /\ StampOK
  /\ \A s \in Sessions : SessOK(sess[s], tbl, clock, Gone)

-----------------------------------------------------------------------------
(***************************************************************************)
(* What a step may do to the message tables.                               *)
(***************************************************************************)

(* A new row has a topic, is of a message that is out, or sorts after what   *)
(* any session that relies on its timestamp has read.                        *)
NewRows(T2, T, d2) ==
  \A mo \in Months : \A x \in T2[mo].rows :
    \/ x \in T[mo].rows \/ x[1] = 0 \/ x[2] \in d2
    \/ \A q \in Sessions : sess[q].month = mo /\ Relies(sess[q]) => ~(x[1] <= sess[q].highest)

NoneAdded(T2, T) == \A mo \in Months : T2[mo].rows \subseteq T[mo].rows

TblStep(T2, c2, d2, T, c, d) ==
  /\ TblOK(T2, c2, d2) /\ c <= c2 /\ d \subseteq d2 /\ NewRows(T2, T, d2)

\* A step that adds no row and moves no pointer.
LEMMA RowsKept ==
  ASSUME NEW T, NEW c, NEW d, NEW T2, NEW d2, TblOK(T, c, d), d \subseteq d2,
         DOMAIN T2 = Months,
         \A mo \in Months : /\ DOMAIN T2[mo] = TableFields /\ T2[mo].ptr = T[mo].ptr
                            /\ T2[mo].rows \subseteq T[mo].rows
  PROVE  TblStep(T2, c, d2, T, c, d) /\ NoneAdded(T2, T)
<1>1. ASSUME NEW mo \in Months
      PROVE  TableOK(T2[mo], c, d2)
  <2>1. TableOK(T[mo], c, d) /\ T2[mo].rows \subseteq T[mo].rows /\ DOMAIN T2[mo] = TableFields
        /\ T2[mo].ptr = T[mo].ptr
    BY DEF TblOK
  <2>2. IsFiniteSet(T2[mo].rows)
    BY <2>1, FS_Subset DEF TableOK
  <2> QED BY <2>1, <2>2 DEF TableOK, Passed
<1>2. TblOK(T2, c, d2) /\ c \in Nat
  BY <1>1 DEF TblOK
<1>3. NewRows(T2, T, d2) /\ NoneAdded(T2, T)
  BY DEF NewRows, NoneAdded
<1> QED BY <1>2, <1>3 DEF TblStep

LEMMA TblKept ==
  ASSUME NEW T, NEW c, NEW d, NEW d2, TblOK(T, c, d), d \subseteq d2
  PROVE  TblStep(T, c, d2, T, c, d) /\ NoneAdded(T, T)
<1>1. DOMAIN T = Months /\ \A mo \in Months : DOMAIN T[mo] = TableFields
  BY DEF TblOK, TableOK
<1> QED BY <1>1, RowsKept

\* A session is as it was, as far as storage goes.
Same(r2, r) ==
  /\ DOMAIN r2 = Fields
  /\ r2.month = r.month /\ r2.includeTopic = r.includeTopic /\ r2.increment = r.increment
  /\ r2.check = r.check /\ r2.old = r.old /\ r2.rotate = r.rotate /\ r2.highest = r.highest

Alike(r2, r) ==
  /\ Same(r2, r)
  /\ r2.phase = r.phase /\ r2.batch = r.batch /\ r2.direct = r.direct /\ r2.stored = r.stored

\* What one session has read stays right when another one takes a step.
LEMMA OthersKept ==
  ASSUME NEW T, NEW c, NEW d, NEW T2, NEW c2, NEW d2, NEW q \in Sessions, NEW r2, TblOK(T, c, d),
         SessOK(sess[q], T, c, d), Alike(r2, sess[q]), TblStep(T2, c2, d2, T, c, d)
  PROVE  SessOK(r2, T2, c2, d2)
<1> DEFINE r == sess[q]
<1>1. Shape(r2) /\ FlagsOK(r2)
  BY DEF SessOK, Alike, Same, Shape, FlagsOK, unacked_messages
<1>2. c \in Nat /\ c2 \in Nat /\ c <= c2 /\ r.highest \in Nat /\ r.highest <= c
  BY DEF SessOK, Shape, TblOK, TblStep
<1>3. r2.highest <= c2
  BY <1>2 DEF Alike, Same
<1>4. ASSUME Relies(r2)
      PROVE  Passed(T2[r2.month].rows, r2.highest, Out(r2, d2))
  <2>1. Relies(r) /\ r.month \in Months
    BY <1>4 DEF Relies, Alike, Same, SessOK, FlagsOK
  <2>2. Passed(T[r.month].rows, r.highest, Out(r, d))
    BY <2>1 DEF SessOK
  <2>3. Out(r, d) \subseteq Out(r2, d2) /\ d2 \subseteq Out(r2, d2)
    BY DEF Out, Alike, TblStep
  <2>4. SUFFICES ASSUME NEW x \in T2[r.month].rows, x[1] # 0, x[1] <= r.highest
                 PROVE  x[2] \in Out(r2, d2)
    BY DEF Passed, Alike, Same
  <2>5. x \in T[r.month].rows \/ x[2] \in d2
    BY <2>1, <2>4 DEF TblStep, NewRows
  <2> QED BY <2>2, <2>3, <2>4, <2>5 DEF Passed
<1> QED BY <1>1, <1>3, <1>4 DEF SessOK

(* A step of session s: it and the tables are right after it, the others are *)
(* as they were.                                                             *)
Turn(s) ==
  /\ DOMAIN sess' = Sessions /\ DOMAIN client' = DOMAIN client
  /\ TblStep(tbl', clock', Gone', tbl, clock, Gone)
  /\ SessOK(sess'[s], tbl', clock', Gone')
  /\ \A q \in Sessions \ {s} : Alike(sess'[q], sess[q])

LEMMA TurnKeeps ==
  ASSUME IInv, NEW s \in Sessions, Turn(s), StampOK'
  PROVE  IInv'
<1>1. ASSUME NEW q \in Sessions
      PROVE  SessOK(sess'[q], tbl', clock', Gone')
  <2>1. CASE q = s
    BY <2>1 DEF Turn
  <2>2. CASE q # s
    <3>1. /\ SessOK(sess[q], tbl, clock, Gone) /\ Alike(sess'[q], sess[q])
          /\ TblStep(tbl', clock', Gone', tbl, clock, Gone) /\ TblOK(tbl, clock, Gone)
      BY <2>2 DEF IInv, Turn
    <3> QED BY <3>1, OthersKept
  <2> QED BY <2>1, <2>2
<1>2. TblOK(tbl', clock', Gone')
  BY DEF Turn, TblStep
<1> QED BY <1>1, <1>2 DEF Turn, IInv

-----------------------------------------------------------------------------
(***************************************************************************)
(* What a session does next.                                               *)
(***************************************************************************)

(* A session that may determine what is next.                                *)
Ready(r, T, c, done) ==
  /\ Shape(r) /\ r.month \in Months /\ r.highest <= c
  /\ r.increment => r.check /\ r.highest # 0
  /\ r.increment \/ (r.check /\ ~r.includeTopic) => Passed(T[r.month].rows, r.highest, done)

LEMMA DetermineAckFields ==
  ASSUME NEW r, NEW r2, Shape(r), r2 = DetermineAck(r)
  PROVE  /\ Same(r2, r) /\ r2.direct = r.direct /\ r2.stored = r.stored
         /\ \/ r2.phase = "input" /\ unacked_messages(r)
            \/ r2.phase = "increment" /\ r.check /\ r.increment
            \/ r2.phase = "check" /\ r.check /\ ~r.increment
            \/ r2.phase = "channels" /\ ~r.check
            \/ r2.phase = "drop"
            \/ r2.phase = "input" /\ ~r.check /\ ~r.rotate /\ ~r.old
<1> DEFINE p == IF unacked_messages(r)           THEN "input"
                ELSE IF r.check /\ r.increment   THEN "increment"
                ELSE IF r.check                  THEN "check"
                ELSE IF r.rotate                 THEN "channels"
                ELSE IF r.old                    THEN "drop"
                ELSE                                  "input"
<1>1. r2 = [r EXCEPT !.phase = p]
  BY DEF DetermineAck
<1>2. \/ p = "input" /\ unacked_messages(r)
      \/ p = "increment" /\ r.check /\ r.increment
      \/ p = "check" /\ r.check /\ ~r.increment
      \/ p = "channels" /\ ~r.check
      \/ p = "drop"
      \/ p = "input" /\ ~r.check /\ ~r.rotate /\ ~r.old
  BY DEF Shape
<1> HIDE DEF p
<1>3. /\ Same(r2, r) /\ r2.direct = r.direct /\ r2.stored = r.stored
      /\ r2.phase = p
  BY <1>1 DEF Shape, Same, Fields
<1> QED BY <1>2, <1>3

LEMMA DetermineAckOK ==
  ASSUME NEW r, NEW T, NEW c, NEW done, Ready(r, T, c, done)
  PROVE  SessOK(DetermineAck(r), T, c, done)
<1> DEFINE r2 == DetermineAck(r)
<1>1. Shape(r)
  BY DEF Ready
<1>2. /\ Same(r2, r) /\ r2.direct = r.direct /\ r2.stored = r.stored
      /\ \/ r2.phase = "input" /\ unacked_messages(r)
         \/ r2.phase = "increment" /\ r.check /\ r.increment
         \/ r2.phase = "check" /\ r.check /\ ~r.increment
         \/ r2.phase = "channels" /\ ~r.check
         \/ r2.phase = "drop"
         \/ r2.phase = "input" /\ ~r.check /\ ~r.rotate /\ ~r.old
  BY <1>1, DetermineAckFields
<1> HIDE DEF r2
<1>3. Shape(r2)
  BY <1>1, <1>2 DEF Shape, Same, Phases, Authenticated
<1>4. FlagsOK(r2)
  BY <1>2 DEF Ready, Same, FlagsOK, unacked_messages, Unauthenticated
<1>5. r2.highest <= c
  BY <1>2 DEF Ready, Same
<1>6. Relies(r2) => Passed(T[r2.month].rows, r2.highest, Out(r2, done))
  BY <1>2 DEF Relies, Ready, Same, Out
<1>7. SessOK(r2, T, c, done)
  BY <1>3, <1>4, <1>5, <1>6 DEF SessOK
<1> QED BY <1>7 DEF r2

LEMMA DropOK ==
  ASSUME NEW r, NEW T, NEW c, NEW done, NEW T2, NEW done2, Ready(r, T, c, done)
  PROVE  SessOK([r EXCEPT !.phase = "drop"], T2, c, done2)
<1> DEFINE r2 == [r EXCEPT !.phase = "drop"]
<1>1. Same(r2, r) /\ r2.direct = r.direct /\ r2.phase = "drop"
  BY DEF Ready, Shape, Same, Fields
<1> HIDE DEF r2
<1>2. Shape(r2) /\ FlagsOK(r2) /\ r2.highest <= c /\ ~Relies(r2)
  BY <1>1 DEF Ready, Shape, Same, FlagsOK, Relies, Phases, Authenticated, Unauthenticated
<1>3. SessOK(r2, T2, c, done2)
  BY <1>2 DEF SessOK
<1> QED BY <1>3 DEF r2

LEMMA AfterSendOK ==
  ASSUME NEW r, NEW T, NEW c, NEW done, Ready(r, T, c, done)
  PROVE  SessOK(AfterSend(r), T, c, done)
<1>1. SessOK(DetermineAck(r), T, c, done)
  BY DetermineAckOK
<1>2. SessOK([r EXCEPT !.phase = "drop"], T, c, done)
  BY DropOK
<1> QED BY <1>1, <1>2 DEF AfterSend

\* A session that has said hello and is not to be dropped may go on.
LEMMA ReadyAgain ==
  ASSUME NEW r, NEW r2, NEW T, NEW c, NEW done, SessOK(r, T, c, done),
         r.phase \in Authenticated \ {"drop"}, Same(r2, r), IsFiniteSet(r2.direct),
         r2.phase \in Phases
  PROVE  Ready(r2, T, c, Out(r, done))
BY DEF SessOK, Shape, FlagsOK, Relies, Same, Ready, Out

LEMMA EndedOK ==
  ASSUME NEW r, NEW r2, NEW T, NEW c, NEW done, NEW T2, NEW c2, NEW done2,
         SessOK(r, T, c, done), c \in Nat, c2 \in Nat, c <= c2, Same(r2, r),
         IsFiniteSet(r2.direct), r2.phase \in Ended
  PROVE  SessOK(r2, T2, c2, done2)
<1>1. Shape(r2) /\ FlagsOK(r2) /\ ~Relies(r2)
  BY DEF SessOK, Shape, Same, FlagsOK, Relies, Phases, Ended, Authenticated, Unauthenticated
<1>2. r2.highest <= c2
  BY DEF SessOK, Shape, Same
<1> QED BY <1>1, <1>2 DEF SessOK

\* A session that waits for a call other than a read of storage.
LEMMA WaitingOK ==
  ASSUME NEW r, NEW T, NEW c, NEW done, NEW out, Ready(r, T, c, out), out \subseteq Out(r, done),
         r.phase \in {"send", "savechan", "reguser", "unreg", "delete"}
  PROVE  SessOK(r, T, c, done)
<1>1. FlagsOK(r)
  BY DEF Ready, Shape, FlagsOK, Unauthenticated
<1>2. Relies(r) => Passed(T[r.month].rows, r.highest, Out(r, done))
  BY DEF Ready, Relies, Passed
<1> QED BY <1>1, <1>2 DEF SessOK, Ready

\* The rows stay right for a session when a row goes.
LEMMA ReadyLater ==
  ASSUME NEW r, NEW T, NEW c, NEW T2, NEW out, NEW out2, Ready(r, T, c, out), out \subseteq out2,
         NoneAdded(T2, T)
  PROVE  Ready(r, T2, c, out2)
BY DEF Ready, Passed, NoneAdded

-----------------------------------------------------------------------------
(***************************************************************************)
(* Steps of a session                                                      *)
(***************************************************************************)
LEMMA SessionFacts ==
  ASSUME IInv, NEW s \in Sessions
  PROVE  /\ SessOK(sess[s], tbl, clock, Gone) /\ TblOK(tbl, clock, Gone) /\ clock \in Nat
         /\ Shape(sess[s]) /\ DOMAIN sess[s] = Fields /\ IsFiniteSet(sess[s].direct)
         /\ FlagsOK(sess[s])
BY DEF IInv, SessOK, TblOK, Shape

LEMMA AlikeItself ==
  ASSUME NEW r, DOMAIN r = Fields
  PROVE  Alike(r, r)
BY DEF Alike, Same

LEMMA StepTurn ==
  ASSUME IInv, NEW s \in Sessions, NEW r, Step(s, r), DOMAIN client' = DOMAIN client,
         TblStep(tbl', clock', Gone', tbl, clock, Gone), SessOK(r, tbl', clock', Gone')
  PROVE  Turn(s)
<1>1. DOMAIN sess' = Sessions /\ sess'[s] = r /\ \A q \in Sessions \ {s} : sess'[q] = sess[q]
  BY DEF IInv, Step
<1>2. \A q \in Sessions \ {s} : Alike(sess'[q], sess[q])
  BY <1>1, AlikeItself, SessionFacts
<1> QED BY <1>1, <1>2 DEF Turn

\* The tables stay as they are.
LEMMA QuietTurn ==
  ASSUME IInv, NEW s \in Sessions, NEW r, Step(s, r), DOMAIN client' = DOMAIN client,
         UNCHANGED <<tbl, clock>>, Gone \subseteq Gone', SessOK(r, tbl, clock, Gone')
  PROVE  Turn(s)
<1>1. TblStep(tbl, clock, Gone', tbl, clock, Gone)
  BY SessionFacts, TblKept
<1> QED BY <1>1, StepTurn

\* The session ends.
LEMMA EndTurn ==
  ASSUME IInv, NEW s \in Sessions, NEW r, Step(s, r), DOMAIN client' = DOMAIN client,
         UNCHANGED <<tbl, clock>>, Gone \subseteq Gone', Same(r, sess[s]),
         IsFiniteSet(r.direct), r.phase \in Ended
  PROVE  Turn(s)
<1>1. SessOK(sess[s], tbl, clock, Gone) /\ clock \in Nat
  BY SessionFacts
<1>2. SessOK(r, tbl, clock, Gone')
  BY <1>1, EndedOK
<1> QED BY <1>2, QuietTurn

LEMMA PhaseFields ==
  ASSUME IInv, NEW s \in Sessions, NEW p
  PROVE  /\ Same([sess[s] EXCEPT !.phase = p], sess[s])
         /\ [sess[s] EXCEPT !.phase = p].direct = sess[s].direct
         /\ [sess[s] EXCEPT !.phase = p].phase = p
BY SessionFacts DEF Same, Fields

LEMMA EndPhaseTurn ==
  ASSUME IInv, NEW s \in Sessions, NEW p \in Ended, Step(s, [sess[s] EXCEPT !.phase = p]),
         DOMAIN client' = DOMAIN client, UNCHANGED <<tbl, clock>>, Gone \subseteq Gone'
  PROVE  Turn(s)
<1> DEFINE r == [sess[s] EXCEPT !.phase = p]
<1>1. Same(r, sess[s]) /\ IsFiniteSet(r.direct) /\ r.phase \in Ended
  BY PhaseFields, SessionFacts
<1>2. Step(s, r)
  OBVIOUS
<1> HIDE DEF r
<1> QED BY <1>1, <1>2, EndTurn

LEMMA AwaitHelloTurn ==
  ASSUME IInv, LegacyConstants, NEW s \in Sessions, NEW n \in Nodes, AwaitHello(s, n)
  PROVE  Turn(s)
<1>1. PICK p, m : /\ p \in {"lookup", "connect"} /\ (p = "connect" => m = CurrentMonth)
                  /\ Step(s, [sess[s] EXCEPT !.node = n, !.connectedAt = time + 1, !.phase = p,
                                             !.deferred = ~client.known, !.month = m])
  BY DEF AwaitHello
<1> DEFINE r == [sess[s] EXCEPT !.node = n, !.connectedAt = time + 1, !.phase = p,
                                !.deferred = ~client.known, !.month = m]
<1>2. /\ DOMAIN r = Fields /\ r.phase = p /\ r.month = m /\ r.direct = sess[s].direct
      /\ r.includeTopic = sess[s].includeTopic /\ r.increment = sess[s].increment
      /\ r.check = sess[s].check /\ r.old = sess[s].old /\ r.rotate = sess[s].rotate
      /\ r.highest = sess[s].highest
  BY SessionFacts DEF Fields
<1>3. Step(s, r)
  BY <1>1
<1> HIDE DEF r
<1>4. CurrentMonth \in Months
  BY DEF LegacyConstants, Months
<1>5. Shape(r) /\ ~Relies(r) /\ FlagsOK(r)
  BY <1>1, <1>2, <1>4, SessionFacts DEF AwaitHello, At, Shape, FlagsOK, Relies, Phases, Authenticated,
     Unauthenticated
<1>6. SessOK(r, tbl, clock, Gone)
  BY <1>2, <1>5, SessionFacts DEF SessOK
<1>7. UNCHANGED <<tbl, client, clock, expired, overtaken>> /\ Gone' = Gone
  BY DEF AwaitHello, Gone
<1> QED BY <1>3, <1>6, <1>7, QuietTurn

\* Before the session is connected no phase relies on what it has read.
LEMMA HelloPhaseTurn ==
  ASSUME IInv, NEW s \in Sessions, NEW p \in {"expire", "connect"}, sess[s].phase \in Unauthenticated,
         Step(s, [sess[s] EXCEPT !.phase = p]), p = "connect" => sess[s].month \in Months,
         UNCHANGED <<tbl, client, clock, expired, overtaken>>
  PROVE  Turn(s)
<1> DEFINE r == [sess[s] EXCEPT !.phase = p]
<1>1. Same(r, sess[s]) /\ r.direct = sess[s].direct /\ r.phase = p
  BY PhaseFields
<1>2. Step(s, r)
  OBVIOUS
<1> HIDE DEF r
<1>3. Shape(r) /\ ~Relies(r) /\ FlagsOK(r)
  BY <1>1, SessionFacts DEF Same, Shape, FlagsOK, Relies, Phases, Authenticated, Unauthenticated
<1>4. SessOK(r, tbl, clock, Gone)
  BY <1>1, <1>3, SessionFacts DEF SessOK, Same
<1>5. Gone' = Gone
  BY DEF Gone
<1> QED BY <1>2, <1>4, <1>5, QuietTurn

LEMMA LookupUserTurn ==
  ASSUME IInv, NEW s \in Sessions, lookup_user(s)
  PROVE  Turn(s)
<1>0. UNCHANGED <<tbl, clock, expired, overtaken>> /\ sess[s].phase = "lookup"
  BY DEF lookup_user, At
<1>1. CASE Step(s, [sess[s] EXCEPT !.phase = "done"])
           /\ client' = [client EXCEPT !.gone = TRUE, !.chans = {}]
  <2>1. DOMAIN client' = DOMAIN client /\ Gone' = Gone
    BY <1>0, <1>1 DEF IInv, Gone
  <2> QED BY <1>0, <1>1, <2>1, EndPhaseTurn DEF Ended
<1>2. CASE Step(s, [sess[s] EXCEPT !.phase = "expire"]) /\ UNCHANGED client
  BY <1>0, <1>2, HelloPhaseTurn DEF Unauthenticated
<1>3. CASE /\ router.month \in ValidMonths /\ UNCHANGED client
           /\ Step(s, [sess[s] EXCEPT !.phase = "register", !.check = TRUE,
                          !.rotate = (router.month # CurrentMonth),
                          !.month = router.month, !.old = router.old])
  <2> DEFINE b == router.month # CurrentMonth
             r == [sess[s] EXCEPT !.phase = "register", !.check = TRUE, !.rotate = b,
                                  !.month = router.month, !.old = router.old]
  <2>1. b \in BOOLEAN
    OBVIOUS
  <2>2. Step(s, r)
    BY <1>3
  <2> HIDE DEF b
  <2>3. /\ DOMAIN r = Fields /\ r.phase = "register" /\ r.month = router.month
        /\ r.direct = sess[s].direct
        /\ r.includeTopic = sess[s].includeTopic /\ r.increment = sess[s].increment
        /\ r.check = TRUE /\ r.old = router.old /\ r.rotate = b
        /\ r.highest = sess[s].highest
    BY SessionFacts DEF Fields
  <2> HIDE DEF r
  <2>4. router.month \in Months
    BY <1>3 DEF ValidMonths
  <2>5. Shape(r) /\ ~Relies(r) /\ FlagsOK(r)
    BY <1>0, <2>1, <2>3, <2>4, SessionFacts DEF Shape, FlagsOK, Relies, Phases, Authenticated,
       Unauthenticated
  <2>6. SessOK(r, tbl, clock, Gone)
    BY <2>3, <2>5, SessionFacts DEF SessOK
  <2>7. Gone' = Gone
    BY <1>0, <1>3 DEF Gone
  <2> QED BY <1>0, <1>3, <2>2, <2>6, <2>7, QuietTurn
<1> QED BY <1>1, <1>2, <1>3 DEF lookup_user

LEMMA DropUserTurn ==
  ASSUME IInv, NEW s \in Sessions, drop_user(s)
  PROVE  Turn(s)
<1>1. DOMAIN client' = DOMAIN client /\ Gone' = Gone
  BY DEF IInv, Gone, drop_user
<1> QED BY <1>1, EndPhaseTurn DEF drop_user, Ended

LEMMA RegisterUserTurn ==
  ASSUME IInv, NEW s \in Sessions, register_user(s)
  PROVE  Turn(s)
<1>0. /\ UNCHANGED <<tbl, client, clock, expired, overtaken>> /\ sess[s].phase = "register" /\ Gone' = Gone
      /\ \/ Step(s, [sess[s] EXCEPT !.phase = "connect"])
         \/ Step(s, [sess[s] EXCEPT !.phase = "done"])
  BY DEF register_user, At, Gone
<1>1. CASE Step(s, [sess[s] EXCEPT !.phase = "connect"])
  <2>1. sess[s].month \in Months
    BY <1>0, SessionFacts DEF FlagsOK
  <2> QED BY <1>0, <1>1, <2>1, HelloPhaseTurn DEF Unauthenticated
<1>2. CASE Step(s, [sess[s] EXCEPT !.phase = "done"])
  BY <1>0, <1>2, EndPhaseTurn DEF Ended
<1> QED BY <1>0, <1>1, <1>2

LEMMA HelloFailsTurn ==
  ASSUME IInv, NEW s \in Sessions, HelloFails(s)
  PROVE  Turn(s)
<1>1. UNCHANGED <<tbl, client, clock>> /\ Gone' = Gone
  BY DEF HelloFails, Gone
<1> QED BY <1>1, EndPhaseTurn DEF HelloFails, Ended

\* The channel of a session is not what it knows of storage.
LEMMA PushAlike ==
  ASSUME IInv, NEW n, NEW x
  PROVE  /\ DOMAIN Push(sess, n, x) = Sessions
         /\ \A q \in Sessions : Alike(Push(sess, n, x)[q], sess[q])
<1>1. CASE ~Connected(n)
  BY <1>1, AlikeItself, SessionFacts DEF Push, IInv
<1>2. CASE Connected(n)
  <2> DEFINE w == registry[n]
             f == [sess EXCEPT ![w].queue = Append(@, x)]
  <2>1. Push(sess, n, x) = f
    BY <1>2 DEF Push
  <2> HIDE DEF w
  <2>2. DOMAIN f = Sessions
    BY DEF IInv
  <2>3. ASSUME NEW q \in Sessions
        PROVE  Alike(f[q], sess[q])
    <3>1. CASE q = w
      <4>1. PICK y : f[q] = [sess[q] EXCEPT !.queue = y]
        BY <3>1 DEF IInv
      <4> QED BY <4>1, SessionFacts DEF Alike, Same, Fields
    <3>2. CASE q # w
      BY <3>2, AlikeItself, SessionFacts DEF IInv
    <3> QED BY <3>1, <3>2
  <2> QED BY <2>1, <2>2, <2>3
<1> QED BY <1>1, <1>2

LEMMA RegistryConnectTurn ==
  ASSUME IInv, NEW s \in Sessions, RegistryConnect(s)
  PROVE  Turn(s)
<1> DEFINE f == Push(sess, sess[s].node, Disconnect)
           r == DetermineAck(sess[s])
<1>0. /\ UNCHANGED <<tbl, clock, expired, overtaken>> /\ sess[s].phase = "connect"
      /\ sess' = [f EXCEPT ![s] = r] /\ client' = [client EXCEPT !.known = TRUE]
  BY DEF RegistryConnect, At
<1>1. DOMAIN f = Sessions /\ \A q \in Sessions : Alike(f[q], sess[q])
  BY PushAlike
<1>2. Ready(sess[s], tbl, clock, Gone)
  BY <1>0, SessionFacts DEF Ready, FlagsOK, Unauthenticated, SessOK
<1>3. SessOK(r, tbl, clock, Gone)
  BY <1>2, DetermineAckOK
<1> HIDE DEF f, r
<1>4. DOMAIN sess' = Sessions /\ sess'[s] = r /\ \A q \in Sessions \ {s} : sess'[q] = f[q]
  BY <1>0, <1>1
<1>5. DOMAIN client' = DOMAIN client /\ Gone' = Gone
  BY <1>0 DEF IInv, Gone
<1>6. TblStep(tbl, clock, Gone, tbl, clock, Gone)
  BY SessionFacts, TblKept
<1> QED BY <1>0, <1>1, <1>3, <1>4, <1>5, <1>6 DEF Turn

-----------------------------------------------------------------------------
\* What the session reads: its timestamp is that of the table, or of the last
\* row it got.
LEMMA ReceivedFields ==
  ASSUME IInv, NEW s \in Sessions, NEW rows, NEW topic \in BOOLEAN, NEW ts \in Nat,
         sess[s].phase \in {"check", "fetch"}, ts <= clock,
         NEW out, Gone \subseteq out,
         ~topic => Passed(tbl[sess[s].month].rows, ts, out \cup {x[2] : x \in rows}),
         NEW T2, NoneAdded(T2, tbl)
  PROVE  SessOK(Received(s, rows, topic, ts), T2, clock, out)
<1> DEFINE r == [sess[s] EXCEPT !.includeTopic = topic, !.highest = ts]
           live == {x \in rows : x[2] \notin expired}
           inc == ~topic /\ ts # 0
           r2 == [r EXCEPT !.increment = inc]
           r1 == [r EXCEPT !.check = FALSE, !.sent = 0]
           r3 == [r2 EXCEPT !.stored = @ \cup live, !.phase = "send",
                            !.batch = {x[2] : x \in live},
                            !.sent = @ + Cardinality(live)]
<1>0. /\ Shape(sess[s]) /\ sess[s].month \in Months /\ sess[s].check /\ ~sess[s].increment
      /\ clock \in Nat /\ TblOK(tbl, clock, Gone)
  BY SessionFacts DEF FlagsOK, Authenticated
<1>1. /\ DOMAIN r = Fields /\ r.includeTopic = topic /\ r.highest = ts /\ r.phase = sess[s].phase
      /\ r.month = sess[s].month /\ r.check = TRUE /\ r.increment = FALSE
      /\ r.rotate = sess[s].rotate /\ r.direct = sess[s].direct
  BY <1>0 DEF Shape, Fields
<1>2. /\ inc \in BOOLEAN /\ (inc => ~topic /\ ts # 0)
  OBVIOUS
<1>3. Received(s, rows, topic, ts) = IF rows = {} THEN DetermineAck(r1)
                                     ELSE IF live = {} THEN DetermineAck(r2) ELSE r3
  BY DEF Received
<1>9. out \cup {x[2] : x \in rows} = out \cup {x[2] : x \in live}
  BY DEF Gone
<1> HIDE DEF r, inc
<1>4. Shape(r)
  BY <1>0, <1>1 DEF Shape
<1>5. ASSUME rows = {}
      PROVE  SessOK(DetermineAck(r1), T2, clock, out)
  <2>1. /\ DOMAIN r1 = Fields /\ r1.includeTopic = topic /\ r1.highest = ts /\ r1.phase = r.phase
        /\ r1.month = r.month /\ r1.check = FALSE /\ r1.increment = FALSE
        /\ r1.rotate = r.rotate /\ r1.direct = r.direct
    BY <1>1 DEF Fields
  <2> HIDE DEF r1
  <2>2. Ready(r1, T2, clock, out)
    BY <1>0, <1>1, <1>4, <2>1 DEF Ready, Shape
  <2> QED BY <2>2, DetermineAckOK
<1>6. /\ DOMAIN r2 = Fields /\ r2.includeTopic = topic /\ r2.highest = ts /\ r2.phase = r.phase
      /\ r2.month = r.month /\ r2.check = TRUE /\ r2.increment = inc
      /\ r2.rotate = r.rotate /\ r2.direct = r.direct
  BY <1>1 DEF Fields
<1>7. ASSUME live = {}
      PROVE  SessOK(DetermineAck(r2), T2, clock, out)
  <2> HIDE DEF r2
  <2>1. {x[2] : x \in live} = {}
    BY <1>7
  <2>2. Ready(r2, tbl, clock, out)
    BY <1>0, <1>1, <1>2, <1>4, <1>6, <1>9, <2>1 DEF Ready, Shape
  <2>3. Ready(r2, T2, clock, out)
    BY <1>0, <2>2, ReadyLater
  <2> QED BY <2>3, DetermineAckOK
<1>8. SessOK(r3, T2, clock, out)
  <2> HIDE DEF r2
  <2> DEFINE b == {x[2] : x \in live}
             st == r2.stored \cup live
             n == r2.sent + Cardinality(live)
  <2>1. r3 = [r2 EXCEPT !.stored = st, !.phase = "send", !.batch = b, !.sent = n]
    BY <1>6 DEF Fields
  <2> HIDE DEF b, st, n, r3
  <2>2. /\ DOMAIN r3 = Fields /\ r3.includeTopic = topic /\ r3.highest = ts /\ r3.phase = "send"
        /\ r3.month = r.month /\ r3.check = TRUE /\ r3.increment = inc
        /\ r3.rotate = r.rotate /\ r3.direct = r.direct /\ r3.batch = b
    BY <1>6, <2>1 DEF Fields
  <2>3. Shape(r3)
    BY <1>2, <1>4, <2>2 DEF Shape, Phases, Authenticated
  <2>4. ~topic => Passed(tbl[r3.month].rows, r3.highest, out \cup b)
    BY <1>1, <1>9, <2>2 DEF b
  <2>5. Ready(r3, tbl, clock, out \cup b)
    BY <1>0, <1>1, <1>2, <2>2, <2>3, <2>4 DEF Ready
  <2>6. Ready(r3, T2, clock, out \cup b)
    BY <1>0, <2>5, ReadyLater
  <2>7. out \cup b \subseteq Out(r3, out)
    BY <2>2 DEF Out
  <2> QED BY <2>2, <2>6, <2>7, WaitingOK
<1> QED BY <1>3, <1>5, <1>7, <1>8

\* check_storage with include_topic: topic messages, or the table's pointer.
LEMMA CheckStorageTurn ==
  ASSUME IInv, NEW s \in Sessions, check_storage(s)
  PROVE  Turn(s)
<1> DEFINE mo == sess[s].month
           ts == IF tbl[mo].reg THEN tbl[mo].ptr ELSE 0
<1>0. /\ UNCHANGED <<client, clock, expired, overtaken>> /\ sess[s].phase = "check" /\ Gone' = Gone
  BY DEF check_storage, At, Gone, Elsewhere
<1>1. mo \in Months /\ TableOK(tbl[mo], clock, Gone) /\ clock \in Nat /\ Shape(sess[s])
  BY <1>0, SessionFacts DEF FlagsOK, Authenticated, TblOK
<1>2. ts \in Nat /\ ts <= clock /\ Passed(tbl[mo].rows, ts, Gone)
  <2>1. CASE tbl[mo].reg
    BY <1>1, <2>1 DEF TableOK
  <2>2. CASE ~tbl[mo].reg
    BY <1>1, <2>2 DEF TableOK, Passed
  <2> QED BY <2>1, <2>2
<1>3. ASSUME NEW found, Step(s, Received(s, found, TRUE, ts)), tbl' = Purged(mo, found)
      PROVE  Turn(s)
  <2>1. TblStep(tbl', clock, Gone, tbl, clock, Gone) /\ NoneAdded(tbl', tbl)
    <3> DEFINE del == {x \in found : x[1] = 0 /\ x[2] \in expired}
    <3>0. tbl' = [tbl EXCEPT ![mo].rows = @ \ del]
      BY <1>3 DEF Purged
    <3> HIDE DEF del, mo
    <3>1. DOMAIN tbl = Months /\ \A t \in Months : DOMAIN tbl[t] = TableFields
      BY SessionFacts DEF TblOK, TableOK
    <3>2. DOMAIN tbl' = Months
      BY <3>0, <3>1
    <3>3. ASSUME NEW t \in Months
          PROVE  /\ DOMAIN tbl'[t] = TableFields /\ tbl'[t].ptr = tbl[t].ptr
                 /\ tbl'[t].rows \subseteq tbl[t].rows
      <4>1. CASE t = mo
        <5>1. tbl'[t] = [tbl[t] EXCEPT !.rows = @ \ del]
          BY <3>0, <3>1, <4>1
        <5> QED BY <5>1, <3>1 DEF TableFields
      <4>2. CASE t # mo
        BY <3>0, <3>1, <4>2
      <4> QED BY <4>1, <4>2
    <3> QED BY <3>2, <3>3, RowsKept, SessionFacts
  <2> HIDE DEF ts
  <2>2. SessOK(Received(s, found, TRUE, ts), tbl', clock, Gone)
    BY <1>0, <1>2, <2>1, ReceivedFields
  <2> QED BY <1>0, <1>3, <2>1, <2>2, StepTurn
<1>4. ASSUME Step(s, [sess[s] EXCEPT !.phase = "fetch", !.highest = ts]), UNCHANGED tbl
      PROVE  Turn(s)
  <2> HIDE DEF ts
  <2> DEFINE r == [sess[s] EXCEPT !.phase = "fetch", !.highest = ts]
  <2>1. /\ DOMAIN r = Fields /\ r.phase = "fetch" /\ r.month = mo /\ r.direct = sess[s].direct
        /\ r.includeTopic = sess[s].includeTopic /\ r.increment = sess[s].increment
        /\ r.check = sess[s].check /\ r.rotate = sess[s].rotate /\ r.highest = ts
    BY <1>1 DEF Shape, Fields
  <2>2. Step(s, r)
    BY <1>4
  <2> HIDE DEF r
  <2>3. Shape(r) /\ FlagsOK(r)
    BY <1>0, <1>1, <1>2, <2>1, SessionFacts DEF Shape, FlagsOK, Phases, Authenticated, Unauthenticated
  <2>4. SessOK(r, tbl, clock, Gone)
    BY <1>2, <2>1, <2>3 DEF SessOK, Out
  <2> QED BY <1>0, <1>4, <2>2, <2>4, QuietTurn
<1>5. \/ \E found : Step(s, Received(s, found, TRUE, ts)) /\ tbl' = Purged(mo, found)
      \/ Step(s, [sess[s] EXCEPT !.phase = "fetch", !.highest = ts]) /\ UNCHANGED tbl
  BY DEF check_storage
<1> QED BY <1>3, <1>4, <1>5

LEMMA LeastExists ==
  ASSUME NEW T \in SUBSET Nat, T # {}
  PROVE  \E x \in T : \A y \in T : x <= y
<1> DEFINE R == OpToRel(<, Nat)
<1>1. IsWellFoundedOn(R, Nat)
  BY NatLessThanWellFounded
<1> HIDE DEF R
<1>2. PICK x \in T : \A y \in T : ~(<<y, x>> \in R)
  BY <1>1, WFMin
<1>3. \A y \in T : ~(y < x)
  BY <1>2 DEF R, OpToRel
<1> QED BY <1>3

LEMMA MaxOfBounded ==
  ASSUME NEW S \in SUBSET Nat, S # {}, NEW c \in Nat, \A y \in S : y <= c
  PROVE  Max(S) \in S /\ \A y \in S : y <= Max(S)
<1> DEFINE T == {c - y : y \in S}
<1>0. \A y \in S : y \in Nat /\ c - y \in Nat /\ c - y \in T
  OBVIOUS
<1>1. T \in SUBSET Nat /\ T # {}
  BY <1>0
<1>2. PICK e \in T : \A z \in T : e <= z
  BY <1>1, LeastExists
<1>3. PICK m \in S : e = c - m
  OBVIOUS
<1>4. \A y \in S : m >= y
  <2> TAKE y \in S
  <2>1. e <= c - y
    BY <1>0, <1>2
  <2> QED BY <1>0, <1>3, <2>1
<1> QED BY <1>3, <1>4 DEF Max

\* The rows a query returns are the first ones: none before them is left out,
\* but for the ones of the same millisecond as the last.
LEMMA RowsAfterPassed ==
  ASSUME NEW mo \in Months, NEW k \in Nat, k <= clock, TableOK(tbl[mo], clock, Gone), clock \in Nat,
         Passed(tbl[mo].rows, k, Gone), NEW rows \in RowsAfter(mo, k),
         NEW ts, ts = IF rows = {} THEN k ELSE Max({x[1] : x \in rows})
  PROVE  /\ ts \in Nat /\ ts <= clock
         /\ Passed(tbl[mo].rows, ts, (Gone \cup CutOff(mo, rows)) \cup {x[2] : x \in rows})
<1> DEFINE after == {x \in tbl[mo].rows : x[1] > k}
<1>1. rows \subseteq after /\ \A x \in rows, y \in after \ rows : x[1] <= y[1]
  BY DEF RowsAfter
<1>2. \A x \in tbl[mo].rows : x[1] \in Nat /\ x[1] <= clock
  BY DEF TableOK
<1>3. CASE rows = {}
  BY <1>3 DEF Passed
<1>4. CASE rows # {}
  <2> DEFINE S == {x[1] : x \in rows}
  <2>1. S \in SUBSET Nat /\ S # {} /\ \A y \in S : y <= clock
    BY <1>1, <1>2, <1>4
  <2>2. Max(S) \in S /\ \A y \in S : y <= Max(S)
    BY <2>1, MaxOfBounded
  <2>3. ts = Max(S)
    BY <1>4
  <2>4. PICK top \in rows : top[1] = ts
    BY <2>2, <2>3
  <2>5. ts \in Nat /\ ts <= clock
    BY <2>1, <2>2, <2>3
  <2>6. ASSUME NEW x \in tbl[mo].rows, x[1] # 0, x[1] <= ts, x \notin rows
        PROVE  x[2] \in Gone \cup CutOff(mo, rows)
    <3>1. CASE x[1] <= k
      BY <2>6, <3>1 DEF Passed
    <3>2. CASE x[1] > k
      <4>1. x \in after \ rows
        BY <2>6, <3>2
      <4>2. top[1] <= x[1]
        BY <1>1, <4>1
      <4>3. x[1] = top[1]
        BY <1>2, <2>4, <2>5, <2>6, <4>2
      <4>4. x[2] \in CutOff(mo, rows)
        BY <2>6, <4>3 DEF CutOff
      <4> QED BY <4>4
    <3> QED BY <1>2, <3>1, <3>2
  <2> QED BY <2>5, <2>6 DEF Passed
<1> QED BY <1>3, <1>4

LEMMA FetchTurn ==
  ASSUME IInv, NEW s \in Sessions, fetch_timestamp_messages(s)
  PROVE  Turn(s)
<1> DEFINE mo == sess[s].month
           k == sess[s].highest
<1>0. /\ UNCHANGED <<client, tbl, clock, expired>> /\ sess[s].phase \in {"check", "fetch"}
      /\ (sess[s].phase = "check" => ~sess[s].includeTopic)
  BY DEF fetch_timestamp_messages, At, Elsewhere
<1>1. /\ mo \in Months /\ TableOK(tbl[mo], clock, Gone) /\ clock \in Nat /\ k \in Nat /\ k <= clock
      /\ sess[s].check
  BY <1>0, SessionFacts DEF FlagsOK, Authenticated, TblOK, SessOK, Shape
<1>2. Relies(sess[s]) /\ Out(sess[s], Gone) = Gone
  BY <1>0, <1>1 DEF Relies, Authenticated, Out
<1>3. Passed(tbl[mo].rows, k, Gone)
  BY <1>2, SessionFacts DEF SessOK
<1>4. PICK rows, ts :
        /\ rows \in RowsAfter(mo, k)
        /\ ts = IF rows = {} THEN k ELSE Max({x[1] : x \in rows})
        /\ Step(s, Received(s, rows, FALSE, ts)) /\ overtaken' = overtaken \cup CutOff(mo, rows)
  BY DEF fetch_timestamp_messages
<1>5. Gone' = Gone \cup CutOff(mo, rows)
  BY <1>0, <1>4 DEF Gone
<1>6. ts \in Nat /\ ts <= clock /\ Passed(tbl[mo].rows, ts, Gone' \cup {x[2] : x \in rows})
  BY <1>1, <1>3, <1>4, <1>5, RowsAfterPassed
<1>7. NoneAdded(tbl, tbl)
  BY DEF NoneAdded
<1> HIDE DEF mo, k
<1>8. SessOK(Received(s, rows, FALSE, ts), tbl, clock, Gone')
  BY <1>0, <1>5, <1>6, <1>7, ReceivedFields DEF mo
<1> QED BY <1>0, <1>4, <1>5, <1>8, QuietTurn

LEMMA SendTurn ==
  ASSUME IInv, NEW s \in Sessions, Send(s)
  PROVE  Turn(s)
<1> DEFINE r == [sess[s] EXCEPT !.batch = {}]
           out == Out(sess[s], Gone)
<1>0. /\ UNCHANGED <<tbl, clock, expired, overtaken>> /\ sess[s].phase = "send" /\ Step(s, AfterSend(r))
  BY DEF Send, At, Elsewhere
<1>1. PICK sent : /\ client' = [client EXCEPT !.got = @ \cup sent]
                  /\ ~(sess[s].sent > MsgLimit) => sent = sess[s].batch
  BY DEF Send
<1>2. DOMAIN client' = DOMAIN client /\ Gone' = Gone \cup sent
  BY <1>0, <1>1 DEF IInv, Gone
<1>3. Same(r, sess[s]) /\ r.phase = "send" /\ r.direct = sess[s].direct /\ r.sent = sess[s].sent
  BY <1>0, SessionFacts DEF Same, Fields
<1> HIDE DEF r
<1>4. Ready(r, tbl, clock, out)
  BY <1>0, <1>3, ReadyAgain, SessionFacts DEF Authenticated, Phases
<1>5. CASE r.sent > MsgLimit
  <2>1. SessOK([r EXCEPT !.phase = "drop"], tbl, clock, Gone')
    BY <1>4, DropOK
  <2> QED BY <1>0, <1>2, <1>5, <2>1, QuietTurn DEF AfterSend
<1>6. CASE ~(r.sent > MsgLimit)
  <2>1. out \subseteq Gone'
    BY <1>0, <1>1, <1>2, <1>3, <1>6 DEF Out
  <2>2. NoneAdded(tbl, tbl)
    BY DEF NoneAdded
  <2>3. Ready(r, tbl, clock, Gone')
    BY <1>4, <2>1, <2>2, ReadyLater, SessionFacts
  <2>4. SessOK(DetermineAck(r), tbl, clock, Gone')
    BY <2>3, DetermineAckOK
  <2> QED BY <1>0, <1>2, <1>6, <2>4, QuietTurn DEF AfterSend
<1> QED BY <1>5, <1>6

\* A session goes on after an answer that is not about storage.
LEMMA AckTurn ==
  ASSUME IInv, NEW s \in Sessions, NEW r, Step(s, AfterSend(r)) \/ Step(s, DetermineAck(r)),
         Same(r, sess[s]), IsFiniteSet(r.direct), r.phase \in Phases,
         sess[s].phase \in Authenticated \ {"drop", "send"},
         UNCHANGED clock, Gone' = Gone, DOMAIN client' = DOMAIN client,
         TblStep(tbl', clock, Gone, tbl, clock, Gone), NoneAdded(tbl', tbl)
  PROVE  Turn(s)
<1>1. Out(sess[s], Gone) = Gone
  BY DEF Out
<1>2. Ready(r, tbl, clock, Gone)
  BY <1>1, ReadyAgain, SessionFacts
<1>3. Ready(r, tbl', clock, Gone)
  BY <1>2, ReadyLater, SessionFacts
<1>4. SessOK(AfterSend(r), tbl', clock, Gone) /\ SessOK(DetermineAck(r), tbl', clock, Gone)
  BY <1>3, AfterSendOK, DetermineAckOK
<1> QED BY <1>4, StepTurn

\* The session moves on to a call that is not a read of storage.
LEMMA WaitTurn ==
  ASSUME IInv, NEW s \in Sessions, NEW r, Step(s, r), Same(r, sess[s]), IsFiniteSet(r.direct),
         r.phase \in {"send", "savechan", "reguser", "unreg", "delete"},
         sess[s].phase \in Authenticated \ {"drop", "send"},
         UNCHANGED <<tbl, clock>>, Gone' = Gone, DOMAIN client' = DOMAIN client
  PROVE  Turn(s)
<1>1. Out(sess[s], Gone) = Gone /\ r.phase \in Phases /\ Gone \subseteq Out(r, Gone)
  BY DEF Out, Phases, Authenticated
<1>2. Ready(r, tbl, clock, Gone)
  BY <1>1, ReadyAgain, SessionFacts
<1>3. SessOK(r, tbl, clock, Gone)
  BY <1>1, <1>2, WaitingOK
<1> QED BY <1>3, QuietTurn

\* The pointer is moved to the timestamp of what was read.
LEMMA IncrementTurn ==
  ASSUME IInv, NEW s \in Sessions, increment_storage(s)
  PROVE  Turn(s)
<1> DEFINE mo == sess[s].month
           k == sess[s].highest
           r == [sess[s] EXCEPT !.increment = FALSE]
<1>0. UNCHANGED <<client, clock, expired, overtaken>> /\ sess[s].phase = "increment" /\ Gone' = Gone
  BY DEF increment_storage, At, Gone, Elsewhere
<1>1. /\ sess[s].increment /\ sess[s].check /\ k # 0 /\ mo \in Months /\ clock \in Nat
      /\ k \in Nat /\ k <= clock /\ TblOK(tbl, clock, Gone) /\ Shape(sess[s])
  BY <1>0, SessionFacts DEF FlagsOK, Authenticated, SessOK, Shape
<1>2. tbl' = [tbl EXCEPT ![mo].ptr = k, ![mo].reg = TRUE] /\ Step(s, DetermineAck(r))
  BY <1>1 DEF increment_storage
<1>3. Passed(tbl[mo].rows, k, Gone)
  <2>1. Relies(sess[s]) /\ Out(sess[s], Gone) = Gone
    BY <1>0, <1>1 DEF Relies, Authenticated, Out
  <2> QED BY <2>1, SessionFacts DEF SessOK
<1>4. TblStep(tbl', clock, Gone, tbl, clock, Gone) /\ NoneAdded(tbl', tbl)
  <2> HIDE DEF mo, k
  <2>1. DOMAIN tbl = Months /\ \A t \in Months : TableOK(tbl[t], clock, Gone)
    BY <1>1 DEF TblOK
  <2>2. DOMAIN tbl' = Months
    BY <1>2, <2>1
  <2>3. ASSUME NEW t \in Months
        PROVE  TableOK(tbl'[t], clock, Gone) /\ tbl'[t].rows = tbl[t].rows
    <3>1. CASE t = mo
      <4>1. tbl'[t] = [tbl[t] EXCEPT !.ptr = k, !.reg = TRUE] /\ TableOK(tbl[t], clock, Gone)
        BY <1>2, <2>1, <3>1
      <4>2. /\ DOMAIN tbl'[t] = TableFields /\ tbl'[t].ptr = k /\ tbl'[t].rows = tbl[t].rows
        BY <4>1 DEF TableOK, TableFields
      <4> QED BY <1>1, <1>3, <3>1, <4>1, <4>2 DEF TableOK
    <3>2. CASE t # mo
      BY <1>2, <2>1, <3>2
    <3> QED BY <3>1, <3>2
  <2> QED BY <1>1, <2>2, <2>3 DEF TblStep, TblOK, NewRows, NoneAdded
<1>5. /\ DOMAIN r = Fields /\ r.phase = "increment" /\ r.month = mo /\ r.direct = sess[s].direct
      /\ r.includeTopic = sess[s].includeTopic /\ r.increment = FALSE
      /\ r.check = sess[s].check /\ r.rotate = sess[s].rotate /\ r.highest = k
  BY <1>0, <1>1 DEF Shape, Fields
<1> HIDE DEF r
<1>6. Ready(r, tbl, clock, Gone)
  BY <1>1, <1>3, <1>5 DEF Ready, Shape, Phases, Authenticated
<1>7. Ready(r, tbl', clock, Gone)
  BY <1>1, <1>4, <1>6, ReadyLater
<1>8. SessOK(DetermineAck(r), tbl', clock, Gone)
  BY <1>7, DetermineAckOK
<1> QED BY <1>0, <1>2, <1>4, <1>8, StepTurn

\* A user is only migrated when its storage has been read.
LEMMA MigratePhase ==
  ASSUME IInv, NEW s \in Sessions, NEW r, sess[s].phase \in {"channels", "copy"},
         r.phase \in {"copy", "month"}, Same(r, sess[s]), r.direct = sess[s].direct,
         NEW T2
  PROVE  SessOK(r, T2, clock, Gone)
<1>1. /\ ~sess[s].check /\ ~sess[s].increment /\ sess[s].month \in Months /\ Shape(sess[s])
  BY SessionFacts DEF FlagsOK, Shape, Authenticated
<1>2. Shape(r) /\ ~Relies(r)
  BY <1>1 DEF Same, Shape, Relies, Phases, Authenticated
<1>3. FlagsOK(r)
  BY <1>1 DEF Same, FlagsOK, Unauthenticated
<1> QED BY <1>2, <1>3, SessionFacts DEF SessOK, Same

LEMMA AllChannelsTurn ==
  ASSUME IInv, NEW s \in Sessions, all_channels(s)
  PROVE  Turn(s)
<1>0. UNCHANGED <<tbl, client, clock, expired, overtaken>> /\ sess[s].phase = "channels" /\ Gone' = Gone
  BY DEF all_channels, At, Gone, Elsewhere
<1>1. PICK ch, p : /\ p \in {"month", "copy"}
                   /\ Step(s, [sess[s] EXCEPT !.chids = ch, !.phase = p])
  BY DEF all_channels
<1> DEFINE r == [sess[s] EXCEPT !.chids = ch, !.phase = p]
<1>2. Same(r, sess[s]) /\ r.phase = p /\ r.direct = sess[s].direct
  BY SessionFacts DEF Same, Fields
<1>3. Step(s, r)
  BY <1>1
<1> HIDE DEF r
<1>4. SessOK(r, tbl, clock, Gone)
  BY <1>0, <1>1, <1>2, MigratePhase
<1> QED BY <1>0, <1>3, <1>4, QuietTurn

\* The channels of a table may change; the rows and the pointer do not.
LEMMA ChidsStep ==
  ASSUME IInv, NEW mo, NEW f, tbl' = [tbl EXCEPT ![mo].chids = f, ![mo].reg = TRUE]
  PROVE  TblStep(tbl', clock, Gone, tbl, clock, Gone) /\ NoneAdded(tbl', tbl)
<1>1. /\ DOMAIN tbl = Months /\ TblOK(tbl, clock, Gone)
      /\ \A t \in Months : DOMAIN tbl[t] = TableFields
  BY DEF IInv, TblOK, TableOK
<1>2. DOMAIN tbl' = Months
  BY <1>1
<1>3. ASSUME NEW t \in Months
      PROVE  /\ DOMAIN tbl'[t] = TableFields /\ tbl'[t].ptr = tbl[t].ptr
             /\ tbl'[t].rows \subseteq tbl[t].rows
  <2>1. CASE t = mo
    <3>1. tbl'[t] = [tbl[t] EXCEPT !.chids = f, !.reg = TRUE]
      BY <1>1, <2>1
    <3> QED BY <1>1, <3>1 DEF TableFields
  <2>2. CASE t # mo
    BY <1>1, <2>2
  <2> QED BY <2>1, <2>2
<1> QED BY <1>1, <1>2, <1>3, RowsKept

LEMMA SaveChannelsTurn ==
  ASSUME IInv, NEW s \in Sessions, save_channels(s)
  PROVE  Turn(s)
<1> DEFINE f == tbl[CurrentMonth].chids \cup sess[s].chids
           r == [sess[s] EXCEPT !.phase = "month", !.chids = {}]
<1>0. /\ UNCHANGED <<client, clock, expired, overtaken>> /\ sess[s].phase = "copy" /\ Gone' = Gone
      /\ tbl' = [tbl EXCEPT ![CurrentMonth].chids = f, ![CurrentMonth].reg = TRUE] /\ Step(s, r)
  BY DEF save_channels, At, Gone, Elsewhere
<1>1. Same(r, sess[s]) /\ r.phase = "month" /\ r.direct = sess[s].direct
  BY SessionFacts DEF Same, Fields
<1> HIDE DEF f, r
<1>2. TblStep(tbl', clock, Gone, tbl, clock, Gone)
  BY <1>0, ChidsStep
<1>3. SessOK(r, tbl', clock, Gone)
  BY <1>0, <1>1, MigratePhase
<1> QED BY <1>0, <1>2, <1>3, StepTurn

LEMMA UpdateMonthTurn ==
  ASSUME IInv, LegacyConstants, NEW s \in Sessions, update_user_message_month(s)
  PROVE  Turn(s)
<1> DEFINE r == [sess[s] EXCEPT !.month = CurrentMonth, !.rotate = FALSE]
<1>0. /\ UNCHANGED <<tbl, client, clock, expired, overtaken>> /\ sess[s].phase = "month" /\ Gone' = Gone
      /\ Step(s, DetermineAck(r))
  BY DEF update_user_message_month, At, Gone, Elsewhere
<1>1. ~sess[s].check /\ ~sess[s].increment /\ Shape(sess[s]) /\ sess[s].highest <= clock
  BY <1>0, SessionFacts DEF FlagsOK, Shape, SessOK
<1>2. /\ DOMAIN r = Fields /\ r.phase = "month" /\ r.month = CurrentMonth
      /\ r.direct = sess[s].direct
      /\ r.includeTopic = sess[s].includeTopic /\ r.increment = sess[s].increment
      /\ r.check = sess[s].check /\ r.rotate = FALSE /\ r.highest = sess[s].highest
  BY <1>0, <1>1 DEF Shape, Fields
<1> HIDE DEF r
<1>3. CurrentMonth \in Months
  BY DEF LegacyConstants, Months
<1>4. Ready(r, tbl, clock, Gone)
  BY <1>1, <1>2, <1>3 DEF Ready, Shape, Phases, Authenticated
<1>5. SessOK(DetermineAck(r), tbl, clock, Gone)
  BY <1>4, DetermineAckOK
<1> QED BY <1>0, <1>5, QuietTurn

LEMMA EndingTurn ==
  ASSUME IInv, NEW s \in Sessions, drop_uaid(s) \/ CallFails(s) \/ ClientDropped(s)
  PROVE  Turn(s)
<1>1. /\ UNCHANGED <<tbl, client, clock>> /\ Gone' = Gone
      /\ Step(s, [sess[s] EXCEPT !.phase = "ending"])
  BY DEF drop_uaid, CallFails, ClientDropped, Gone, Elsewhere
<1> QED BY <1>1, EndPhaseTurn DEF Ended

LEMMA OnNotifTurn ==
  ASSUME IInv, NEW s \in Sessions, OnNotif(s)
  PROVE  Turn(s)
<1>0. /\ UNCHANGED <<tbl, client, clock, expired, overtaken>> /\ sess[s].phase = "input" /\ Gone' = Gone
  BY DEF OnNotif, At, Gone, Elsewhere
<1> DEFINE y == Tail(sess[s].queue)
           r == [sess[s] EXCEPT !.queue = y]
           x == Head(sess[s].queue)
           d == r.direct \cup ({x[2]} \ ZeroTtl)
<1>1. \/ Step(s, [r EXCEPT !.phase = "ending"])
      \/ Step(s, DetermineAck([r EXCEPT !.includeTopic = TRUE, !.check = TRUE]))
      \/ Step(s, [r EXCEPT !.phase = "send", !.batch = {x[2]}, !.direct = d])
  BY DEF OnNotif
<1> HIDE DEF y, x
<1>2. Alike(r, sess[s])
  BY SessionFacts DEF Alike, Same, Fields
<1> HIDE DEF r
<1>3. DOMAIN r = Fields /\ Shape(r) /\ IsFiniteSet(r.direct) /\ r.month \in Months
  BY <1>0, <1>2, SessionFacts DEF Alike, Same, Shape, FlagsOK, Authenticated
<1>4. CASE Step(s, [r EXCEPT !.phase = "ending"])
  <2> DEFINE q == [r EXCEPT !.phase = "ending"]
  <2>1. Same(q, sess[s]) /\ q.direct = r.direct /\ q.phase = "ending"
    BY <1>2, <1>3 DEF Alike, Same, Fields
  <2>2. Step(s, q)
    BY <1>4
  <2> HIDE DEF q
  <2> QED BY <1>0, <1>3, <2>1, <2>2, EndTurn DEF Ended
<1>5. CASE Step(s, DetermineAck([r EXCEPT !.includeTopic = TRUE, !.check = TRUE]))
  <2> DEFINE q == [r EXCEPT !.includeTopic = TRUE, !.check = TRUE]
  <2>1. /\ DOMAIN q = Fields /\ q.phase = r.phase /\ q.month = r.month /\ q.direct = r.direct
        /\ q.includeTopic = TRUE /\ q.increment = r.increment /\ q.check = TRUE
        /\ q.rotate = r.rotate /\ q.highest = r.highest
    BY <1>3 DEF Fields
  <2>2. Step(s, DetermineAck(q))
    BY <1>5
  <2> HIDE DEF q
  <2>3. Out(sess[s], Gone) = Gone
    BY <1>0 DEF Out
  <2>4. Ready(r, tbl, clock, Gone)
    BY <1>0, <1>2, <1>3, <2>3, ReadyAgain, SessionFacts DEF Alike, Authenticated, Shape
  <2>5. Ready(q, tbl, clock, Gone)
    BY <2>1, <2>4 DEF Ready, Shape
  <2>6. SessOK(DetermineAck(q), tbl, clock, Gone)
    BY <2>5, DetermineAckOK
  <2> QED BY <1>0, <2>2, <2>6, QuietTurn
<1>6. CASE Step(s, [r EXCEPT !.phase = "send", !.batch = {x[2]}, !.direct = d])
  <2>1. IsFiniteSet(d)
    <3>0. IsFiniteSet({x[2]})
      BY FS_Singleton
    <3>1. {x[2]} \ ZeroTtl \subseteq {x[2]}
      OBVIOUS
    <3>2. IsFiniteSet({x[2]} \ ZeroTtl)
      BY <3>0, <3>1, FS_Subset
    <3> QED BY <1>3, <3>2, FS_Union
  <2> HIDE DEF d
  <2> DEFINE q == [r EXCEPT !.phase = "send", !.batch = {x[2]}, !.direct = d]
  <2>2. Same(q, sess[s]) /\ q.direct = d /\ q.phase = "send"
    BY <1>2, <1>3 DEF Alike, Same, Fields
  <2>3. Step(s, q)
    BY <1>6
  <2> HIDE DEF q
  <2> QED BY <1>0, <2>1, <2>2, <2>3, WaitTurn DEF Authenticated
<1> QED BY <1>1, <1>4, <1>5, <1>6

LEMMA AckedTurn ==
  ASSUME IInv, NEW s \in Sessions, Ack(s)
  PROVE  Turn(s)
<1>0. UNCHANGED <<tbl, clock, expired, overtaken>> /\ sess[s].phase = "input"
  BY DEF Ack, Input, At, Elsewhere
<1>1. PICK acked, rows, topics :
        /\ client' = [client EXCEPT !.acked = @ \cup acked]
        /\ LET r2 == [sess[s] EXCEPT !.direct = @ \ acked, !.stored = @ \ rows, !.topics = topics]
           IN  Step(s, DetermineAck(r2)) \/ Step(s, [r2 EXCEPT !.phase = "delete"])
  BY DEF Ack
<1> DEFINE dd == sess[s].direct \ acked
           ss == sess[s].stored \ rows
           r == [sess[s] EXCEPT !.direct = dd, !.stored = ss, !.topics = topics]
           q == [r EXCEPT !.phase = "delete"]
<1>2. Step(s, DetermineAck(r)) \/ Step(s, q)
  BY <1>1
<1>3. IsFiniteSet(dd)
  <2>1. dd \subseteq sess[s].direct
    OBVIOUS
  <2> QED BY <2>1, SessionFacts, FS_Subset
<1> HIDE DEF dd, ss
<1>4. Same(r, sess[s]) /\ r.direct = dd /\ r.phase = "input"
  BY <1>0, SessionFacts DEF Same, Fields
<1> HIDE DEF r
<1>5. Same(q, sess[s]) /\ q.direct = dd /\ q.phase = "delete"
  BY <1>4 DEF Same, Fields
<1> HIDE DEF q
<1>6. DOMAIN client' = DOMAIN client /\ Gone' = Gone
  BY <1>0, <1>1 DEF IInv, Gone
<1>7. TblStep(tbl, clock, Gone, tbl, clock, Gone) /\ NoneAdded(tbl, tbl)
  BY SessionFacts, TblKept
<1>8. CASE Step(s, DetermineAck(r))
  BY <1>0, <1>3, <1>4, <1>6, <1>7, <1>8, AckTurn DEF Phases, Authenticated
<1>9. CASE Step(s, q)
  BY <1>0, <1>3, <1>5, <1>6, <1>9, WaitTurn DEF Authenticated
<1> QED BY <1>2, <1>8, <1>9

LEMMA DeleteTurn ==
  ASSUME IInv, NEW s \in Sessions, delete_message(s)
  PROVE  Turn(s)
<1> DEFINE mo == sess[s].month
           del == sess[s].topics
           r == [sess[s] EXCEPT !.topics = {}]
<1>0. /\ UNCHANGED <<client, clock, expired, overtaken>> /\ sess[s].phase = "delete" /\ Gone' = Gone
      /\ tbl' = [tbl EXCEPT ![mo].rows = @ \ del] /\ Step(s, DetermineAck(r))
  BY DEF delete_message, At, Gone, Elsewhere
<1>1. Same(r, sess[s]) /\ r.phase = "delete" /\ r.direct = sess[s].direct
  BY <1>0, SessionFacts DEF Same, Fields
<1>2. TblStep(tbl', clock, Gone, tbl, clock, Gone) /\ NoneAdded(tbl', tbl)
  <2> HIDE DEF del, mo
  <2>1. DOMAIN tbl = Months /\ \A t \in Months : DOMAIN tbl[t] = TableFields
    BY SessionFacts DEF TblOK, TableOK
  <2>2. DOMAIN tbl' = Months
    BY <1>0, <2>1
  <2>3. ASSUME NEW t \in Months
        PROVE  /\ DOMAIN tbl'[t] = TableFields /\ tbl'[t].ptr = tbl[t].ptr
               /\ tbl'[t].rows \subseteq tbl[t].rows
    <3>1. CASE t = mo
      <4>1. tbl'[t] = [tbl[t] EXCEPT !.rows = @ \ del]
        BY <1>0, <2>1, <3>1
      <4> QED BY <4>1, <2>1 DEF TableFields
    <3>2. CASE t # mo
      BY <1>0, <2>1, <3>2
    <3> QED BY <3>1, <3>2
  <2> QED BY <2>2, <2>3, RowsKept, SessionFacts
<1> HIDE DEF r
<1> QED BY <1>0, <1>1, <1>2, AckTurn, SessionFacts DEF Phases, Authenticated

LEMMA RegisterTurn ==
  ASSUME IInv, NEW s \in Sessions, NEW c, Register(s, c) \/ Unregister(s, c)
  PROVE  Turn(s)
<1>0. /\ UNCHANGED <<tbl, clock, expired, overtaken>> /\ sess[s].phase = "input"
      /\ client' = client \/ client' = [client EXCEPT !.chans = @ \ {c}]
  BY DEF Register, Unregister, Input, At, Elsewhere
<1>1. DOMAIN client' = DOMAIN client /\ Gone' = Gone
  BY <1>0 DEF IInv, Gone
<1>2. PICK p \in {"reguser", "savechan", "unreg"} :
        \/ Step(s, [sess[s] EXCEPT !.chids = {c}, !.phase = p])
        \/ Step(s, [sess[s] EXCEPT !.phase = p, !.chids = {c}])
  BY DEF Register, Unregister
<1> DEFINE r == [sess[s] EXCEPT !.chids = {c}, !.phase = p]
           q == [sess[s] EXCEPT !.phase = p, !.chids = {c}]
<1>3. /\ Same(r, sess[s]) /\ r.phase = p /\ r.direct = sess[s].direct
      /\ Same(q, sess[s]) /\ q.phase = p /\ q.direct = sess[s].direct
  BY SessionFacts DEF Same, Fields
<1>4. Step(s, r) \/ Step(s, q)
  BY <1>2
<1> HIDE DEF r, q
<1> QED BY <1>0, <1>1, <1>3, <1>4, WaitTurn, SessionFacts DEF Authenticated

LEMMA BadKeyTurn ==
  ASSUME IInv, NEW s \in Sessions, RegisterBadKey(s)
  PROVE  Turn(s)
<1> DEFINE r == [sess[s] EXCEPT !.deferred = FALSE]
<1>0. /\ UNCHANGED <<tbl, client, clock, expired, overtaken>> /\ sess[s].phase = "input" /\ Gone' = Gone
      /\ Step(s, AfterSend(r))
  BY DEF RegisterBadKey, Input, At, Gone, Elsewhere
<1>1. Same(r, sess[s]) /\ r.phase = "input" /\ r.direct = sess[s].direct
  BY <1>0, SessionFacts DEF Same, Fields
<1>2. TblStep(tbl, clock, Gone, tbl, clock, Gone) /\ NoneAdded(tbl, tbl)
  BY SessionFacts, TblKept
<1> HIDE DEF r
<1> QED BY <1>0, <1>1, <1>2, AckTurn, SessionFacts DEF Phases, Authenticated

LEMMA DeferredUserTurn ==
  ASSUME IInv, NEW s \in Sessions, RegisterDeferredUser(s)
  PROVE  Turn(s)
<1>0. /\ UNCHANGED <<tbl, client, clock, expired, overtaken>> /\ sess[s].phase = "reguser" /\ Gone' = Gone
      /\ \/ Step(s, [sess[s] EXCEPT !.phase = "savechan"])
         \/ Step(s, [sess[s] EXCEPT !.phase = "ending"])
  BY DEF RegisterDeferredUser, At, Gone, Elsewhere
<1>1. CASE Step(s, [sess[s] EXCEPT !.phase = "savechan"])
  <2> DEFINE r == [sess[s] EXCEPT !.phase = "savechan"]
  <2>1. Same(r, sess[s]) /\ r.phase = "savechan" /\ r.direct = sess[s].direct
    BY PhaseFields
  <2>2. Step(s, r)
    BY <1>1
  <2> HIDE DEF r
  <2> QED BY <1>0, <2>1, <2>2, WaitTurn, SessionFacts DEF Authenticated
<1>2. CASE Step(s, [sess[s] EXCEPT !.phase = "ending"])
  BY <1>0, <1>2, EndPhaseTurn DEF Ended
<1> QED BY <1>0, <1>1, <1>2

LEMMA RegisterChannelTurn ==
  ASSUME IInv, NEW s \in Sessions, RegisterChannel(s)
  PROVE  Turn(s)
<1> DEFINE r == [sess[s] EXCEPT !.deferred = FALSE, !.chids = {}]
           mo == sess[s].month
           f == tbl[mo].chids \cup sess[s].chids
<1>0. /\ UNCHANGED <<clock, expired, overtaken>> /\ sess[s].phase = "savechan" /\ Step(s, AfterSend(r))
      /\ \/ tbl' = [tbl EXCEPT ![mo].chids = f, ![mo].reg = TRUE]
         \/ UNCHANGED tbl
      /\ client' = client \/ client' = [client EXCEPT !.chans = @ \cup sess[s].chids]
  BY DEF RegisterChannel, At, Elsewhere
<1>1. Same(r, sess[s]) /\ r.phase = "savechan" /\ r.direct = sess[s].direct
  BY <1>0, SessionFacts DEF Same, Fields
<1> HIDE DEF r, mo, f
<1>2. TblStep(tbl', clock, Gone, tbl, clock, Gone) /\ NoneAdded(tbl', tbl)
  <2>1. CASE UNCHANGED tbl
    BY <2>1, SessionFacts, TblKept
  <2> QED BY <1>0, <2>1, ChidsStep
<1>3. DOMAIN client' = DOMAIN client /\ Gone' = Gone
  BY <1>0 DEF IInv, Gone
<1> QED BY <1>0, <1>1, <1>2, <1>3, AckTurn, SessionFacts DEF Phases, Authenticated

LEMMA UnregisterChannelTurn ==
  ASSUME IInv, NEW s \in Sessions, unregister_channel_id(s)
  PROVE  Turn(s)
<1> DEFINE r == [sess[s] EXCEPT !.chids = {}]
           mo == sess[s].month
           f == tbl[mo].chids \ sess[s].chids
<1>0. /\ UNCHANGED <<client, clock, expired, overtaken>> /\ sess[s].phase = "unreg" /\ Step(s, AfterSend(r))
      /\ \/ tbl' = [tbl EXCEPT ![mo].chids = f, ![mo].reg = TRUE]
         \/ UNCHANGED tbl
      /\ Gone' = Gone
  BY DEF unregister_channel_id, At, Elsewhere, Gone
<1>1. Same(r, sess[s]) /\ r.phase = "unreg" /\ r.direct = sess[s].direct
  BY <1>0, SessionFacts DEF Same, Fields
<1> HIDE DEF r, mo, f
<1>2. TblStep(tbl', clock, Gone, tbl, clock, Gone) /\ NoneAdded(tbl', tbl)
  <2>1. CASE UNCHANGED tbl
    BY <2>1, SessionFacts, TblKept
  <2> QED BY <1>0, <2>1, ChidsStep
<1> QED BY <1>0, <1>1, <1>2, AckTurn, SessionFacts DEF Phases, Authenticated

LEMMA KeptFinite ==
  ASSUME IInv, LegacyConstants, NEW s \in Sessions
  PROVE  IsFiniteSet(sess[s].direct \cup Queued(sess[s]))
<1>1. Queued(sess[s]) \subseteq Messages /\ IsFiniteSet(Messages)
  BY DEF LegacyConstants, Queued
<1>2. IsFiniteSet(Queued(sess[s]))
  BY <1>1, FS_Subset
<1> QED BY <1>2, SessionFacts, FS_Union

\* Sort keys are given from the clock on.
LEMMA StampsOK ==
  ASSUME IInv, NEW ms, IsFiniteSet(ms), NEW mo, Stamps(ms, mo)
  PROVE  StampOK' /\ clock' \in Nat /\ clock <= clock'
<1> DEFINE n == clock + Cardinality(ms)
<1>1. clock \in Nat /\ n \in Nat /\ StampOK
  BY FS_CardinalityType DEF IInv, TblOK
<1>2. PICK now \in clock..n, key \in [ms -> 0..n] :
        /\ \A m \in ms : IF m \in TopicMessages THEN key[m] = 0
                         ELSE key[m] # 0 /\ key[m] \in clock..now
        /\ stamp' = [m \in Messages |-> IF m \in ms THEN [key |-> key[m], month |-> mo] ELSE stamp[m]]
        /\ clock' = now
  BY DEF Stamps
<1> HIDE DEF n
<1>3. now \in Nat /\ clock <= now
  BY <1>1, <1>2
<1>4. \A m \in ms : key[m] \in Nat /\ key[m] <= now
  BY <1>1, <1>2, <1>3
<1>5. ASSUME NEW m \in Messages
      PROVE  stamp'[m].key \in Nat /\ stamp'[m].key <= now
  <2>1. CASE m \in ms
    <3>1. stamp'[m] = [key |-> key[m], month |-> mo]
      BY <1>2, <2>1
    <3> QED BY <1>4, <2>1, <3>1
  <2>2. CASE m \notin ms
    <3>1. stamp'[m] = stamp[m]
      BY <1>2, <2>2
    <3>2. stamp[m].key \in Nat /\ stamp[m].key <= clock
      BY <1>1 DEF StampOK
    <3> QED BY <1>1, <1>3, <3>1, <3>2
  <2> QED BY <2>1, <2>2
<1> QED BY <1>2, <1>3, <1>5 DEF StampOK

\* The clock moves on over the rows that are there.
LEMMA TblLater ==
  ASSUME IInv, NEW c2 \in Nat, clock <= c2
  PROVE  TblStep(tbl, c2, Gone, tbl, clock, Gone)
<1>1. TblOK(tbl, clock, Gone)
  BY DEF IInv
<1>2. ASSUME NEW t \in Months
      PROVE  TableOK(tbl[t], c2, Gone)
  BY <1>1 DEF TblOK, TableOK
<1> QED BY <1>1, <1>2 DEF TblStep, TblOK, NewRows

LEMMA DisconnectTurn ==
  ASSUME IInv, LegacyConstants, NEW s \in Sessions, RegistryDisconnect(s)
  PROVE  Turn(s) /\ StampOK'
<1> DEFINE kept == sess[s].direct \cup Queued(sess[s])
<1>0. UNCHANGED <<tbl, client, expired, overtaken>> /\ Gone' = Gone
  BY DEF RegistryDisconnect, Gone
<1>1. IsFiniteSet(kept)
  BY KeptFinite
<1>2. PICK d, p : /\ d \in {kept, {}} /\ p \in {"done", "store"}
                  /\ Step(s, [sess[s] EXCEPT !.direct = d, !.queue = <<>>, !.phase = p])
  BY DEF RegistryDisconnect
<1>3. IsFiniteSet(d)
  BY <1>1, <1>2, FS_EmptySet
<1> DEFINE r == [sess[s] EXCEPT !.direct = d, !.queue = <<>>, !.phase = p]
<1>4. Same(r, sess[s]) /\ r.phase = p /\ r.direct = d
  BY SessionFacts DEF Same, Fields
<1>5. Step(s, r)
  BY <1>2
<1>6. Stamps(kept, sess[s].month) \/ UNCHANGED <<stamp, clock>>
  BY DEF RegistryDisconnect
<1> HIDE DEF r, kept
<1>7. StampOK' /\ clock' \in Nat /\ clock <= clock'
  <2>1. CASE Stamps(kept, sess[s].month)
    BY <1>1, <2>1, StampsOK
  <2>2. CASE UNCHANGED <<stamp, clock>>
    BY <2>2 DEF StampOK, IInv, TblOK
  <2> QED BY <1>6, <2>1, <2>2
<1>8. TblStep(tbl', clock', Gone', tbl, clock, Gone)
  BY <1>0, <1>7, TblLater
<1>9. SessOK(r, tbl', clock', Gone')
  BY <1>2, <1>3, <1>4, <1>7, EndedOK, SessionFacts DEF Ended
<1> QED BY <1>0, <1>5, <1>7, <1>8, <1>9, StepTurn

LEMMA PingManagerFailsTurn ==
  ASSUME IInv, NEW s \in Sessions, PingManagerFails(s)
  PROVE  Turn(s)
<1> DEFINE r == [sess[s] EXCEPT !.direct = {}, !.queue = <<>>, !.phase = "done"]
<1>0. UNCHANGED <<tbl, client, clock, expired, overtaken>> /\ Gone' = Gone /\ Step(s, r)
  BY DEF PingManagerFails, Gone
<1>1. Same(r, sess[s]) /\ r.phase = "done" /\ r.direct = {}
  BY SessionFacts DEF Same, Fields
<1> HIDE DEF r
<1> QED BY <1>0, <1>1, EndTurn, FS_EmptySet DEF Ended

LEMMA ReconnectTurn ==
  ASSUME IInv, NEW s \in Sessions, CheckReconnect(s)
  PROVE  Turn(s)
<1>0. /\ UNCHANGED <<tbl, client, clock, expired, overtaken>> /\ Gone' = Gone
      /\ \/ Step(s, [sess[s] EXCEPT !.phase = "notify", !.node = router.node])
         \/ Step(s, [sess[s] EXCEPT !.phase = "done"])
  BY DEF CheckReconnect, Gone, Elsewhere
<1>1. CASE Step(s, [sess[s] EXCEPT !.phase = "notify", !.node = router.node])
  <2> DEFINE r == [sess[s] EXCEPT !.phase = "notify", !.node = router.node]
  <2>1. Same(r, sess[s]) /\ r.phase = "notify" /\ r.direct = sess[s].direct
    BY SessionFacts DEF Same, Fields
  <2>2. Step(s, r)
    BY <1>1
  <2> HIDE DEF r
  <2> QED BY <1>0, <2>1, <2>2, EndTurn, SessionFacts DEF Ended
<1>2. CASE Step(s, [sess[s] EXCEPT !.phase = "done"])
  BY <1>0, <1>2, EndPhaseTurn DEF Ended
<1> QED BY <1>0, <1>1, <1>2

LEMMA NotifyTurn ==
  ASSUME IInv, NEW s \in Sessions, NotifyReconnected(s)
  PROVE  Turn(s)
<1> DEFINE f == Push(sess, sess[s].node, CheckStorage)
<1>0. /\ UNCHANGED <<tbl, client, clock, expired, overtaken>> /\ Gone' = Gone
      /\ sess' = [f EXCEPT ![s].phase = "done"]
  BY DEF NotifyReconnected, Gone, Elsewhere
<1>1. DOMAIN f = Sessions /\ \A q \in Sessions : Alike(f[q], sess[q])
  BY PushAlike
<1> HIDE DEF f
<1> DEFINE r == [f[s] EXCEPT !.phase = "done"]
<1>2. DOMAIN sess' = Sessions /\ sess'[s] = r /\ \A q \in Sessions \ {s} : sess'[q] = f[q]
  BY <1>0, <1>1
<1>3. Same(r, sess[s]) /\ r.phase = "done" /\ r.direct = sess[s].direct
  BY <1>1 DEF Alike, Same, Fields
<1> HIDE DEF r
<1>4. SessOK(r, tbl, clock, Gone)
  BY <1>3, EndedOK, SessionFacts DEF Ended
<1>5. TblStep(tbl, clock, Gone, tbl, clock, Gone)
  BY SessionFacts, TblKept
<1> QED BY <1>0, <1>1, <1>2, <1>4, <1>5 DEF Turn

-----------------------------------------------------------------------------
(***************************************************************************)
(* New rows, and steps of the publishers                                   *)
(***************************************************************************)
LEMMA WriteStep ==
  ASSUME IInv, NEW mo, NEW ms, ms \subseteq Messages, IsFiniteSet(ms), NEW unwritten,
         Write(mo, ms, unwritten), UNCHANGED <<client, clock, expired>>
  PROVE  TblStep(tbl', clock', Gone', tbl, clock, Gone)
<1> DEFINE new == {<<stamp[m].key, m>> : m \in ms}
           behind == {m \in ms : PassedBy(mo, stamp[m].key)}
<1>1. /\ DOMAIN tbl = Months /\ clock \in Nat /\ clock' = clock
      /\ \A t \in Months : TableOK(tbl[t], clock, Gone)
      /\ \A m \in ms : stamp[m].key \in Nat /\ stamp[m].key <= clock
  BY DEF IInv, TblOK, StampOK
<1>2. PICK over : tbl' = [tbl EXCEPT ![mo].rows = (@ \ over) \cup new]
  BY DEF Write
<1>3. Gone' = Gone \cup behind
  BY DEF Write, Gone
<1>4. \A x \in new : /\ x[1] \in Nat /\ x[1] <= clock
                     /\ x[1] = 0 \/ x[2] \in behind
                        \/ (~(x[1] <= tbl[mo].ptr) /\ \A q \in Sessions :
                              sess[q].month = mo /\ Relies(sess[q]) => ~(x[1] <= sess[q].highest))
  <2> TAKE x \in new
  <2>1. PICK m \in ms : x = <<stamp[m].key, m>>
    OBVIOUS
  <2>2. x[1] = stamp[m].key /\ x[2] = m
    BY <2>1
  <2> QED BY <1>1, <2>2 DEF PassedBy
<1>5. IsFiniteSet(new)
  <2>1. IsFiniteSet(0..clock)
    BY <1>1, FS_Interval
  <2>2. IsFiniteSet((0..clock) \X ms)
    BY <2>1, FS_Product
  <2>3. new \subseteq (0..clock) \X ms
    BY <1>1
  <2> QED BY <2>2, <2>3, FS_Subset
<1> HIDE DEF new, behind
<1>6. DOMAIN tbl' = Months
  BY <1>1, <1>2
<1>7. ASSUME NEW t \in Months
      PROVE  /\ TableOK(tbl'[t], clock, Gone')
             /\ tbl'[t].rows \subseteq tbl[t].rows \cup (IF t = mo THEN new ELSE {})
  <2>0. TableOK(tbl[t], clock, Gone) /\ Gone \subseteq Gone'
    BY <1>1, <1>3
  <2>1. CASE t = mo
    <3> DEFINE kept == tbl[t].rows \ over
    <3>1. tbl'[t] = [tbl[t] EXCEPT !.rows = kept \cup new]
      BY <1>1, <1>2, <2>1
    <3>2. /\ DOMAIN tbl'[t] = TableFields /\ tbl'[t].ptr = tbl[t].ptr
          /\ tbl'[t].rows = kept \cup new
      BY <2>0, <3>1 DEF TableOK, TableFields
    <3>3. IsFiniteSet(tbl'[t].rows)
      <4>1. IsFiniteSet(tbl[t].rows) /\ kept \subseteq tbl[t].rows
        BY <2>0 DEF TableOK
      <4>2. IsFiniteSet(kept)
        BY <4>1, FS_Subset
      <4>3. IsFiniteSet(kept \cup new)
        BY <1>5, <4>2, FS_Union
      <4> QED BY <3>2, <4>3
    <3>4. \A x \in tbl'[t].rows : x[1] \in Nat /\ x[1] <= clock
      BY <1>1, <1>4, <2>0, <3>2 DEF TableOK
    <3>5. Passed(tbl'[t].rows, tbl'[t].ptr, Gone')
      BY <1>3, <1>4, <2>0, <2>1, <3>2 DEF TableOK, Passed
    <3> QED BY <2>0, <2>1, <3>2, <3>3, <3>4, <3>5 DEF TableOK
  <2>2. CASE t # mo
    <3>1. tbl'[t] = tbl[t]
      BY <1>1, <1>2, <2>2
    <3> QED BY <2>0, <2>2, <3>1 DEF TableOK, Passed
  <2> QED BY <2>1, <2>2
<1>8. TblOK(tbl', clock', Gone')
  BY <1>1, <1>6, <1>7 DEF TblOK
<1>9. NewRows(tbl', tbl, Gone')
  BY <1>3, <1>4, <1>7 DEF NewRows
<1> QED BY <1>1, <1>3, <1>8, <1>9 DEF TblStep

LEMMA StoreTurn ==
  ASSUME IInv, NEW s \in Sessions, sess[s].direct \subseteq Messages, store_messages(s)
  PROVE  Turn(s)
<1>0. UNCHANGED <<client, clock, expired>>
  BY DEF store_messages
<1>1. PICK done, p :
        /\ done \subseteq sess[s].direct /\ p \in {"reconnect", "done"}
        /\ Write(sess[s].month, done, sess[s].direct \ done)
        /\ Step(s, [sess[s] EXCEPT !.direct = {}, !.phase = p])
  BY DEF store_messages
<1>2. IsFiniteSet(done) /\ done \subseteq Messages
  BY <1>1, SessionFacts, FS_Subset
<1>3. TblStep(tbl', clock', Gone', tbl, clock, Gone)
  BY <1>0, <1>1, <1>2, WriteStep
<1> DEFINE r == [sess[s] EXCEPT !.direct = {}, !.phase = p]
<1>4. Same(r, sess[s]) /\ r.phase = p /\ r.direct = {}
  BY SessionFacts DEF Same, Fields
<1>5. Step(s, r)
  BY <1>1
<1> HIDE DEF r
<1>6. IsFiniteSet(r.direct)
  BY <1>4, FS_EmptySet
<1>7. r.phase \in Ended /\ SessOK(sess[s], tbl, clock, Gone) /\ clock \in Nat
  BY <1>1, <1>4, SessionFacts DEF Ended
<1>8. SessOK(r, tbl', clock', Gone')
  BY <1>0, <1>4, <1>6, <1>7, EndedOK
<1> QED BY <1>0, <1>3, <1>5, <1>8, StepTurn

\* A step that is no session's.
LEMMA OutsideStep ==
  ASSUME IInv, UNCHANGED client, DOMAIN sess' = Sessions,
         \A q \in Sessions : Alike(sess'[q], sess[q]),
         TblStep(tbl', clock', Gone', tbl, clock, Gone), StampOK'
  PROVE  IInv'
<1>1. ASSUME NEW q \in Sessions
      PROVE  SessOK(sess'[q], tbl', clock', Gone')
  BY OthersKept, SessionFacts
<1>2. TblOK(tbl', clock', Gone')
  BY DEF TblStep
<1> QED BY <1>1, <1>2 DEF IInv

LEMMA PublisherStep ==
  ASSUME IInv, NEW m \in Messages,
         Delivered(m) \/ StampMessage(m) \/ StoreMessage(m) \/ Trigger(m) \/ Expire(m)
  PROVE  IInv'
<1>0. UNCHANGED client
  BY DEF Delivered, StampMessage, StoreMessage, Trigger, Expire
<1>1. \A q \in Sessions : Alike(sess[q], sess[q])
  BY AlikeItself, SessionFacts
<1>2. DOMAIN sess = Sessions /\ TblOK(tbl, clock, Gone) /\ StampOK /\ IsFiniteSet({m})
  BY FS_Singleton DEF IInv
<1>3. CASE Delivered(m) \/ Trigger(m)
  <2>1. UNCHANGED <<tbl, clock, stamp, expired, overtaken>> /\ Gone' = Gone
    BY <1>3 DEF Delivered, Trigger, Gone
  <2>2. \/ sess' = sess \/ \E n, x : sess' = Push(sess, n, x)
    BY <1>3 DEF Delivered, Trigger
  <2>3. DOMAIN sess' = Sessions /\ \A q \in Sessions : Alike(sess'[q], sess[q])
    BY <1>1, <1>2, <2>2, PushAlike
  <2>4. TblStep(tbl, clock, Gone, tbl, clock, Gone)
    BY <1>2, TblKept
  <2>5. StampOK'
    BY <1>2, <2>1 DEF StampOK
  <2> QED BY <1>0, <2>1, <2>3, <2>4, <2>5, OutsideStep
<1>4. CASE StampMessage(m)
  <2>1. UNCHANGED <<sess, tbl, expired, overtaken>> /\ Gone' = Gone /\ Stamps({m}, router.month)
    BY <1>4 DEF StampMessage, Gone
  <2>2. StampOK' /\ clock' \in Nat /\ clock <= clock'
    BY <1>2, <2>1, StampsOK
  <2>3. TblStep(tbl, clock', Gone, tbl, clock, Gone)
    BY <2>2, TblLater
  <2> QED BY <1>0, <1>1, <1>2, <2>1, <2>2, <2>3, OutsideStep
<1>5. CASE StoreMessage(m)
  <2>1. /\ UNCHANGED <<sess, clock, stamp, expired>> /\ Write(stamp[m].month, {m}, {})
    BY <1>5 DEF StoreMessage
  <2>2. TblStep(tbl', clock', Gone', tbl, clock, Gone)
    BY <1>0, <1>2, <2>1, WriteStep
  <2>3. StampOK'
    BY <1>2, <2>1 DEF StampOK
  <2> QED BY <1>0, <1>1, <1>2, <2>1, <2>2, <2>3, OutsideStep
<1>6. CASE Expire(m)
  <2>1. UNCHANGED <<sess, tbl, clock, stamp, overtaken>> /\ Gone \subseteq Gone'
    BY <1>6 DEF Expire, Gone
  <2>2. TblStep(tbl, clock, Gone', tbl, clock, Gone)
    BY <1>2, <2>1, TblKept
  <2>3. StampOK'
    BY <1>2, <2>1 DEF StampOK
  <2> QED BY <1>0, <1>1, <1>2, <2>1, <2>2, <2>3, OutsideStep
<1> QED BY <1>3, <1>4, <1>5, <1>6

-----------------------------------------------------------------------------
LEMMA InitIInv ==
  ASSUME Init
  PROVE  IInv
<1>1. PICK mo, c :
        /\ tbl = [t \in Months |-> IF t = mo THEN [EmptyTable EXCEPT !.reg = TRUE, !.chids = {c}]
                                             ELSE EmptyTable]
        /\ client = [known |-> mo # 0, gone |-> FALSE, chans |-> IF mo = 0 THEN {} ELSE {c},
                     got |-> {}, acked |-> {}]
  BY DEF Init
<1>2. sess = [s \in Sessions |-> Fresh] /\ clock = 0
  BY DEF Init
<1>3. DOMAIN client = {"known", "gone", "chans", "got", "acked"}
  BY <1>1
<1>4. IsFiniteSet({})
  BY FS_EmptySet
<1>5. ASSUME NEW t \in Months
      PROVE  TableOK(tbl[t], clock, Gone)
  <2>1. DOMAIN tbl[t] = TableFields /\ tbl[t].ptr = 0 /\ tbl[t].rows = {}
    BY <1>1 DEF EmptyTable, TableFields
  <2> QED BY <1>2, <1>4, <2>1 DEF TableOK, Passed
<1>6. TblOK(tbl, clock, Gone)
  BY <1>1, <1>2, <1>5 DEF TblOK
<1>7. /\ DOMAIN Fresh = Fields /\ Fresh.phase = "idle" /\ Fresh.includeTopic = TRUE
      /\ Fresh.increment = FALSE /\ Fresh.check = FALSE /\ Fresh.rotate = FALSE
      /\ Fresh.highest = 0 /\ Fresh.direct = {}
  BY DEF Fresh, Fields
<1>8. Shape(Fresh)
  <2>1. Fresh.phase \in Phases
    BY <1>7 DEF Phases, Unauthenticated
  <2>2. IsFiniteSet(Fresh.direct)
    BY <1>4, <1>7
  <2>3. Fresh.highest \in Nat
    BY <1>7
  <2> QED BY <1>7, <2>1, <2>2, <2>3 DEF Shape
<1>10. FlagsOK(Fresh) /\ ~Relies(Fresh)
  BY <1>7 DEF FlagsOK, Relies, Authenticated
<1>9. SessOK(Fresh, tbl, clock, Gone)
  BY <1>2, <1>7, <1>8, <1>10 DEF SessOK
<1>11. StampOK
  <2>1. \A m \in Messages : stamp[m] = [key |-> 0, month |-> 0]
    BY DEF Init
  <2> QED BY <1>2, <2>1 DEF StampOK
<1> QED BY <1>2, <1>3, <1>6, <1>9, <1>11 DEF IInv

LEMMA NextIInv ==
  ASSUME IInv, LegacyConstants, \A s \in Sessions : sess[s].direct \subseteq Messages, [Next]_vars
  PROVE  IInv'
<1>1. ASSUME NEW s \in Sessions, SessionStep(s)
      PROVE  Turn(s)
  BY <1>1, LookupUserTurn, DropUserTurn, RegisterUserTurn, RegistryConnectTurn, CheckStorageTurn,
     FetchTurn, SendTurn, IncrementTurn, AllChannelsTurn, SaveChannelsTurn, UpdateMonthTurn,
     EndingTurn, OnNotifTurn, DeleteTurn, DeferredUserTurn, RegisterChannelTurn,
     UnregisterChannelTurn, DisconnectTurn, StoreTurn, ReconnectTurn, NotifyTurn
     DEF SessionStep
<1>2. ASSUME NEW s \in Sessions, SessionStep(s)
      PROVE  StampOK'
  <2>1. CASE RegistryDisconnect(s)
    BY <2>1, DisconnectTurn
  <2>2. CASE ~RegistryDisconnect(s)
    <3>1. UNCHANGED <<stamp, clock>>
      BY <1>2, <2>2 DEF SessionStep, lookup_user, drop_user, register_user, RegistryConnect,
         check_storage, fetch_timestamp_messages, Send, increment_storage, all_channels,
         save_channels, update_user_message_month, drop_uaid, OnNotif, delete_message,
         RegisterDeferredUser, RegisterChannel, unregister_channel_id, store_messages,
         CheckReconnect, NotifyReconnected, Elsewhere
    <3> QED BY <3>1 DEF IInv, StampOK
  <2> QED BY <2>1, <2>2
<1>3. ASSUME NEW s \in Sessions, SessionStep(s)
      PROVE  IInv'
  BY <1>1, <1>2, <1>3, TurnKeeps
<1>4. ASSUME NEW s \in Sessions,
             \/ Ack(s) \/ RegisterBadKey(s) \/ ClientDropped(s)
             \/ HelloFails(s) \/ CallFails(s) \/ PingManagerFails(s)
             \/ \E n \in Nodes : AwaitHello(s, n)
             \/ \E c \in Channels : Register(s, c) \/ Unregister(s, c)
      PROVE  IInv'
  <2>1. Turn(s)
    BY <1>4, AckedTurn, BadKeyTurn, EndingTurn, HelloFailsTurn, AwaitHelloTurn, RegisterTurn,
       PingManagerFailsTurn
  <2>2. UNCHANGED <<stamp, clock>>
    BY <1>4 DEF Ack, RegisterBadKey, ClientDropped, HelloFails, CallFails, PingManagerFails,
       AwaitHello, Register, Unregister, Elsewhere
  <2>3. StampOK'
    BY <2>2 DEF IInv, StampOK
  <2> QED BY <2>1, <2>3, TurnKeeps
<1>5. CASE UNCHANGED vars
  BY <1>5 DEF vars, IInv, Gone, StampOK
<1> QED BY <1>3, <1>4, <1>5, PublisherStep DEF Next

-----------------------------------------------------------------------------
(***************************************************************************)
(* Notifications taken for direct delivery.                                *)
(***************************************************************************)
Notifs == {CheckStorage, Disconnect} \cup {Notification(m) : m \in Messages}
Active == Authenticated \cup {"ending"}
Entered == Active \cup {"done"}
Cold == Unauthenticated \cup {"reconnect", "notify"}
RouterFields == {"status", "node", "connectedAt", "month", "old"}

(* What a session holds, and loses when it is done.                          *)
Holds(r) == r.direct \cup {m \in Messages : Notification(m) \in ToSet(r.queue)}
Has(r) == IF r.phase = "done" THEN {} ELSE Holds(r)

Rowed(T) == {m \in Messages : \E mo \in Months : \E x \in T[mo].rows : x[2] = m}
Settled == client.acked \cup expired \cup lost \cup orphaned \cup ZeroTtl \cup Rowed(tbl)

(* Only a connected session has notifications; one that is saving them has   *)
(* emptied its channel.                                                      *)
HoldOK(r, acked) ==
  /\ DOMAIN r = Fields /\ r.phase \in Phases
  /\ r.queue \in Seq(Notifs) /\ r.direct \subseteq Messages
  /\ r.phase \in Cold => r.direct = {} /\ r.queue = <<>>
  /\ r.phase = "store" => r.queue = <<>>
  /\ r.phase \in Active \cup {"store", "register", "connect"} => r.month \in Months
  /\ r.phase # "idle" => r.node \in Nodes
  /\ r.phase = "delete" => \A x \in r.topics : x[2] \in acked

(* The registered session of a node is connected to it, or has ended without *)
(* telling the registry.                                                     *)
RegOK(R, S) ==
  /\ DOMAIN R = Nodes
  /\ \A n \in Nodes : R[n] # NoSession =>
       R[n] \in Sessions /\ S[R[n]].node = n /\ S[R[n]].phase \in Entered

RouterOK(u) == DOMAIN u = RouterFields /\ u.node \in Nodes \cup {NoNode}

KInv ==
  /\ IInv /\ RegOK(registry, sess) /\ RouterOK(router)
  /\ DOMAIN pub = Messages
  /\ \A s \in Sessions : HoldOK(sess[s], client.acked)
  /\ \A m \in Messages : pub[m] = "direct" => m \in Settled \/ \E s \in Sessions : m \in Has(sess[s])

(* A session whose channel may have got longer.                              *)
Longer(r2, r) ==
  /\ DOMAIN r2 = Fields /\ r2.phase = r.phase /\ r2.node = r.node /\ r2.month = r.month
  /\ r2.direct = r.direct /\ r2.topics = r.topics
  /\ \/ r2.queue = r.queue
     \/ r.phase \in Active /\ r2.queue \in Seq(Notifs) /\ ToSet(r.queue) \subseteq ToSet(r2.queue)

LEMMA LongerOK ==
  ASSUME NEW r, NEW r2, NEW acked, NEW acked2, HoldOK(r, acked), Longer(r2, r), acked \subseteq acked2
  PROVE  HoldOK(r2, acked2) /\ Has(r) \subseteq Has(r2)
<1>1. CASE r2.queue = r.queue
  BY <1>1 DEF HoldOK, Longer, Has, Holds
<1>2. CASE r.phase \in Active /\ r2.queue \in Seq(Notifs) /\ ToSet(r.queue) \subseteq ToSet(r2.queue)
  <2>1. r.phase \notin Cold /\ r.phase # "store"
    BY <1>2 DEF Active, Cold, Authenticated, Unauthenticated
  <2>2. HoldOK(r2, acked2)
    BY <1>2, <2>1 DEF HoldOK, Longer
  <2>3. Has(r) \subseteq Has(r2)
    BY <1>2 DEF Longer, Has, Holds
  <2> QED BY <2>2, <2>3
<1> QED BY <1>1, <1>2 DEF Longer

LEMMA LongerItself ==
  ASSUME NEW r, DOMAIN r = Fields
  PROVE  Longer(r, r)
BY DEF Longer

(* A step of session s keeps what is held, or settles it.                    *)
HoldTurn(s) ==
  /\ DOMAIN sess' = Sessions
  /\ \A q \in Sessions \ {s} : Longer(sess'[q], sess[q])
  /\ HoldOK(sess'[s], client'.acked) /\ Has(sess[s]) \subseteq Has(sess'[s]) \cup Settled'
  /\ DOMAIN registry' = Nodes
  /\ \A n \in Nodes : /\ registry'[n] \in {registry[n], NoSession, s}
                      /\ registry'[n] = s => sess'[s].node = n /\ sess'[s].phase \in Entered
  /\ RouterOK(router') /\ pub' = pub /\ Settled \subseteq Settled'
  /\ client.acked \subseteq client'.acked

LEMMA HoldTurnKeeps ==
  ASSUME KInv, IInv', NEW s \in Sessions, HoldTurn(s)
  PROVE  KInv'
<1>1. ASSUME NEW q \in Sessions
      PROVE  HoldOK(sess'[q], client'.acked) /\ Has(sess[q]) \subseteq Has(sess'[q]) \cup Settled'
  <2>1. CASE q = s
    BY <2>1 DEF HoldTurn
  <2>2. CASE q # s
    <3>1. /\ HoldOK(sess[q], client.acked) /\ Longer(sess'[q], sess[q])
          /\ client.acked \subseteq client'.acked
      BY <2>2 DEF HoldTurn, KInv
    <3>2. HoldOK(sess'[q], client'.acked) /\ Has(sess[q]) \subseteq Has(sess'[q])
      BY <3>1, LongerOK
    <3> QED BY <3>2
  <2> QED BY <2>1, <2>2
<1>2. ASSUME NEW n \in Nodes, registry'[n] # NoSession
      PROVE  /\ registry'[n] \in Sessions /\ sess'[registry'[n]].node = n
             /\ sess'[registry'[n]].phase \in Entered
  <2>1. CASE registry'[n] = s
    BY <2>1 DEF HoldTurn
  <2>2. CASE registry'[n] # s
    <3>1. registry'[n] = registry[n]
      BY <1>2, <2>2 DEF HoldTurn
    <3>2. /\ registry[n] \in Sessions \ {s} /\ sess[registry[n]].node = n
          /\ sess[registry[n]].phase \in Entered
      BY <1>2, <2>2, <3>1 DEF KInv, RegOK
    <3> QED BY <3>1, <3>2 DEF HoldTurn, Longer
  <2> QED BY <2>1, <2>2
<1>3. RegOK(registry', sess')
  BY <1>2 DEF RegOK, HoldTurn
<1>4. ASSUME NEW m \in Messages, pub'[m] = "direct"
      PROVE  m \in Settled' \/ \E q \in Sessions : m \in Has(sess'[q])
  <2>1. m \in Settled \/ \E q \in Sessions : m \in Has(sess[q])
    BY <1>4 DEF HoldTurn, KInv
  <2> QED BY <1>1, <2>1 DEF HoldTurn
<1>5. RouterOK(router') /\ DOMAIN pub' = Messages
  BY DEF HoldTurn, KInv
<1>6. \A q \in Sessions : HoldOK(sess'[q], client'.acked)
  BY <1>1
<1> QED BY <1>3, <1>4, <1>5, <1>6 DEF KInv

LEMMA HoldFacts ==
  ASSUME KInv, NEW s \in Sessions
  PROVE  /\ IInv /\ HoldOK(sess[s], client.acked) /\ DOMAIN sess[s] = Fields /\ DOMAIN sess = Sessions
         /\ RouterOK(router) /\ RegOK(registry, sess)
         /\ DOMAIN client = {"known", "gone", "chans", "got", "acked"}
         /\ DOMAIN tbl = Months /\ \A mo \in Months : DOMAIN tbl[mo] = TableFields
BY DEF KInv, IInv, HoldOK, TblOK, TableOK

\* The session alone moves; it is not registered, or stays connected.
LEMMA HoldStep ==
  ASSUME KInv, LegacyConstants, NEW s \in Sessions, NEW r, Step(s, r), HoldOK(r, client'.acked),
         Has(sess[s]) \subseteq Has(r) \cup Settled',
         UNCHANGED <<registry, pub>>, RouterOK(router'), Settled \subseteq Settled',
         client.acked \subseteq client'.acked,
         \/ sess[s].phase \notin Entered
         \/ r.phase \in Entered /\ r.node = sess[s].node
  PROVE  HoldTurn(s)
<1>1. DOMAIN sess' = Sessions /\ sess'[s] = r /\ \A q \in Sessions \ {s} : sess'[q] = sess[q]
  BY HoldFacts DEF Step
<1>2. \A q \in Sessions \ {s} : Longer(sess'[q], sess[q])
  BY <1>1, LongerItself, HoldFacts
<1>3. DOMAIN registry' = Nodes
  BY HoldFacts DEF RegOK
<1>4. ASSUME NEW n \in Nodes, registry'[n] = s
      PROVE  sess'[s].node = n /\ sess'[s].phase \in Entered
  <2>1. s # NoSession
    BY DEF LegacyConstants
  <2> QED BY <1>1, <1>4, <2>1, HoldFacts DEF RegOK
<1> QED BY <1>1, <1>2, <1>3, <1>4 DEF HoldTurn

\* What DetermineAck and AfterSend leave alone.
LEMMA AckHolds ==
  ASSUME NEW r, DOMAIN r = Fields, NEW r2, r2 = DetermineAck(r) \/ r2 = AfterSend(r)
  PROVE  /\ DOMAIN r2 = Fields /\ r2.direct = r.direct /\ r2.queue = r.queue /\ r2.node = r.node
         /\ r2.month = r.month /\ r2.phase \in Authenticated \ {"delete"}
<1>1. PICK p \in {"input", "increment", "check", "channels", "drop"} : r2 = [r EXCEPT !.phase = p]
  BY DEF DetermineAck, AfterSend
<1> QED BY <1>1 DEF Fields, Authenticated

\* A connected session goes on with what it holds.
LEMMA GoesOn ==
  ASSUME KInv, LegacyConstants, NEW s \in Sessions, NEW r, Step(s, r),
         sess[s].phase \in Active, r.phase \in Active, DOMAIN r = Fields,
         r.direct = sess[s].direct, r.queue = sess[s].queue, r.node = sess[s].node,
         r.month \in Months, r.phase # "delete",
         UNCHANGED <<registry, pub>>, RouterOK(router'), Settled \subseteq Settled',
         client.acked \subseteq client'.acked
  PROVE  HoldTurn(s)
<1>1. r.phase \in Phases /\ r.phase \notin Cold \cup {"store", "idle", "done"}
      /\ sess[s].phase \notin {"idle", "done"}
  BY DEF Active, Phases, Cold, Ended, Authenticated, Unauthenticated
<1>2. HoldOK(r, client'.acked)
  BY <1>1, HoldFacts DEF HoldOK
<1>3. Has(sess[s]) \subseteq Has(r)
  BY <1>1 DEF Has, Holds
<1> QED BY <1>2, <1>3, HoldStep DEF Entered

\* The same, after an answer.
LEMMA GoesOnAfter ==
  ASSUME KInv, LegacyConstants, NEW s \in Sessions, NEW r,
         Step(s, DetermineAck(r)) \/ Step(s, AfterSend(r)),
         sess[s].phase \in Active, DOMAIN r = Fields,
         r.direct = sess[s].direct, r.queue = sess[s].queue, r.node = sess[s].node,
         r.month \in Months,
         UNCHANGED <<registry, pub>>, RouterOK(router'), Settled \subseteq Settled',
         client.acked \subseteq client'.acked
  PROVE  HoldTurn(s)
<1>1. PICK r2 : (r2 = DetermineAck(r) \/ r2 = AfterSend(r)) /\ Step(s, r2)
  OBVIOUS
<1>2. /\ DOMAIN r2 = Fields /\ r2.direct = r.direct /\ r2.queue = r.queue /\ r2.node = r.node
      /\ r2.month = r.month /\ r2.phase \in Authenticated \ {"delete"}
  BY <1>1, AckHolds
<1> QED BY <1>1, <1>2, GoesOn DEF Active

\* A session that holds nothing moves on to a phase where it holds nothing.
LEMMA ColdStep ==
  ASSUME KInv, LegacyConstants, NEW s \in Sessions, NEW r, Step(s, r),
         sess[s].phase \in Cold, r.phase \in Cold \cup {"done"}, DOMAIN r = Fields,
         r.direct = sess[s].direct, r.queue = sess[s].queue, r.node \in Nodes,
         r.phase \in {"register", "connect"} => r.month \in Months,
         UNCHANGED <<registry, pub>>, RouterOK(router'), Settled \subseteq Settled',
         client.acked \subseteq client'.acked
  PROVE  HoldTurn(s)
<1>1. r.phase \in Phases /\ sess[s].phase \notin Entered /\ sess[s].phase # "done"
      /\ r.phase \notin Active \cup {"store", "delete"}
  BY DEF Entered, Active, Phases, Cold, Ended, Authenticated, Unauthenticated
<1>2. sess[s].direct = {} /\ sess[s].queue = <<>> /\ r.queue \in Seq(Notifs)
  BY HoldFacts DEF HoldOK
<1>3. HoldOK(r, client'.acked)
  BY <1>1, <1>2 DEF HoldOK
<1>4. Has(sess[s]) = {}
  <2>1. ToSet(<<>>) = {}
    BY DEF ToSet
  <2> QED BY <1>1, <1>2, <2>1 DEF Has, Holds
<1> QED BY <1>1, <1>3, <1>4, HoldStep

LEMMA RowedSame ==
  ASSUME NEW T, NEW T2, \A mo \in Months : T[mo].rows \subseteq T2[mo].rows
  PROVE  Rowed(T) \subseteq Rowed(T2)
BY DEF Rowed

LEMMA PhaseHolds ==
  ASSUME KInv, NEW s \in Sessions, NEW p
  PROVE  LET r == [sess[s] EXCEPT !.phase = p]
         IN  /\ DOMAIN r = Fields /\ r.phase = p /\ r.direct = sess[s].direct
             /\ r.queue = sess[s].queue /\ r.node = sess[s].node /\ r.month = sess[s].month
BY HoldFacts DEF Fields

\* A cold session changes its phase only.
LEMMA ColdPhase ==
  ASSUME KInv, LegacyConstants, NEW s \in Sessions, NEW p \in Cold \cup {"done"},
         Step(s, [sess[s] EXCEPT !.phase = p]),
         sess[s].phase \in Cold, sess[s].phase # "idle",
         p \in {"register", "connect"} => sess[s].month \in Months,
         UNCHANGED <<registry, pub>>, RouterOK(router'), Settled \subseteq Settled',
         client.acked \subseteq client'.acked
  PROVE  HoldTurn(s)
<1> DEFINE r == [sess[s] EXCEPT !.phase = p]
<1>1. /\ DOMAIN r = Fields /\ r.phase = p /\ r.direct = sess[s].direct
      /\ r.queue = sess[s].queue /\ r.node = sess[s].node /\ r.month = sess[s].month
  BY PhaseHolds
<1>2. Step(s, r) /\ sess[s].node \in Nodes
  BY HoldFacts DEF HoldOK
<1> HIDE DEF r
<1> QED BY <1>1, <1>2, ColdStep

\* A connected session changes its phase only.
LEMMA ActivePhase ==
  ASSUME KInv, LegacyConstants, NEW s \in Sessions, NEW p \in Active \ {"delete"},
         Step(s, [sess[s] EXCEPT !.phase = p]), sess[s].phase \in Active,
         UNCHANGED <<registry, pub>>, RouterOK(router'), Settled \subseteq Settled',
         client.acked \subseteq client'.acked
  PROVE  HoldTurn(s)
<1> DEFINE r == [sess[s] EXCEPT !.phase = p]
<1>1. /\ DOMAIN r = Fields /\ r.phase = p /\ r.direct = sess[s].direct
      /\ r.queue = sess[s].queue /\ r.node = sess[s].node /\ r.month = sess[s].month
  BY PhaseHolds
<1>2. Step(s, r) /\ sess[s].month \in Months
  BY HoldFacts DEF HoldOK
<1> HIDE DEF r
<1> QED BY <1>1, <1>2, GoesOn

LEMMA AwaitHelloHolds ==
  ASSUME KInv, LegacyConstants, NEW s \in Sessions, NEW n \in Nodes, AwaitHello(s, n)
  PROVE  HoldTurn(s)
<1>1. PICK p, m : /\ p \in {"lookup", "connect"} /\ (p = "connect" => m = CurrentMonth)
                  /\ Step(s, [sess[s] EXCEPT !.node = n, !.connectedAt = time + 1, !.phase = p,
                                             !.deferred = ~client.known, !.month = m])
  BY DEF AwaitHello
<1> DEFINE r == [sess[s] EXCEPT !.node = n, !.connectedAt = time + 1, !.phase = p,
                                !.deferred = ~client.known, !.month = m]
<1>2. /\ DOMAIN r = Fields /\ r.phase = p /\ r.month = m /\ r.direct = sess[s].direct
      /\ r.queue = sess[s].queue /\ r.node = n
  BY HoldFacts DEF Fields
<1>3. Step(s, r)
  BY <1>1
<1> HIDE DEF r
<1>4. CurrentMonth \in Months
  BY DEF LegacyConstants, Months
<1>5. /\ UNCHANGED <<router, registry, pub, client>> /\ Settled' = Settled
      /\ sess[s].phase \in Cold /\ r.phase \in Cold
  BY <1>1, <1>2 DEF AwaitHello, Settled, Cold, Unauthenticated, At
<1> QED BY <1>1, <1>2, <1>3, <1>4, <1>5, ColdStep, HoldFacts

LEMMA LookupUserHolds ==
  ASSUME KInv, LegacyConstants, NEW s \in Sessions, lookup_user(s)
  PROVE  HoldTurn(s)
<1>0. /\ UNCHANGED <<router, registry, pub>> /\ sess[s].phase = "lookup" /\ RouterOK(router')
      /\ client' = client \/ client' = [client EXCEPT !.gone = TRUE, !.chans = {}]
  BY HoldFacts DEF lookup_user, At
<1>1. client'.acked = client.acked
  BY <1>0, HoldFacts
<1>2. Settled' = Settled
  BY <1>1 DEF lookup_user, Settled
<1>3. sess[s].phase \in Cold /\ sess[s].phase # "idle" /\ "expire" \in Cold /\ "register" \in Cold
  BY <1>0 DEF Cold, Unauthenticated
<1>4. CASE Step(s, [sess[s] EXCEPT !.phase = "done"])
  BY <1>0, <1>1, <1>2, <1>3, <1>4, ColdPhase
<1>5. CASE Step(s, [sess[s] EXCEPT !.phase = "expire"])
  BY <1>0, <1>1, <1>2, <1>3, <1>5, ColdPhase
<1>6. CASE /\ router.month \in ValidMonths
           /\ Step(s, [sess[s] EXCEPT !.phase = "register", !.check = TRUE,
                          !.rotate = (router.month # CurrentMonth),
                          !.month = router.month, !.old = router.old])
  <2> DEFINE b == router.month # CurrentMonth
             r == [sess[s] EXCEPT !.phase = "register", !.check = TRUE, !.rotate = b,
                                  !.month = router.month, !.old = router.old]
  <2>1. Step(s, r)
    BY <1>6
  <2> HIDE DEF b
  <2>2. /\ DOMAIN r = Fields /\ r.phase = "register" /\ r.month = router.month
        /\ r.direct = sess[s].direct /\ r.queue = sess[s].queue /\ r.node = sess[s].node
    BY HoldFacts DEF Fields
  <2> HIDE DEF r
  <2>3. router.month \in Months /\ sess[s].node \in Nodes
    BY <1>3, <1>6, HoldFacts DEF ValidMonths, HoldOK
  <2> QED BY <1>0, <1>1, <1>2, <1>3, <2>1, <2>2, <2>3, ColdStep
<1> QED BY <1>4, <1>5, <1>6 DEF lookup_user

LEMMA RecordOK ==
  ASSUME KInv, LegacyConstants, NEW s \in Sessions
  PROVE  RouterOK(NoRecord) /\ (sess[s].phase # "idle" => RouterOK(RecordOf(sess[s])))
<1>1. RouterOK(NoRecord)
  BY DEF RouterOK, NoRecord, RouterFields
<1>2. ASSUME sess[s].phase # "idle"
      PROVE  RouterOK(RecordOf(sess[s]))
  <2>1. sess[s].node \in Nodes
    BY <1>2, HoldFacts DEF HoldOK
  <2>2. RecordOf(sess[s]).node = sess[s].node /\ DOMAIN RecordOf(sess[s]) = RouterFields
    BY DEF RecordOf, RouterFields
  <2> QED BY <2>1, <2>2 DEF RouterOK
<1> QED BY <1>1, <1>2

LEMMA HelloHolds ==
  ASSUME KInv, LegacyConstants, NEW s \in Sessions,
         drop_user(s) \/ register_user(s) \/ HelloFails(s)
  PROVE  HoldTurn(s)
<1>0. /\ UNCHANGED <<registry, pub>> /\ sess[s].phase \in {"expire", "register", "lookup"}
      /\ client' = client \/ client' = [client EXCEPT !.gone = TRUE, !.chans = {}]
      /\ router' \in {router, NoRecord, RecordOf(sess[s])}
      /\ UNCHANGED <<tbl, expired, lost, orphaned>>
  BY DEF drop_user, register_user, HelloFails, At
<1>1. client'.acked = client.acked
  BY <1>0, HoldFacts
<1>2. Settled' = Settled
  BY <1>0, <1>1 DEF Settled
<1>3. sess[s].phase \in Cold /\ sess[s].phase # "idle" /\ "connect" \in Cold
  BY <1>0 DEF Cold, Unauthenticated
<1>4. RouterOK(router')
  BY <1>0, <1>3, RecordOK, HoldFacts
<1>5. \/ Step(s, [sess[s] EXCEPT !.phase = "done"])
      \/ sess[s].phase = "register" /\ Step(s, [sess[s] EXCEPT !.phase = "connect"])
  BY DEF drop_user, register_user, HelloFails, At
<1>6. CASE Step(s, [sess[s] EXCEPT !.phase = "done"])
  BY <1>0, <1>1, <1>2, <1>3, <1>4, <1>6, ColdPhase
<1>7. CASE sess[s].phase = "register" /\ Step(s, [sess[s] EXCEPT !.phase = "connect"])
  <2>1. sess[s].month \in Months
    BY <1>7, HoldFacts DEF HoldOK
  <2> QED BY <1>0, <1>1, <1>2, <1>3, <1>4, <1>7, <2>1, ColdPhase
<1> QED BY <1>5, <1>6, <1>7

\* A longer channel of the registered session.
LEMMA PushLonger ==
  ASSUME KInv, NEW n \in Nodes, NEW x \in Notifs, NEW f, f = Push(sess, n, x)
  PROVE  /\ DOMAIN f = Sessions /\ \A q \in Sessions : Longer(f[q], sess[q])
         /\ Connected(n) =>
              registry[n] \in Sessions /\ x \in ToSet(f[registry[n]].queue)
<1>0. DOMAIN sess = Sessions /\ \A q \in Sessions : DOMAIN sess[q] = Fields
  BY HoldFacts DEF KInv, IInv
<1>1. CASE ~Connected(n)
  BY <1>0, <1>1, LongerItself DEF Push
<1>2. CASE Connected(n)
  <2> DEFINE w == registry[n]
             y == Append(sess[w].queue, x)
  <2>0. w \in Sessions /\ sess[w].phase \in Active /\ HoldOK(sess[w], client.acked)
    BY <1>2 DEF KInv, RegOK, Entered, Connected, At
  <2>1. f = [sess EXCEPT ![w].queue = y]
    BY <1>2 DEF Push
  <2> HIDE DEF w
  <2>2. y \in Seq(Notifs) /\ ToSet(sess[w].queue) \subseteq ToSet(y) /\ x \in ToSet(y)
    <3> DEFINE z == sess[w].queue
    <3>1. z \in Seq(Notifs)
      BY <2>0 DEF HoldOK
    <3> HIDE DEF z
    <3>2. /\ y \in Seq(Notifs) /\ Len(y) = Len(z) + 1 /\ y[Len(z) + 1] = x
          /\ \A i \in 1..Len(z) : y[i] = z[i]
      BY <3>1 DEF z
    <3>3. DOMAIN y = 1..Len(y) /\ DOMAIN z = 1..Len(z) /\ Len(z) \in Nat
      BY <3>1, <3>2
    <3> HIDE DEF y
    <3> QED BY <3>2, <3>3 DEF ToSet, z
  <2> HIDE DEF y
  <2>3. DOMAIN f = Sessions
    BY <1>0, <2>1
  <2>4. f[w] = [sess[w] EXCEPT !.queue = y]
    BY <1>0, <2>0, <2>1
  <2>5. f[w].queue = y /\ Longer(f[w], sess[w])
    BY <1>0, <2>0, <2>2, <2>4 DEF Longer, Fields
  <2>6. \A q \in Sessions \ {w} : f[q] = sess[q]
    BY <1>0, <2>1
  <2>7. \A q \in Sessions : Longer(f[q], sess[q])
    BY <1>0, <2>5, <2>6, LongerItself
  <2> QED BY <2>0, <2>2, <2>3, <2>5, <2>7 DEF w
<1> QED BY <1>1, <1>2

LEMMA RegistryConnectHolds ==
  ASSUME KInv, LegacyConstants, NEW s \in Sessions, RegistryConnect(s)
  PROVE  HoldTurn(s)
<1> DEFINE n == sess[s].node
           f == Push(sess, n, Disconnect)
           r == DetermineAck(sess[s])
<1>0. /\ sess[s].phase = "connect" /\ registry' = [registry EXCEPT ![n] = s]
      /\ sess' = [f EXCEPT ![s] = r] /\ client' = [client EXCEPT !.known = TRUE]
      /\ UNCHANGED <<router, tbl, pub, expired, lost, orphaned>>
  BY DEF RegistryConnect, At
<1>1. /\ n \in Nodes /\ sess[s].month \in Months /\ sess[s].direct = {} /\ sess[s].queue = <<>>
      /\ Disconnect \in Notifs /\ DOMAIN sess[s] = Fields /\ sess[s].queue \in Seq(Notifs)
  BY <1>0, HoldFacts DEF HoldOK, Cold, Unauthenticated, Notifs
<1>2. /\ DOMAIN r = Fields /\ r.direct = {} /\ r.queue = <<>> /\ r.node = n
      /\ r.month = sess[s].month /\ r.phase \in Authenticated \ {"delete"}
  BY <1>1, AckHolds
<1>3. DOMAIN f = Sessions /\ \A q \in Sessions : Longer(f[q], sess[q])
  BY <1>1, PushLonger
<1>9. <<>> \in Seq(Notifs) /\ ToSet(<<>>) = {}
  BY <1>1 DEF ToSet
<1> HIDE DEF f, r
<1>4. DOMAIN sess' = Sessions /\ sess'[s] = r /\ \A q \in Sessions \ {s} : sess'[q] = f[q]
  BY <1>0, <1>3
<1>5. /\ r.phase \in Phases /\ r.phase \in Active
      /\ r.phase \notin Cold \cup {"store", "idle", "done"}
  BY <1>2 DEF Active, Phases, Cold, Authenticated, Unauthenticated
<1>6. HoldOK(r, client'.acked)
  BY <1>1, <1>2, <1>5, <1>9 DEF HoldOK
<1>7. Has(sess[s]) = {}
  BY <1>0, <1>1, <1>9 DEF Has, Holds
<1>8. client'.acked = client.acked
  BY <1>0, HoldFacts
<1>10. Settled' = Settled
  BY <1>0, <1>8 DEF Settled
<1>11. DOMAIN registry = Nodes /\ s # NoSession /\ sess[s].phase \notin Entered
  BY <1>0, HoldFacts DEF RegOK, LegacyConstants, Entered, Active, Authenticated
<1>12. DOMAIN registry' = Nodes /\ registry'[n] = s /\ \A o \in Nodes \ {n} : registry'[o] = registry[o]
  BY <1>0, <1>1, <1>11
<1>13. \A o \in Nodes : registry[o] # s
  BY <1>11, HoldFacts DEF RegOK
<1> HIDE DEF n
<1>14. \A o \in Nodes : /\ registry'[o] \in {registry[o], NoSession, s}
                        /\ registry'[o] = s => sess'[s].node = o /\ sess'[s].phase \in Entered
  BY <1>2, <1>4, <1>5, <1>12, <1>13 DEF Entered
<1> QED BY <1>0, <1>3, <1>4, <1>6, <1>7, <1>8, <1>10, <1>12, <1>14, HoldFacts DEF HoldTurn

\* What check_storage and fetch_timestamp_messages make of the session.
LEMMA ReceivedHolds ==
  ASSUME KInv, NEW s \in Sessions, NEW rows, NEW topic, NEW ts, NEW q, q = Received(s, rows, topic, ts)
  PROVE  /\ DOMAIN q = Fields /\ q.direct = sess[s].direct /\ q.queue = sess[s].queue
         /\ q.node = sess[s].node /\ q.month = sess[s].month /\ q.phase \in Authenticated \ {"delete"}
<1> DEFINE r == [sess[s] EXCEPT !.includeTopic = topic, !.highest = ts]
           live == {x \in rows : x[2] \notin expired}
           inc == ~topic /\ ts # 0
           r2 == [r EXCEPT !.increment = inc]
           r1 == [r EXCEPT !.check = FALSE, !.sent = 0]
           b == {x[2] : x \in live}
           st == r2.stored \cup live
           k == r2.sent + Cardinality(live)
           r3 == [r2 EXCEPT !.stored = st, !.phase = "send", !.batch = b, !.sent = k]
<1>0. DOMAIN sess[s] = Fields
  BY HoldFacts
<1>1. q = IF rows = {} THEN DetermineAck(r1) ELSE IF live = {} THEN DetermineAck(r2) ELSE r3
  BY DEF Received
<1> HIDE DEF live, inc, b, st, k
<1>2. /\ DOMAIN r = Fields /\ r.direct = sess[s].direct /\ r.queue = sess[s].queue
      /\ r.node = sess[s].node /\ r.month = sess[s].month
  BY <1>0 DEF Fields
<1> HIDE DEF r
<1>3. /\ DOMAIN r1 = Fields /\ r1.direct = r.direct /\ r1.queue = r.queue
      /\ r1.node = r.node /\ r1.month = r.month
  BY <1>2 DEF Fields
<1>4. /\ DOMAIN r2 = Fields /\ r2.direct = r.direct /\ r2.queue = r.queue
      /\ r2.node = r.node /\ r2.month = r.month
  BY <1>2 DEF Fields
<1> HIDE DEF r1, r2
<1>5. /\ DOMAIN r3 = Fields /\ r3.direct = r2.direct /\ r3.queue = r2.queue
      /\ r3.node = r2.node /\ r3.month = r2.month /\ r3.phase = "send"
  BY <1>4 DEF Fields
<1> HIDE DEF r3
<1>6. CASE q = DetermineAck(r1)
  BY <1>2, <1>3, <1>6, AckHolds
<1>7. CASE q = DetermineAck(r2)
  BY <1>2, <1>4, <1>7, AckHolds
<1>8. CASE q = r3
  BY <1>2, <1>4, <1>5, <1>8 DEF Authenticated
<1> QED BY <1>1, <1>6, <1>7, <1>8

\* Rows are only deleted of messages that are done with.
LEMMA RowsGone ==
  ASSUME KInv, NEW mo, NEW del, NEW done, \A x \in del : x[2] \in done,
         NEW T2, T2 = [tbl EXCEPT ![mo].rows = @ \ del]
  PROVE  Rowed(tbl) \subseteq Rowed(T2) \cup done
<1>1. DOMAIN tbl = Months /\ \A t \in Months : DOMAIN tbl[t] = TableFields
  BY DEF KInv, IInv, TblOK, TableOK
<1>2. ASSUME NEW t \in Months
      PROVE  \A x \in tbl[t].rows : x \in T2[t].rows \/ x[2] \in done
  <2>1. CASE t = mo
    <3>1. T2[t] = [tbl[t] EXCEPT !.rows = tbl[t].rows \ del]
      BY <1>1, <2>1
    <3>2. T2[t].rows = tbl[t].rows \ del
      BY <1>1, <3>1 DEF TableFields
    <3> QED BY <3>2
  <2>2. CASE t # mo
    BY <1>1, <2>2
  <2> QED BY <2>1, <2>2
<1> QED BY <1>2 DEF Rowed

\* Channels come and go without a row.
LEMMA RowsStay ==
  ASSUME KInv, NEW mo, NEW f, NEW g, NEW T2,
         \/ T2 = [tbl EXCEPT ![mo].chids = f, ![mo].reg = TRUE]
         \/ T2 = [tbl EXCEPT ![mo].ptr = g, ![mo].reg = TRUE]
         \/ T2 = tbl
  PROVE  Rowed(T2) = Rowed(tbl)
<1>1. DOMAIN tbl = Months /\ \A t \in Months : DOMAIN tbl[t] = TableFields
  BY DEF KInv, IInv, TblOK, TableOK
<1>2. ASSUME NEW t \in Months
      PROVE  T2[t].rows = tbl[t].rows
  <2>1. CASE t = mo /\ T2 # tbl
    <3>1. \/ T2[t] = [tbl[t] EXCEPT !.chids = f, !.reg = TRUE]
          \/ T2[t] = [tbl[t] EXCEPT !.ptr = g, !.reg = TRUE]
      BY <1>1, <2>1
    <3> QED BY <1>1, <3>1 DEF TableFields
  <2>2. CASE t # mo \/ T2 = tbl
    BY <1>1, <2>2
  <2> QED BY <2>1, <2>2
<1> QED BY <1>2 DEF Rowed

LEMMA CheckStorageHolds ==
  ASSUME KInv, LegacyConstants, NEW s \in Sessions, check_storage(s)
  PROVE  HoldTurn(s)
<1> DEFINE mo == sess[s].month
           ts == IF tbl[mo].reg THEN tbl[mo].ptr ELSE 0
<1>0. /\ UNCHANGED <<router, registry, pub, client, expired, lost, orphaned>>
      /\ sess[s].phase = "check"
  BY DEF check_storage, At, Elsewhere
<1>1. sess[s].phase \in Active /\ mo \in Months /\ DOMAIN sess[s] = Fields /\ RouterOK(router')
  BY <1>0, HoldFacts DEF HoldOK, Active, Authenticated
<1> HIDE DEF ts
<1>2. ASSUME NEW found, Step(s, Received(s, found, TRUE, ts)), tbl' = Purged(mo, found)
      PROVE  HoldTurn(s)
  <2> DEFINE q == Received(s, found, TRUE, ts)
             del == {x \in found : x[1] = 0 /\ x[2] \in expired}
  <2>1. /\ DOMAIN q = Fields /\ q.direct = sess[s].direct /\ q.queue = sess[s].queue
        /\ q.node = sess[s].node /\ q.month = mo /\ q.phase \in Authenticated \ {"delete"}
    BY ReceivedHolds
  <2>2. Step(s, q) /\ tbl' = [tbl EXCEPT ![mo].rows = @ \ del]
    BY <1>2 DEF Purged
  <2>3. \A x \in del : x[2] \in expired
    OBVIOUS
  <2> HIDE DEF q, del
  <2>4. Rowed(tbl) \subseteq Rowed(tbl') \cup expired
    BY <2>2, <2>3, RowsGone
  <2>5. Settled \subseteq Settled'
    BY <1>0, <2>4 DEF Settled
  <2>6. q.phase \in Active
    BY <2>1 DEF Active
  <2> QED BY <1>0, <1>1, <2>1, <2>2, <2>5, <2>6, GoesOn
<1>3. ASSUME Step(s, [sess[s] EXCEPT !.phase = "fetch", !.highest = ts]), UNCHANGED tbl
      PROVE  HoldTurn(s)
  <2> DEFINE r == [sess[s] EXCEPT !.phase = "fetch", !.highest = ts]
  <2>1. /\ DOMAIN r = Fields /\ r.direct = sess[s].direct /\ r.queue = sess[s].queue
        /\ r.node = sess[s].node /\ r.month = mo /\ r.phase = "fetch"
    BY <1>1 DEF Fields
  <2>2. Step(s, r)
    BY <1>3
  <2> HIDE DEF r
  <2>3. Settled' = Settled
    BY <1>0, <1>3 DEF Settled
  <2>4. r.phase \in Active
    BY <2>1 DEF Active, Authenticated
  <2> QED BY <1>0, <1>1, <2>1, <2>2, <2>3, <2>4, GoesOn
<1>4. \/ \E found : Step(s, Received(s, found, TRUE, ts)) /\ tbl' = Purged(mo, found)
      \/ Step(s, [sess[s] EXCEPT !.phase = "fetch", !.highest = ts]) /\ UNCHANGED tbl
  BY DEF check_storage, ts
<1> QED BY <1>2, <1>3, <1>4

LEMMA FetchHolds ==
  ASSUME KInv, LegacyConstants, NEW s \in Sessions, fetch_timestamp_messages(s)
  PROVE  HoldTurn(s)
<1>0. /\ UNCHANGED <<router, registry, pub, client>> /\ sess[s].phase \in {"check", "fetch"}
      /\ Settled' = Settled
  BY DEF fetch_timestamp_messages, At, Elsewhere, Settled
<1>1. PICK rows, ts : Step(s, Received(s, rows, FALSE, ts))
  BY DEF fetch_timestamp_messages
<1>2. sess[s].phase \in Active /\ sess[s].month \in Months /\ RouterOK(router')
  BY <1>0, HoldFacts DEF HoldOK, Active, Authenticated
<1> DEFINE q == Received(s, rows, FALSE, ts)
<1>3. /\ DOMAIN q = Fields /\ q.direct = sess[s].direct /\ q.queue = sess[s].queue
      /\ q.node = sess[s].node /\ q.month = sess[s].month /\ q.phase \in Authenticated \ {"delete"}
  BY ReceivedHolds
<1>4. Step(s, q)
  BY <1>1
<1> HIDE DEF q
<1>5. q.phase \in Active
  BY <1>3 DEF Active
<1> QED BY <1>0, <1>2, <1>3, <1>4, <1>5, GoesOn

\* Steps after which the session only determines what is next.
LEMMA AnswerHolds ==
  ASSUME KInv, LegacyConstants, NEW s \in Sessions,
         Send(s) \/ RegisterBadKey(s) \/ RegisterChannel(s) \/ unregister_channel_id(s)
  PROVE  HoldTurn(s)
<1>0. /\ UNCHANGED <<router, registry, pub, expired, lost, orphaned>>
      /\ sess[s].phase \in {"send", "input", "savechan", "unreg"}
  BY DEF Send, RegisterBadKey, RegisterChannel, unregister_channel_id, Input, At, Elsewhere
<1>1. client'.acked = client.acked
  <2>1. \/ client' = client \/ (\E x : client' = [client EXCEPT !.got = @ \cup x])
        \/ (\E x : client' = [client EXCEPT !.chans = @ \cup x])
    BY DEF Send, RegisterBadKey, RegisterChannel, unregister_channel_id
  <2> QED BY <2>1, HoldFacts
<1>2. Rowed(tbl') = Rowed(tbl)
  <2> DEFINE mo == sess[s].month
             f == tbl[mo].chids \cup sess[s].chids
             g == tbl[mo].chids \ sess[s].chids
  <2>1. \/ tbl' = tbl
        \/ tbl' = [tbl EXCEPT ![mo].chids = f, ![mo].reg = TRUE]
        \/ tbl' = [tbl EXCEPT ![mo].chids = g, ![mo].reg = TRUE]
    BY DEF Send, RegisterBadKey, RegisterChannel, unregister_channel_id
  <2> HIDE DEF mo, f, g
  <2>2. CASE tbl' = [tbl EXCEPT ![mo].chids = f, ![mo].reg = TRUE]
    BY <2>2, RowsStay
  <2>3. CASE tbl' = [tbl EXCEPT ![mo].chids = g, ![mo].reg = TRUE]
    BY <2>3, RowsStay
  <2> QED BY <2>1, <2>2, <2>3
<1>3. Settled' = Settled
  BY <1>0, <1>1, <1>2 DEF Settled
<1>4. PICK r : /\ \/ r = [sess[s] EXCEPT !.batch = {}]
                  \/ r = [sess[s] EXCEPT !.deferred = FALSE]
                  \/ r = [sess[s] EXCEPT !.deferred = FALSE, !.chids = {}]
                  \/ r = [sess[s] EXCEPT !.chids = {}]
               /\ Step(s, AfterSend(r))
  BY DEF Send, RegisterBadKey, RegisterChannel, unregister_channel_id
<1>5. /\ DOMAIN r = Fields /\ r.direct = sess[s].direct /\ r.queue = sess[s].queue
      /\ r.node = sess[s].node /\ r.month = sess[s].month
  BY <1>4, HoldFacts DEF Fields
<1>6. sess[s].phase \in Active /\ sess[s].month \in Months /\ RouterOK(router')
  BY <1>0, HoldFacts DEF HoldOK, Active, Authenticated
<1> QED BY <1>0, <1>1, <1>3, <1>4, <1>5, <1>6, GoesOnAfter

LEMMA IncrementHolds ==
  ASSUME KInv, LegacyConstants, NEW s \in Sessions, increment_storage(s)
  PROVE  HoldTurn(s)
<1> DEFINE mo == sess[s].month
           k == sess[s].highest
           r == [sess[s] EXCEPT !.increment = FALSE]
<1>0. /\ UNCHANGED <<router, registry, pub, client, expired, lost, orphaned>>
      /\ sess[s].phase = "increment"
  BY DEF increment_storage, At, Elsewhere
<1>1. sess[s].phase \in Active /\ mo \in Months /\ RouterOK(router')
  BY <1>0, HoldFacts DEF HoldOK, Active, Authenticated
<1>2. CASE k = 0
  <2>1. Step(s, [sess[s] EXCEPT !.phase = "ending"]) /\ Settled' = Settled
    BY <1>0, <1>2 DEF increment_storage, Settled
  <2> QED BY <1>0, <1>1, <2>1, ActivePhase DEF Active
<1>3. CASE k # 0
  <2>1. tbl' = [tbl EXCEPT ![mo].ptr = k, ![mo].reg = TRUE] /\ Step(s, DetermineAck(r))
    BY <1>3 DEF increment_storage
  <2>2. /\ DOMAIN r = Fields /\ r.direct = sess[s].direct /\ r.queue = sess[s].queue
        /\ r.node = sess[s].node /\ r.month = mo
    BY HoldFacts DEF Fields
  <2> HIDE DEF r, k
  <2>3. Rowed(tbl') = Rowed(tbl)
    BY <2>1, RowsStay
  <2>4. Settled' = Settled
    BY <1>0, <2>3 DEF Settled
  <2> QED BY <1>0, <1>1, <2>1, <2>2, <2>4, GoesOnAfter
<1> QED BY <1>2, <1>3

LEMMA MigrateHolds ==
  ASSUME KInv, LegacyConstants, NEW s \in Sessions, all_channels(s) \/ save_channels(s)
  PROVE  HoldTurn(s)
<1>0. /\ UNCHANGED <<router, registry, pub, client, expired, lost, orphaned>>
      /\ sess[s].phase \in {"channels", "copy"}
  BY DEF all_channels, save_channels, At, Elsewhere
<1>1. sess[s].phase \in Active /\ sess[s].month \in Months /\ RouterOK(router')
  BY <1>0, HoldFacts DEF HoldOK, Active, Authenticated
<1>2. PICK ch, p : /\ p \in {"month", "copy"}
                   /\ \/ Step(s, [sess[s] EXCEPT !.chids = ch, !.phase = p])
                      \/ Step(s, [sess[s] EXCEPT !.phase = p, !.chids = ch])
  BY DEF all_channels, save_channels
<1> DEFINE r == [sess[s] EXCEPT !.chids = ch, !.phase = p]
           q == [sess[s] EXCEPT !.phase = p, !.chids = ch]
<1>3. /\ DOMAIN r = Fields /\ r.direct = sess[s].direct /\ r.queue = sess[s].queue
      /\ r.node = sess[s].node /\ r.month = sess[s].month /\ r.phase = p
  BY HoldFacts DEF Fields
<1>4. /\ DOMAIN q = Fields /\ q.direct = sess[s].direct /\ q.queue = sess[s].queue
      /\ q.node = sess[s].node /\ q.month = sess[s].month /\ q.phase = p
  BY HoldFacts DEF Fields
<1>5. Step(s, r) \/ Step(s, q)
  BY <1>2
<1> HIDE DEF r, q
<1>6. Rowed(tbl') = Rowed(tbl)
  <2> DEFINE f == tbl[CurrentMonth].chids \cup sess[s].chids
  <2>1. tbl' = tbl \/ tbl' = [tbl EXCEPT ![CurrentMonth].chids = f, ![CurrentMonth].reg = TRUE]
    BY DEF all_channels, save_channels
  <2> HIDE DEF f
  <2>2. CASE tbl' = [tbl EXCEPT ![CurrentMonth].chids = f, ![CurrentMonth].reg = TRUE]
    BY <2>2, RowsStay
  <2> QED BY <2>1, <2>2
<1>7. Settled' = Settled
  BY <1>0, <1>6 DEF Settled
<1>8. p \in Active /\ p # "delete"
  BY <1>2 DEF Active, Authenticated
<1>9. CASE Step(s, r)
  BY <1>0, <1>1, <1>3, <1>7, <1>8, <1>9, GoesOn
<1>10. CASE Step(s, q)
  BY <1>0, <1>1, <1>4, <1>7, <1>8, <1>10, GoesOn
<1> QED BY <1>5, <1>9, <1>10

LEMMA UpdateMonthHolds ==
  ASSUME KInv, LegacyConstants, NEW s \in Sessions, update_user_message_month(s)
  PROVE  HoldTurn(s)
<1> DEFINE r == [sess[s] EXCEPT !.month = CurrentMonth, !.rotate = FALSE]
<1>0. /\ UNCHANGED <<registry, pub, client>> /\ sess[s].phase = "month" /\ Settled' = Settled
      /\ Step(s, DetermineAck(r))
  BY DEF update_user_message_month, At, Elsewhere, Settled
<1>1. PICK st : router' = [router EXCEPT !.month = CurrentMonth, !.status = st]
  BY DEF update_user_message_month
<1>2. RouterOK(router')
  BY <1>1, HoldFacts DEF RouterOK, RouterFields
<1>3. /\ DOMAIN r = Fields /\ r.direct = sess[s].direct /\ r.queue = sess[s].queue
      /\ r.node = sess[s].node /\ r.month = CurrentMonth
  BY HoldFacts DEF Fields
<1> HIDE DEF r
<1>4. CurrentMonth \in Months /\ sess[s].phase \in Active
  BY <1>0 DEF LegacyConstants, Months, Active, Authenticated
<1> QED BY <1>0, <1>2, <1>3, <1>4, GoesOnAfter

LEMMA EndingHolds ==
  ASSUME KInv, LegacyConstants, NEW s \in Sessions, drop_uaid(s) \/ CallFails(s) \/ ClientDropped(s)
  PROVE  HoldTurn(s)
<1>1. /\ UNCHANGED <<registry, pub, client>> /\ Settled' = Settled
      /\ Step(s, [sess[s] EXCEPT !.phase = "ending"])
      /\ sess[s].phase \in Active /\ router' \in {router, NoRecord}
  BY DEF drop_uaid, CallFails, ClientDropped, Settled, Elsewhere, Active, Authenticated, At
<1>2. RouterOK(router')
  BY <1>1, HoldFacts, RecordOK
<1> QED BY <1>1, <1>2, ActivePhase DEF Active, Authenticated

LEMMA RegisterHolds ==
  ASSUME KInv, LegacyConstants, NEW s \in Sessions, NEW c, Register(s, c) \/ Unregister(s, c)
  PROVE  HoldTurn(s)
<1>0. /\ UNCHANGED <<router, registry, pub, tbl, expired, lost, orphaned>> /\ sess[s].phase = "input"
      /\ client' = client \/ client' = [client EXCEPT !.chans = @ \ {c}]
  BY DEF Register, Unregister, Input, At, Elsewhere
<1>1. client'.acked = client.acked
  BY <1>0, HoldFacts
<1>2. Settled' = Settled
  BY <1>0, <1>1 DEF Settled
<1>3. PICK p \in {"reguser", "savechan", "unreg"} :
        \/ Step(s, [sess[s] EXCEPT !.chids = {c}, !.phase = p])
        \/ Step(s, [sess[s] EXCEPT !.phase = p, !.chids = {c}])
  BY DEF Register, Unregister
<1> DEFINE r == [sess[s] EXCEPT !.chids = {c}, !.phase = p]
           q == [sess[s] EXCEPT !.phase = p, !.chids = {c}]
<1>4. /\ DOMAIN r = Fields /\ r.direct = sess[s].direct /\ r.queue = sess[s].queue
      /\ r.node = sess[s].node /\ r.month = sess[s].month /\ r.phase = p
  BY HoldFacts DEF Fields
<1>5. /\ DOMAIN q = Fields /\ q.direct = sess[s].direct /\ q.queue = sess[s].queue
      /\ q.node = sess[s].node /\ q.month = sess[s].month /\ q.phase = p
  BY HoldFacts DEF Fields
<1>6. Step(s, r) \/ Step(s, q)
  BY <1>3
<1> HIDE DEF r, q
<1>7. /\ p \in Active /\ p # "delete" /\ sess[s].phase \in Active /\ sess[s].month \in Months
      /\ RouterOK(router')
  BY <1>0, HoldFacts DEF HoldOK, Active, Authenticated
<1>8. CASE Step(s, r)
  BY <1>0, <1>1, <1>2, <1>4, <1>7, <1>8, GoesOn
<1>9. CASE Step(s, q)
  BY <1>0, <1>1, <1>2, <1>5, <1>7, <1>9, GoesOn
<1> QED BY <1>6, <1>8, <1>9

LEMMA DeferredUserHolds ==
  ASSUME KInv, LegacyConstants, NEW s \in Sessions, RegisterDeferredUser(s)
  PROVE  HoldTurn(s)
<1>0. /\ UNCHANGED <<registry, pub, client>> /\ sess[s].phase = "reguser" /\ Settled' = Settled
      /\ router' \in {router, RecordOf(sess[s])}
      /\ \/ Step(s, [sess[s] EXCEPT !.phase = "savechan"])
         \/ Step(s, [sess[s] EXCEPT !.phase = "ending"])
  BY DEF RegisterDeferredUser, At, Settled, Elsewhere
<1>1. RouterOK(router')
  BY <1>0, HoldFacts, RecordOK
<1>2. sess[s].phase \in Active /\ "savechan" \in Active /\ "ending" \in Active
  BY <1>0 DEF Active, Authenticated
<1>3. CASE Step(s, [sess[s] EXCEPT !.phase = "savechan"])
  BY <1>0, <1>1, <1>2, <1>3, ActivePhase
<1>4. CASE Step(s, [sess[s] EXCEPT !.phase = "ending"])
  BY <1>0, <1>1, <1>2, <1>4, ActivePhase
<1> QED BY <1>0, <1>3, <1>4

LEMMA DeleteHolds ==
  ASSUME KInv, LegacyConstants, NEW s \in Sessions, delete_message(s)
  PROVE  HoldTurn(s)
<1> DEFINE mo == sess[s].month
           del == sess[s].topics
           r == [sess[s] EXCEPT !.topics = {}]
<1>0. /\ UNCHANGED <<router, registry, pub, client, expired, lost, orphaned>>
      /\ sess[s].phase = "delete"
      /\ tbl' = [tbl EXCEPT ![mo].rows = @ \ del] /\ Step(s, DetermineAck(r))
  BY DEF delete_message, At, Elsewhere
<1>1. /\ sess[s].phase \in Active /\ mo \in Months /\ RouterOK(router')
      /\ \A x \in del : x[2] \in client.acked
  BY <1>0, HoldFacts DEF HoldOK, Active, Authenticated
<1>2. /\ DOMAIN r = Fields /\ r.direct = sess[s].direct /\ r.queue = sess[s].queue
      /\ r.node = sess[s].node /\ r.month = mo
  BY HoldFacts DEF Fields
<1> HIDE DEF r, del
<1>3. Rowed(tbl) \subseteq Rowed(tbl') \cup client.acked
  BY <1>0, <1>1, RowsGone
<1>4. Settled \subseteq Settled'
  BY <1>0, <1>3 DEF Settled
<1> QED BY <1>0, <1>1, <1>2, <1>4, GoesOnAfter

\* The notification at the head of a channel and the rest of it.
LEMMA HeadTail ==
  ASSUME NEW z \in Seq(Notifs), z # <<>>
  PROVE  /\ Head(z) \in Notifs /\ Tail(z) \in Seq(Notifs)
         /\ ToSet(z) \subseteq {Head(z)} \cup ToSet(Tail(z))
<1> DEFINE N == Notifs
<1>0. z \in Seq(N)
  OBVIOUS
<1> HIDE DEF N
<1>1. /\ Head(z) \in N /\ Tail(z) \in Seq(N) /\ Len(z) \in Nat \ {0} /\ Len(Tail(z)) = Len(z) - 1
      /\ DOMAIN z = 1..Len(z) /\ DOMAIN Tail(z) = 1..Len(Tail(z)) /\ Head(z) = z[1]
      /\ \A i \in 1..(Len(z) - 1) : Tail(z)[i] = z[i + 1]
  BY <1>0
<1>2. ASSUME NEW i \in 1..Len(z), i # 1
      PROVE  z[i] \in ToSet(Tail(z))
  <2>1. i - 1 \in 1..(Len(z) - 1) /\ (i - 1) + 1 = i
    BY <1>1, <1>2
  <2>2. z[i] = Tail(z)[i - 1] /\ i - 1 \in DOMAIN Tail(z)
    BY <1>1, <2>1
  <2> QED BY <2>2 DEF ToSet
<1>3. ToSet(z) \subseteq {Head(z)} \cup ToSet(Tail(z))
  BY <1>1, <1>2 DEF ToSet
<1> QED BY <1>1, <1>3 DEF N

LEMMA OnNotifHolds ==
  ASSUME KInv, LegacyConstants, NEW s \in Sessions, OnNotif(s)
  PROVE  HoldTurn(s)
<1> DEFINE z == sess[s].queue
           y == Tail(z)
           x == Head(z)
           r == [sess[s] EXCEPT !.queue = y]
           d == r.direct \cup ({x[2]} \ ZeroTtl)
<1>0. /\ UNCHANGED <<router, registry, pub, client>> /\ sess[s].phase = "input" /\ Settled' = Settled
      /\ z # <<>>
      /\ \/ x = Disconnect /\ Step(s, [r EXCEPT !.phase = "ending"])
         \/ /\ x = CheckStorage
            /\ Step(s, DetermineAck([r EXCEPT !.includeTopic = TRUE, !.check = TRUE]))
         \/ /\ x # CheckStorage /\ x # Disconnect
            /\ Step(s, [r EXCEPT !.phase = "send", !.batch = {x[2]}, !.direct = d])
  BY DEF OnNotif, At, Settled, Elsewhere
<1>1. /\ sess[s].phase \in Active /\ DOMAIN sess[s] = Fields /\ RouterOK(router') /\ z \in Seq(Notifs)
      /\ sess[s].month \in Months /\ sess[s].node \in Nodes /\ sess[s].direct \subseteq Messages
  BY <1>0, HoldFacts DEF HoldOK, Active, Authenticated
<1>2. x \in Notifs /\ y \in Seq(Notifs) /\ ToSet(z) \subseteq {x} \cup ToSet(y)
  BY <1>0, <1>1, HeadTail
<1>3. /\ DOMAIN r = Fields /\ r.queue = y /\ r.direct = sess[s].direct /\ r.node = sess[s].node
      /\ r.month = sess[s].month
  BY <1>1 DEF Fields
<1> HIDE DEF y, x, r
<1>4. Has(sess[s]) = sess[s].direct \cup {m \in Messages : Notification(m) \in ToSet(z)}
  BY <1>0 DEF Has, Holds
<1> HIDE DEF z
<1>5. \A m \in Messages : Notification(m) # Disconnect /\ Notification(m) # CheckStorage
  <2>1. \A m \in Messages : Notification(m)[1] = "notification"
    BY DEF Notification
  <2>2. Disconnect[1] = "disconnect" /\ CheckStorage[1] = "check_storage"
    BY DEF Disconnect, CheckStorage
  <2> QED BY <2>1, <2>2
<1>6. ASSUME NEW q, Step(s, q), DOMAIN q = Fields, q.queue = y, q.node = sess[s].node,
             q.month = sess[s].month, q.direct \subseteq Messages, q.phase \in Active \ {"delete"},
             Has(sess[s]) \subseteq Has(q) \cup ZeroTtl
      PROVE  HoldTurn(s)
  <2>1. q.phase \in Phases /\ q.phase \notin Cold \cup {"store", "idle"}
    BY <1>6 DEF Active, Phases, Cold, Ended, Authenticated, Unauthenticated
  <2>2. HoldOK(q, client'.acked)
    BY <1>1, <1>2, <1>6, <2>1 DEF HoldOK
  <2>3. ZeroTtl \subseteq Settled'
    BY <1>0 DEF Settled
  <2>4. Has(sess[s]) \subseteq Has(q) \cup Settled'
    BY <1>6, <2>3
  <2> QED BY <1>0, <1>1, <1>6, <2>2, <2>4, HoldStep DEF Entered
<1>7. ASSUME NEW q, q.phase \in Active, q.queue = y, sess[s].direct \subseteq q.direct,
             \A m \in Messages : x = Notification(m) => m \in q.direct \cup ZeroTtl
      PROVE  Has(sess[s]) \subseteq Has(q) \cup ZeroTtl
  <2>1. q.phase # "done"
    BY <1>7 DEF Active, Authenticated
  <2> QED BY <1>2, <1>4, <1>7, <2>1 DEF Has, Holds
<1>8. CASE x = Disconnect /\ Step(s, [r EXCEPT !.phase = "ending"])
  <2> DEFINE q == [r EXCEPT !.phase = "ending"]
  <2>1. /\ DOMAIN q = Fields /\ q.queue = y /\ q.direct = sess[s].direct /\ q.node = sess[s].node
        /\ q.month = sess[s].month /\ q.phase = "ending"
    BY <1>3 DEF Fields
  <2>2. Step(s, q)
    BY <1>8
  <2> HIDE DEF q
  <2>3. q.phase \in Active \ {"delete"}
    BY <2>1 DEF Active
  <2>4. Has(sess[s]) \subseteq Has(q) \cup ZeroTtl
    BY <1>5, <1>7, <1>8, <2>1, <2>3
  <2> QED BY <1>1, <1>6, <2>1, <2>2, <2>3, <2>4
<1>9. CASE /\ x = CheckStorage
           /\ Step(s, DetermineAck([r EXCEPT !.includeTopic = TRUE, !.check = TRUE]))
  <2> DEFINE r2 == [r EXCEPT !.includeTopic = TRUE, !.check = TRUE]
             q == DetermineAck(r2)
  <2>1. /\ DOMAIN r2 = Fields /\ r2.queue = y /\ r2.direct = sess[s].direct
        /\ r2.node = sess[s].node /\ r2.month = sess[s].month
    BY <1>3 DEF Fields
  <2>2. Step(s, q)
    BY <1>9
  <2> HIDE DEF r2
  <2>3. /\ DOMAIN q = Fields /\ q.direct = r2.direct /\ q.queue = r2.queue /\ q.node = r2.node
        /\ q.month = r2.month /\ q.phase \in Authenticated \ {"delete"}
    BY <2>1, AckHolds
  <2> HIDE DEF q
  <2>4. q.phase \in Active \ {"delete"}
    BY <2>3 DEF Active
  <2>5. Has(sess[s]) \subseteq Has(q) \cup ZeroTtl
    BY <1>5, <1>7, <1>9, <2>1, <2>3, <2>4
  <2> QED BY <1>1, <1>6, <2>1, <2>2, <2>3, <2>4, <2>5
<1>10. CASE /\ x # CheckStorage /\ x # Disconnect
            /\ Step(s, [r EXCEPT !.phase = "send", !.batch = {x[2]}, !.direct = d])
  <2>1. PICK m0 \in Messages : x = Notification(m0)
    BY <1>2, <1>10 DEF Notifs
  <2>2. x[2] = m0 /\ \A m \in Messages : x = Notification(m) => m = m0
    <3>1. \A m \in Messages : Notification(m)[2] = m
      BY DEF Notification
    <3> QED BY <2>1, <3>1
  <2>3. d = sess[s].direct \cup ({m0} \ ZeroTtl)
    BY <1>3, <2>2
  <2> HIDE DEF d
  <2> DEFINE q == [r EXCEPT !.phase = "send", !.batch = {x[2]}, !.direct = d]
  <2>4. /\ DOMAIN q = Fields /\ q.queue = y /\ q.direct = d /\ q.node = sess[s].node
        /\ q.month = sess[s].month /\ q.phase = "send"
    BY <1>3 DEF Fields
  <2>5. Step(s, q)
    BY <1>10
  <2> HIDE DEF q
  <2>6. q.phase \in Active \ {"delete"} /\ q.direct \subseteq Messages
    BY <1>1, <2>3, <2>4 DEF Active, Authenticated
  <2>7. Has(sess[s]) \subseteq Has(q) \cup ZeroTtl
    BY <1>7, <2>2, <2>3, <2>4, <2>6
  <2> QED BY <1>6, <2>4, <2>5, <2>6, <2>7
<1> QED BY <1>0, <1>8, <1>9, <1>10

LEMMA AckedHolds ==
  ASSUME KInv, LegacyConstants, NEW s \in Sessions, Ack(s)
  PROVE  HoldTurn(s)
<1>0. /\ UNCHANGED <<router, registry, pub, tbl, expired, lost, orphaned>> /\ sess[s].phase = "input"
  BY DEF Ack, Input, At, Elsewhere
<1>1. PICK acked, rows, topics :
        /\ client' = [client EXCEPT !.acked = @ \cup acked]
        /\ \A x \in topics : x[2] \in acked
        /\ LET r2 == [sess[s] EXCEPT !.direct = @ \ acked, !.stored = @ \ rows, !.topics = topics]
           IN  Step(s, DetermineAck(r2)) \/ Step(s, [r2 EXCEPT !.phase = "delete"])
  <2>1. PICK acked \in SUBSET (sess[s].direct \cup {x[2] : x \in sess[s].stored}) :
          LET rows == {x \in sess[s].stored : x[2] \in acked \ sess[s].direct}
              topics == {x \in rows : x[1] = 0}
              r2 == [sess[s] EXCEPT !.direct = @ \ acked, !.stored = @ \ rows, !.topics = topics]
          IN  /\ Step(s, IF topics = {} THEN DetermineAck(r2) ELSE [r2 EXCEPT !.phase = "delete"])
              /\ client' = [client EXCEPT !.acked = @ \cup acked]
    BY DEF Ack
  <2> DEFINE rows == {x \in sess[s].stored : x[2] \in acked \ sess[s].direct}
             topics == {x \in rows : x[1] = 0}
             r2 == [sess[s] EXCEPT !.direct = @ \ acked, !.stored = @ \ rows, !.topics = topics]
  <2>2. \A x \in topics : x[2] \in acked
    OBVIOUS
  <2>3. Step(s, DetermineAck(r2)) \/ Step(s, [r2 EXCEPT !.phase = "delete"])
    BY <2>1
  <2>4. client' = [client EXCEPT !.acked = @ \cup acked]
    BY <2>1
  <2> HIDE DEF rows, topics
  <2> QED BY <2>2, <2>3, <2>4
<1> DEFINE dd == sess[s].direct \ acked
           ss == sess[s].stored \ rows
           r == [sess[s] EXCEPT !.direct = dd, !.stored = ss, !.topics = topics]
           q == [r EXCEPT !.phase = "delete"]
           a == DetermineAck(r)
<1>2. Step(s, a) \/ Step(s, q)
  BY <1>1
<1>3. /\ sess[s].phase \in Active /\ DOMAIN sess[s] = Fields /\ RouterOK(router')
      /\ sess[s].queue \in Seq(Notifs)
      /\ sess[s].month \in Months /\ sess[s].node \in Nodes /\ sess[s].direct \subseteq Messages
  BY <1>0, HoldFacts DEF HoldOK, Active, Authenticated
<1> HIDE DEF ss, dd
<1>4. /\ DOMAIN r = Fields /\ r.queue = sess[s].queue /\ r.direct = dd /\ r.topics = topics
      /\ r.node = sess[s].node /\ r.month = sess[s].month
  BY <1>3 DEF Fields
<1> HIDE DEF r
<1>5. /\ DOMAIN q = Fields /\ q.queue = sess[s].queue /\ q.direct = dd /\ q.topics = topics
      /\ q.node = sess[s].node /\ q.month = sess[s].month /\ q.phase = "delete"
  BY <1>4 DEF Fields
<1>6. /\ DOMAIN a = Fields /\ a.direct = dd /\ a.queue = sess[s].queue /\ a.node = sess[s].node
      /\ a.month = sess[s].month /\ a.phase \in Authenticated \ {"delete"}
  BY <1>4, AckHolds
<1> HIDE DEF q, a
<1>7. client'.acked = client.acked \cup acked
  BY <1>1, HoldFacts
<1>8. Settled \subseteq Settled' /\ acked \subseteq Settled'
  BY <1>0, <1>7 DEF Settled
<1>9. ASSUME NEW p, Step(s, p), DOMAIN p = Fields, p.direct = dd, p.queue = sess[s].queue,
             p.node = sess[s].node, p.month = sess[s].month, p.phase \in Authenticated,
             p.phase = "delete" => p.topics = topics
      PROVE  HoldTurn(s)
  <2>1. p.phase \in Phases /\ p.phase \notin Cold \cup {"store", "idle", "done"} /\ p.phase \in Active
    BY <1>9 DEF Active, Phases, Cold, Authenticated, Unauthenticated
  <2>2. HoldOK(p, client'.acked)
    BY <1>1, <1>3, <1>7, <1>9, <2>1 DEF HoldOK, dd
  <2>3. Has(sess[s]) \subseteq Has(p) \cup acked
    BY <1>0, <1>9, <2>1 DEF Has, Holds, dd
  <2>4. Has(sess[s]) \subseteq Has(p) \cup Settled'
    BY <1>8, <2>3
  <2> QED BY <1>0, <1>3, <1>7, <1>8, <1>9, <2>1, <2>2, <2>4, HoldStep DEF Entered
<1> QED BY <1>2, <1>5, <1>6, <1>9 DEF Authenticated

\* A session that ends keeps what it holds for store_messages, unless it was replaced.
LEMMA DisconnectHolds ==
  ASSUME KInv, LegacyConstants, NEW s \in Sessions, RegistryDisconnect(s)
  PROVE  HoldTurn(s)
<1> DEFINE kept == Holds(sess[s])
           n == sess[s].node
           After(d, p) == [sess[s] EXCEPT !.direct = d, !.queue = <<>>, !.phase = p]
<1>0. /\ UNCHANGED <<router, pub, client, tbl, expired, lost>> /\ sess[s].phase = "ending"
      /\ \/ /\ registry' = [registry EXCEPT ![n] = NoSession] /\ orphaned' = orphaned
            /\ Step(s, After(kept, IF kept = {} THEN "done" ELSE "store"))
         \/ /\ registry[n] # s /\ registry' = registry /\ orphaned' = orphaned \cup kept
            /\ Step(s, After({}, "done"))
  BY DEF RegistryDisconnect, At, Holds, Queued
<1>1. /\ n \in Nodes /\ sess[s].month \in Months /\ DOMAIN sess[s] = Fields
      /\ kept \subseteq Messages /\ DOMAIN registry = Nodes /\ s # NoSession
      /\ \A o \in Nodes : registry[o] = s => o = n
  BY <1>0, HoldFacts DEF HoldOK, Active, Holds, RegOK, LegacyConstants
<1>2. Has(sess[s]) = kept
  BY <1>0 DEF Has
<1> HIDE DEF kept, n, After
<1>3. ASSUME NEW d, NEW p \in {"done", "store"},
             Step(s, After(d, p)), d \subseteq Messages, Settled \subseteq Settled',
             kept \subseteq Settled' \/ (kept = d /\ (p = "done" => d = {})),
             DOMAIN registry' = Nodes, registry'[n] # s,
             \A o \in Nodes : registry'[o] \in {registry[o], NoSession}
      PROVE  HoldTurn(s)
  <2> DEFINE none == <<>>
             r == [sess[s] EXCEPT !.direct = d, !.queue = none, !.phase = p]
  <2> HIDE DEF none
  <2>1. /\ DOMAIN r = Fields /\ r.direct = d /\ r.queue = none /\ r.phase = p
        /\ r.node = n /\ r.month = sess[s].month
    BY <1>1 DEF Fields, n
  <2>2. Step(s, r)
    BY <1>3 DEF none, After
  <2> HIDE DEF r
  <2>3. DOMAIN sess' = Sessions /\ sess'[s] = r /\ \A q \in Sessions \ {s} : sess'[q] = sess[q]
    BY <2>2, HoldFacts DEF Step
  <2>4. none \in Seq(Notifs) /\ p \in Phases /\ p \notin Cold \cup Active
    BY <1>3 DEF Phases, Ended, Cold, Active, Authenticated, Unauthenticated, none
  <2>5. HoldOK(r, client'.acked)
    BY <1>1, <1>3, <2>1, <2>4 DEF HoldOK, none
  <2>6. Has(sess[s]) \subseteq Has(r) \cup Settled'
    BY <1>2, <1>3, <2>1 DEF Has, Holds
  <2>7. \A q \in Sessions \ {s} : Longer(sess'[q], sess[q])
    BY <2>3, LongerItself, HoldFacts
  <2>8. \A o \in Nodes : registry'[o] # s
    BY <1>1, <1>3
  <2> QED BY <1>0, <1>3, <2>3, <2>5, <2>6, <2>7, <2>8, HoldFacts DEF HoldTurn
<1>4. CASE /\ registry' = [registry EXCEPT ![n] = NoSession] /\ orphaned' = orphaned
           /\ Step(s, After(kept, IF kept = {} THEN "done" ELSE "store"))
  <2>1. Settled' = Settled
    BY <1>0, <1>4 DEF Settled
  <2>2. /\ DOMAIN registry' = Nodes /\ registry'[n] # s
        /\ \A o \in Nodes : registry'[o] \in {registry[o], NoSession}
    BY <1>1, <1>4
  <2>3. CASE kept = {}
    BY <1>1, <1>3, <1>4, <2>1, <2>2, <2>3
  <2>4. CASE kept # {}
    BY <1>1, <1>3, <1>4, <2>1, <2>2, <2>4
  <2> QED BY <2>3, <2>4
<1>5. CASE /\ registry[n] # s /\ registry' = registry /\ orphaned' = orphaned \cup kept
           /\ Step(s, After({}, "done"))
  <2>1. Settled \subseteq Settled' /\ kept \subseteq Settled'
    BY <1>0, <1>5 DEF Settled
  <2>2. /\ DOMAIN registry' = Nodes /\ registry'[n] # s
        /\ \A o \in Nodes : registry'[o] \in {registry[o], NoSession}
    BY <1>1, <1>5
  <2>3. {} \subseteq Messages
    OBVIOUS
  <2> QED BY <1>3, <1>5, <2>1, <2>2, <2>3
<1> QED BY <1>0, <1>4, <1>5

\* A session whose socket fails ends without what it holds.
LEMMA PingManagerFailsHolds ==
  ASSUME KInv, LegacyConstants, NEW s \in Sessions, PingManagerFails(s)
  PROVE  HoldTurn(s)
<1> DEFINE none == <<>>
           r == [sess[s] EXCEPT !.direct = {}, !.queue = none, !.phase = "done"]
<1>0. /\ UNCHANGED <<router, registry, pub, client, tbl, expired, lost>> /\ Step(s, r)
      /\ orphaned' = orphaned \cup Holds(sess[s])
      /\ sess[s].phase \in (Unauthenticated \ {"idle"}) \cup Authenticated \cup {"ending"}
  BY DEF PingManagerFails, Holds, Queued
<1>1. sess[s].phase \notin {"idle", "done"} /\ DOMAIN sess[s] = Fields /\ RouterOK(router')
  BY <1>0, HoldFacts DEF Unauthenticated, Authenticated
<1>2. none \in Seq(Notifs)
  OBVIOUS
<1> HIDE DEF none
<1>3. /\ DOMAIN r = Fields /\ r.direct = {} /\ r.queue = none /\ r.phase = "done"
      /\ r.node = sess[s].node
  BY <1>1 DEF Fields
<1> HIDE DEF r
<1>4. "done" \in Phases /\ "done" \notin Cold \cup Active
  BY DEF Phases, Ended, Cold, Active, Authenticated, Unauthenticated
<1>5. HoldOK(r, client'.acked)
  BY <1>1, <1>2, <1>3, <1>4, HoldFacts DEF HoldOK
<1>6. Has(sess[s]) \subseteq Settled' /\ Settled \subseteq Settled'
  BY <1>0 DEF Settled, Has
<1>7. r.phase \in Entered
  BY <1>3 DEF Entered
<1> QED BY <1>0, <1>1, <1>3, <1>5, <1>6, <1>7, HoldStep

\* Rows written to a table, some of them over others, which are lost.
LEMMA RowsWritten ==
  ASSUME KInv, NEW mo, NEW ms, ms \subseteq Messages, NEW unwritten, Write(mo, ms, unwritten)
  PROVE  /\ Rowed(tbl) \subseteq Rowed(tbl') \cup lost' /\ lost \cup unwritten \subseteq lost'
         /\ mo \in Months => ms \subseteq Rowed(tbl')
<1> DEFINE new == {<<stamp[m].key, m>> : m \in ms}
<1>1. DOMAIN tbl = Months /\ \A t \in Months : DOMAIN tbl[t] = TableFields
  BY DEF KInv, IInv, TblOK, TableOK
<1>2. PICK over : /\ tbl' = [tbl EXCEPT ![mo].rows = (@ \ over) \cup new]
                  /\ lost' = lost \cup unwritten \cup {x[2] : x \in over}
  BY DEF Write
<1>3. \A m \in ms : <<stamp[m].key, m>> \in new /\ <<stamp[m].key, m>>[2] = m
  OBVIOUS
<1> HIDE DEF new
<1>4. ASSUME NEW t \in Months
      PROVE  tbl[t].rows \ over \subseteq tbl'[t].rows /\ (t = mo => new \subseteq tbl'[t].rows)
  <2>1. CASE t = mo
    <3> DEFINE f == (tbl[t].rows \ over) \cup new
    <3>1. tbl'[t] = [tbl[t] EXCEPT !.rows = f]
      BY <1>1, <1>2, <2>1
    <3> HIDE DEF f
    <3>2. tbl'[t].rows = f
      BY <1>1, <3>1 DEF TableFields
    <3> QED BY <3>2 DEF f
  <2>2. CASE t # mo
    BY <1>1, <1>2, <2>2
  <2> QED BY <2>1, <2>2
<1>5. ASSUME NEW m \in Rowed(tbl)
      PROVE  m \in Rowed(tbl') \cup lost'
  <2>0. PICK t \in Months : \E x \in tbl[t].rows : x[2] = m
    BY DEF Rowed
  <2>1. PICK x \in tbl[t].rows : x[2] = m
    BY <2>0
  <2>2. CASE x \in over
    BY <1>2, <2>1, <2>2
  <2>3. CASE x \notin over
    <3>1. x \in tbl'[t].rows /\ m \in Messages
      BY <1>4, <2>1, <2>3 DEF Rowed
    <3> QED BY <2>1, <3>1 DEF Rowed
  <2> QED BY <2>2, <2>3
<1>6. ASSUME mo \in Months, NEW m \in ms
      PROVE  m \in Rowed(tbl')
  <2>1. <<stamp[m].key, m>> \in tbl'[mo].rows /\ <<stamp[m].key, m>>[2] = m
    BY <1>3, <1>4, <1>6
  <2> QED BY <1>6, <2>1 DEF Rowed
<1> QED BY <1>2, <1>5, <1>6

LEMMA StoreHolds ==
  ASSUME KInv, LegacyConstants, NEW s \in Sessions, store_messages(s)
  PROVE  HoldTurn(s)
<1> DEFINE mo == sess[s].month
<1>0. /\ UNCHANGED <<router, registry, pub, client, expired, orphaned>> /\ sess[s].phase = "store"
  BY DEF store_messages, At
<1>1. PICK done, p :
        /\ done \subseteq sess[s].direct /\ p \in {"reconnect", "done"}
        /\ Write(mo, done, sess[s].direct \ done)
        /\ Step(s, [sess[s] EXCEPT !.direct = {}, !.phase = p])
  BY DEF store_messages
<1>2. /\ mo \in Months /\ sess[s].queue = <<>> /\ sess[s].direct \subseteq Messages
      /\ sess[s].queue \in Seq(Notifs) /\ DOMAIN sess[s] = Fields /\ RouterOK(router')
      /\ sess[s].phase \notin Entered /\ sess[s].node \in Nodes
  BY <1>0, HoldFacts DEF HoldOK, Entered, Active, Authenticated
<1> HIDE DEF mo
<1>3. /\ Rowed(tbl) \subseteq Rowed(tbl') \cup lost' /\ done \subseteq Rowed(tbl')
      /\ lost \cup (sess[s].direct \ done) \subseteq lost'
  BY <1>1, <1>2, RowsWritten
<1>4. Settled \subseteq Settled' /\ sess[s].direct \subseteq Settled'
  BY <1>0, <1>3 DEF Settled
<1>5. Has(sess[s]) \subseteq Settled'
  <2>1. ToSet(<<>>) = {}
    BY DEF ToSet
  <2> QED BY <1>2, <1>4, <2>1 DEF Has, Holds
<1> DEFINE r == [sess[s] EXCEPT !.direct = {}, !.phase = p]
<1>6. /\ DOMAIN r = Fields /\ r.direct = {} /\ r.queue = <<>> /\ r.phase = p
      /\ r.node = sess[s].node
  BY <1>2 DEF Fields
<1>7. Step(s, r)
  BY <1>1
<1> HIDE DEF r
<1>8. p \in Phases /\ p \notin Active \cup {"store", "register", "connect", "delete"}
  BY <1>1 DEF Phases, Ended, Active, Authenticated
<1>9. HoldOK(r, client'.acked)
  BY <1>2, <1>6, <1>8 DEF HoldOK
<1> QED BY <1>0, <1>2, <1>4, <1>5, <1>7, <1>9, HoldStep

LEMMA ReconnectHolds ==
  ASSUME KInv, LegacyConstants, NEW s \in Sessions, CheckReconnect(s)
  PROVE  HoldTurn(s)
<1>0. /\ UNCHANGED <<router, registry, pub, client>> /\ sess[s].phase = "reconnect"
      /\ Settled' = Settled
      /\ \/ /\ router.node # NoNode
            /\ Step(s, [sess[s] EXCEPT !.phase = "notify", !.node = router.node])
         \/ Step(s, [sess[s] EXCEPT !.phase = "done"])
  BY DEF CheckReconnect, Settled, Elsewhere, At
<1>1. /\ sess[s].phase \in Cold /\ sess[s].phase # "idle" /\ "notify" \in Cold
      /\ RouterOK(router') /\ DOMAIN sess[s] = Fields
  BY <1>0, HoldFacts DEF Cold
<1>2. CASE Step(s, [sess[s] EXCEPT !.phase = "done"])
  BY <1>0, <1>1, <1>2, ColdPhase
<1>3. CASE /\ router.node # NoNode
           /\ Step(s, [sess[s] EXCEPT !.phase = "notify", !.node = router.node])
  <2> DEFINE r == [sess[s] EXCEPT !.phase = "notify", !.node = router.node]
  <2>1. /\ DOMAIN r = Fields /\ r.direct = sess[s].direct /\ r.queue = sess[s].queue
        /\ r.phase = "notify" /\ r.node = router.node
    BY <1>1 DEF Fields
  <2>2. Step(s, r)
    BY <1>3
  <2> HIDE DEF r
  <2>3. router.node \in Nodes
    BY <1>3, HoldFacts DEF RouterOK
  <2> QED BY <1>0, <1>1, <2>1, <2>2, <2>3, ColdStep
<1> QED BY <1>0, <1>2, <1>3

LEMMA NotifyHolds ==
  ASSUME KInv, LegacyConstants, NEW s \in Sessions, NotifyReconnected(s)
  PROVE  HoldTurn(s)
<1> DEFINE n == sess[s].node
           f == Push(sess, n, CheckStorage)
           r == [f[s] EXCEPT !.phase = "done"]
<1>0. /\ UNCHANGED <<router, registry, pub, client>> /\ sess[s].phase = "notify"
      /\ Settled' = Settled /\ sess' = [f EXCEPT ![s].phase = "done"]
  BY DEF NotifyReconnected, Settled, Elsewhere, At
<1>1. /\ n \in Nodes /\ CheckStorage \in Notifs /\ HoldOK(sess[s], client.acked)
      /\ sess[s].phase \in Cold \ Entered /\ RouterOK(router') /\ sess[s].direct = {}
      /\ sess[s].queue = <<>>
  BY <1>0, HoldFacts DEF HoldOK, Notifs, Cold, Entered, Active, Authenticated
<1>2. DOMAIN f = Sessions /\ \A q \in Sessions : Longer(f[q], sess[q])
  BY <1>1, PushLonger
<1> HIDE DEF f
<1>3. Longer(f[s], sess[s]) /\ sess[s].phase \notin Active
  BY <1>1, <1>2 DEF Entered
<1>4. /\ DOMAIN f[s] = Fields /\ f[s].queue = sess[s].queue /\ f[s].direct = sess[s].direct
      /\ f[s].node = n
  BY <1>3 DEF Longer
<1>5. DOMAIN sess' = Sessions /\ sess'[s] = r /\ \A q \in Sessions \ {s} : sess'[q] = f[q]
  BY <1>0, <1>2
<1>6. /\ DOMAIN r = Fields /\ r.queue = sess[s].queue /\ r.direct = sess[s].direct
      /\ r.node = n /\ r.phase = "done"
  BY <1>4 DEF Fields
<1> HIDE DEF r
<1>7. "done" \in Phases /\ "done" \notin Active \cup Cold
  BY DEF Phases, Ended, Active, Cold, Authenticated, Unauthenticated
<1>8. HoldOK(r, client'.acked)
  BY <1>1, <1>6, <1>7 DEF HoldOK
<1>9. Has(sess[s]) = {}
  <2>1. ToSet(<<>>) = {}
    BY DEF ToSet
  <2> QED BY <1>1, <2>1 DEF Has, Holds
<1>10. DOMAIN registry' = Nodes /\ \A o \in Nodes : registry'[o] # s
  <2>1. s # NoSession
    BY DEF LegacyConstants
  <2> QED BY <1>0, <1>1, <2>1, HoldFacts DEF RegOK
<1> QED BY <1>0, <1>1, <1>2, <1>5, <1>8, <1>9, <1>10 DEF HoldTurn

\* A step that is no session's: what is newly taken for direct delivery is held.
LEMMA OutsideHolds ==
  ASSUME KInv, IInv', UNCHANGED <<registry, router, client>>, DOMAIN sess' = Sessions,
         \A q \in Sessions : Longer(sess'[q], sess[q]),
         DOMAIN pub' = Messages, Settled \subseteq Settled', NEW m,
         \A o \in Messages \ {m} : pub'[o] = "direct" => pub[o] = "direct",
         pub'[m] = "direct" => m \in Settled' \/ \E q \in Sessions : m \in Has(sess'[q])
  PROVE  KInv'
<1>1. ASSUME NEW q \in Sessions
      PROVE  HoldOK(sess'[q], client'.acked) /\ Has(sess[q]) \subseteq Has(sess'[q])
  <2>1. HoldOK(sess[q], client.acked) /\ Longer(sess'[q], sess[q]) /\ client.acked \subseteq client'.acked
    BY DEF KInv
  <2> QED BY <2>1, LongerOK
<1>2. RegOK(registry', sess') /\ RouterOK(router')
  BY DEF KInv, RegOK, Longer
<1>3. ASSUME NEW o \in Messages, pub'[o] = "direct"
      PROVE  o \in Settled' \/ \E q \in Sessions : o \in Has(sess'[q])
  <2>1. CASE o = m
    BY <1>3, <2>1
  <2>2. CASE o # m
    <3>1. o \in Settled \/ \E q \in Sessions : o \in Has(sess[q])
      BY <1>3, <2>2 DEF KInv
    <3> QED BY <1>1, <3>1
  <2> QED BY <2>1, <2>2
<1>4. \A q \in Sessions : HoldOK(sess'[q], client'.acked)
  BY <1>1
<1> QED BY <1>2, <1>3, <1>4 DEF KInv

LEMMA DeliveredHolds ==
  ASSUME KInv, IInv', NEW m \in Messages, Delivered(m)
  PROVE  KInv'
<1> DEFINE n == router.node
           w == registry[n]
           x == Notification(m)
<1>0. /\ UNCHANGED <<registry, router, client>> /\ Settled' = Settled /\ n # NoNode
      /\ Connected(n) /\ sess' = Push(sess, n, x) /\ pub' = [pub EXCEPT ![m] = "direct"]
  BY DEF Delivered, Settled
<1>1. n \in Nodes /\ x \in Notifs /\ DOMAIN pub = Messages
  BY <1>0 DEF KInv, RouterOK, Notifs
<1>2. w \in Sessions /\ sess[w].phase \in Active
  BY <1>0, <1>1 DEF KInv, RegOK, Connected, At, Entered
<1>3. /\ DOMAIN sess' = Sessions /\ \A q \in Sessions : Longer(sess'[q], sess[q])
      /\ x \in ToSet(sess'[w].queue)
  BY <1>0, <1>1, PushLonger
<1>4. sess'[w].phase # "done"
  BY <1>2, <1>3 DEF Longer, Active, Authenticated
<1>5. m \in Has(sess'[w])
  BY <1>3, <1>4 DEF Has, Holds
<1>6. DOMAIN pub' = Messages /\ \A o \in Messages \ {m} : pub'[o] = pub[o]
  BY <1>0, <1>1
<1> HIDE DEF n, w, x
<1> QED BY <1>0, <1>2, <1>3, <1>5, <1>6, OutsideHolds

LEMMA StoreMessageHolds ==
  ASSUME KInv, IInv', NEW m \in Messages, StoreMessage(m)
  PROVE  KInv'
<1>0. /\ UNCHANGED <<registry, router, client, sess, expired, orphaned>>
      /\ pub' = [pub EXCEPT ![m] = "stored"] /\ Write(stamp[m].month, {m}, {})
  BY DEF StoreMessage
<1>1. Rowed(tbl) \subseteq Rowed(tbl') \cup lost' /\ lost \subseteq lost'
  BY <1>0, RowsWritten
<1>2. Settled \subseteq Settled'
  BY <1>0, <1>1 DEF Settled
<1>3. DOMAIN sess' = Sessions /\ \A q \in Sessions : Longer(sess'[q], sess[q])
  BY <1>0, HoldFacts, LongerItself DEF KInv, IInv
<1>4. DOMAIN pub' = Messages /\ (\A o \in Messages \ {m} : pub'[o] = pub[o]) /\ pub'[m] # "direct"
  BY <1>0 DEF KInv
<1> QED BY <1>0, <1>2, <1>3, <1>4, OutsideHolds

LEMMA TriggerHolds ==
  ASSUME KInv, IInv', NEW m \in Messages, StampMessage(m) \/ Trigger(m) \/ Expire(m)
  PROVE  KInv'
<1>0. /\ UNCHANGED <<registry, router, client, tbl, lost, orphaned>> /\ expired \subseteq expired'
      /\ pub' = pub \/ \E p \in {"done", "stamped"} : pub' = [pub EXCEPT ![m] = p]
      /\ sess' = sess \/ (router.node # NoNode /\ sess' = Push(sess, router.node, CheckStorage))
  BY DEF StampMessage, Trigger, Expire
<1>1. Settled \subseteq Settled'
  BY <1>0 DEF Settled
<1>2. DOMAIN sess' = Sessions /\ \A q \in Sessions : Longer(sess'[q], sess[q])
  <2>1. CASE sess' = sess
    BY <2>1, HoldFacts, LongerItself DEF KInv, IInv
  <2>2. CASE router.node # NoNode /\ sess' = Push(sess, router.node, CheckStorage)
    <3>1. router.node \in Nodes /\ CheckStorage \in Notifs
      BY <2>2 DEF KInv, RouterOK, Notifs
    <3> QED BY <2>2, <3>1, PushLonger
  <2> QED BY <1>0, <2>1, <2>2
<1>3. DOMAIN pub' = Messages /\ \A o \in Messages : pub'[o] = pub[o] \/ pub'[o] \in {"done", "stamped"}
  BY <1>0 DEF KInv
<1>4. pub'[m] = "direct" => m \in Settled' \/ \E q \in Sessions : m \in Has(sess'[q])
  <2> SUFFICES ASSUME pub'[m] = "direct"
               PROVE  m \in Settled' \/ \E q \in Sessions : m \in Has(sess'[q])
    OBVIOUS
  <2>1. m \in Settled \/ \E q \in Sessions : m \in Has(sess[q])
    BY <1>3 DEF KInv
  <2>2. ASSUME NEW q \in Sessions
        PROVE  Has(sess[q]) \subseteq Has(sess'[q])
    <3>1. HoldOK(sess[q], client.acked) /\ Longer(sess'[q], sess[q])
      BY <1>2 DEF KInv
    <3> QED BY <3>1, LongerOK
  <2> QED BY <1>1, <2>1, <2>2
<1>5. \A o \in Messages \ {m} : pub'[o] = "direct" => pub[o] = "direct"
  BY <1>3
<1> QED BY <1>0, <1>1, <1>2, <1>3, <1>4, <1>5, OutsideHolds

LEMMA InitKInv ==
  ASSUME Init, LegacyConstants
  PROVE  KInv
<1>1. /\ registry = [n \in Nodes |-> NoSession] /\ sess = [s \in Sessions |-> Fresh]
      /\ pub = [m \in Messages |-> "new"]
  BY DEF Init
<1>2. RegOK(registry, sess)
  BY <1>1 DEF RegOK
<1>3. RouterOK(router)
  <2>1. PICK st, mo, old : router = [status |-> st, node |-> NoNode, connectedAt |-> 0,
                                     month |-> mo, old |-> old]
    BY DEF Init
  <2> QED BY <2>1 DEF RouterOK, RouterFields
<1>4. /\ DOMAIN Fresh = Fields /\ Fresh.phase = "idle" /\ Fresh.queue = <<>> /\ Fresh.direct = {}
  BY DEF Fresh, Fields
<1>5. /\ <<>> \in Seq(Notifs) /\ "idle" \in Phases
      /\ "idle" \notin Active \cup {"store", "register", "connect", "delete"}
  BY DEF Phases, Active, Authenticated, Unauthenticated
<1>6. HoldOK(Fresh, client.acked)
  BY <1>4, <1>5 DEF HoldOK
<1>7. \A s \in Sessions : HoldOK(sess[s], client.acked)
  BY <1>1, <1>6
<1> QED BY <1>1, <1>2, <1>3, <1>7, InitIInv DEF KInv

LEMMA NextKInv ==
  ASSUME KInv, LegacyConstants, [Next]_vars
  PROVE  KInv'
<1>0. IInv'
  BY NextIInv DEF KInv, HoldOK
<1>1. ASSUME NEW s \in Sessions, SessionStep(s)
      PROVE  HoldTurn(s)
  BY <1>1, LookupUserHolds, HelloHolds, RegistryConnectHolds, CheckStorageHolds, FetchHolds,
     AnswerHolds, IncrementHolds, MigrateHolds, UpdateMonthHolds, EndingHolds, OnNotifHolds,
     DeleteHolds, DeferredUserHolds, DisconnectHolds, StoreHolds, ReconnectHolds, NotifyHolds
     DEF SessionStep
<1>2. ASSUME NEW s \in Sessions,
             \/ SessionStep(s) \/ Ack(s) \/ RegisterBadKey(s) \/ ClientDropped(s)
             \/ HelloFails(s) \/ CallFails(s) \/ PingManagerFails(s)
             \/ \E n \in Nodes : AwaitHello(s, n)
             \/ \E c \in Channels : Register(s, c) \/ Unregister(s, c)
      PROVE  KInv'
  <2>1. HoldTurn(s)
    BY <1>1, <1>2, AckedHolds, AnswerHolds, EndingHolds, HelloHolds, AwaitHelloHolds, RegisterHolds,
       PingManagerFailsHolds
  <2> QED BY <1>0, <2>1, HoldTurnKeeps
<1>3. CASE UNCHANGED vars
  <2>1. Settled' = Settled /\ UNCHANGED <<sess, registry, router, client, pub>>
    BY <1>3 DEF vars, Settled
  <2> QED BY <1>0, <2>1 DEF KInv
<1>4. ASSUME NEW m \in Messages,
             Delivered(m) \/ StampMessage(m) \/ StoreMessage(m) \/ Trigger(m) \/ Expire(m)
      PROVE  KInv'
  BY <1>0, <1>4, DeliveredHolds, StoreMessageHolds, TriggerHolds
<1> QED BY <1>2, <1>3, <1>4 DEF Next

(* A session that waits for input with nothing unacked has nothing left to   *)
(* check, rotate or drop, and poll_increment_storage never finds             *)
(* unacked_stored_highest unset: for any number of overlapping sessions and  *)
(* whatever calls fail (poll_determine_ack).                                 *)
THEOREM NeverWaitsInVain ==
  ASSUME LegacyConstants
  PROVE  Spec => []NeverStuck
<1>1. Init => KInv
  BY InitKInv
<1>2. KInv /\ [Next]_vars => KInv'
  BY NextKInv
<1>3. KInv => NeverStuck
  BY DEF KInv, IInv, SessOK, FlagsOK, NeverStuck
<1> QED BY <1>1, <1>2, <1>3, PTL DEF Spec

(* The stored pointer has only passed messages that were sent to the user    *)
(* agent, had expired, or were overtaken: when their row was written, or a   *)
(* read was cut off at its limit, a session that relies on its timestamp or  *)
(* the pointer was past their millisecond.  Also when rows are written long  *)
(* after they were given their keys, keys are shared, sessions overlap and   *)
(* calls fail (increment_storage, fetch_timestamp_messages).                 *)
THEOREM PointerIsHonest ==
  ASSUME LegacyConstants
  PROVE  Spec => []PointerHonest
<1>1. Init => KInv
  BY InitKInv
<1>2. KInv /\ [Next]_vars => KInv'
  BY NextKInv
<1>3. KInv => PointerHonest
  BY DEF KInv, IInv, TblOK, TableOK, Passed, Gone, PointerHonest
<1> QED BY <1>1, <1>2, <1>3, PTL DEF Spec

(* A notification accepted for direct delivery is acked, stored, held by a   *)
(* session that has not ended, expired, or gone: with a failed save, under   *)
(* another row of its key, or with a session that ended without saving,      *)
(* because it had been replaced or PingManager::poll failed.  No other step  *)
(* loses it, for any sessions and failures (poll_await_registry_disconnect,  *)
(* store_messages).                                                          *)
THEOREM AcceptedIsKept ==
  ASSUME LegacyConstants
  PROVE  Spec => []AcceptedKept
<1>1. Init => KInv
  BY InitKInv
<1>2. KInv /\ [Next]_vars => KInv'
  BY NextKInv
<1>3. KInv => AcceptedKept
  <2> SUFFICES ASSUME KInv, NEW m \in Messages \ ZeroTtl, pub[m] = "direct"
               PROVE  \/ m \in client.acked \cup expired \cup lost \cup orphaned
                      \/ Stored(m) \/ Held(m)
    BY DEF AcceptedKept
  <2>1. m \in Settled \/ \E s \in Sessions : m \in Has(sess[s])
    BY DEF KInv
  <2>2. CASE m \in Settled
    BY <2>2 DEF Settled, Rowed, Stored
  <2>3. CASE \E s \in Sessions : m \in Has(sess[s])
    BY <2>3 DEF Has, Holds, Held
  <2> QED BY <2>1, <2>2, <2>3
<1> QED BY <1>1, <1>2, <1>3, PTL DEF Spec

-----------------------------------------------------------------------------
(***************************************************************************)
(* The channels of a user whose sessions do not overlap.                   *)
(***************************************************************************)
Free == {"idle", "done"}
Serving == Authenticated \cup {"register", "connect"}
Full(u) == u.status = "full"

(* What a session relies on: it works on the month of the record, only a     *)
(* user without channels is still to be written, and what it is about to do  *)
(* with the channels it read leaves none of the user's out.                  *)
KeepsOK(r, u, T, cl) ==
  /\ r.phase = "lookup" => ~r.deferred
  /\ r.phase \in Authenticated => cl.known
  /\ r.phase \in Serving => (Full(u) => u.month = r.month) /\ (r.deferred => cl.chans = {})
  /\ r.phase = "register" => Full(u)
  /\ r.phase = "reguser" => r.deferred
  /\ r.phase = "unreg" => r.chids \cap cl.chans = {}
  /\ r.phase = "copy" /\ Full(u) => cl.chans \subseteq r.chids
  /\ r.phase = "month" /\ Full(u) => cl.chans \subseteq T[CurrentMonth].chids

UserKept(u, T, cl) ==
  /\ cl.known \in BOOLEAN
  /\ Full(u) => u.month \in Months /\ cl.chans \subseteq T[u.month].chids
  /\ ~cl.known => ~Full(u) /\ cl.chans = {}

JInv ==
  /\ KInv /\ UserKept(router, tbl, client)
  /\ \A s, q \in Sessions : sess[s].phase \in Free \/ sess[q].phase \in Free \/ s = q
  /\ \A s \in Sessions : KeepsOK(sess[s], router, tbl, client)

\* A step of the one session that is not free.
OneTurn(s) ==
  /\ \A q \in Sessions \ {s} : sess[q].phase \in Free /\ sess'[q].phase = sess[q].phase
  /\ UserKept(router', tbl', client')
  /\ KeepsOK(sess'[s], router', tbl', client')

LEMMA FreeKeeps ==
  ASSUME NEW r, NEW u, NEW T, NEW cl, r.phase \in Free \cup {"expire"} \cup Ended
  PROVE  KeepsOK(r, u, T, cl)
BY DEF KeepsOK, Free, Serving, Authenticated, Ended

LEMMA OneTurnKeeps ==
  ASSUME JInv, KInv', NEW s \in Sessions, OneTurn(s)
  PROVE  JInv'
<1>1. \A q \in Sessions \ {s} : sess'[q].phase \in Free
  BY DEF OneTurn
<1>2. \A q \in Sessions : KeepsOK(sess'[q], router', tbl', client')
  BY <1>1, FreeKeeps DEF OneTurn
<1>3. \A p, q \in Sessions : sess'[p].phase \in Free \/ sess'[q].phase \in Free \/ p = q
  BY <1>1
<1> QED BY <1>2, <1>3 DEF OneTurn, JInv

LEMMA OneFacts ==
  ASSUME JInv, NEW s \in Sessions
  PROVE  /\ KInv /\ KeepsOK(sess[s], router, tbl, client) /\ UserKept(router, tbl, client)
         /\ DOMAIN sess[s] = Fields /\ DOMAIN sess = Sessions
         /\ DOMAIN client = {"known", "gone", "chans", "got", "acked"}
         /\ DOMAIN router = RouterFields
         /\ DOMAIN tbl = Months /\ \A mo \in Months : DOMAIN tbl[mo] = TableFields
BY HoldFacts DEF JInv, RouterOK

LEMMA OneStep ==
  ASSUME JInv, NEW s \in Sessions, sess[s].phase \notin Free, NEW r, Step(s, r),
         UserKept(router', tbl', client'), KeepsOK(r, router', tbl', client')
  PROVE  OneTurn(s)
<1>1. sess'[s] = r /\ \A q \in Sessions \ {s} : sess'[q] = sess[q]
  BY OneFacts DEF Step
<1>2. \A q \in Sessions \ {s} : sess[q].phase \in Free
  BY DEF JInv
<1> QED BY <1>1, <1>2 DEF OneTurn

\* The record and the channels stay, whatever happens to the rows.
ChidsKept(T2, T) == \A mo \in Months : T2[mo].chids = T[mo].chids
UserSame ==
  /\ router' = router /\ ChidsKept(tbl', tbl)
  /\ client'.chans = client.chans /\ (client'.known = client.known \/ client'.known = TRUE)

LEMMA SameKept ==
  ASSUME JInv, LegacyConstants, UserSame
  PROVE  /\ UserKept(router', tbl', client')
         /\ \A r : KeepsOK(r, router, tbl, client) => KeepsOK(r, router', tbl', client')
<1>1. UserKept(router, tbl, client)
  BY DEF JInv
<1>2. CurrentMonth \in Months
  BY DEF LegacyConstants, Months
<1>3. UserKept(router', tbl', client')
  BY <1>1 DEF UserKept, UserSame, ChidsKept, Full
<1>4. ASSUME NEW r, KeepsOK(r, router, tbl, client)
      PROVE  KeepsOK(r, router', tbl', client')
  BY <1>2, <1>4 DEF KeepsOK, UserSame, ChidsKept, Full
<1> QED BY <1>3, <1>4

LEMMA SameStep ==
  ASSUME JInv, LegacyConstants, NEW s \in Sessions, sess[s].phase \notin Free, NEW r, Step(s, r),
         UserSame, KeepsOK(r, router, tbl, client)
  PROVE  OneTurn(s)
BY SameKept, OneStep

\* A session goes on to a phase that relies on nothing but its month.
Moving == Authenticated \ {"reguser", "unreg", "copy", "month"}

LEMMA MovingOK ==
  ASSUME NEW q, NEW r, NEW u, NEW T, NEW cl, KeepsOK(q, u, T, cl), q.phase \in Authenticated,
         r.phase \in Moving, r.month = q.month, r.deferred = q.deferred \/ r.deferred = FALSE
  PROVE  KeepsOK(r, u, T, cl)
BY DEF KeepsOK, Moving, Serving, Authenticated

\* What DetermineAck and AfterSend leave alone.
LEMMA AckOne ==
  ASSUME NEW r, DOMAIN r = Fields, NEW r2, r2 = DetermineAck(r) \/ r2 = AfterSend(r)
  PROVE  r2.month = r.month /\ r2.deferred = r.deferred /\ r2.phase \in Moving
<1>1. PICK p \in {"input", "increment", "check", "channels", "drop"} : r2 = [r EXCEPT !.phase = p]
  BY DEF DetermineAck, AfterSend
<1> QED BY <1>1 DEF Fields, Authenticated, Moving

LEMMA MovingStep ==
  ASSUME JInv, LegacyConstants, NEW s \in Sessions, sess[s].phase \in Authenticated, NEW r, Step(s, r),
         UserSame, r.phase \in Moving, r.month = sess[s].month,
         r.deferred = sess[s].deferred \/ r.deferred = FALSE
  PROVE  OneTurn(s)
<1>1. KeepsOK(r, router, tbl, client)
  BY OneFacts, MovingOK
<1>2. sess[s].phase \notin Free
  BY DEF Free, Authenticated
<1> QED BY <1>1, <1>2, SameStep

LEMMA AckStep ==
  ASSUME JInv, LegacyConstants, NEW s \in Sessions, sess[s].phase \in Authenticated, NEW r,
         Step(s, DetermineAck(r)) \/ Step(s, AfterSend(r)), UserSame, DOMAIN r = Fields,
         r.month = sess[s].month, r.deferred = sess[s].deferred \/ r.deferred = FALSE
  PROVE  OneTurn(s)
<1>1. PICK r2 : Step(s, r2) /\ (r2 = DetermineAck(r) \/ r2 = AfterSend(r))
  OBVIOUS
<1>2. r2.month = r.month /\ r2.deferred = r.deferred /\ r2.phase \in Moving
  BY <1>1, AckOne
<1> QED BY <1>1, <1>2, MovingStep

\* The session ends, or is to end.
LEMMA EndStep ==
  ASSUME JInv, NEW s \in Sessions, sess[s].phase \notin Free, NEW r, Step(s, r),
         r.phase \in Free \cup {"expire"} \cup Ended, UserKept(router', tbl', client')
  PROVE  OneTurn(s)
BY FreeKeeps, OneStep

LEMMA PhaseOne ==
  ASSUME JInv, NEW s \in Sessions, NEW p, NEW r, r = [sess[s] EXCEPT !.phase = p]
  PROVE  /\ r.phase = p /\ r.month = sess[s].month /\ r.deferred = sess[s].deferred
         /\ r.chids = sess[s].chids
BY OneFacts DEF Fields

-----------------------------------------------------------------------------
(***************************************************************************)
(* Hello and registration                                                  *)
(***************************************************************************)
LEMMA AwaitHelloOne ==
  ASSUME JInv, LegacyConstants, ~Overlap, NEW s \in Sessions, NEW n \in Nodes, AwaitHello(s, n)
  PROVE  OneTurn(s)
<1> DEFINE p == IF client.known THEN "lookup" ELSE "connect"
           mo == IF client.known THEN 0 ELSE CurrentMonth
           d == ~client.known
           r == [sess[s] EXCEPT !.node = n, !.connectedAt = time + 1, !.phase = p,
                                !.deferred = d, !.month = mo]
<1>1. Step(s, r) /\ UNCHANGED <<router, tbl, client>>
  BY DEF AwaitHello
<1>2. \A q \in Sessions : sess[q].phase \in Free
  BY DEF AwaitHello, Free
<1> HIDE DEF p, mo, d
<1>3. r.phase = p /\ r.deferred = d
  BY OneFacts DEF Fields
<1> HIDE DEF r
<1>4. KeepsOK(r, router, tbl, client)
  <2>1. UserKept(router, tbl, client)
    BY OneFacts
  <2>2. CASE client.known
    <3>1. r.phase = "lookup" /\ ~r.deferred
      BY <1>3, <2>2 DEF p, d
    <3> QED BY <3>1 DEF KeepsOK, Serving, Authenticated
  <2>3. CASE ~client.known
    <3>1. r.phase = "connect" /\ ~Full(router) /\ client.chans = {}
      BY <1>3, <2>1, <2>3 DEF p, UserKept
    <3> QED BY <3>1 DEF KeepsOK, Serving, Authenticated
  <2> QED BY <2>2, <2>3
<1>5. sess'[s] = r /\ \A q \in Sessions \ {s} : sess'[q] = sess[q]
  BY <1>1, OneFacts DEF Step
<1>6. UserKept(router', tbl', client')
  BY <1>1, OneFacts
<1> QED BY <1>1, <1>2, <1>4, <1>5, <1>6 DEF OneTurn

LEMMA LookupUserOne ==
  ASSUME JInv, LegacyConstants, NEW s \in Sessions, lookup_user(s)
  PROVE  OneTurn(s)
<1>0. UNCHANGED <<router, tbl>> /\ sess[s].phase = "lookup" /\ sess[s].phase \notin Free
      /\ UserKept(router, tbl, client)
  BY OneFacts DEF lookup_user, At, Free
<1>1. CASE /\ Step(s, [sess[s] EXCEPT !.phase = "done"])
           /\ client' = [client EXCEPT !.gone = TRUE, !.chans = {}]
  <2>1. client'.chans = {} /\ client'.known = client.known
    BY <1>1, OneFacts
  <2>2. UserKept(router', tbl', client')
    BY <1>0, <2>1 DEF UserKept
  <2>3. [sess[s] EXCEPT !.phase = "done"].phase = "done"
    BY PhaseOne
  <2> QED BY <1>0, <1>1, <2>2, <2>3, EndStep DEF Free
<1>2. CASE Step(s, [sess[s] EXCEPT !.phase = "expire"]) /\ UNCHANGED client
  <2>1. [sess[s] EXCEPT !.phase = "expire"].phase = "expire"
    BY PhaseOne
  <2> QED BY <1>0, <1>2, <2>1, EndStep
<1>3. CASE /\ router.status = "full" /\ UNCHANGED client
           /\ Step(s, [sess[s] EXCEPT !.phase = "register", !.check = TRUE,
                          !.rotate = (router.month # CurrentMonth),
                          !.month = router.month, !.old = router.old])
  <2> DEFINE b == router.month # CurrentMonth
             r == [sess[s] EXCEPT !.phase = "register", !.check = TRUE, !.rotate = b,
                                  !.month = router.month, !.old = router.old]
  <2>1. Step(s, r)
    BY <1>3
  <2> HIDE DEF b
  <2>2. r.phase = "register" /\ r.month = router.month /\ r.deferred = sess[s].deferred
    BY OneFacts DEF Fields
  <2> HIDE DEF r
  <2>3. KeepsOK(sess[s], router, tbl, client)
    BY OneFacts
  <2>4. KeepsOK(r, router, tbl, client)
    BY <1>0, <1>3, <2>2, <2>3 DEF KeepsOK, Full, Authenticated
  <2> QED BY <1>0, <1>3, <2>1, <2>4, OneStep
<1> QED BY <1>1, <1>2, <1>3 DEF lookup_user

\* The record hello and the first registration write is of the month worked on.
LEMMA RecordKept ==
  ASSUME JInv, NEW s \in Sessions, sess[s].month \in Months, client.known = TRUE,
         client.chans \subseteq tbl[sess[s].month].chids
  PROVE  UserKept(RecordOf(sess[s]), tbl, client)
BY DEF RecordOf, UserKept, Full

LEMMA RegisterUserOne ==
  ASSUME JInv, LegacyConstants, NEW s \in Sessions, register_user(s)
  PROVE  OneTurn(s)
<1>0. UNCHANGED <<tbl, client>> /\ sess[s].phase = "register" /\ sess[s].phase \notin Free
      /\ UserKept(router, tbl, client) /\ KeepsOK(sess[s], router, tbl, client)
  BY OneFacts DEF register_user, At, Free
<1>1. CASE router' = RecordOf(sess[s]) /\ Step(s, [sess[s] EXCEPT !.phase = "connect"])
  <2> DEFINE r == [sess[s] EXCEPT !.phase = "connect"]
  <2>1. r.phase = "connect" /\ r.month = sess[s].month /\ r.deferred = sess[s].deferred
    BY PhaseOne
  <2>2. Step(s, r)
    BY <1>1
  <2> HIDE DEF r
  <2>3. /\ Full(router) /\ router.month = sess[s].month /\ client.known = TRUE
        /\ sess[s].deferred => client.chans = {}
    BY <1>0 DEF KeepsOK, UserKept, Serving
  <2>4. UserKept(router', tbl', client')
    BY <1>0, <1>1, <2>3, RecordKept DEF UserKept
  <2>5. KeepsOK(r, router', tbl', client')
    BY <1>0, <1>1, <2>1, <2>3 DEF KeepsOK, RecordOf, Authenticated
  <2> QED BY <1>0, <2>2, <2>4, <2>5, OneStep
<1>2. CASE Step(s, [sess[s] EXCEPT !.phase = "done"]) /\ UNCHANGED router
  <2>1. [sess[s] EXCEPT !.phase = "done"].phase = "done"
    BY PhaseOne
  <2> QED BY <1>0, <1>2, <2>1, EndStep DEF Free
<1> QED BY <1>1, <1>2 DEF register_user

LEMMA NoRecordKept ==
  ASSUME JInv
  PROVE  /\ UserKept(NoRecord, tbl, client)
         /\ \A cl : cl.known = client.known /\ cl.chans = {} => UserKept(NoRecord, tbl, cl)
BY DEF JInv, UserKept, NoRecord, Full

LEMMA HelloEndsOne ==
  ASSUME JInv, LegacyConstants, NEW s \in Sessions, drop_user(s) \/ HelloFails(s)
  PROVE  OneTurn(s)
<1>0. /\ UNCHANGED tbl /\ sess[s].phase \notin Free /\ Step(s, [sess[s] EXCEPT !.phase = "done"])
      /\ \/ UNCHANGED <<router, client>>
         \/ router' = NoRecord /\ client' = [client EXCEPT !.gone = TRUE, !.chans = {}]
  BY DEF drop_user, HelloFails, At, Free
<1>1. UserKept(router', tbl', client')
  <2>1. CASE UNCHANGED <<router, client>>
    BY <1>0, <2>1, OneFacts
  <2>2. CASE router' = NoRecord /\ client' = [client EXCEPT !.gone = TRUE, !.chans = {}]
    <3>1. client'.chans = {} /\ client'.known = client.known
      BY <2>2, OneFacts
    <3> QED BY <1>0, <2>2, <3>1, NoRecordKept
  <2> QED BY <1>0, <2>1, <2>2
<1>2. [sess[s] EXCEPT !.phase = "done"].phase = "done"
  BY PhaseOne
<1> QED BY <1>0, <1>1, <1>2, EndStep DEF Free

\* A longer channel of a session changes nothing else about it.
LEMMA PushOne ==
  ASSUME JInv, NEW n, NEW x, NEW q \in Sessions
  PROVE  \/ Push(sess, n, x)[q] = sess[q]
         \/ \E y : Push(sess, n, x)[q] = [sess[q] EXCEPT !.queue = y]
<1>1. CASE ~Connected(n)
  BY <1>1 DEF Push
<1>2. CASE Connected(n)
  <2> DEFINE w == registry[n]
  <2>1. Push(sess, n, x) = [sess EXCEPT ![w].queue = Append(@, x)]
    BY <1>2 DEF Push
  <2> HIDE DEF w
  <2>2. CASE q = w
    <3>1. Push(sess, n, x)[q] = [sess[q] EXCEPT !.queue = Append(@, x)]
      BY <2>1, <2>2, OneFacts
    <3> QED BY <3>1
  <2>3. CASE q # w
    BY <2>1, <2>3, OneFacts
  <2> QED BY <2>2, <2>3
<1> QED BY <1>1, <1>2

LEMMA PushedOne ==
  ASSUME JInv, NEW n, NEW x
  PROVE  /\ DOMAIN Push(sess, n, x) = Sessions
         /\ \A q \in Sessions : LET r == Push(sess, n, x)[q] IN
              /\ r.phase = sess[q].phase /\ r.month = sess[q].month
              /\ r.deferred = sess[q].deferred /\ r.chids = sess[q].chids
<1>1. DOMAIN Push(sess, n, x) = Sessions
  BY PushAlike, HoldFacts DEF JInv, KInv
<1>2. ASSUME NEW q \in Sessions, NEW r, r = Push(sess, n, x)[q]
      PROVE  /\ r.phase = sess[q].phase /\ r.month = sess[q].month
             /\ r.deferred = sess[q].deferred /\ r.chids = sess[q].chids
  <2>1. CASE r = sess[q]
    BY <2>1
  <2>2. ASSUME NEW y, r = [sess[q] EXCEPT !.queue = y]
        PROVE  /\ r.phase = sess[q].phase /\ r.month = sess[q].month
               /\ r.deferred = sess[q].deferred /\ r.chids = sess[q].chids
    BY <2>2, OneFacts DEF Fields
  <2>3. r = sess[q] \/ \E y : r = [sess[q] EXCEPT !.queue = y]
    BY <1>2, PushOne
  <2> QED BY <2>1, <2>2, <2>3
<1> QED BY <1>1, <1>2

LEMMA RegistryConnectOne ==
  ASSUME JInv, LegacyConstants, NEW s \in Sessions, RegistryConnect(s)
  PROVE  OneTurn(s)
<1> DEFINE f == Push(sess, sess[s].node, Disconnect)
           r == DetermineAck(sess[s])
<1>0. /\ UNCHANGED <<router, tbl>> /\ sess[s].phase = "connect"
      /\ sess' = [f EXCEPT ![s] = r] /\ client' = [client EXCEPT !.known = TRUE]
      /\ sess[s].phase \notin Free
  BY DEF RegistryConnect, At, Free
<1>1. DOMAIN f = Sessions /\ \A q \in Sessions : f[q].phase = sess[q].phase
  BY PushedOne
<1>2. r.month = sess[s].month /\ r.deferred = sess[s].deferred /\ r.phase \in Moving
  BY AckOne, OneFacts
<1> HIDE DEF f, r
<1>3. sess'[s] = r /\ \A q \in Sessions \ {s} : sess'[q].phase = sess[q].phase
  BY <1>0, <1>1
<1>4. client'.known = TRUE /\ client'.chans = client.chans
  BY <1>0, OneFacts
<1>5. UserSame
  BY <1>0, <1>4 DEF UserSame, ChidsKept
<1>6. KeepsOK(r, router', tbl', client')
  BY <1>0, <1>2, <1>4, OneFacts DEF KeepsOK, Moving, Serving, Authenticated
<1>7. \A q \in Sessions \ {s} : sess[q].phase \in Free
  BY <1>0 DEF JInv
<1> QED BY <1>3, <1>5, <1>6, <1>7, SameKept DEF OneTurn

-----------------------------------------------------------------------------
(***************************************************************************)
(* Storage and input                                                       *)
(***************************************************************************)
LEMMA TableSame ==
  ASSUME JInv, NEW mo, NEW f, NEW T2,
         \/ T2 = tbl
         \/ T2 = [tbl EXCEPT ![mo].rows = f]
         \/ T2 = [tbl EXCEPT ![mo].ptr = f, ![mo].reg = TRUE]
  PROVE  ChidsKept(T2, tbl)
<1> SUFFICES ASSUME NEW t \in Months
             PROVE  T2[t].chids = tbl[t].chids
  BY DEF ChidsKept
<1>1. CASE t = mo /\ T2 # tbl
  <2>1. \/ T2[t] = [tbl[t] EXCEPT !.rows = f]
        \/ T2[t] = [tbl[t] EXCEPT !.ptr = f, !.reg = TRUE]
    BY <1>1, OneFacts, HoldFacts DEF JInv, KInv, IInv, TblOK
  <2>2. DOMAIN tbl[t] = TableFields
    BY DEF JInv, KInv, IInv, TblOK, TableOK
  <2> QED BY <2>1, <2>2 DEF TableFields
<1>2. CASE t # mo \/ T2 = tbl
  BY <1>2 DEF JInv, KInv, IInv, TblOK
<1> QED BY <1>1, <1>2

\* A table whose channels are written.
LEMMA ChannelsAt ==
  ASSUME JInv, NEW mo \in Months, NEW f, tbl' = [tbl EXCEPT ![mo].chids = f, ![mo].reg = TRUE]
  PROVE  tbl'[mo].chids = f /\ \A t \in Months \ {mo} : tbl'[t].chids = tbl[t].chids
<1>1. DOMAIN tbl = Months /\ DOMAIN tbl[mo] = TableFields
  BY DEF JInv, KInv, IInv, TblOK, TableOK
<1>2. tbl'[mo] = [tbl[mo] EXCEPT !.chids = f, !.reg = TRUE]
  BY <1>1
<1>3. tbl'[mo].chids = f
  BY <1>1, <1>2 DEF TableFields
<1> QED BY <1>1, <1>3

LEMMA WorksOn ==
  ASSUME JInv, NEW s \in Sessions, sess[s].phase \in Authenticated
  PROVE  /\ sess[s].month \in Months /\ sess[s].phase \notin Free /\ client.known = TRUE
         /\ Full(router) => router.month = sess[s].month
         /\ sess[s].deferred => client.chans = {}
<1>1. HoldOK(sess[s], client.acked) /\ KeepsOK(sess[s], router, tbl, client)
      /\ UserKept(router, tbl, client)
  BY DEF JInv, KInv
<1>2. sess[s].phase \in Active /\ sess[s].phase \in Serving
  BY DEF Active, Serving
<1> QED BY <1>1, <1>2 DEF HoldOK, KeepsOK, UserKept, Free, Authenticated

LEMMA ReceivedOne ==
  ASSUME JInv, NEW s \in Sessions, NEW rows, NEW topic, NEW ts, NEW q, q = Received(s, rows, topic, ts)
  PROVE  q.month = sess[s].month /\ q.deferred = sess[s].deferred /\ q.phase \in Moving
<1> DEFINE r == [sess[s] EXCEPT !.includeTopic = topic, !.highest = ts]
           live == {x \in rows : x[2] \notin expired}
           inc == ~topic /\ ts # 0
           r2 == [r EXCEPT !.increment = inc]
           r1 == [r EXCEPT !.check = FALSE, !.sent = 0]
           b == {x[2] : x \in live}
           st == r2.stored \cup live
           k == r2.sent + Cardinality(live)
           r3 == [r2 EXCEPT !.stored = st, !.phase = "send", !.batch = b, !.sent = k]
<1>0. DOMAIN sess[s] = Fields
  BY OneFacts
<1>1. q = IF rows = {} THEN DetermineAck(r1) ELSE IF live = {} THEN DetermineAck(r2) ELSE r3
  BY DEF Received
<1> HIDE DEF live, inc, b, st, k
<1>2. DOMAIN r = Fields /\ r.month = sess[s].month /\ r.deferred = sess[s].deferred
  BY <1>0 DEF Fields
<1> HIDE DEF r
<1>3. /\ DOMAIN r1 = Fields /\ r1.month = r.month /\ r1.deferred = r.deferred
      /\ DOMAIN r2 = Fields /\ r2.month = r.month /\ r2.deferred = r.deferred
  BY <1>2 DEF Fields
<1> HIDE DEF r1, r2
<1>4. r3.month = r2.month /\ r3.deferred = r2.deferred /\ r3.phase = "send"
  BY <1>3 DEF Fields
<1> HIDE DEF r3
<1>5. CASE q = DetermineAck(r1) \/ q = DetermineAck(r2)
  BY <1>2, <1>3, <1>5, AckOne
<1>6. CASE q = r3
  BY <1>2, <1>3, <1>4, <1>6 DEF Moving, Authenticated
<1> QED BY <1>1, <1>5, <1>6

LEMMA CheckStorageOne ==
  ASSUME JInv, LegacyConstants, NEW s \in Sessions,
         check_storage(s) \/ fetch_timestamp_messages(s)
  PROVE  OneTurn(s)
<1>0. UNCHANGED <<router, client>> /\ sess[s].phase \in Authenticated
  BY DEF check_storage, fetch_timestamp_messages, At, Elsewhere, Authenticated
<1>1. UserSame
  <2> DEFINE mo == sess[s].month
  <2>1. tbl' = tbl \/ \E f : tbl' = [tbl EXCEPT ![mo].rows = f]
    BY DEF check_storage, fetch_timestamp_messages, Purged
  <2>2. ChidsKept(tbl', tbl)
    BY <2>1, TableSame
  <2> QED BY <1>0, <2>2 DEF UserSame
<1>2. ASSUME NEW rows, NEW topic, NEW ts, Step(s, Received(s, rows, topic, ts))
      PROVE  OneTurn(s)
  <2>1. PICK q : q = Received(s, rows, topic, ts)
    OBVIOUS
  <2>2. Step(s, q) /\ q.month = sess[s].month /\ q.deferred = sess[s].deferred /\ q.phase \in Moving
    BY <1>2, <2>1, ReceivedOne
  <2> QED BY <1>0, <1>1, <2>2, MovingStep
<1>3. ASSUME NEW ts, Step(s, [sess[s] EXCEPT !.phase = "fetch", !.highest = ts])
      PROVE  OneTurn(s)
  <2> DEFINE r == [sess[s] EXCEPT !.phase = "fetch", !.highest = ts]
  <2>1. r.month = sess[s].month /\ r.deferred = sess[s].deferred /\ r.phase = "fetch"
    BY OneFacts DEF Fields
  <2>2. Step(s, r)
    BY <1>3
  <2> HIDE DEF r
  <2> QED BY <1>0, <1>1, <2>1, <2>2, MovingStep DEF Moving, Authenticated
<1>4. \/ \E rows, topic, ts : Step(s, Received(s, rows, topic, ts))
      \/ \E ts : Step(s, [sess[s] EXCEPT !.phase = "fetch", !.highest = ts])
  BY DEF check_storage, fetch_timestamp_messages
<1> QED BY <1>2, <1>3, <1>4

\* Steps that leave the channels alone and after which the session determines
\* what is next.
LEMMA AnswersOne ==
  ASSUME JInv, LegacyConstants, NEW s \in Sessions,
         Send(s) \/ RegisterBadKey(s) \/ delete_message(s)
  PROVE  OneTurn(s)
<1>0. sess[s].phase \in Authenticated /\ UNCHANGED router
  BY DEF Send, RegisterBadKey, delete_message, Input, At, Authenticated
<1>1. UserSame
  <2> DEFINE mo == sess[s].month
  <2>1. tbl' = tbl \/ \E f : tbl' = [tbl EXCEPT ![mo].rows = f]
    BY DEF Send, RegisterBadKey, delete_message
  <2>2. ChidsKept(tbl', tbl)
    BY <2>1, TableSame
  <2>3. client' = client \/ \E x : client' = [client EXCEPT !.got = x]
    BY DEF Send, RegisterBadKey, delete_message
  <2>4. client'.chans = client.chans /\ client'.known = client.known
    BY <2>3, OneFacts
  <2> QED BY <1>0, <2>2, <2>4 DEF UserSame
<1>2. PICK r : /\ \/ r = [sess[s] EXCEPT !.batch = {}]
                  \/ r = [sess[s] EXCEPT !.deferred = FALSE]
                  \/ r = [sess[s] EXCEPT !.topics = {}]
               /\ Step(s, AfterSend(r)) \/ Step(s, DetermineAck(r))
  BY DEF Send, RegisterBadKey, delete_message
<1>3. /\ DOMAIN r = Fields /\ r.month = sess[s].month
      /\ r.deferred = sess[s].deferred \/ r.deferred = FALSE
  BY <1>2, OneFacts DEF Fields
<1> QED BY <1>0, <1>1, <1>2, <1>3, AckStep

LEMMA IncrementOne ==
  ASSUME JInv, LegacyConstants, NEW s \in Sessions, increment_storage(s)
  PROVE  OneTurn(s)
<1> DEFINE mo == sess[s].month
           k == sess[s].highest
           r == [sess[s] EXCEPT !.increment = FALSE]
<1>0. /\ UNCHANGED <<router, client>> /\ sess[s].phase \in Authenticated
      /\ tbl' = tbl \/ tbl' = [tbl EXCEPT ![mo].ptr = k, ![mo].reg = TRUE]
      /\ Step(s, [sess[s] EXCEPT !.phase = "ending"]) \/ Step(s, DetermineAck(r))
  BY DEF increment_storage, At, Elsewhere, Authenticated
<1>1. UserSame
  <2> HIDE DEF mo, k
  <2>1. ChidsKept(tbl', tbl)
    BY <1>0, TableSame
  <2> QED BY <1>0, <2>1 DEF UserSame
<1>2. DOMAIN r = Fields /\ r.month = mo /\ r.deferred = sess[s].deferred
  BY OneFacts DEF Fields
<1> HIDE DEF r
<1>3. CASE Step(s, DetermineAck(r))
  BY <1>0, <1>1, <1>2, <1>3, AckStep
<1>4. CASE Step(s, [sess[s] EXCEPT !.phase = "ending"])
  <2>1. [sess[s] EXCEPT !.phase = "ending"].phase \in Ended
    BY PhaseOne DEF Ended
  <2>2. UserKept(router', tbl', client')
    BY <1>1, SameKept
  <2> QED BY <1>0, <1>4, <2>1, <2>2, WorksOn, EndStep
<1> QED BY <1>0, <1>3, <1>4

LEMMA OnNotifOne ==
  ASSUME JInv, LegacyConstants, NEW s \in Sessions, OnNotif(s)
  PROVE  OneTurn(s)
<1> DEFINE y == Tail(sess[s].queue)
           r == [sess[s] EXCEPT !.queue = y]
           x == Head(sess[s].queue)
           d == r.direct \cup ({x[2]} \ ZeroTtl)
           r1 == [r EXCEPT !.phase = "ending"]
           r2 == [r EXCEPT !.includeTopic = TRUE, !.check = TRUE]
           r3 == [r EXCEPT !.phase = "send", !.batch = {x[2]}, !.direct = d]
<1>0. /\ UNCHANGED <<router, tbl, client>> /\ sess[s].phase \in Authenticated
      /\ Step(s, r1) \/ Step(s, DetermineAck(r2)) \/ Step(s, r3)
  BY DEF OnNotif, At, Authenticated
<1> HIDE DEF y, x, d
<1>1. DOMAIN r = Fields /\ r.month = sess[s].month /\ r.deferred = sess[s].deferred
  BY OneFacts DEF Fields
<1> HIDE DEF r
<1>2. /\ r1.phase = "ending"
      /\ DOMAIN r2 = Fields /\ r2.month = r.month /\ r2.deferred = r.deferred
      /\ r3.month = r.month /\ r3.deferred = r.deferred /\ r3.phase = "send"
  BY <1>1 DEF Fields
<1> HIDE DEF r1, r2, r3
<1>3. UserSame
  BY <1>0 DEF UserSame, ChidsKept
<1>4. CASE Step(s, r1)
  BY <1>0, <1>2, <1>3, <1>4, WorksOn, SameKept, EndStep DEF Ended
<1>5. CASE Step(s, DetermineAck(r2))
  BY <1>0, <1>1, <1>2, <1>3, <1>5, AckStep
<1>6. CASE Step(s, r3)
  BY <1>0, <1>1, <1>2, <1>3, <1>6, MovingStep DEF Moving, Authenticated
<1> QED BY <1>0, <1>4, <1>5, <1>6

LEMMA AckedOne ==
  ASSUME JInv, LegacyConstants, NEW s \in Sessions, Ack(s)
  PROVE  OneTurn(s)
<1>0. UNCHANGED <<router, tbl>> /\ sess[s].phase \in Authenticated
  BY DEF Ack, Input, At, Authenticated
<1>1. PICK acked, dd, ss, topics :
        /\ client' = [client EXCEPT !.acked = @ \cup acked]
        /\ LET r2 == [sess[s] EXCEPT !.direct = dd, !.stored = ss, !.topics = topics]
           IN  Step(s, DetermineAck(r2)) \/ Step(s, [r2 EXCEPT !.phase = "delete"])
  BY DEF Ack
<1> DEFINE r == [sess[s] EXCEPT !.direct = dd, !.stored = ss, !.topics = topics]
           q == [r EXCEPT !.phase = "delete"]
<1>2. Step(s, DetermineAck(r)) \/ Step(s, q)
  BY <1>1
<1>3. DOMAIN r = Fields /\ r.month = sess[s].month /\ r.deferred = sess[s].deferred
  BY OneFacts DEF Fields
<1> HIDE DEF r
<1>4. q.month = r.month /\ q.deferred = r.deferred /\ q.phase = "delete"
  BY <1>3 DEF Fields
<1> HIDE DEF q
<1>5. client'.chans = client.chans /\ client'.known = client.known
  BY <1>1, OneFacts
<1>6. UserSame
  BY <1>0, <1>5 DEF UserSame, ChidsKept
<1>7. CASE Step(s, DetermineAck(r))
  BY <1>0, <1>3, <1>6, <1>7, AckStep
<1>8. CASE Step(s, q)
  BY <1>0, <1>3, <1>4, <1>6, <1>8, MovingStep DEF Moving, Authenticated
<1> QED BY <1>2, <1>7, <1>8

-----------------------------------------------------------------------------
(***************************************************************************)
(* Migration and registration                                              *)
(***************************************************************************)
\* The channels of the user are read, all of them: the call does not fail.
LEMMA AllChannelsOne ==
  ASSUME JInv, LegacyConstants, "channels" \notin Failures, NEW s \in Sessions, all_channels(s)
  PROVE  OneTurn(s)
<1> DEFINE ch == tbl[sess[s].month].chids
           p == IF ch = {} THEN "month" ELSE "copy"
           r == [sess[s] EXCEPT !.chids = ch, !.phase = p]
<1>0. UNCHANGED <<router, tbl, client>> /\ sess[s].phase = "channels" /\ Step(s, r)
  BY DEF all_channels, At
<1>1. r.phase = p /\ r.chids = ch /\ r.month = sess[s].month /\ r.deferred = sess[s].deferred
  <2> HIDE DEF ch, p
  <2> QED BY OneFacts DEF Fields
<1> HIDE DEF r
<1>2. /\ client.known = TRUE /\ (sess[s].deferred => client.chans = {})
      /\ Full(router) => router.month = sess[s].month /\ client.chans \subseteq ch
      /\ sess[s].phase \notin Free
  <2>1. sess[s].phase \in Authenticated /\ UserKept(router, tbl, client)
    BY <1>0, OneFacts DEF Authenticated
  <2> QED BY <2>1, WorksOn DEF UserKept
<1>3. KeepsOK(r, router, tbl, client)
  <2> HIDE DEF ch
  <2>1. (p = "month" /\ ch = {}) \/ p = "copy"
    OBVIOUS
  <2> QED BY <1>1, <1>2, <2>1 DEF KeepsOK
<1>4. UserSame
  BY <1>0 DEF UserSame, ChidsKept
<1> QED BY <1>0, <1>2, <1>3, <1>4, SameStep

\* The channels get longer, here or in the current month.
LEMMA SaveChannelsOne ==
  ASSUME JInv, LegacyConstants, NEW s \in Sessions, save_channels(s)
  PROVE  OneTurn(s)
<1> DEFINE f == tbl[CurrentMonth].chids \cup sess[s].chids
           r == [sess[s] EXCEPT !.phase = "month", !.chids = {}]
<1>0. /\ UNCHANGED <<router, client>> /\ sess[s].phase = "copy" /\ Step(s, r)
      /\ tbl' = [tbl EXCEPT ![CurrentMonth].chids = f, ![CurrentMonth].reg = TRUE]
  BY DEF save_channels, At, Elsewhere
<1>1. r.phase = "month" /\ r.month = sess[s].month /\ r.deferred = sess[s].deferred
  BY OneFacts DEF Fields
<1> HIDE DEF r
<1>2. /\ CurrentMonth \in Months /\ tbl'[CurrentMonth].chids = f
      /\ \A t \in Months : tbl[t].chids \subseteq tbl'[t].chids
  <2>1. CurrentMonth \in Months
    BY DEF LegacyConstants, Months
  <2> HIDE DEF f
  <2>2. /\ tbl'[CurrentMonth].chids = f
        /\ \A t \in Months \ {CurrentMonth} : tbl'[t].chids = tbl[t].chids
    BY <1>0, <2>1, ChannelsAt
  <2> QED BY <2>1, <2>2 DEF f
<1>3. /\ client.known = TRUE /\ (sess[s].deferred => client.chans = {})
      /\ Full(router) => router.month = sess[s].month /\ client.chans \subseteq sess[s].chids
      /\ sess[s].phase \notin Free
  <2>1. sess[s].phase \in Authenticated /\ KeepsOK(sess[s], router, tbl, client)
    BY <1>0, OneFacts DEF Authenticated
  <2> QED BY <1>0, <2>1, WorksOn DEF KeepsOK
<1>4. UserKept(router', tbl', client')
  BY <1>0, <1>2, OneFacts DEF UserKept
<1>5. KeepsOK(r, router', tbl', client')
  BY <1>0, <1>1, <1>2, <1>3 DEF KeepsOK
<1> QED BY <1>0, <1>3, <1>4, <1>5, OneStep

LEMMA UpdateMonthOne ==
  ASSUME JInv, LegacyConstants, NEW s \in Sessions, update_user_message_month(s)
  PROVE  OneTurn(s)
<1> DEFINE st == IF router.status = "full" THEN "full" ELSE "partial"
           r == [sess[s] EXCEPT !.month = CurrentMonth, !.rotate = FALSE]
           r2 == DetermineAck(r)
<1>0. /\ UNCHANGED <<tbl, client>> /\ sess[s].phase = "month" /\ Step(s, r2)
      /\ router' = [router EXCEPT !.month = CurrentMonth, !.status = st]
  BY DEF update_user_message_month, At, Elsewhere
<1>1. DOMAIN r = Fields /\ r.month = CurrentMonth /\ r.deferred = sess[s].deferred
  BY OneFacts DEF Fields
<1> HIDE DEF r
<1>2. r2.month = r.month /\ r2.deferred = r.deferred /\ r2.phase \in Moving
  BY <1>1, AckOne
<1> HIDE DEF r2
<1>3. router'.month = CurrentMonth /\ router'.status = st
  <2> HIDE DEF st
  <2> QED BY <1>0, OneFacts DEF RouterFields
<1>4. /\ client.known = TRUE /\ (sess[s].deferred => client.chans = {})
      /\ Full(router) => client.chans \subseteq tbl[CurrentMonth].chids
      /\ sess[s].phase \notin Free
  <2>1. sess[s].phase \in Authenticated /\ KeepsOK(sess[s], router, tbl, client)
    BY <1>0, OneFacts DEF Authenticated
  <2> QED BY <1>0, <2>1, WorksOn DEF KeepsOK
<1>5. Full(router') => Full(router)
  BY <1>3 DEF Full
<1>6. CurrentMonth \in Months
  BY DEF LegacyConstants, Months
<1>7. UserKept(router', tbl', client')
  BY <1>0, <1>3, <1>4, <1>5, <1>6 DEF UserKept
<1>8. KeepsOK(r2, router', tbl', client')
  BY <1>0, <1>1, <1>2, <1>3, <1>4 DEF KeepsOK, Moving, Authenticated
<1> QED BY <1>0, <1>4, <1>7, <1>8, OneStep

LEMMA EndingOne ==
  ASSUME JInv, LegacyConstants, NEW s \in Sessions, drop_uaid(s) \/ CallFails(s) \/ ClientDropped(s)
  PROVE  OneTurn(s)
<1>0. /\ UNCHANGED <<tbl, client>> /\ sess[s].phase \in Authenticated
      /\ Step(s, [sess[s] EXCEPT !.phase = "ending"]) /\ router' \in {router, NoRecord}
  BY DEF drop_uaid, CallFails, ClientDropped, Elsewhere, At, Authenticated
<1>1. UserKept(router', tbl', client')
  BY <1>0, OneFacts, NoRecordKept
<1>2. [sess[s] EXCEPT !.phase = "ending"].phase \in Ended
  BY PhaseOne DEF Ended
<1> QED BY <1>0, <1>1, <1>2, WorksOn, EndStep

LEMMA RegisterOne ==
  ASSUME JInv, LegacyConstants, NEW s \in Sessions, NEW c, Register(s, c)
  PROVE  OneTurn(s)
<1> DEFINE p == IF sess[s].deferred THEN "reguser" ELSE "savechan"
           r == [sess[s] EXCEPT !.chids = {c}, !.phase = p]
<1>0. UNCHANGED <<router, tbl, client>> /\ sess[s].phase = "input" /\ Step(s, r)
  BY DEF Register, Input, At
<1>1. r.phase = p /\ r.month = sess[s].month /\ r.deferred = sess[s].deferred
  <2> HIDE DEF p
  <2> QED BY OneFacts DEF Fields
<1> HIDE DEF r
<1>2. sess[s].phase \in Authenticated /\ sess[s].phase \notin Free
  BY <1>0 DEF Free, Authenticated
<1>3. KeepsOK(r, router, tbl, client)
  <2>1. (p = "reguser" /\ sess[s].deferred) \/ p = "savechan"
    OBVIOUS
  <2> QED BY <1>1, <1>2, <2>1, WorksOn DEF KeepsOK
<1>4. UserSame
  BY <1>0 DEF UserSame, ChidsKept
<1> QED BY <1>0, <1>2, <1>3, <1>4, SameStep

LEMMA UnregisterOne ==
  ASSUME JInv, LegacyConstants, NEW s \in Sessions, NEW c, Unregister(s, c)
  PROVE  OneTurn(s)
<1> DEFINE r == [sess[s] EXCEPT !.phase = "unreg", !.chids = {c}]
<1>0. /\ UNCHANGED <<router, tbl>> /\ sess[s].phase = "input" /\ Step(s, r)
      /\ client' = [client EXCEPT !.chans = @ \ {c}]
  BY DEF Unregister, Input, At, Elsewhere
<1>1. r.phase = "unreg" /\ r.chids = {c} /\ r.month = sess[s].month /\ r.deferred = sess[s].deferred
  BY OneFacts DEF Fields
<1> HIDE DEF r
<1>2. sess[s].phase \in Authenticated /\ sess[s].phase \notin Free
  BY <1>0 DEF Free, Authenticated
<1>3. client'.chans = client.chans \ {c} /\ client'.known = client.known
  BY <1>0, OneFacts
<1>4. UserKept(router', tbl', client')
  BY <1>0, <1>3, OneFacts DEF UserKept
<1>5. KeepsOK(r, router', tbl', client')
  BY <1>0, <1>1, <1>2, <1>3, WorksOn DEF KeepsOK
<1> QED BY <1>0, <1>2, <1>4, <1>5, OneStep

\* The first registration writes the record of a user without channels.
LEMMA DeferredUserOne ==
  ASSUME JInv, LegacyConstants, NEW s \in Sessions, RegisterDeferredUser(s)
  PROVE  OneTurn(s)
<1>0. UNCHANGED <<tbl, client>> /\ sess[s].phase = "reguser" /\ sess[s].phase \in Authenticated
  BY DEF RegisterDeferredUser, Elsewhere, At, Authenticated
<1>1. CASE router' = RecordOf(sess[s]) /\ Step(s, [sess[s] EXCEPT !.phase = "savechan"])
  <2> DEFINE r == [sess[s] EXCEPT !.phase = "savechan"]
  <2>1. r.phase = "savechan" /\ r.month = sess[s].month /\ r.deferred = sess[s].deferred
    BY PhaseOne
  <2>2. Step(s, r)
    BY <1>1
  <2> HIDE DEF r
  <2>3. client.chans = {} /\ client.known = TRUE /\ sess[s].month \in Months
    <3>1. sess[s].deferred
      BY <1>0, OneFacts DEF KeepsOK
    <3> QED BY <1>0, <3>1, WorksOn
  <2>4. UserKept(router', tbl', client')
    BY <1>0, <1>1, <2>3, RecordKept
  <2>5. KeepsOK(r, router', tbl', client')
    BY <1>0, <1>1, <2>1, <2>3 DEF KeepsOK, RecordOf
  <2> QED BY <1>0, <2>2, <2>4, <2>5, WorksOn, OneStep
<1>2. CASE Step(s, [sess[s] EXCEPT !.phase = "ending"]) /\ UNCHANGED router
  <2>1. [sess[s] EXCEPT !.phase = "ending"].phase \in Ended
    BY PhaseOne DEF Ended
  <2> QED BY <1>0, <1>2, <2>1, OneFacts, WorksOn, EndStep
<1> QED BY <1>1, <1>2 DEF RegisterDeferredUser

LEMMA RegisterChannelOne ==
  ASSUME JInv, LegacyConstants, NEW s \in Sessions, RegisterChannel(s)
  PROVE  OneTurn(s)
<1> DEFINE mo == sess[s].month
           f == tbl[mo].chids \cup sess[s].chids
           r == [sess[s] EXCEPT !.deferred = FALSE, !.chids = {}]
           r2 == AfterSend(r)
<1>0. /\ UNCHANGED router /\ sess[s].phase \in Authenticated /\ Step(s, r2)
      /\ \/ /\ tbl' = [tbl EXCEPT ![mo].chids = f, ![mo].reg = TRUE]
            /\ client' = [client EXCEPT !.chans = @ \cup sess[s].chids]
         \/ UNCHANGED <<tbl, client>>
  BY DEF RegisterChannel, At, Authenticated
<1>1. DOMAIN r = Fields /\ r.month = mo /\ r.deferred = FALSE
  BY OneFacts DEF Fields
<1> HIDE DEF r
<1>2. r2.month = mo /\ r2.deferred = FALSE /\ r2.phase \in Moving
  BY <1>1, AckOne
<1> HIDE DEF r2
<1>3. mo \in Months /\ client.known = TRUE /\ (Full(router) => router.month = mo)
  BY <1>0, WorksOn
<1>4. CASE /\ tbl' = [tbl EXCEPT ![mo].chids = f, ![mo].reg = TRUE]
           /\ client' = [client EXCEPT !.chans = @ \cup sess[s].chids]
  <2>1. client'.chans = client.chans \cup sess[s].chids /\ client'.known = TRUE
    BY <1>3, <1>4, OneFacts
  <2>2. tbl'[mo].chids = f
    <3> HIDE DEF mo, f
    <3> QED BY <1>3, <1>4, ChannelsAt
  <2>3. Full(router) => client.chans \subseteq tbl[mo].chids
    BY <1>3, OneFacts DEF UserKept
  <2>4. UserKept(router', tbl', client')
    BY <1>0, <1>3, <2>1, <2>2, <2>3 DEF UserKept
  <2>5. KeepsOK(r2, router', tbl', client')
    BY <1>0, <1>2, <1>3, <2>1 DEF KeepsOK, Moving, Authenticated
  <2> QED BY <1>0, <2>4, <2>5, WorksOn, OneStep
<1>5. CASE UNCHANGED <<tbl, client>>
  <2>1. UserSame
    BY <1>0, <1>5 DEF UserSame, ChidsKept
  <2> QED BY <1>0, <1>2, <2>1, MovingStep
<1> QED BY <1>0, <1>4, <1>5

\* The channel that goes is none the user agent still has.
LEMMA UnregisterChannelOne ==
  ASSUME JInv, LegacyConstants, NEW s \in Sessions, unregister_channel_id(s)
  PROVE  OneTurn(s)
<1> DEFINE mo == sess[s].month
           f == tbl[mo].chids \ sess[s].chids
           r == [sess[s] EXCEPT !.chids = {}]
           r2 == AfterSend(r)
<1>0. /\ UNCHANGED <<router, client>> /\ sess[s].phase = "unreg" /\ Step(s, r2)
      /\ sess[s].phase \in Authenticated
      /\ \/ tbl' = [tbl EXCEPT ![mo].chids = f, ![mo].reg = TRUE]
         \/ UNCHANGED tbl
  BY DEF unregister_channel_id, At, Elsewhere, Authenticated
<1>1. DOMAIN r = Fields /\ r.month = mo /\ r.deferred = sess[s].deferred
  BY OneFacts DEF Fields
<1> HIDE DEF r
<1>2. r2.month = mo /\ r2.deferred = sess[s].deferred /\ r2.phase \in Moving
  BY <1>1, AckOne
<1> HIDE DEF r2
<1>3. /\ mo \in Months /\ client.known = TRUE /\ (Full(router) => router.month = mo)
      /\ sess[s].deferred => client.chans = {}
  BY <1>0, WorksOn
<1>4. CASE tbl' = [tbl EXCEPT ![mo].chids = f, ![mo].reg = TRUE]
  <2>1. tbl'[mo].chids = f
    <3> HIDE DEF mo, f
    <3> QED BY <1>3, <1>4, ChannelsAt
  <2>2. sess[s].chids \cap client.chans = {}
    BY <1>0, OneFacts DEF KeepsOK
  <2>3. Full(router) => client.chans \subseteq tbl[mo].chids
    BY <1>3, OneFacts DEF UserKept
  <2>4. UserKept(router', tbl', client')
    BY <1>0, <1>3, <2>1, <2>2, <2>3 DEF UserKept
  <2>5. KeepsOK(r2, router', tbl', client')
    BY <1>0, <1>2, <1>3 DEF KeepsOK, Moving, Authenticated
  <2> QED BY <1>0, <2>4, <2>5, WorksOn, OneStep
<1>5. CASE UNCHANGED tbl
  <2>1. UserSame
    BY <1>0, <1>5 DEF UserSame, ChidsKept
  <2> QED BY <1>0, <1>2, <2>1, MovingStep
<1> QED BY <1>0, <1>4, <1>5

-----------------------------------------------------------------------------
(***************************************************************************)
(* The end of a session, publishers, and the theorem                       *)
(***************************************************************************)
LEMMA SessionEndsOne ==
  ASSUME JInv, LegacyConstants, NEW s \in Sessions,
         RegistryDisconnect(s) \/ store_messages(s) \/ CheckReconnect(s)
  PROVE  OneTurn(s)
<1>0. UNCHANGED <<router, client>> /\ sess[s].phase \notin Free
  BY DEF RegistryDisconnect, store_messages, CheckReconnect, At, Elsewhere, Free
<1>1. UserSame
  <2> DEFINE mo == sess[s].month
  <2>1. tbl' = tbl \/ \E f : tbl' = [tbl EXCEPT ![mo].rows = f]
    BY DEF RegistryDisconnect, store_messages, Write, CheckReconnect, Elsewhere
  <2>2. ChidsKept(tbl', tbl)
    BY <2>1, TableSame
  <2> QED BY <1>0, <2>2 DEF UserSame
<1>2. UserKept(router', tbl', client')
  BY <1>1, SameKept
<1>3. ASSUME NEW r, Step(s, r), r.phase \in Ended
      PROVE  OneTurn(s)
  BY <1>0, <1>2, <1>3, EndStep
<1>4. DOMAIN sess[s] = Fields
  BY OneFacts
<1>5. CASE RegistryDisconnect(s)
  <2>1. PICK d, p : p \in Ended /\ Step(s, [sess[s] EXCEPT !.direct = d, !.queue = <<>>, !.phase = p])
    BY <1>5 DEF RegistryDisconnect, Ended
  <2>2. [sess[s] EXCEPT !.direct = d, !.queue = <<>>, !.phase = p].phase = p
    BY <1>4 DEF Fields
  <2> QED BY <1>3, <2>1, <2>2
<1>6. CASE store_messages(s)
  <2>1. PICK p \in Ended : Step(s, [sess[s] EXCEPT !.direct = {}, !.phase = p])
    BY <1>6 DEF store_messages, Ended
  <2>2. [sess[s] EXCEPT !.direct = {}, !.phase = p].phase = p
    BY <1>4 DEF Fields
  <2> QED BY <1>3, <2>1, <2>2
<1>7. CASE CheckReconnect(s)
  <2>1. \/ Step(s, [sess[s] EXCEPT !.phase = "notify", !.node = router.node])
        \/ Step(s, [sess[s] EXCEPT !.phase = "done"])
    BY <1>7 DEF CheckReconnect
  <2>2. /\ [sess[s] EXCEPT !.phase = "notify", !.node = router.node].phase \in Ended
        /\ [sess[s] EXCEPT !.phase = "done"].phase \in Ended
    BY <1>4 DEF Fields, Ended
  <2> QED BY <1>3, <2>1, <2>2
<1> QED BY <1>5, <1>6, <1>7

LEMMA PingManagerFailsOne ==
  ASSUME JInv, LegacyConstants, NEW s \in Sessions, PingManagerFails(s)
  PROVE  OneTurn(s)
<1> DEFINE r == [sess[s] EXCEPT !.direct = {}, !.queue = <<>>, !.phase = "done"]
<1>1. UNCHANGED <<router, client, tbl>> /\ sess[s].phase \notin Free /\ Step(s, r)
  BY DEF PingManagerFails, Unauthenticated, Authenticated, Free
<1>2. r.phase = "done"
  BY OneFacts DEF Fields
<1> HIDE DEF r
<1> QED BY <1>1, <1>2, EndStep, OneFacts DEF Free

LEMMA NotifyOne ==
  ASSUME JInv, LegacyConstants, NEW s \in Sessions, NotifyReconnected(s)
  PROVE  OneTurn(s)
<1> DEFINE f == Push(sess, sess[s].node, CheckStorage)
<1>0. /\ UNCHANGED <<router, tbl, client>> /\ sess[s].phase \notin Free
      /\ sess' = [f EXCEPT ![s].phase = "done"]
  BY DEF NotifyReconnected, At, Elsewhere, Free
<1>1. /\ DOMAIN f = Sessions /\ DOMAIN f[s] = Fields
      /\ \A q \in Sessions : f[q].phase = sess[q].phase
  <2>1. IInv
    BY DEF JInv, KInv
  <2> QED BY <2>1, PushedOne, PushAlike DEF Alike, Same
<1> HIDE DEF f
<1>2. sess'[s] = [f[s] EXCEPT !.phase = "done"] /\ \A q \in Sessions \ {s} : sess'[q] = f[q]
  BY <1>0, <1>1
<1>3. sess'[s].phase = "done"
  BY <1>1, <1>2 DEF Fields
<1>4. \A q \in Sessions \ {s} : sess[q].phase \in Free /\ sess'[q].phase = sess[q].phase
  <2>1. \A q \in Sessions \ {s} : sess[q].phase \in Free
    BY <1>0 DEF JInv
  <2> QED BY <1>1, <1>2, <2>1
<1>5. KeepsOK(sess'[s], router', tbl', client')
  BY <1>3, FreeKeeps DEF Free
<1> QED BY <1>0, <1>4, <1>5, OneFacts DEF OneTurn

LEMMA PublisherOne ==
  ASSUME JInv, LegacyConstants, KInv', NEW m \in Messages,
         Delivered(m) \/ StampMessage(m) \/ StoreMessage(m) \/ Trigger(m) \/ Expire(m)
  PROVE  JInv'
<1>1. UserSame
  <2>1. tbl' = tbl \/ \E mo, f : tbl' = [tbl EXCEPT ![mo].rows = f]
    BY DEF Delivered, StampMessage, StoreMessage, Write, Trigger, Expire
  <2>2. ChidsKept(tbl', tbl)
    BY <2>1, TableSame
  <2> QED BY <2>2 DEF UserSame, Delivered, StampMessage, StoreMessage, Trigger, Expire
<1>2. ASSUME NEW q \in Sessions
      PROVE  /\ sess'[q].phase = sess[q].phase /\ sess'[q].month = sess[q].month
             /\ sess'[q].deferred = sess[q].deferred /\ sess'[q].chids = sess[q].chids
  <2>1. sess' = sess \/ \E n, x : sess' = Push(sess, n, x)
    BY DEF Delivered, StampMessage, StoreMessage, Trigger, Expire
  <2> QED BY <2>1, PushedOne
<1>3. ASSUME NEW q \in Sessions
      PROVE  KeepsOK(sess'[q], router', tbl', client')
  <2>1. KeepsOK(sess[q], router', tbl', client')
    BY <1>1, OneFacts, SameKept
  <2> QED BY <1>2, <2>1 DEF KeepsOK
<1>4. UserKept(router', tbl', client')
  BY <1>1, SameKept
<1> QED BY <1>2, <1>3, <1>4 DEF JInv

LEMMA InitJInv ==
  ASSUME Init, LegacyConstants
  PROVE  JInv
<1>1. PICK mo \in StartMonths, c \in Channels, old \in BOOLEAN :
        /\ router = [status |-> IF mo = 0 THEN "none" ELSE "full", node |-> NoNode,
                     connectedAt |-> 0, month |-> mo, old |-> old]
        /\ tbl = [t \in Months |-> IF t = mo THEN [EmptyTable EXCEPT !.reg = TRUE, !.chids = {c}]
                                   ELSE EmptyTable]
        /\ client = [known |-> mo # 0, gone |-> FALSE, chans |-> IF mo = 0 THEN {} ELSE {c},
                     got |-> {}, acked |-> {}]
  BY DEF Init
<1>2. [EmptyTable EXCEPT !.reg = TRUE, !.chids = {c}].chids = {c}
  BY DEF EmptyTable
<1>3. UserKept(router, tbl, client)
  <2>1. CASE mo = 0
    BY <1>1, <2>1 DEF UserKept, Full
  <2>2. CASE mo # 0
    <3>1. mo \in Months
      BY <2>2 DEF LegacyConstants, Months
    <3>2. tbl[mo].chids = {c} /\ client.chans = {c} /\ client.known = TRUE /\ router.month = mo
      BY <1>1, <1>2, <2>2, <3>1
    <3> QED BY <3>1, <3>2 DEF UserKept
  <2> QED BY <2>1, <2>2
<1>4. \A s \in Sessions : sess[s].phase \in Free
  BY DEF Init, Fresh, Free
<1>5. \A s \in Sessions : KeepsOK(sess[s], router, tbl, client)
  BY <1>4, FreeKeeps
<1> QED BY <1>3, <1>4, <1>5, InitKInv DEF JInv

LEMMA NextJInv ==
  ASSUME JInv, LegacyConstants, ~Overlap, "channels" \notin Failures, [Next]_vars
  PROVE  JInv'
<1>0. KInv'
  BY NextKInv DEF JInv
<1>1. ASSUME NEW s \in Sessions, SessionStep(s)
      PROVE  OneTurn(s)
  BY <1>1, LookupUserOne, HelloEndsOne, RegisterUserOne, RegistryConnectOne, CheckStorageOne,
     AnswersOne, IncrementOne, AllChannelsOne, SaveChannelsOne, UpdateMonthOne, EndingOne,
     OnNotifOne, DeferredUserOne, RegisterChannelOne, UnregisterChannelOne, SessionEndsOne,
     NotifyOne DEF SessionStep
<1>2. ASSUME NEW s \in Sessions,
             \/ SessionStep(s) \/ Ack(s) \/ RegisterBadKey(s) \/ ClientDropped(s)
             \/ HelloFails(s) \/ CallFails(s) \/ PingManagerFails(s)
             \/ \E n \in Nodes : AwaitHello(s, n)
             \/ \E c \in Channels : Register(s, c) \/ Unregister(s, c)
      PROVE  JInv'
  <2>1. OneTurn(s)
    BY <1>1, <1>2, AckedOne, AnswersOne, EndingOne, HelloEndsOne, AwaitHelloOne, RegisterOne,
       UnregisterOne, PingManagerFailsOne
  <2> QED BY <1>0, <2>1, OneTurnKeeps
<1>3. CASE UNCHANGED vars
  BY <1>0, <1>3 DEF vars, JInv
<1>4. ASSUME NEW m \in Messages,
             Delivered(m) \/ StampMessage(m) \/ StoreMessage(m) \/ Trigger(m) \/ Expire(m)
      PROVE  JInv'
  BY <1>0, <1>4, PublisherOne
<1> QED BY <1>2, <1>3, <1>4 DEF Next

(* Migration to the current month and registration lose no channel: the      *)
(* channels a user agent was given and has not given back are in the table   *)
(* its record names, wherever a migration stops and whatever calls fail      *)
(* (migrate_user, register_channel, unregister_channel), if its sessions do  *)
(* not overlap and all_channels, which answers an error with no channel,     *)
(* does not fail.                                                            *)
THEOREM MigrationLosesNone ==
  ASSUME LegacyConstants, ~Overlap, "channels" \notin Failures
  PROVE  Spec => []ChannelsKept
<1>1. Init => JInv
  BY InitJInv
<1>2. JInv /\ [Next]_vars => JInv'
  BY NextJInv
<1>3. JInv => ChannelsKept
  BY DEF JInv, UserKept, Full, ChannelsKept
<1> QED BY <1>1, <1>2, <1>3, PTL DEF Spec

-----------------------------------------------------------------------------
(***************************************************************************)
(* The connections of a node (module LegacyServer): for any number of      *)
(* connections, any limit and any lengths of queues.                       *)
(***************************************************************************)
CONSTANTS Connections, MaxConnections, CloseTimeout, Unsolicited, Stalls, MaxVersion, MaxTexts,
          MaxInbox
VARIABLES conn, net, peer, open_connections, running, version, updater
Server == INSTANCE LegacyServer

NetType == [inbox: Seq({"pong", "text", "close"}), full: BOOLEAN]
PeerType == [silent: BOOLEAN, pings: 0..MaxInbox, got: SUBSET (1..MaxVersion),
             texts: 0..MaxTexts]

OpenPhase(r) == r.phase \in {"dispatch", "handshake", "exchange", "closing"}
ServerActivePhase(r) == r.phase \in {"exchange", "closing"}

\* The client holds revisions only in a message it is to send, each revision
\* up to the subscription was sent or is in the socket or that message,
\* whatever the phase, and a connection that has read a pong has no pong
\* timeout to report.
SocketOK(r, p) ==
    /\ r.client \notin {"connecting", "send"} => r.reply = {}
    /\ r.client # "done" => 1..r.subs \subseteq p.got \cup r.broadcast_delta \cup r.reply
    /\ ~(r.ws_pong_timeout /\ r.ws_pong_received)
SocketsOK == \A c \in Connections : SocketOK(conn[c], peer[c])

\* Only a connection that has been handed to its PingManager is polled.
RunningIsActive == \A c \in Connections : running = c => ServerActivePhase(conn[c])

Counted == IsFiniteSet(Server!Open) /\ Server!SlotsCounted

ServerIInv == Server!TypeOK /\ SocketsOK /\ RunningIsActive /\ Counted

-----------------------------------------------------------------------------
(***************************************************************************)
(* A step of one connection                                                *)
(***************************************************************************)

\* How the step from q to r is counted.
CountedStep(q, r) ==
    /\ ~OpenPhase(q) /\ OpenPhase(r) =>
         open_connections < MaxConnections /\ open_connections' = open_connections + 1
    /\ OpenPhase(q) /\ ~OpenPhase(r) => open_connections' = open_connections - 1
    /\ (OpenPhase(q) <=> OpenPhase(r)) => open_connections' = open_connections

\* What a step that makes r of the record of connection c must satisfy.
ServerTurn(c, r) ==
    /\ r \in Server!ConnType /\ Server!Set(c, r)
    /\ SocketOK(r, peer'[c])
    /\ running' \in {running, c, Server!NoConn}
    /\ running' = c => ServerActivePhase(r)
    /\ CountedStep(conn[c], r)
    /\ r.timedOut /\ ~conn[c].timedOut =>
         net[c].inbox = <<>> /\ ~conn[c].ws_pong_received

\* What happens to the socket and the peer of connection c.
Outside(c) ==
    /\ net' \in [Connections -> NetType] /\ peer' \in [Connections -> PeerType]
    /\ \A d \in Connections \ {c} : peer'[d] = peer[d]
    /\ version' \in 0..MaxVersion /\ updater' \in {"waiting", "requesting"}

LEMMA Types ==
    Server!TypeOK <=>
      /\ conn \in [Connections -> Server!ConnType]
      /\ net \in [Connections -> NetType]
      /\ peer \in [Connections -> PeerType]
      /\ open_connections \in Nat
      /\ running \in Connections \cup {Server!NoConn}
      /\ version \in 0..MaxVersion /\ updater \in {"waiting", "requesting"}
BY DEF Server!TypeOK, NetType, PeerType

\* The library's operator, as the instance names it.
LEMMA SameCardinality == \A S : Server!Cardinality(S) = Cardinality(S)
BY DEF Server!Cardinality, Cardinality

LEMMA TurnSets ==
  ASSUME Server!TypeOK, NEW c \in Connections, NEW r, ServerTurn(c, r)
  PROVE  /\ conn' \in [Connections -> Server!ConnType] /\ conn'[c] = r
         /\ \A d \in Connections \ {c} : conn'[d] = conn[d]
BY Types DEF ServerTurn, Server!Set

LEMMA TurnCounts ==
  ASSUME Server!ServerConstants, ServerIInv, NEW c \in Connections, NEW r, ServerTurn(c, r)
  PROVE  Counted' /\ open_connections' \in Nat
<1>1. /\ conn' \in [Connections -> Server!ConnType] /\ conn'[c] = r
      /\ \A d \in Connections \ {c} : conn'[d] = conn[d]
  BY TurnSets DEF ServerIInv
<1>2. /\ IsFiniteSet(Server!Open) /\ open_connections \in Nat
      /\ open_connections = Cardinality(Server!Open) /\ open_connections <= MaxConnections
  BY SameCardinality DEF ServerIInv, Counted, Server!SlotsCounted, Server!TypeOK
<1>3. (c \in Server!Open <=> OpenPhase(conn[c])) /\ (c \in Server!Open' <=> OpenPhase(r))
  BY <1>1 DEF Server!Open, OpenPhase
<1>4. \A d \in Connections \ {c} : d \in Server!Open <=> d \in Server!Open'
  BY <1>1 DEF Server!Open
<1>5. Server!Open \subseteq Connections /\ Server!Open' \subseteq Connections
  BY DEF Server!Open
<1>6. CountedStep(conn[c], r)
  BY DEF ServerTurn
<1>7. CASE ~OpenPhase(conn[c]) /\ OpenPhase(r)
  <2>1. Server!Open' = Server!Open \cup {c} /\ c \notin Server!Open
    BY <1>3, <1>4, <1>5, <1>7
  <2>2. IsFiniteSet(Server!Open') /\ Cardinality(Server!Open') = Cardinality(Server!Open) + 1
    BY <2>1, <1>2, FS_AddElement
  <2> QED BY <1>2, <1>6, <1>7, <2>2, SameCardinality
          DEF CountedStep, Counted, Server!SlotsCounted, Server!ServerConstants
<1>8. CASE OpenPhase(conn[c]) /\ ~OpenPhase(r)
  <2>1. Server!Open' = Server!Open \ {c} /\ c \in Server!Open
    BY <1>3, <1>4, <1>5, <1>8
  <2>2. IsFiniteSet(Server!Open') /\ Cardinality(Server!Open') = Cardinality(Server!Open) - 1
    BY <2>1, <1>2, FS_RemoveElement
  <2>3. Cardinality(Server!Open') \in Nat
    BY <2>2, FS_CardinalityType
  <2> QED BY <1>2, <1>6, <1>8, <2>2, <2>3, SameCardinality
          DEF CountedStep, Counted, Server!SlotsCounted, Server!ServerConstants
<1>9. CASE OpenPhase(conn[c]) <=> OpenPhase(r)
  <2>1. Server!Open' = Server!Open
    BY <1>3, <1>4, <1>5, <1>9
  <2> QED BY <1>2, <1>6, <1>9, <2>1, SameCardinality DEF CountedStep, Counted, Server!SlotsCounted
<1> QED BY <1>7, <1>8, <1>9

LEMMA ServerTurnKeeps ==
  ASSUME Server!ServerConstants, ServerIInv, NEW c \in Connections, NEW r, ServerTurn(c, r), Outside(c)
  PROVE  ServerIInv'
<1>1. /\ conn' \in [Connections -> Server!ConnType] /\ conn'[c] = r
      /\ \A d \in Connections \ {c} : conn'[d] = conn[d]
  BY TurnSets DEF ServerIInv
<1>2. Counted' /\ open_connections' \in Nat
  BY TurnCounts
<1>3. running' \in {running, c, Server!NoConn} /\ (running' = c => ServerActivePhase(r))
  BY DEF ServerTurn
<1>4. Server!TypeOK'
  BY <1>1, <1>2, <1>3, Types DEF ServerIInv, Outside, Server!TypeOK, NetType, PeerType
<1>5. SocketsOK'
  BY <1>1 DEF ServerIInv, SocketsOK, ServerTurn, Outside
<1>6. RunningIsActive'
  BY <1>1, <1>3 DEF ServerIInv, RunningIsActive, Server!ServerConstants
<1> QED BY <1>2, <1>4, <1>5, <1>6 DEF ServerIInv

-----------------------------------------------------------------------------
(***************************************************************************)
(* The ways a step leaves its connection                                   *)
(***************************************************************************)

\* A record that a step may go on with, keep for the next poll or end with.
Usable(c, r) ==
    /\ r \in Server!ConnType /\ r.phase = conn[c].phase
    /\ SocketOK(r, peer'[c])
    /\ r.timedOut /\ ~conn[c].timedOut =>
         net[c].inbox = <<>> /\ ~conn[c].ws_pong_received

LEMMA Going ==
  ASSUME ServerIInv, NEW c \in Connections, NEW r, Usable(c, r), Server!Set(c, r),
         running' \in {running, c}, ServerActivePhase(r) \/ running' # c,
         open_connections' = open_connections
  PROVE  ServerTurn(c, r)
<1>1. OpenPhase(conn[c]) <=> OpenPhase(r)
  BY DEF Usable, OpenPhase
<1> QED BY <1>1 DEF Usable, ServerTurn, CountedStep

LEMMA Returning ==
  ASSUME Server!ServerConstants, ServerIInv, NEW c \in Connections, NEW r, Usable(c, r), Server!Returns(c, r)
  PROVE  \E q : ServerTurn(c, q)
<1> DEFINE q == [r EXCEPT !.pc = "idle"]
<1>1. /\ q \in Server!ConnType /\ Server!Set(c, q) /\ running' = Server!NoConn /\ open_connections' = open_connections
      /\ q.phase = r.phase /\ q.broadcast_delta = r.broadcast_delta /\ q.subs = r.subs
      /\ q.client = r.client /\ q.reply = r.reply
      /\ q.ws_pong_timeout = r.ws_pong_timeout /\ q.ws_pong_received = r.ws_pong_received
      /\ q.timedOut = r.timedOut
  BY DEF Usable, Server!Returns, Server!ConnType
<1>2. Server!NoConn # c
  BY DEF Server!ServerConstants
<1> HIDE DEF q
<1>3. SocketOK(q, peer'[c]) /\ (OpenPhase(conn[c]) <=> OpenPhase(q))
  BY <1>1 DEF Usable, SocketOK, OpenPhase
<1>4. ServerTurn(c, q)
  BY <1>1, <1>2, <1>3 DEF Usable, ServerTurn, CountedStep
<1> QED BY <1>4

LEMMA Ending ==
  ASSUME Server!ServerConstants, ServerIInv, NEW c \in Connections, NEW r, r.timedOut \in BOOLEAN,
         r.timedOut /\ ~conn[c].timedOut => net[c].inbox = <<>> /\ ~conn[c].ws_pong_received,
         Server!Ends(c, r), OpenPhase(conn[c])
  PROVE  \E q : ServerTurn(c, q)
<1> DEFINE q == [Server!NewConn EXCEPT !.phase = "ended", !.timedOut = r.timedOut]
<1>0. Server!NewConn \in Server!ConnType
  BY DEF Server!NewConn, Server!ConnType, Server!ServerConstants, Server!PollSteps
<1>1. /\ q \in Server!ConnType /\ q.phase = "ended" /\ q.broadcast_delta = {} /\ q.subs = 0
      /\ q.client = "hello" /\ q.reply = {} /\ ~q.ws_pong_timeout /\ q.timedOut = r.timedOut
  BY <1>0 DEF Server!NewConn, Server!ConnType
<1>2. Server!Set(c, q) /\ running' = Server!NoConn /\ open_connections' = open_connections - 1
  BY DEF Server!Ends
<1>3. Server!NoConn # c
  BY DEF Server!ServerConstants
<1> HIDE DEF q
<1>4. 1..q.subs = {}
  BY <1>1
<1>5. SocketOK(q, peer'[c]) /\ ~OpenPhase(q)
  BY <1>1, <1>4 DEF SocketOK, OpenPhase
<1>6. ServerTurn(c, q)
  BY <1>1, <1>2, <1>3, <1>5 DEF ServerTurn, CountedStep
<1> QED BY <1>6

LEMMA SameEnding ==
  ASSUME Server!ServerConstants, ServerIInv, NEW c \in Connections, Server!Ends(c, conn[c]),
         OpenPhase(conn[c])
  PROVE  \E q : ServerTurn(c, q)
<1>1. conn[c].timedOut \in BOOLEAN
  BY Types DEF ServerIInv, Server!ConnType
<1> QED BY <1>1, Ending

LEMMA Failing ==
  ASSUME Server!ServerConstants, ServerIInv, NEW c \in Connections, NEW r, Usable(c, r),
         Server!ClientFails(c, r), running = c
  PROVE  \E q : ServerTurn(c, q)
<1>1. ServerActivePhase(conn[c]) /\ OpenPhase(conn[c])
  BY DEF ServerIInv, RunningIsActive, ServerActivePhase, OpenPhase
<1>2. CASE Server!Ends(c, r)
  <2>1. r.timedOut \in BOOLEAN
    BY DEF Usable, Server!ConnType
  <2> QED BY <1>1, <1>2, <2>1, Ending DEF Usable
<1>3. CASE ~Server!Ends(c, r)
  <2> DEFINE q == [r EXCEPT !.client = "done", !.reply = {}]
  <2>1. Server!Set(c, q) /\ running' = running /\ open_connections' = open_connections
    BY <1>3 DEF Server!ClientFails
  <2>2. /\ q \in Server!ConnType /\ q.phase = r.phase /\ q.client = "done" /\ q.reply = {}
        /\ q.ws_pong_timeout = r.ws_pong_timeout /\ q.ws_pong_received = r.ws_pong_received
        /\ q.timedOut = r.timedOut
    BY DEF Usable, Server!ConnType
  <2> HIDE DEF q
  <2>3. Usable(c, q) /\ ServerActivePhase(q)
    BY <2>2, <1>1 DEF Usable, SocketOK, ServerActivePhase
  <2> QED BY <2>1, <2>3, Going
<1> QED BY <1>2, <1>3

\* The record as it was can be used.
LEMMA SameUsable ==
  ASSUME ServerIInv, NEW c \in Connections, peer'[c].got = peer[c].got
  PROVE  Usable(c, conn[c])
BY Types DEF ServerIInv, SocketsOK, SocketOK, Usable

LEMMA SameOutside ==
  ASSUME ServerIInv, NEW c \in Connections, UNCHANGED <<net, peer, version, updater>>
  PROVE  Outside(c) /\ peer'[c].got = peer[c].got
BY Types DEF ServerIInv, Outside

\* A ping or a broadcast goes out.
LEMMA SentPing ==
  ASSUME Server!ServerConstants, NEW p \in PeerType, NEW d \in SUBSET (1..MaxVersion)
  PROVE  Server!send_ws_ping(p, d) \in PeerType /\ Server!send_ws_ping(p, d).got = p.got \cup d
<1>1. CASE d # {}
  BY <1>1 DEF Server!send_ws_ping, PeerType
<1>2. CASE d = {}
  <2> DEFINE q == [p EXCEPT !.pings = IF p.pings < MaxInbox THEN p.pings + 1 ELSE p.pings]
  <2>1. q \in PeerType /\ q.got = p.got
    BY DEF PeerType, Server!ServerConstants
  <2>2. Server!send_ws_ping(p, d) = q
    BY <1>2 DEF Server!send_ws_ping
  <2> HIDE DEF q
  <2> QED BY <1>2, <2>1, <2>2
<1> QED BY <1>1, <1>2

LEMMA PingedPeer ==
  ASSUME Server!ServerConstants, ServerIInv, NEW c \in Connections, NEW d \in SUBSET (1..MaxVersion),
         Server!Pinged(c, d)
  PROVE  /\ peer' \in [Connections -> PeerType]
         /\ \A b \in Connections \ {c} : peer'[b] = peer[b]
         /\ peer'[c].got = peer[c].got \cup d
<1> DEFINE p == Server!send_ws_ping(peer[c], d)
<1>1. peer \in [Connections -> PeerType]
  BY Types DEF ServerIInv
<1>2. p \in PeerType /\ p.got = peer[c].got \cup d
  BY <1>1, SentPing
<1>3. peer' = [peer EXCEPT ![c] = p]
  BY DEF Server!Pinged
<1> HIDE DEF p
<1> QED BY <1>1, <1>2, <1>3

-----------------------------------------------------------------------------
(***************************************************************************)
(* The actions, one by one                                                 *)
(***************************************************************************)
Good(c) == Outside(c) /\ \E r : ServerTurn(c, r)

LEMMA GoodAccept ==
  ASSUME Server!ServerConstants, ServerIInv, NEW c \in Connections, Server!Accept(c) PROVE Good(c)
<1>1. Outside(c) /\ peer'[c].got = peer[c].got
  BY SameOutside DEF Server!Accept
<1> DEFINE full == open_connections >= MaxConnections
           r == [conn[c] EXCEPT !.phase = IF full THEN "refused" ELSE "dispatch"]
<1>2. /\ conn[c] \in Server!ConnType /\ r \in Server!ConnType
      /\ r.phase = IF full THEN "refused" ELSE "dispatch"
      /\ r.broadcast_delta = conn[c].broadcast_delta /\ r.subs = conn[c].subs
      /\ r.client = conn[c].client /\ r.reply = conn[c].reply
      /\ r.ws_pong_timeout = conn[c].ws_pong_timeout
      /\ r.ws_pong_received = conn[c].ws_pong_received /\ r.timedOut = conn[c].timedOut
  BY Types DEF ServerIInv, Server!ConnType
<1>3. Server!Set(c, r)
  BY DEF Server!Accept, Server!Set
<1>4. IF full THEN UNCHANGED open_connections ELSE open_connections' = open_connections + 1
  BY DEF Server!Accept
<1>5. conn[c].phase = "new" /\ running' = running /\ running = Server!NoConn /\ Server!NoConn # c
  BY DEF Server!Accept, Server!ServerConstants
<1>6. full \/ open_connections < MaxConnections
  BY Types DEF ServerIInv, Server!ServerConstants
<1> HIDE DEF r
<1>7. SocketOK(r, peer'[c])
  BY <1>1, <1>2, <1>5 DEF ServerIInv, SocketsOK, SocketOK
<1>8. CountedStep(conn[c], r)
  BY <1>2, <1>4, <1>5, <1>6 DEF CountedStep, OpenPhase
<1>9. ServerTurn(c, r)
  BY <1>2, <1>3, <1>5, <1>7, <1>8 DEF ServerTurn
<1> QED BY <1>1, <1>9 DEF Good

LEMMA GoodHandshake ==
  ASSUME Server!ServerConstants, ServerIInv, NEW c \in Connections,
         Server!Dispatched(c) \/ Server!Handshaken(c) \/ Server!HandshakeTimeout(c)
  PROVE  Good(c)
<1>1. Outside(c) /\ peer'[c].got = peer[c].got
  BY SameOutside DEF Server!Dispatched, Server!Handshaken, Server!HandshakeTimeout
<1>2. running = Server!NoConn /\ Server!NoConn # c /\ conn[c].phase \in {"dispatch", "handshake"} /\ OpenPhase(conn[c])
  BY DEF Server!Dispatched, Server!Handshaken, Server!HandshakeTimeout, Server!ServerConstants, OpenPhase
<1>3. CASE Server!Ends(c, conn[c])
  BY <1>1, <1>2, <1>3, SameEnding DEF Good
<1>4. ASSUME NEW p \in {"handshake", "exchange"}, p = "handshake" \/ conn[c].phase = "handshake",
             Server!Set(c, [conn[c] EXCEPT !.phase = p]), UNCHANGED <<open_connections, running>>
      PROVE  Good(c)
  <2> DEFINE r == [conn[c] EXCEPT !.phase = p]
  <2>1. /\ conn[c] \in Server!ConnType /\ r \in Server!ConnType /\ r.phase = p
        /\ r.broadcast_delta = conn[c].broadcast_delta /\ r.subs = conn[c].subs
        /\ r.client = conn[c].client /\ r.reply = conn[c].reply
        /\ r.ws_pong_timeout = conn[c].ws_pong_timeout
        /\ r.ws_pong_received = conn[c].ws_pong_received /\ r.timedOut = conn[c].timedOut
    BY Types DEF ServerIInv, Server!ConnType
  <2>2. Server!Set(c, r)
    BY <1>4
  <2> HIDE DEF r
  <2>3. SocketOK(r, peer'[c])
    BY <1>1, <1>2, <2>1 DEF ServerIInv, SocketsOK, SocketOK
  <2>4. CountedStep(conn[c], r)
    BY <1>2, <1>4, <2>1 DEF CountedStep, OpenPhase
  <2>5. ServerTurn(c, r)
    BY <1>2, <1>4, <2>1, <2>2, <2>3, <2>4 DEF ServerTurn
  <2> QED BY <1>1, <2>5 DEF Good
<1> QED BY <1>3, <1>4 DEF Server!Dispatched, Server!Handshaken, Server!HandshakeTimeout

\* A record that differs from the one before only in where the connection is,
\* and whose client leaves "connecting" and "send" for "send" only.
ServerAlike(q, r) ==
    /\ r.phase = q.phase /\ r.broadcast_delta = q.broadcast_delta /\ r.subs = q.subs
    /\ r.timedOut = q.timedOut /\ r.reply = q.reply
    /\ \/ r.client = q.client
       \/ q.client # "done" /\ (r.client = "send" \/ q.client \notin {"connecting", "send"})

LEMMA AlikeUsable ==
  ASSUME ServerIInv, NEW c \in Connections, NEW r \in Server!ConnType, ServerAlike(conn[c], r),
         ~(r.ws_pong_timeout /\ r.ws_pong_received), peer'[c].got = peer[c].got
  PROVE  Usable(c, r)
BY DEF ServerIInv, SocketsOK, SocketOK, Usable, ServerAlike

\* The task goes on within its poll, or starts one.
LEMMA GoodGoing ==
  ASSUME ServerIInv, NEW c \in Connections, NEW r, Usable(c, r), Server!Set(c, r), Outside(c),
         running' = c \/ (running' = running /\ running # c), ServerActivePhase(conn[c]) \/ running' # c,
         open_connections' = open_connections
  PROVE  Good(c)
<1>1. ServerActivePhase(r) \/ running' # c
  BY DEF Usable, ServerActivePhase
<1>2. ServerTurn(c, r)
  BY <1>1, Going
<1> QED BY <1>2 DEF Good

LEMMA Polled ==
  ASSUME ServerIInv, NEW c \in Connections, running = c
  PROVE  /\ ServerActivePhase(conn[c]) /\ OpenPhase(conn[c]) /\ conn[c] \in Server!ConnType
         /\ ~(conn[c].ws_pong_timeout /\ conn[c].ws_pong_received)
BY Types DEF ServerIInv, RunningIsActive, ServerActivePhase, OpenPhase, SocketsOK, SocketOK

LEMMA GoodPoll ==
  ASSUME Server!ServerConstants, ServerIInv, NEW c \in Connections, Server!Poll(c) PROVE Good(c)
<1> DEFINE r == [conn[c] EXCEPT !.pc = "loop"]
<1>1. Outside(c) /\ peer'[c].got = peer[c].got
  BY SameOutside DEF Server!Poll, Server!Rest
<1>2. r \in Server!ConnType /\ ServerAlike(conn[c], r) /\ ~(r.ws_pong_timeout /\ r.ws_pong_received)
  BY Types DEF ServerIInv, Server!ConnType, ServerAlike, Server!PollSteps, SocketsOK, SocketOK
<1>3. Server!Set(c, r) /\ running' = c /\ ServerActivePhase(conn[c]) /\ open_connections' = open_connections
  BY DEF Server!Poll, Server!Active, ServerActivePhase, Server!Rest
<1> HIDE DEF r
<1>4. Usable(c, r)
  BY <1>1, <1>2, AlikeUsable
<1> QED BY <1>1, <1>3, <1>4, GoodGoing

\* The record after the delta was taken out of the tracker.
LEMMA TakenDelta ==
  ASSUME Server!ServerConstants, ServerIInv, NEW c \in Connections
  PROVE  LET r == Server!TakeDelta(conn[c])
         IN  /\ r \in Server!ConnType /\ r.phase = conn[c].phase /\ r.timedOut = conn[c].timedOut
             /\ r.ws_pong_timeout = conn[c].ws_pong_timeout
             /\ r.ws_pong_received = conn[c].ws_pong_received
             /\ r.broadcast_delta \in SUBSET (1..MaxVersion)
             /\ SocketOK(r, peer[c])
<1>1. conn[c] \in Server!ConnType /\ SocketOK(conn[c], peer[c]) /\ version \in 0..MaxVersion /\ MaxVersion \in Nat
  BY Types DEF ServerIInv, SocketsOK, Server!ServerConstants
<1>2. conn[c].subs \in 0..MaxVersion /\ conn[c].broadcast_delta \in SUBSET (1..MaxVersion)
  BY <1>1 DEF Server!ConnType
<1> DEFINE new == Server!Since(conn[c].subs)
           q == [conn[c] EXCEPT !.broadcast_delta = new, !.subs = version]
<1>3. new \in SUBSET (1..MaxVersion)
  BY <1>1, <1>2 DEF Server!Since
<1>4. 1..version \subseteq (1..conn[c].subs) \cup new
  BY <1>1, <1>2 DEF Server!Since
<1> HIDE DEF new
<1>5. /\ q \in Server!ConnType /\ q.phase = conn[c].phase /\ q.timedOut = conn[c].timedOut
      /\ q.ws_pong_timeout = conn[c].ws_pong_timeout
      /\ q.ws_pong_received = conn[c].ws_pong_received
      /\ q.client = conn[c].client /\ q.reply = conn[c].reply
      /\ q.broadcast_delta = new /\ q.subs = version
  BY <1>1, <1>3 DEF Server!ConnType
<1>6. \/ Server!TakeDelta(conn[c]) = conn[c]
      \/ Server!TakeDelta(conn[c]) = q /\ conn[c].broadcast_delta = {}
  BY DEF Server!TakeDelta, new
<1> HIDE DEF q
<1>7. CASE Server!TakeDelta(conn[c]) = conn[c]
  BY <1>1, <1>2, <1>7
<1>8. CASE Server!TakeDelta(conn[c]) = q /\ conn[c].broadcast_delta = {}
  <2>1. SocketOK(q, peer[c])
    BY <1>1, <1>4, <1>5, <1>8 DEF SocketOK
  <2> QED BY <1>3, <1>5, <1>8, <2>1
<1> QED BY <1>6, <1>7, <1>8

LEMMA GoodPollPing ==
  ASSUME Server!ServerConstants, ServerIInv, NEW c \in Connections, Server!PollPing(c) PROVE Good(c)
<1> DEFINE r == Server!TakeDelta(conn[c])
           q == [r EXCEPT !.pc = "flush"]
           w == IF r.broadcast_delta # {} THEN "SendPing" ELSE "Pong"
           o == [r EXCEPT !.ws_ping = FALSE, !.timer = "running", !.broadcast_delta = {}]
           p == [o EXCEPT !.waiting = w]
<1>1. /\ r \in Server!ConnType /\ r.phase = conn[c].phase /\ r.timedOut = conn[c].timedOut
      /\ r.ws_pong_timeout = conn[c].ws_pong_timeout
      /\ r.ws_pong_received = conn[c].ws_pong_received
      /\ r.broadcast_delta \in SUBSET (1..MaxVersion) /\ SocketOK(r, peer[c])
  BY TakenDelta
<1>2. running = c /\ UNCHANGED <<net, version, updater>>
  BY DEF Server!PollPing, Server!At
<1>3. ServerActivePhase(conn[c]) /\ OpenPhase(conn[c])
  BY <1>2, Polled
<1>p. p = [r EXCEPT !.ws_ping = FALSE, !.timer = "running", !.broadcast_delta = {}, !.waiting = w]
  BY <1>1 DEF Server!ConnType
<1>4. \/ Server!Set(c, q) /\ UNCHANGED <<peer, running, open_connections>>
      \/ Server!Set(c, p) /\ Server!Pinged(c, r.broadcast_delta) /\ UNCHANGED <<running, open_connections>>
      \/ Server!Ends(c, r) /\ UNCHANGED peer
  <2> HIDE DEF p, o
  <2> QED BY <1>p DEF Server!PollPing
<1>5. CASE Server!Set(c, q) /\ UNCHANGED <<peer, running, open_connections>>
  <2>1. Outside(c) /\ peer'[c].got = peer[c].got
    BY <1>2, <1>5, SameOutside
  <2> HIDE DEF r
  <2>2. /\ q \in Server!ConnType /\ q.phase = r.phase /\ q.timedOut = r.timedOut
        /\ q.subs = r.subs /\ q.broadcast_delta = r.broadcast_delta
        /\ q.client = r.client /\ q.reply = r.reply
        /\ q.ws_pong_timeout = r.ws_pong_timeout /\ q.ws_pong_received = r.ws_pong_received
    BY <1>1 DEF Server!ConnType, Server!PollSteps
  <2> HIDE DEF q
  <2>3. Usable(c, q)
    BY <1>1, <2>1, <2>2 DEF Usable, SocketOK
  <2> QED BY <1>2, <1>3, <1>5, <2>1, <2>3, GoodGoing
<1>6. CASE Server!Set(c, p) /\ Server!Pinged(c, r.broadcast_delta) /\ UNCHANGED <<running, open_connections>>
  <2> HIDE DEF r
  <2>2. /\ peer' \in [Connections -> PeerType]
        /\ \A b \in Connections \ {c} : peer'[b] = peer[b]
        /\ peer'[c].got = peer[c].got \cup r.broadcast_delta
    BY <1>1, <1>6, PingedPeer
  <2>3. Outside(c)
    BY <1>2, <2>2, Types DEF ServerIInv, Outside
  <2>4. w \in {"SendPing", "Pong", "Close"}
    OBVIOUS
  <2> HIDE DEF w
  <2>7. /\ o \in Server!ConnType /\ o.phase = r.phase /\ o.timedOut = r.timedOut
        /\ o.subs = r.subs /\ o.broadcast_delta = {}
        /\ o.client = r.client /\ o.reply = r.reply
        /\ o.ws_pong_timeout = r.ws_pong_timeout /\ o.ws_pong_received = r.ws_pong_received
    BY <1>1 DEF Server!ConnType
  <2> HIDE DEF o
  <2>5. /\ p \in Server!ConnType /\ p.phase = r.phase /\ p.timedOut = r.timedOut
        /\ p.subs = r.subs /\ p.broadcast_delta = {}
        /\ p.client = r.client /\ p.reply = r.reply
        /\ p.ws_pong_timeout = r.ws_pong_timeout /\ p.ws_pong_received = r.ws_pong_received
    BY <2>4, <2>7 DEF Server!ConnType
  <2> HIDE DEF p
  <2>8. SocketOK(p, peer'[c])
    BY <1>1, <2>2, <2>5 DEF SocketOK
  <2>6. Usable(c, p)
    BY <1>1, <2>5, <2>8 DEF Usable
  <2> QED BY <1>2, <1>3, <1>6, <2>3, <2>6, GoodGoing
<1>7. CASE Server!Ends(c, r) /\ UNCHANGED peer
  <2>1. Outside(c)
    BY <1>2, <1>7, SameOutside
  <2> HIDE DEF r
  <2>2. r.timedOut \in BOOLEAN
    BY <1>1 DEF Server!ConnType
  <2> QED BY <1>1, <1>3, <1>7, <2>1, <2>2, Ending DEF Good
<1> QED BY <1>4, <1>5, <1>6, <1>7

\* A step that only sets the record of the connection being polled.
LEMMA GoodSet ==
  ASSUME Server!ServerConstants, ServerIInv, NEW c \in Connections, running = c,
         NEW r \in Server!ConnType, ServerAlike(conn[c], r), Server!Set(c, r),
         ~(r.ws_pong_timeout /\ r.ws_pong_received),
         UNCHANGED <<net, peer, running>>, Server!Rest
  PROVE  Good(c)
<1>1. Outside(c) /\ peer'[c].got = peer[c].got
  BY SameOutside DEF Server!Rest
<1>2. Usable(c, r)
  BY <1>1, AlikeUsable
<1> QED BY <1>1, <1>2, Polled, GoodGoing DEF Server!Rest

LEMMA GoodWaitingForSendPing ==
  ASSUME Server!ServerConstants, ServerIInv, NEW c \in Connections, Server!WaitingForSendPing(c) PROVE Good(c)
<1> DEFINE r == IF conn[c].timer = "elapsed" THEN [conn[c] EXCEPT !.ws_ping = TRUE]
                ELSE [conn[c] EXCEPT !.pc = "flush"]
<1>1. Server!Set(c, r) /\ running = c /\ UNCHANGED <<net, peer, running>> /\ Server!Rest
  BY DEF Server!WaitingForSendPing, Server!Matching, Server!At
<1>2. r \in Server!ConnType /\ ServerAlike(conn[c], r) /\ ~(r.ws_pong_timeout /\ r.ws_pong_received)
  BY <1>1, Polled DEF Server!ConnType, Server!PollSteps, ServerAlike
<1> HIDE DEF r
<1> QED BY <1>1, <1>2, GoodSet

LEMMA GoodWaitingForPong ==
  ASSUME Server!ServerConstants, ServerIInv, NEW c \in Connections, Server!WaitingForPong(c) PROVE Good(c)
<1> DEFINE q == conn[c]
           r == IF q.ws_pong_received
                THEN [q EXCEPT !.timer = "running", !.waiting = "SendPing", !.ws_pong_received = FALSE]
                ELSE IF q.ws_pong_timeout THEN [q EXCEPT !.pc = "flush"]
                ELSE IF q.timer = "elapsed" THEN [q EXCEPT !.ws_pong_timeout = TRUE]
                ELSE [q EXCEPT !.pc = "flush"]
<1>1. Server!Set(c, r) /\ running = c /\ UNCHANGED <<net, peer, running>> /\ Server!Rest
  BY DEF Server!WaitingForPong, Server!Matching, Server!At
<1>2. r \in Server!ConnType /\ ServerAlike(conn[c], r) /\ ~(r.ws_pong_timeout /\ r.ws_pong_received)
  BY <1>1, Polled DEF Server!ConnType, Server!PollSteps, ServerAlike
<1> HIDE DEF r
<1> QED BY <1>1, <1>2, GoodSet

LEMMA GoodWaitingForClose ==
  ASSUME Server!ServerConstants, ServerIInv, NEW c \in Connections, Server!WaitingForClose(c) PROVE Good(c)
<1>1. Outside(c) /\ peer'[c].got = peer[c].got /\ running = c /\ Server!Ends(c, conn[c])
  BY SameOutside DEF Server!WaitingForClose, Server!Matching, Server!At
<1> QED BY <1>1, Polled, SameEnding DEF Good

LEMMA GoodPollComplete ==
  ASSUME Server!ServerConstants, ServerIInv, NEW c \in Connections, Server!PollComplete(c) PROVE Good(c)
<1> DEFINE r == conn[c]
           go == [r EXCEPT !.pc = IF r.phase = "closing" THEN "close" ELSE "client"]
           sent == [go EXCEPT !.ws_ping = FALSE]
<1>1. running = c /\ UNCHANGED <<net, version, updater>>
  BY DEF Server!PollComplete, Server!At
<1>2. /\ ServerActivePhase(r) /\ OpenPhase(r) /\ r \in Server!ConnType /\ SocketOK(r, peer[c])
      /\ r.broadcast_delta \in SUBSET (1..MaxVersion)
  BY <1>1, Polled, Types DEF ServerIInv, SocketsOK, Server!ConnType
<1>3. /\ go \in Server!ConnType /\ ServerAlike(r, go) /\ go.ws_pong_timeout = r.ws_pong_timeout
      /\ go.ws_pong_received = r.ws_pong_received /\ go.client = r.client
  BY <1>2 DEF Server!ConnType, Server!PollSteps, ServerAlike
<1>4. CASE Server!Pinged(c, r.broadcast_delta) /\ Server!Set(c, sent) /\ UNCHANGED <<running, open_connections>>
  <2> HIDE DEF go
  <2>2. /\ sent \in Server!ConnType /\ ServerAlike(go, sent) /\ sent.ws_pong_timeout = go.ws_pong_timeout
        /\ sent.ws_pong_received = go.ws_pong_received /\ sent.client = go.client
    BY <1>3 DEF Server!ConnType, ServerAlike
  <2>3. /\ peer' \in [Connections -> PeerType]
        /\ \A b \in Connections \ {c} : peer'[b] = peer[b]
        /\ peer'[c].got = peer[c].got \cup r.broadcast_delta
    BY <1>2, <1>4, PingedPeer
  <2>4. Outside(c)
    BY <1>1, <2>3, Types DEF ServerIInv, Outside
  <2> HIDE DEF sent
  <2>5. /\ sent.subs = r.subs /\ sent.reply = r.reply /\ sent.broadcast_delta = r.broadcast_delta
        /\ sent.phase = r.phase /\ sent.timedOut = r.timedOut
    BY <1>3, <2>2 DEF ServerAlike
  <2>6. SocketOK(sent, peer'[c])
    BY <1>2, <1>3, <2>2, <2>3, <2>5 DEF SocketOK
  <2>7. Usable(c, sent)
    BY <2>2, <2>5, <2>6 DEF Usable
  <2> QED BY <1>1, <1>2, <1>4, <2>4, <2>7, GoodGoing
<1>5. CASE Server!Set(c, go) /\ UNCHANGED <<peer, running, open_connections>>
  <2> HIDE DEF go
  <2>1. ~(go.ws_pong_timeout /\ go.ws_pong_received)
    BY <1>2, <1>3 DEF SocketOK
  <2> QED BY <1>1, <1>3, <1>5, <2>1, GoodSet DEF Server!Rest
<1>6. CASE Server!Ends(c, r) /\ UNCHANGED peer
  BY <1>1, <1>2, <1>6, SameOutside, SameEnding DEF Good
<1> QED
  <2> HIDE DEF sent
  <2> QED BY <1>4, <1>5, <1>6 DEF Server!PollComplete, sent

\* A record of the same connection that is Alike and honest about its pongs.
LEMMA ClientUsable ==
  ASSUME ServerIInv, NEW c \in Connections, UNCHANGED peer, NEW r \in Server!ConnType, ServerAlike(conn[c], r),
         ~(r.ws_pong_timeout /\ r.ws_pong_received)
  PROVE  Usable(c, r)
BY AlikeUsable

\* BroadcastSubscribe: what is new goes into the answer.
LEMMA Subscribes ==
  ASSUME Server!ServerConstants, ServerIInv, NEW c \in Connections, running = c, UNCHANGED peer, Outside(c),
         conn[c].client = "input",
         Server!Goes(c, [conn[c] EXCEPT !.client = "send", !.reply = Server!Since(conn[c].subs),
                                        !.subs = version])
  PROVE  Good(c)
<1>1. /\ conn[c] \in Server!ConnType /\ SocketOK(conn[c], peer[c]) /\ version \in 0..MaxVersion
      /\ MaxVersion \in Nat /\ ServerActivePhase(conn[c])
  BY Types, Polled DEF ServerIInv, SocketsOK, Server!ServerConstants
<1>2. conn[c].subs \in 0..MaxVersion
  BY <1>1 DEF Server!ConnType
<1> DEFINE new == Server!Since(conn[c].subs)
           q == [conn[c] EXCEPT !.client = "send", !.reply = new, !.subs = version]
<1>3. new \in SUBSET (1..MaxVersion)
  BY <1>1, <1>2 DEF Server!Since
<1>4. 1..version \subseteq (1..conn[c].subs) \cup new
  BY <1>1, <1>2 DEF Server!Since
<1>5. Server!Set(c, q) /\ UNCHANGED <<open_connections, running>>
  BY DEF Server!Goes
<1> HIDE DEF new
<1>6. /\ q \in Server!ConnType /\ q.phase = conn[c].phase /\ q.timedOut = conn[c].timedOut
      /\ q.ws_pong_timeout = conn[c].ws_pong_timeout
      /\ q.ws_pong_received = conn[c].ws_pong_received
      /\ q.client = "send" /\ q.reply = new
      /\ q.broadcast_delta = conn[c].broadcast_delta /\ q.subs = version
  BY <1>1, <1>3 DEF Server!ConnType
<1> HIDE DEF q
<1>7. SocketOK(q, peer'[c])
  BY <1>1, <1>4, <1>6 DEF SocketOK
<1>8. Usable(c, q)
  BY <1>6, <1>7 DEF Usable
<1> QED BY <1>1, <1>5, <1>8, GoodGoing

LEMMA GoodReadFrame ==
  ASSUME Server!ServerConstants, ServerIInv, NEW c \in Connections, Server!ReadFrame(c) PROVE Good(c)
<1> DEFINE r == conn[c]
           rest == Tail(net[c].inbox)
<1>1. running = c /\ UNCHANGED <<peer, version, updater>> /\ net[c].inbox # <<>>
  BY DEF Server!ReadFrame, Server!At
<1>2. ServerActivePhase(r) /\ r \in Server!ConnType /\ ~(r.ws_pong_timeout /\ r.ws_pong_received)
  BY <1>1, Polled
<1>3. net \in [Connections -> NetType] /\ net[c].inbox \in Seq({"pong", "text", "close"})
  BY Types DEF ServerIInv, NetType
<1>4. net' \in [Connections -> NetType]
  <2>1. rest \in Seq({"pong", "text", "close"})
    BY <1>1, <1>3
  <2>2. net' = [net EXCEPT ![c].inbox = rest]
    BY DEF Server!ReadFrame
  <2> HIDE DEF rest
  <2> QED BY <1>3, <2>1, <2>2 DEF NetType
<1>5. Outside(c)
  BY <1>1, <1>4, Types DEF ServerIInv, Outside
<1>7. ASSUME NEW q \in Server!ConnType, ServerAlike(r, q), ~(q.ws_pong_timeout /\ q.ws_pong_received), Server!Set(c, q),
             UNCHANGED <<open_connections, running>>
      PROVE  Good(c)
  BY <1>1, <1>2, <1>5, <1>7, ClientUsable, GoodGoing
<1>8. CASE Server!Goes(c, [r EXCEPT !.ws_pong_received = TRUE, !.ws_pong_timeout = FALSE])
  <2> DEFINE q == [r EXCEPT !.ws_pong_received = TRUE, !.ws_pong_timeout = FALSE]
  <2>1. q \in Server!ConnType /\ ServerAlike(r, q) /\ ~(q.ws_pong_timeout /\ q.ws_pong_received)
    BY <1>2 DEF Server!ConnType, ServerAlike
  <2> QED BY <1>7, <1>8, <2>1 DEF Server!Goes
<1>9. CASE Server!ReadText(c, r)
  <2>1. CASE Server!ClientFails(c, r)
    BY <1>1, <1>5, <2>1, SameUsable, Failing DEF Good
  <2>2. ASSUME NEW next \in {"processing", "busy", "send", "input"}, r.client \in {"hello", "input"},
               Server!Goes(c, [r EXCEPT !.client = next])
        PROVE  Good(c)
    <3> DEFINE q == [r EXCEPT !.client = next]
    <3>1. q \in Server!ConnType /\ ServerAlike(r, q) /\ ~(q.ws_pong_timeout /\ q.ws_pong_received)
      BY <1>2, <2>2 DEF Server!ConnType, ServerAlike
    <3> QED BY <1>7, <2>2, <3>1 DEF Server!Goes
  <2>3. ASSUME r.client = "input",
               Server!Goes(c, [r EXCEPT !.client = "send", !.reply = Server!Since(r.subs), !.subs = version])
        PROVE  Good(c)
    BY <1>1, <1>2, <1>5, <2>3, Subscribes
  <2> QED BY <1>9, <2>1, <2>2, <2>3 DEF Server!ReadText
<1>10. CASE Server!ClientFails(c, r)
  BY <1>1, <1>5, <1>10, SameUsable, Failing DEF Good
<1> QED BY <1>8, <1>9, <1>10 DEF Server!ReadFrame

LEMMA GoodNothingToRead ==
  ASSUME Server!ServerConstants, ServerIInv, NEW c \in Connections, Server!NothingToRead(c) PROVE Good(c)
<1> DEFINE r == conn[c]
           q == [r EXCEPT !.timedOut = TRUE]
<1>1. /\ Outside(c) /\ UNCHANGED peer /\ peer'[c].got = peer[c].got /\ running = c
      /\ net[c].inbox = <<>>
  BY SameOutside DEF Server!NothingToRead, Server!At
<1>2. r \in Server!ConnType /\ ~(r.ws_pong_timeout /\ r.ws_pong_received)
  BY <1>1, Polled
<1>3. CASE r.ws_pong_timeout
  <2>1. /\ q \in Server!ConnType /\ q.phase = r.phase /\ q.broadcast_delta = r.broadcast_delta
        /\ q.subs = r.subs /\ q.ws_pong_timeout = r.ws_pong_timeout
        /\ q.client = r.client /\ q.reply = r.reply /\ q.ws_pong_received = r.ws_pong_received
    BY <1>2 DEF Server!ConnType
  <2>2. Server!ClientFails(c, q)
    BY <1>3 DEF Server!NothingToRead
  <2>3. ~r.ws_pong_received
    BY <1>2, <1>3
  <2> HIDE DEF q
  <2>4. Usable(c, q)
    BY <1>1, <2>1, <2>3 DEF Usable, SocketOK, ServerIInv, SocketsOK
  <2> QED BY <1>1, <2>2, <2>4, Failing DEF Good
<1>4. CASE ~r.ws_pong_timeout
  <2>1. Server!Returns(c, r)
    BY <1>4 DEF Server!NothingToRead
  <2> QED BY <1>1, <2>1, SameUsable, Returning DEF Good
<1> QED BY <1>3, <1>4

LEMMA GoodHelloTimeout ==
  ASSUME Server!ServerConstants, ServerIInv, NEW c \in Connections, Server!HelloTimeout(c) PROVE Good(c)
<1>1. Outside(c) /\ peer'[c].got = peer[c].got /\ running = c /\ Server!Ends(c, conn[c])
  BY SameOutside DEF Server!HelloTimeout, Server!At
<1> QED BY <1>1, Polled, SameEnding DEF Good

LEMMA GoodClientSends ==
  ASSUME Server!ServerConstants, ServerIInv, NEW c \in Connections, Server!ClientSends(c) PROVE Good(c)
<1> DEFINE r == conn[c]
           pinged == [r EXCEPT !.ws_ping = FALSE]
           p == IF r.ws_ping THEN Server!send_ws_ping(peer[c], r.broadcast_delta) ELSE peer[c]
           q == [pinged EXCEPT !.client = "input", !.reply = {}]
           o == [p EXCEPT !.got = p.got \cup r.reply]
<1>1. running = c /\ r.client = "send" /\ UNCHANGED <<net, version, updater>>
  BY DEF Server!ClientSends, Server!At
<1>2. /\ ServerActivePhase(r) /\ r \in Server!ConnType /\ SocketOK(r, peer[c]) /\ peer[c] \in PeerType
      /\ peer \in [Connections -> PeerType] /\ r.broadcast_delta \in SUBSET (1..MaxVersion)
      /\ r.reply \in SUBSET (1..MaxVersion)
  BY <1>1, Polled, Types DEF ServerIInv, SocketsOK, Server!ConnType
<1>3. p \in PeerType /\ p.got \in {peer[c].got, peer[c].got \cup r.broadcast_delta}
  BY <1>2, SentPing
<1>4. /\ pinged \in Server!ConnType /\ pinged.phase = r.phase /\ pinged.broadcast_delta = r.broadcast_delta
      /\ pinged.subs = r.subs /\ pinged.reply = r.reply /\ pinged.client = r.client
      /\ pinged.ws_pong_timeout = r.ws_pong_timeout
      /\ pinged.ws_pong_received = r.ws_pong_received /\ pinged.timedOut = r.timedOut
  BY <1>2 DEF Server!ConnType
<1>5. \/ Server!Returns(c, r) /\ UNCHANGED peer
      \/ Server!Returns(c, pinged) /\ peer' = [peer EXCEPT ![c] = p]
      \/ Server!Goes(c, q) /\ peer' = [peer EXCEPT ![c] = o]
      \/ Server!ClientFails(c, r) /\ UNCHANGED peer
  BY DEF Server!ClientSends
<1> HIDE DEF p, pinged
<1>6. CASE (Server!Returns(c, r) \/ Server!ClientFails(c, r)) /\ UNCHANGED peer
  BY <1>1, <1>6, SameOutside, SameUsable, Returning, Failing DEF Good
<1>7. CASE Server!Returns(c, pinged) /\ peer' = [peer EXCEPT ![c] = p]
  <2>1. Outside(c) /\ peer'[c] = p
    BY <1>1, <1>2, <1>3, <1>7, Types DEF ServerIInv, Outside
  <2>2. SocketOK(pinged, p)
    BY <1>2, <1>3, <1>4 DEF SocketOK
  <2>3. Usable(c, pinged)
    BY <1>4, <2>1, <2>2 DEF Usable
  <2> QED BY <1>7, <2>1, <2>3, Returning DEF Good
<1>8. CASE Server!Goes(c, q) /\ peer' = [peer EXCEPT ![c] = o]
  <2>1. /\ q \in Server!ConnType /\ q.phase = r.phase /\ q.broadcast_delta = r.broadcast_delta
        /\ q.subs = r.subs /\ q.client = "input" /\ q.reply = {}
        /\ q.ws_pong_timeout = r.ws_pong_timeout
        /\ q.ws_pong_received = r.ws_pong_received /\ q.timedOut = r.timedOut
    BY <1>4 DEF Server!ConnType
  <2>2. o \in PeerType /\ o.got = p.got \cup r.reply
    BY <1>2, <1>3 DEF PeerType
  <2> HIDE DEF q, o
  <2>3. Outside(c) /\ peer'[c] = o
    BY <1>1, <1>2, <1>8, <2>2, Types DEF ServerIInv, Outside
  <2>4. SocketOK(q, o)
    BY <1>1, <1>2, <1>3, <2>1, <2>2 DEF SocketOK
  <2>5. Usable(c, q)
    BY <2>1, <2>3, <2>4 DEF Usable
  <2> QED BY <1>1, <1>2, <1>8, <2>3, <2>5, GoodGoing DEF Server!Goes
<1> QED BY <1>5, <1>6, <1>7, <1>8

LEMMA GoodClientWaits ==
  ASSUME Server!ServerConstants, ServerIInv, NEW c \in Connections, Server!ClientWaits(c) PROVE Good(c)
<1>1. Outside(c) /\ peer'[c].got = peer[c].got /\ Server!Returns(c, conn[c])
  BY SameOutside DEF Server!ClientWaits
<1> QED BY <1>1, SameUsable, Returning DEF Good

LEMMA GoodClientCalled ==
  ASSUME Server!ServerConstants, ServerIInv, NEW c \in Connections, Server!ClientCalled(c) PROVE Good(c)
<1> DEFINE r == conn[c]
           q == [r EXCEPT !.client = "send"]
           h == [r EXCEPT !.client = "connecting", !.subs = version, !.reply = 1..version]
<1>1. Outside(c) /\ UNCHANGED peer /\ peer'[c].got = peer[c].got /\ running = c
  BY SameOutside DEF Server!ClientCalled, Server!At
<1>2. /\ r \in Server!ConnType /\ SocketOK(r, peer[c]) /\ version \in 0..MaxVersion /\ MaxVersion \in Nat
      /\ ServerActivePhase(r) /\ r.client \in {"processing", "connecting", "busy"}
  BY <1>1, Types, Polled DEF ServerIInv, SocketsOK, Server!ServerConstants, Server!ClientCalled
<1>3. CASE Server!ClientFails(c, r)
  BY <1>1, <1>3, SameUsable, Failing DEF Good
<1>4. CASE Server!Goes(c, q)
  <2>1. q \in Server!ConnType /\ ServerAlike(r, q) /\ ~(q.ws_pong_timeout /\ q.ws_pong_received)
    BY <1>1, <1>2, Polled DEF Server!ConnType, ServerAlike
  <2> HIDE DEF q
  <2> QED BY <1>1, <1>4, <2>1, ClientUsable, GoodGoing, Polled DEF Server!Goes
<1>5. CASE Server!Goes(c, h)
  <2>1. 1..version \in SUBSET (1..MaxVersion)
    BY <1>2
  <2>2. /\ h \in Server!ConnType /\ h.phase = r.phase /\ h.client = "connecting"
        /\ h.reply = 1..version /\ h.subs = version
        /\ h.ws_pong_timeout = r.ws_pong_timeout
        /\ h.ws_pong_received = r.ws_pong_received /\ h.timedOut = r.timedOut
    BY <1>2, <2>1 DEF Server!ConnType
  <2> HIDE DEF h
  <2>3. SocketOK(h, peer'[c])
    BY <1>2, <2>2 DEF SocketOK
  <2>4. Usable(c, h)
    BY <2>2, <2>3 DEF Usable
  <2> QED BY <1>1, <1>2, <1>5, <2>4, GoodGoing DEF Server!Goes
<1> QED BY <1>3, <1>4, <1>5 DEF Server!ClientCalled, Server!HelloProcessed

LEMMA GoodDisconnected ==
  ASSUME Server!ServerConstants, ServerIInv, NEW c \in Connections, Server!Disconnected(c) PROVE Good(c)
<1>1. Outside(c) /\ peer'[c].got = peer[c].got /\ running = c /\ Server!ClientFails(c, conn[c])
  BY SameOutside DEF Server!Disconnected, Server!At
<1> QED BY <1>1, SameUsable, Failing DEF Good

LEMMA GoodClientDone ==
  ASSUME Server!ServerConstants, ServerIInv, NEW c \in Connections, Server!ClientDone(c) PROVE Good(c)
<1> DEFINE r == [conn[c] EXCEPT !.phase = "closing", !.pc = "close"]
           q == IF CloseTimeout THEN [r EXCEPT !.timer = "running", !.waiting = "Close"] ELSE r
<1>1. Outside(c) /\ peer'[c].got = peer[c].got /\ running = c /\ running' = running
  BY SameOutside DEF Server!ClientDone, Server!Rest, Server!At
<1>2. Server!Set(c, q) /\ open_connections' = open_connections
  BY DEF Server!ClientDone, Server!Rest
<1>3. conn[c] \in Server!ConnType /\ SocketOK(conn[c], peer[c]) /\ OpenPhase(conn[c])
  BY <1>1, Polled DEF ServerIInv, SocketsOK
<1>4. /\ r \in Server!ConnType /\ r.phase = "closing" /\ r.broadcast_delta = conn[c].broadcast_delta
      /\ r.client = conn[c].client /\ r.reply = conn[c].reply
      /\ r.subs = conn[c].subs /\ r.ws_pong_timeout = conn[c].ws_pong_timeout
      /\ r.ws_pong_received = conn[c].ws_pong_received /\ r.timedOut = conn[c].timedOut
  BY <1>3 DEF Server!ConnType, Server!PollSteps
<1> HIDE DEF r
<1>5. /\ q \in Server!ConnType /\ q.phase = "closing" /\ q.broadcast_delta = conn[c].broadcast_delta
      /\ q.client = conn[c].client /\ q.reply = conn[c].reply
      /\ q.subs = conn[c].subs /\ q.ws_pong_timeout = conn[c].ws_pong_timeout
      /\ q.ws_pong_received = conn[c].ws_pong_received /\ q.timedOut = conn[c].timedOut
  BY <1>4 DEF Server!ConnType
<1> HIDE DEF q
<1>6. SocketOK(q, peer'[c]) /\ ServerActivePhase(q) /\ OpenPhase(q)
  BY <1>1, <1>3, <1>5 DEF SocketOK, ServerActivePhase, OpenPhase
<1>7. ServerTurn(c, q)
  BY <1>1, <1>2, <1>3, <1>5, <1>6 DEF ServerTurn, CountedStep
<1> QED BY <1>1, <1>7 DEF Good

LEMMA GoodCloseSocket ==
  ASSUME Server!ServerConstants, ServerIInv, NEW c \in Connections, Server!CloseSocket(c) PROVE Good(c)
<1>1. Outside(c) /\ peer'[c].got = peer[c].got /\ running = c
  BY SameOutside DEF Server!CloseSocket, Server!At
<1>2. CASE Server!Returns(c, conn[c])
  BY <1>1, <1>2, SameUsable, Returning DEF Good
<1>3. CASE Server!Ends(c, conn[c])
  BY <1>1, <1>3, SameEnding, Polled DEF Good
<1> QED BY <1>2, <1>3 DEF Server!CloseSocket

-----------------------------------------------------------------------------
\* Peers, sockets and timers.
LEMMA WorldKeeps ==
  ASSUME Server!ServerConstants, ServerIInv, NEW c \in Connections, Outside(c), Server!World,
         peer'[c].got = peer[c].got, UNCHANGED conn
  PROVE  Good(c)
<1>1. Server!Set(c, conn[c]) /\ Usable(c, conn[c])
  BY Types, SameUsable DEF ServerIInv, Server!Set
<1>2. ServerActivePhase(conn[c]) \/ running' # c
  BY DEF Server!World, ServerIInv, RunningIsActive
<1>3. ServerTurn(c, conn[c])
  BY <1>1, <1>2, Going DEF Server!World
<1> QED BY <1>3 DEF Good

LEMMA ArrivesNet ==
  ASSUME ServerIInv, NEW c \in Connections, NEW f \in {"pong", "text", "close"}, Server!Arrives(c, f)
  PROVE  net' \in [Connections -> NetType]
<1>1. net \in [Connections -> NetType]
  BY Types DEF ServerIInv
<1> DEFINE i == Append(net[c].inbox, f)
<1>2. i \in Seq({"pong", "text", "close"})
  BY <1>1 DEF NetType
<1>3. net' = [net EXCEPT ![c].inbox = i]
  BY DEF Server!Arrives
<1> HIDE DEF i
<1> QED BY <1>1, <1>2, <1>3 DEF NetType

LEMMA GoodPeer ==
  ASSUME Server!ServerConstants, ServerIInv, NEW c \in Connections, Server!PeerStep(c) \/ Server!SendQueueDrains(c)
  PROVE  Good(c)
<1>1. net \in [Connections -> NetType] /\ peer \in [Connections -> PeerType] /\ peer[c] \in PeerType
  BY Types DEF ServerIInv
<1>2. UNCHANGED conn /\ Server!World
  BY DEF Server!PeerStep, Server!SendQueueDrains, Server!PeerPong, Server!PeerText, Server!PeerLeaves, Server!SendQueueFills
<1>3. net' \in [Connections -> NetType]
  <2>1. CASE \E f \in {"pong", "text", "close"} : Server!Arrives(c, f)
    BY <2>1, ArrivesNet
  <2>2. CASE UNCHANGED net
    BY <1>1, <2>2
  <2>3. CASE \E b \in BOOLEAN : net' = [net EXCEPT ![c].full = b]
    BY <1>1, <2>3 DEF NetType
  <2> QED BY <2>1, <2>2, <2>3
          DEF Server!PeerStep, Server!SendQueueDrains, Server!PeerPong, Server!PeerText, Server!PeerLeaves, Server!SendQueueFills
<1>4. \/ UNCHANGED peer
      \/ peer[c].pings > 0 /\ peer' = [peer EXCEPT ![c].pings = peer[c].pings - 1]
      \/ peer[c].texts < MaxTexts /\ peer' = [peer EXCEPT ![c].texts = peer[c].texts + 1]
      \/ peer' = [peer EXCEPT ![c].silent = TRUE]
  BY DEF Server!PeerStep, Server!SendQueueDrains, Server!PeerPong, Server!PeerText, Server!PeerLeaves, Server!SendQueueFills
<1>5. peer' \in [Connections -> PeerType] /\ peer'[c].got = peer[c].got
      /\ \A d \in Connections \ {c} : peer'[d] = peer[d]
  <2>1. ASSUME NEW p \in PeerType, p.got = peer[c].got, peer' = [peer EXCEPT ![c] = p]
        PROVE  peer' \in [Connections -> PeerType] /\ peer'[c].got = peer[c].got
               /\ \A d \in Connections \ {c} : peer'[d] = peer[d]
    BY <1>1, <2>1
  <2>2. CASE UNCHANGED peer
    BY <1>1, <2>2
  <2>3. CASE peer[c].pings > 0 /\ peer' = [peer EXCEPT ![c].pings = peer[c].pings - 1]
    <3> DEFINE p == [peer[c] EXCEPT !.pings = peer[c].pings - 1]
    <3>1. p \in PeerType /\ p.got = peer[c].got
      BY <1>1, <2>3 DEF PeerType, Server!ServerConstants
    <3>2. peer' = [peer EXCEPT ![c] = p]
      BY <2>3
    <3> QED BY <2>1, <3>1, <3>2
  <2>4. CASE peer[c].texts < MaxTexts /\ peer' = [peer EXCEPT ![c].texts = peer[c].texts + 1]
    <3> DEFINE p == [peer[c] EXCEPT !.texts = peer[c].texts + 1]
    <3>1. p \in PeerType /\ p.got = peer[c].got
      BY <1>1, <2>4 DEF PeerType, Server!ServerConstants
    <3>2. peer' = [peer EXCEPT ![c] = p]
      BY <2>4
    <3> QED BY <2>1, <3>1, <3>2
  <2>5. CASE peer' = [peer EXCEPT ![c].silent = TRUE]
    <3> DEFINE p == [peer[c] EXCEPT !.silent = TRUE]
    <3>1. p \in PeerType /\ p.got = peer[c].got
      BY <1>1 DEF PeerType
    <3>2. peer' = [peer EXCEPT ![c] = p]
      BY <2>5
    <3> QED BY <2>1, <3>1, <3>2
  <2> QED BY <1>4, <2>2, <2>3, <2>4, <2>5
<1>6. Outside(c)
  BY <1>2, <1>3, <1>5, Types DEF ServerIInv, Server!World, Outside
<1> QED BY <1>2, <1>5, <1>6, WorldKeeps

LEMMA GoodTimerElapses ==
  ASSUME Server!ServerConstants, ServerIInv, NEW c \in Connections, Server!TimerElapses(c) PROVE Good(c)
<1> DEFINE r == [conn[c] EXCEPT !.timer = "elapsed"]
<1>1. Outside(c) /\ UNCHANGED peer /\ peer'[c].got = peer[c].got /\ Server!World /\ Server!Set(c, r)
  BY SameOutside DEF Server!TimerElapses, Server!World
<1>2. conn[c] \in Server!ConnType /\ ~(conn[c].ws_pong_timeout /\ conn[c].ws_pong_received)
  BY Types DEF ServerIInv, SocketsOK, SocketOK
<1>3. r \in Server!ConnType /\ ServerAlike(conn[c], r) /\ ~(r.ws_pong_timeout /\ r.ws_pong_received)
  BY <1>2 DEF Server!ConnType, ServerAlike
<1>4. ServerActivePhase(conn[c])
  BY DEF Server!TimerElapses, Server!Active, ServerActivePhase
<1> HIDE DEF r
<1>5. Usable(c, r) /\ ServerActivePhase(r)
  BY <1>1, <1>3, <1>4, ClientUsable DEF ServerAlike, ServerActivePhase
<1>6. ServerTurn(c, r)
  BY <1>1, <1>5, Going DEF Server!World
<1> QED BY <1>1, <1>6 DEF Good

-----------------------------------------------------------------------------
(***************************************************************************)
(* The theorems                                                            *)
(***************************************************************************)
LEMMA ServerInitIInv ==
  ASSUME Server!ServerConstants, Server!Init PROVE ServerIInv
<1>1. Server!NewConn \in Server!ConnType
  BY DEF Server!NewConn, Server!ConnType, Server!ServerConstants, Server!PollSteps
<1>2. Server!TypeOK
  BY <1>1 DEF Server!Init, Server!TypeOK, Server!ServerConstants
<1>3. \A c \in Connections : conn[c] = Server!NewConn /\ peer[c].got = {}
  BY DEF Server!Init
<1>4. Server!Open = {}
  BY <1>3 DEF Server!Open, Server!NewConn
<1>5. Counted
  BY <1>4, FS_EmptySet, SameCardinality DEF Counted, Server!SlotsCounted, Server!Init, Server!ServerConstants
<1>0. 1..0 = {}
  OBVIOUS
<1>6. SocketsOK
  BY <1>0, <1>3 DEF SocketsOK, SocketOK, Server!NewConn
<1>7. RunningIsActive
  BY DEF RunningIsActive, Server!Init, Server!ServerConstants
<1> QED BY <1>2, <1>5, <1>6, <1>7 DEF ServerIInv

LEMMA NextGood ==
  ASSUME Server!ServerConstants, ServerIInv, Server!Next
  PROVE  \/ \E c \in Connections : Good(c)
         \/ /\ UNCHANGED <<conn, net, peer, open_connections, running>>
            /\ version' \in 0..MaxVersion /\ updater' \in {"waiting", "requesting"}
<1>1. ASSUME NEW c \in Connections,
             \/ Server!Accept(c) \/ Server!Dispatched(c) \/ Server!Handshaken(c) \/ Server!HandshakeTimeout(c)
             \/ Server!Poll(c) \/ Server!PollStep(c) \/ Server!PeerStep(c) \/ Server!SendQueueDrains(c) \/ Server!TimerElapses(c)
      PROVE  Good(c)
  <2>1. CASE Server!PollStep(c)
    BY <2>1, GoodPollPing, GoodWaitingForSendPing, GoodWaitingForPong, GoodWaitingForClose,
       GoodPollComplete, GoodReadFrame, GoodNothingToRead, GoodHelloTimeout, GoodClientSends,
       GoodClientWaits, GoodClientCalled, GoodDisconnected, GoodClientDone, GoodCloseSocket
       DEF Server!PollStep
  <2> QED BY <1>1, <2>1, GoodAccept, GoodHandshake, GoodPoll, GoodPeer, GoodTimerElapses
<1>2. CASE Server!MegaphoneRequest \/ Server!MegaphoneResponse
  <2>1. version \in 0..MaxVersion /\ MaxVersion \in Nat
    BY Types DEF ServerIInv, Server!ServerConstants
  <2> QED BY <1>2, <2>1 DEF Server!MegaphoneRequest, Server!MegaphoneResponse
<1> QED BY <1>1, <1>2 DEF Server!Next

LEMMA ServerNextIInv ==
  ASSUME Server!ServerConstants, ServerIInv, [Server!Next]_(Server!vars) PROVE ServerIInv'
<1>1. CASE \E c \in Connections : Good(c)
  BY <1>1, ServerTurnKeeps DEF Good
<1>2. CASE /\ UNCHANGED <<conn, net, peer, open_connections, running>>
           /\ version' \in 0..MaxVersion /\ updater' \in {"waiting", "requesting"}
  BY <1>2 DEF ServerIInv, Server!TypeOK, SocketsOK, RunningIsActive, Counted, Server!SlotsCounted, Server!Open
<1>3. CASE UNCHANGED Server!vars
  <2>1. /\ UNCHANGED <<conn, net, peer, open_connections, running>>
        /\ version' \in 0..MaxVersion /\ updater' \in {"waiting", "requesting"}
    BY <1>3 DEF Server!vars, ServerIInv, Server!TypeOK
  <2> QED BY <1>2, <2>1
<1> QED BY <1>1, <1>2, <1>3, NextGood

LEMMA Invariance == ASSUME Server!ServerConstants PROVE Server!Spec => []ServerIInv
<1>1. Server!Init => ServerIInv
  BY ServerInitIInv
<1>2. ServerIInv /\ [Server!Next]_(Server!vars) => ServerIInv'
  BY ServerNextIInv
<1> QED BY <1>1, <1>2, PTL DEF Server!Spec

\* The state of the legacy server's connections has the type the module says.
THEOREM ServerTypeCorrect == ASSUME Server!ServerConstants PROVE Server!Spec => []Server!TypeOK
<1>1. ServerIInv => Server!TypeOK
  BY DEF ServerIInv
<1> QED BY <1>1, Invariance, PTL

\* open_connections counts the open connections and never exceeds
\* max_connections, whichever of its many ways a connection ends.
THEOREM SlotsAreCounted == ASSUME Server!ServerConstants PROVE Server!Spec => []Server!SlotsCounted
<1>1. ServerIInv => Server!SlotsCounted
  BY DEF ServerIInv, Counted
<1> QED BY <1>1, Invariance, PTL

\* Each revision up to the subscription's change_count was sent, is in the
\* socket (broadcast_delta, send_ws_ping) or in the answer the client has to
\* send (to a hello or a BroadcastSubscribe), however the sink and the polls go.
THEOREM DeltasReachPeers == ASSUME Server!ServerConstants PROVE Server!Spec => []Server!DeltaKept
<1>1. ServerIInv => Server!DeltaKept
  BY DEF ServerIInv, SocketsOK, SocketOK, Server!DeltaKept
<1> QED BY <1>1, Invariance, PTL

\* PongTimeout only ends a session with nothing to read that has not read a
\* pong (WebpushSocket's Stream::poll).
THEOREM TimeoutsAreHonest == ASSUME Server!ServerConstants PROVE Server!Spec => Server!NoFalseTimeout
<1>1. ServerIInv /\ [Server!Next]_(Server!vars) => [Server!TimeoutHonest]_(Server!vars)
  <2> SUFFICES ASSUME ServerIInv, Server!Next PROVE Server!TimeoutHonest
    OBVIOUS
  <2>1. CASE UNCHANGED conn
    BY <2>1 DEF Server!TimeoutHonest
  <2>2. ASSUME NEW c \in Connections, Good(c) PROVE Server!TimeoutHonest
    <3>1. PICK r : ServerTurn(c, r)
      BY <2>2 DEF Good
    <3>2. conn'[c] = r /\ \A d \in Connections \ {c} : conn'[d] = conn[d]
      BY <3>1, TurnSets DEF ServerIInv
    <3>3. r.timedOut /\ ~conn[c].timedOut => net[c].inbox = <<>> /\ ~conn[c].ws_pong_received
      BY <3>1 DEF ServerTurn
    <3> QED BY <3>2, <3>3 DEF Server!TimeoutHonest
  <2> QED BY <2>1, <2>2, NextGood
<1> QED BY <1>1, Invariance, PTL DEF Server!Spec, Server!NoFalseTimeout
=============================================================================
