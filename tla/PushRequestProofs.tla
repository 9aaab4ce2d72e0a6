-------------------------- MODULE PushRequestProofs --------------------------
(***************************************************************************)
(* Proofs about module PushRequest, for any number of requests, channels   *)
(* and keys and any Authorization and other headers.                       *)
(***************************************************************************)
EXTENDS PushRequest, TLAPS, SequenceTheorems, WellFoundedInduction

(***************************************************************************)
(* The inductive invariant: what the extractors have established about a   *)
(* request when it has got to a given point.  A request past the token     *)
(* check of a restricted subscription carries the key of its channel, one  *)
(* past validate_vapid_jwt was signed with the key it carries and was in   *)
(* time then, and one past the headers has headers that passed and an id   *)
(* made of them.                                                           *)
(***************************************************************************)
Phases == {"idle", "user", "channels", "body", "route", "done"}
Refusals == {"NoTTL", "InvalidEncryption", "Validation", "VapidError", "InvalidToken",
             "NoSubscription", "PayloadError", "Database"}
PublicKeys == {NoKey} \cup {extract_public_key(a, h) : a \in Auths, h \in Headers}
MessageIds ==
  {<<>>} \cup {generate_message_id(c, h.topic, t) : c \in Channels, h \in Headers, t \in 1..MaxClock}
RequestType ==
  [pc : Phases, result : {"none", "created"} \cup Refusals, chid : Channels \cup {"none"},
   auth : Auths \cup {NoAuth}, key : PublicKeys, headers : Headers \cup {"none"}, posted : Nat,
   id : MessageIds, ttl : 0..MAX_TTL, deleted : BOOLEAN]

PastToken(R) == R.pc \in {"user", "channels", "body", "route"} \/ R.result = "created"
PastClaims(R) == R.pc \in {"body", "route"} \/ R.result = "created"
PastHeaders(R) == R.pc = "route" \/ R.result = "created"

Keyed(R, keys) ==
  keys[R.chid] # NoKey => R.auth.scheme # "none" /\ R.key = keys[R.chid]
Claimed(R, now) ==
  R.auth.scheme # "none" => /\ R.auth.signer = R.key
                            /\ R.posted <= R.auth.exp + Leeway
                            /\ now >= R.auth.exp - OneDay
Identified(R) ==
  /\ HeadersResult(R.headers) = "ok"
  /\ \E t \in 1..MaxClock : R.id = generate_message_id(R.chid, R.headers.topic, t)

Sound(R, keys, now) ==
  /\ R \in RequestType
  /\ R.pc = "done" <=> R.result # "none"
  /\ R.posted <= now
  /\ R.pc # "idle" => R.chid \in Channels /\ R.auth \in Auths /\ R.headers \in Headers
  /\ PastToken(R) => Keyed(R, keys)
  /\ PastClaims(R) => Claimed(R, now)
  /\ PastHeaders(R) => Identified(R)

IInv ==
  /\ clock \in 1..MaxClock
  /\ user \in [exists : BOOLEAN, chids : SUBSET Channels]
  /\ DOMAIN request = Requests /\ request = [r \in Requests |-> request[r]]
  /\ \A r \in Requests : Sound(request[r], key, clock)

-----------------------------------------------------------------------------
(* What the checks of the extractors establish. *)

\* The token of a restricted subscription is taken on the path of version 2 only,
\* and with its key.
LEMMA TokenEstablishes ==
  ASSUME NEW c \in Channels, NEW version \in {"v1", "v2"}, NEW auth, NEW h,
         NEW token \in {<<>>, make_endpoint(c).token}, key[c] # NoKey,
         TokenResult(version, token, auth, h) = "ok"
  PROVE  auth.scheme # "none" /\ extract_public_key(auth, h) = key[c]
<1>1. make_endpoint(c).token = <<"uaid", c, key[c]>>
  BY DEF make_endpoint
<1>2. token # <<>>
  BY DEF TokenResult
<1>3. token = <<"uaid", c, key[c]>>
  BY <1>1, <1>2
<1>4. Len(token) = 3 /\ token[3] = key[c]
  BY <1>3
<1>5. version # "v1"
  BY <1>4 DEF TokenResult, version_1_validation
<1>6. version_2_validation(token, auth,
         IF auth.scheme = "none" THEN NoKey ELSE extract_public_key(auth, h)) = "ok"
  BY <1>2, <1>5 DEF TokenResult
<1> QED BY <1>4, <1>6 DEF version_2_validation

LEMMA TokenResults ==
  ASSUME NEW version, NEW token, NEW auth, NEW h
  PROVE  TokenResult(version, token, auth, h) \in Refusals \cup {"ok"}
BY DEF TokenResult, version_2_validation, Refusals

LEMMA HeadersResults ==
  ASSUME NEW h
  PROVE  HeadersResult(h) \in Refusals \cup {"ok"}
BY DEF HeadersResult, Refusals

\* Headers that pass have a time to live that fits, and a topic of one segment if any.
LEMMA HeadersEstablish ==
  ASSUME PushRequestAssumption, NEW h \in Headers, HeadersResult(h) = "ok"
  PROVE  /\ CutTTL(h) % 2^TTLWidth \in 0..MAX_TTL
         /\ h.topic \in Seq(STRING)
         /\ h.topic = <<>> \/ Len(h.topic) = 1
         /\ h.data => validate_encryption(h)
<1>1. ValidateFields(CutTTL(h), h.topic) /\ (h.data => validate_encryption(h))
  BY DEF HeadersResult
<1>2. CutTTL(h) \in 0..MAX_TTL
  BY <1>1 DEF ValidateFields, CutTTL, PushRequestAssumption
<1>3. 2^TTLWidth \in Int /\ MAX_TTL < 2^TTLWidth /\ MAX_TTL \in Nat
  BY DEF PushRequestAssumption
<1>4. ASSUME NEW w \in Int, MAX_TTL < w PROVE CutTTL(h) % w = CutTTL(h)
  BY <1>2, <1>3, <1>4
<1>5. CutTTL(h) % 2^TTLWidth \in 0..MAX_TTL
  BY <1>2, <1>3, <1>4
<1> QED BY <1>1, <1>5 DEF ValidateFields, PushRequestAssumption

-----------------------------------------------------------------------------
(* Steps. *)

\* What holds of a request is not undone by time.
LEMMA SoundLater ==
  ASSUME PushRequestAssumption, NEW R, NEW keys, NEW now \in Nat, NEW later \in Nat,
         now <= later, Sound(R, keys, now)
  PROVE  Sound(R, keys, later)
<1>1. R.posted <= later
  BY DEF Sound, RequestType
<1>2. PastClaims(R) => Claimed(R, later)
  <2> SUFFICES ASSUME PastClaims(R), R.auth.scheme # "none" PROVE later >= R.auth.exp - OneDay
    BY DEF Sound, Claimed
  <2>1. R.pc # "idle"
    BY DEF PastClaims, Sound
  <2>2. R.auth.exp \in Int /\ OneDay \in Nat
    BY <2>1 DEF Sound, PushRequestAssumption
  <2> QED BY <2>2 DEF Sound, Claimed
<1> QED BY <1>1, <1>2 DEF Sound

\* A step of a request.
LEMMA RequestStep ==
  ASSUME IInv, NEW r \in Requests, NEW R, Set(r, R), Sound(R, key, clock),
         UNCHANGED <<clock, key, user>>
  PROVE  IInv'
<1>1. /\ DOMAIN request' = Requests /\ request'[r] = R
      /\ \A s \in Requests \ {r} : request'[s] = request[s]
      /\ request' = [s \in Requests |-> request'[s]]
  BY DEF IInv, Set
<1>2. \A s \in Requests : Sound(request'[s], key, clock)
  BY <1>1 DEF IInv
<1> QED BY <1>1, <1>2 DEF IInv

\* A request that is refused.
LEMMA RefusalStep ==
  ASSUME IInv, NEW r \in Requests, NEW result \in Refusals, Done(r, result),
         request[r].pc # "idle", UNCHANGED <<clock, key, user>>
  PROVE  IInv'
<1> DEFINE R == [request[r] EXCEPT !.pc = "done", !.result = result]
<1>1. Sound(request[r], key, clock) /\ Set(r, R)
  BY DEF IInv, Done
<1>2. /\ R \in RequestType /\ R.pc = "done" /\ R.result = result
      /\ R.posted = request[r].posted /\ R.chid = request[r].chid
      /\ R.auth = request[r].auth /\ R.headers = request[r].headers
  BY <1>1 DEF Sound, RequestType, Phases
<1>3. result # "none" /\ result # "created"
  BY DEF Refusals
<1> HIDE DEF R
<1>4. Sound(R, key, clock)
  BY <1>1, <1>2, <1>3 DEF Sound, PastToken, PastClaims, PastHeaders
<1> QED BY <1>1, <1>4, RequestStep

\* The token passes or is refused.
LEMMA PostStep ==
  ASSUME PushRequestAssumption, IInv, NEW r \in Requests, Post(r)
  PROVE  IInv'
<1>1. PICK c \in Channels, version \in {"v1", "v2"}, auth \in Auths, h \in Headers :
        \E token \in {<<>>, make_endpoint(c).token} :
          LET result == TokenResult(version, token, auth, h)
              R == [Idle EXCEPT !.chid = c, !.auth = auth, !.headers = h, !.posted = clock]
          IN  Set(r, IF result = "ok"
                     THEN [R EXCEPT !.pc = "user",
                             !.key = IF auth.scheme = "none" THEN NoKey
                                     ELSE extract_public_key(auth, h)]
                     ELSE [R EXCEPT !.pc = "done", !.result = result])
  BY DEF Post
<1>2. PICK token \in {<<>>, make_endpoint(c).token} :
          LET result == TokenResult(version, token, auth, h)
              R == [Idle EXCEPT !.chid = c, !.auth = auth, !.headers = h, !.posted = clock]
          IN  Set(r, IF result = "ok"
                     THEN [R EXCEPT !.pc = "user",
                             !.key = IF auth.scheme = "none" THEN NoKey
                                     ELSE extract_public_key(auth, h)]
                     ELSE [R EXCEPT !.pc = "done", !.result = result])
  BY <1>1
<1> DEFINE result == TokenResult(version, token, auth, h)
           k == IF auth.scheme = "none" THEN NoKey ELSE extract_public_key(auth, h)
           R == [Idle EXCEPT !.chid = c, !.auth = auth, !.headers = h, !.posted = clock]
           P == [R EXCEPT !.pc = "user", !.key = k]
           Q == [R EXCEPT !.pc = "done", !.result = result]
<1>3. UNCHANGED <<clock, key, user>> /\ clock \in Nat
  BY DEF Post, IInv
<1>4. result \in Refusals \cup {"ok"}
  BY TokenResults
<1>5. k \in PublicKeys /\ (result = "ok" /\ key[c] # NoKey => auth.scheme # "none" /\ k = key[c])
  BY TokenEstablishes DEF PublicKeys
<1>6. 0 \in 0..MAX_TTL /\ <<>> \in MessageIds /\ NoKey \in PublicKeys
  BY DEF PushRequestAssumption, MessageIds, PublicKeys
<1> HIDE DEF result, k
<1>7. CASE result = "ok"
  <2>1. Set(r, P)
    BY <1>2, <1>7 DEF result, k
  <2>2. P \in RequestType
    BY <1>3, <1>5, <1>6 DEF Idle, RequestType, Phases
  <2>3. /\ P.pc = "user" /\ P.result = "none" /\ P.posted = clock /\ P.chid = c
        /\ P.auth = auth /\ P.headers = h /\ P.key = k
    BY DEF Idle
  <2> HIDE DEF P
  <2>4. Sound(P, key, clock)
    BY <1>3, <1>5, <1>7, <2>2, <2>3 DEF Sound, PastToken, PastClaims, PastHeaders, Keyed
  <2> QED BY <1>3, <2>1, <2>4, RequestStep
<1>8. CASE result # "ok"
  <2>1. Set(r, Q)
    BY <1>2, <1>8 DEF result
  <2>2. Q \in RequestType
    BY <1>3, <1>4, <1>6, <1>8 DEF Idle, RequestType, Phases
  <2>3. /\ Q.pc = "done" /\ Q.result = result /\ Q.posted = clock /\ Q.chid = c
        /\ Q.auth = auth /\ Q.headers = h
    BY DEF Idle
  <2>4. result # "none" /\ result # "created"
    BY <1>4 DEF Refusals
  <2> HIDE DEF Q
  <2>5. Sound(Q, key, clock)
    BY <1>3, <2>2, <2>3, <2>4 DEF Sound, PastToken, PastClaims, PastHeaders
  <2> QED BY <1>3, <2>1, <2>5, RequestStep
<1> QED BY <1>7, <1>8

LEMMA GetUserStep ==
  ASSUME IInv, NEW r \in Requests, get_user(r)
  PROVE  IInv'
<1> DEFINE R == [request[r] EXCEPT !.pc = "channels"]
<1>1. /\ Sound(request[r], key, clock) /\ request[r].pc = "user"
      /\ UNCHANGED <<clock, key, user>>
  BY DEF IInv, get_user
<1>2. CASE user.exists
  <2>1. Set(r, R)
    BY <1>2 DEF get_user
  <2>2. /\ R \in RequestType /\ R.pc = "channels" /\ R.result = request[r].result
        /\ R.posted = request[r].posted /\ R.chid = request[r].chid
        /\ R.auth = request[r].auth /\ R.headers = request[r].headers /\ R.key = request[r].key
    BY <1>1 DEF Sound, RequestType, Phases
  <2> HIDE DEF R
  <2>3. Sound(R, key, clock)
    BY <1>1, <2>2 DEF Sound, PastToken, PastClaims, PastHeaders, Keyed
  <2> QED BY <1>1, <2>1, <2>3, RequestStep
<1>3. CASE ~user.exists
  <2>1. Done(r, "NoSubscription") /\ "NoSubscription" \in Refusals
    BY <1>3 DEF get_user, Refusals
  <2> QED BY <1>1, <2>1, RefusalStep
<1> QED BY <1>2, <1>3

\* The claims are checked against the clock of this moment, after the request waited.
LEMMA ValidateStep ==
  ASSUME PushRequestAssumption, IInv, NEW r \in Requests, Validate(r)
  PROVE  IInv'
<1> DEFINE R == [request[r] EXCEPT !.pc = "body"]
<1>1. /\ Sound(request[r], key, clock) /\ request[r].pc = "channels"
      /\ UNCHANGED <<clock, key, user>> /\ clock \in Nat
  BY DEF IInv, Validate
<1>2. CASE \E result \in Refusals : Done(r, result)
  BY <1>1, <1>2, RefusalStep
<1>3. CASE /\ Set(r, R)
           /\ request[r].auth.scheme # "none" => validate_vapid_jwt(request[r].auth, request[r].key)
  <2>1. /\ R \in RequestType /\ R.pc = "body" /\ R.result = request[r].result
        /\ R.posted = request[r].posted /\ R.chid = request[r].chid
        /\ R.auth = request[r].auth /\ R.headers = request[r].headers /\ R.key = request[r].key
    BY <1>1 DEF Sound, RequestType, Phases
  <2>2. R.posted \in Nat /\ R.posted <= clock
    BY <1>1, <2>1 DEF Sound, RequestType
  <2> HIDE DEF R
  <2>3. Claimed(R, clock)
    <3> SUFFICES ASSUME R.auth.scheme # "none"
                 PROVE  /\ R.auth.signer = R.key
                        /\ R.posted <= R.auth.exp + Leeway
                        /\ clock >= R.auth.exp - OneDay
      BY DEF Claimed
    <3>1. R.auth.exp \in Int /\ Leeway \in Nat /\ OneDay \in Nat
      BY <1>1, <2>1 DEF Sound, PushRequestAssumption
    <3>2. /\ R.auth.signer = R.key /\ R.auth.exp >= clock - Leeway
          /\ R.auth.exp <= clock + OneDay
      BY <1>3, <2>1 DEF validate_vapid_jwt
    <3> QED BY <1>1, <2>2, <3>1, <3>2
  <2>4. Sound(R, key, clock)
    BY <1>1, <2>1, <2>3 DEF Sound, PastToken, PastClaims, PastHeaders, Keyed
  <2> QED BY <1>1, <1>3, <2>4, RequestStep
<1> QED BY <1>2, <1>3 DEF Validate, Refusals

LEMMA FailsStep ==
  ASSUME IInv, NEW r \in Requests, ExtractorFails(r)
  PROVE  IInv'
<1>1. PICK result \in {"PayloadError", "Database"} : Done(r, result)
  BY DEF ExtractorFails
<1>2. result \in Refusals /\ request[r].pc # "idle" /\ UNCHANGED <<clock, key, user>>
  BY DEF Refusals, ExtractorFails
<1> QED BY <1>1, <1>2, RefusalStep

LEMMA ReadBodyStep ==
  ASSUME PushRequestAssumption, IInv, NEW r \in Requests, ReadBody(r)
  PROVE  IInv'
<1> DEFINE h == request[r].headers
           ttl == CutTTL(h) % 2^TTLWidth
           id == generate_message_id(request[r].chid, h.topic, clock)
           R == [request[r] EXCEPT !.pc = "route", !.ttl = ttl, !.id = id]
<1>1. /\ Sound(request[r], key, clock) /\ request[r].pc = "body"
      /\ UNCHANGED <<clock, key, user>> /\ clock \in 1..MaxClock
  BY DEF IInv, ReadBody
<1>2. request[r].chid \in Channels /\ h \in Headers /\ request[r] \in RequestType
      /\ request[r].result # "created"
  BY <1>1 DEF Sound
<1>3. CASE HeadersResult(h) # "ok"
  <2>1. Done(r, HeadersResult(h)) /\ HeadersResult(h) \in Refusals
    BY <1>3, HeadersResults DEF ReadBody
  <2> QED BY <1>1, <2>1, RefusalStep
<1>4. CASE HeadersResult(h) = "ok"
  <2>1. Set(r, R)
    BY <1>4 DEF ReadBody
  <2>2. ttl \in 0..MAX_TTL
    BY <1>2, <1>4, HeadersEstablish
  <2>3. id \in MessageIds
    BY <1>1, <1>2 DEF MessageIds
  <2> HIDE DEF ttl, id
  <2>4. /\ R \in RequestType /\ R.pc = "route" /\ R.result = request[r].result
        /\ R.posted = request[r].posted /\ R.chid = request[r].chid
        /\ R.auth = request[r].auth /\ R.headers = h /\ R.key = request[r].key /\ R.id = id
    BY <1>2, <2>2, <2>3 DEF RequestType, Phases
  <2> HIDE DEF R
  <2>5. Identified(R)
    BY <1>1, <1>4, <2>4 DEF Identified, id
  <2>6. Sound(R, key, clock)
    BY <1>1, <2>4, <2>5 DEF Sound, PastToken, PastClaims, PastHeaders, Keyed, Claimed
  <2> QED BY <1>1, <2>1, <2>6, RequestStep
<1> QED BY <1>3, <1>4

\* Storing a message, and deleting it, change nothing of what was established.
LEMMA SaveStep ==
  ASSUME IInv, NEW r \in Requests, Save(r) \/ delete_notification_route(r)
  PROVE  IInv'
<1> DEFINE R == request[r]
           P == [R EXCEPT !.pc = "done", !.result = "created"]
           Q == [R EXCEPT !.deleted = TRUE]
<1>1. Sound(R, key, clock) /\ UNCHANGED <<clock, key, user>>
  BY DEF IInv, Save, delete_notification_route
<1>2. CASE Save(r)
  <2>0. CASE Done(r, "Database")
    BY <1>1, <1>2, <2>0, RefusalStep DEF Save, Refusals
  <2> SUFFICES ASSUME Done(r, "created") PROVE IInv'
    BY <1>2, <2>0 DEF Save
  <2>1. Set(r, P) /\ R.pc = "route"
    BY <1>2 DEF Save, Done
  <2>2. /\ P \in RequestType /\ P.pc = "done" /\ P.result = "created"
        /\ P.posted = R.posted /\ P.chid = R.chid /\ P.auth = R.auth
        /\ P.headers = R.headers /\ P.key = R.key /\ P.id = R.id
    BY <1>1 DEF Sound, RequestType, Phases
  <2> HIDE DEF P, R
  <2>3. Sound(P, key, clock)
    BY <1>1, <2>1, <2>2 DEF Sound, PastToken, PastClaims, PastHeaders, Keyed, Claimed, Identified
  <2> QED BY <1>1, <2>1, <2>3, RequestStep
<1>3. CASE delete_notification_route(r)
  <2>1. Set(r, Q)
    BY <1>3 DEF delete_notification_route
  <2>2. /\ Q \in RequestType /\ Q.pc = R.pc /\ Q.result = R.result
        /\ Q.posted = R.posted /\ Q.chid = R.chid /\ Q.auth = R.auth
        /\ Q.headers = R.headers /\ Q.key = R.key /\ Q.id = R.id
    BY <1>1 DEF Sound, RequestType
  <2> HIDE DEF Q, R
  <2>3. Sound(Q, key, clock)
    BY <1>1, <2>2 DEF Sound, PastToken, PastClaims, PastHeaders, Keyed, Claimed, Identified
  <2> QED BY <1>1, <2>1, <2>3, RequestStep
<1> QED BY <1>2, <1>3

LEMMA OtherStep ==
  ASSUME PushRequestAssumption, IInv, Unsubscribe \/ RemoveUser \/ Tick
  PROVE  IInv'
<1>1. UNCHANGED <<key, request>>
  BY DEF Unsubscribe, RemoveUser, Tick
<1>2. user' \in [exists : BOOLEAN, chids : SUBSET Channels]
  <2>0. user \in [exists : BOOLEAN, chids : SUBSET Channels]
    BY DEF IInv
  <2>1. CASE Unsubscribe
    <3>1. PICK c \in user.chids : user' = [user EXCEPT !.chids = @ \ {c}]
      BY <2>1 DEF Unsubscribe
    <3> QED BY <2>0, <3>1
  <2>2. CASE RemoveUser
    BY <2>2 DEF RemoveUser
  <2>3. CASE Tick
    BY <2>0, <2>3 DEF Tick
  <2> QED BY <2>1, <2>2, <2>3
<1>3. clock' \in 1..MaxClock /\ clock <= clock' /\ clock \in Nat /\ clock' \in Nat
  BY DEF Unsubscribe, RemoveUser, Tick, IInv, PushRequestAssumption
<1>4. \A r \in Requests : Sound(request[r], key, clock')
  BY <1>3, SoundLater DEF IInv
<1> QED BY <1>1, <1>2, <1>3, <1>4 DEF IInv

LEMMA InitIInv == ASSUME PushRequestAssumption PROVE Init => IInv
<1> SUFFICES ASSUME Init PROVE IInv
  OBVIOUS
<1>1. clock \in 1..MaxClock /\ 0 <= clock
  BY DEF Init, PushRequestAssumption
<1>2. user \in [exists : BOOLEAN, chids : SUBSET Channels]
  BY DEF Init
<1>3. /\ DOMAIN request = Requests /\ request = [r \in Requests |-> request[r]]
      /\ \A r \in Requests : request[r] = Idle
  BY DEF Init
<1>4. 0 \in 0..MAX_TTL /\ <<>> \in MessageIds /\ NoKey \in PublicKeys
  BY DEF PushRequestAssumption, MessageIds, PublicKeys
<1>5. Idle \in RequestType /\ Idle.pc = "idle" /\ Idle.result = "none" /\ Idle.posted = 0
  BY <1>4 DEF Idle, RequestType, Phases
<1>6. Sound(Idle, key, clock)
  BY <1>1, <1>5 DEF Sound, PastToken, PastClaims, PastHeaders
<1> QED BY <1>1, <1>2, <1>3, <1>6 DEF IInv

LEMMA Invariance == ASSUME PushRequestAssumption PROVE Spec => []IInv
<1>1. Init => IInv
  BY InitIInv
<1>2. ASSUME IInv, [Next]_vars PROVE IInv'
  <2>1. CASE UNCHANGED vars
    BY <1>2, <2>1 DEF vars, IInv
  <2>2. CASE Next
    BY <1>2, <2>2, PostStep, GetUserStep, ValidateStep, FailsStep, ReadBodyStep, SaveStep, OtherStep DEF Next
  <2> QED BY <1>2, <2>1, <2>2
<1>3. IInv /\ [Next]_vars => IInv'
  BY <1>2
<1> QED BY <1>1, <1>3, PTL DEF Spec

-----------------------------------------------------------------------------
(* Theorems. *)

\* The time to live that is stored is one of at most MAX_TTL although it is cast to an
\* unsigned number, and every answer has a status (NotificationHeaders::from_request).
THEOREM TypeCorrect ==
  ASSUME PushRequestAssumption
  PROVE  Spec => []TypeOK
<1>1. ASSUME IInv PROVE TypeOK
  <2>1. clock \in 1..MaxClock /\ user.chids \subseteq Channels
    BY <1>1 DEF IInv
  <2>2. ASSUME NEW r \in Requests
        PROVE  /\ request[r].pc \in Phases /\ request[r].ttl \in 0..MAX_TTL
               /\ request[r].pc = "done" => request[r].result \in {"created"} \cup Refusals
    BY <1>1 DEF IInv, Sound, RequestType
  <2>3. \A x \in {"created"} \cup Refusals : status(x) \in {201, 400, 401, 404, 410, 503}
    <3>1. /\ status("created") = 201 /\ status("VapidError") = 401 /\ status("InvalidToken") = 404
          /\ status("NoSubscription") = 410 /\ status("Database") = 503
      BY DEF status
    <3>2. \A x \in {"NoTTL", "InvalidEncryption", "Validation", "PayloadError"} : status(x) = 400
      BY DEF status
    <3> QED BY <3>1, <3>2 DEF Refusals
  <2>4. ASSUME NEW r \in Requests, request[r].pc = "done"
        PROVE  status(request[r].result) \in {201, 400, 401, 404, 410, 503}
    BY <2>2, <2>3, <2>4, Zenon
  <2> QED BY <2>1, <2>2, <2>4 DEF TypeOK, Phases
<1> QED BY <1>1, Invariance, PTL

\* A restricted subscription takes messages of its key's holder only, whichever path
\* and header a sender uses (version_1_validation, version_2_validation,
\* validate_vapid_jwt).
THEOREM RestrictedIsSigned ==
  ASSUME PushRequestAssumption
  PROVE  Spec => []OnlyKeyHolder
<1>1. IInv => OnlyKeyHolder
  BY DEF IInv, OnlyKeyHolder, Accepted, Sound, PastToken, PastClaims, Keyed, Claimed
<1> QED BY <1>1, Invariance, PTL

\* A sender's claims hold when they are used: the token was not out of date when the
\* request came, and does not expire more than a day ahead (validate_vapid_jwt).
THEOREM SenderInTime ==
  ASSUME PushRequestAssumption
  PROVE  Spec => []ClaimsInTime
<1>1. IInv => ClaimsInTime
  BY DEF IInv, ClaimsInTime, Accepted, Sound, PastClaims, Claimed
<1> QED BY <1>1, Invariance, PTL

\* A sequence one longer than p that starts like p and ends in x is p with x appended.
LEMMA ExtendedBy ==
  ASSUME NEW S, NEW x \in S, NEW p \in Seq(S), NEW r \in Seq(S), Len(r) = Len(p) + 1,
         r[Len(r)] = x, \A i \in 1..Len(p) : r[i] = p[i]
  PROVE  p \o <<x>> = r
<1>1. <<x>> \in Seq(S) /\ Len(<<x>>) = 1 /\ <<x>>[1] = x /\ Len(p) \in Nat
  OBVIOUS
<1>2. /\ p \o <<x>> \in Seq(S) /\ Len(p \o <<x>>) = Len(p) + Len(<<x>>)
      /\ \A i \in 1..(Len(p) + Len(<<x>>)) :
           (p \o <<x>>)[i] = IF i <= Len(p) THEN p[i] ELSE <<x>>[i - Len(p)]
  BY <1>1, ConcatProperties, Zenon
<1>3. Len(p \o <<x>>) = Len(r)
  BY <1>1, <1>2
<1>4. \A i \in 1..Len(p \o <<x>>) : (p \o <<x>>)[i] = r[i]
  <2> SUFFICES ASSUME NEW i \in 1..(Len(p) + 1) PROVE (p \o <<x>>)[i] = r[i]
    BY <1>1, <1>2
  <2>1. CASE i \in 1..Len(p)
    BY <1>1, <1>2, <2>1
  <2>2. CASE i = Len(p) + 1
    BY <1>1, <1>2, <2>2
  <2> QED BY <1>1, <2>1, <2>2
<1> QED BY <1>2, <1>3, <1>4, SeqEqual

\* The key of a message with a topic is that of its channel followed by the topic.
LEMMA TopicKey ==
  ASSUME NEW c, NEW x
  PROVE  /\ <<"01", "uaid", c>> \o <<x>> = <<"01", "uaid", c, x>>
         /\ <<"01", c>> \o <<x>> = <<"01", c, x>>
<1> DEFINE S == {"01", "uaid", c, x}
           p == <<"01", "uaid", c>>
           r == <<"01", "uaid", c, x>>
           pp == <<"01", c>>
           rr == <<"01", c, x>>
<1>1. x \in S /\ p \in Seq(S) /\ r \in Seq(S) /\ pp \in Seq(S) /\ rr \in Seq(S)
  OBVIOUS
<1>2. /\ Len(r) = Len(p) + 1 /\ r[Len(r)] = x /\ Len(p) = 3
      /\ Len(rr) = Len(pp) + 1 /\ rr[Len(rr)] = x /\ Len(pp) = 2
  OBVIOUS
<1>3. \A i \in 1..Len(p) : r[i] = p[i]
  <2>1. \A i \in 1..3 : i = 1 \/ i = 2 \/ i = 3
    OBVIOUS
  <2> QED BY <1>2, <2>1
<1>4. \A i \in 1..Len(pp) : rr[i] = pp[i]
  <2>1. \A i \in 1..2 : i = 1 \/ i = 2
    OBVIOUS
  <2> QED BY <1>2, <2>1
<1>5. p \o <<x>> = r
  <2> HIDE DEF S, p, r
  <2> QED BY <1>1, <1>2, <1>3, ExtendedBy
<1>6. pp \o <<x>> = rr
  <2> HIDE DEF S, pp, rr
  <2> QED BY <1>1, <1>2, <1>4, ExtendedBy
<1> QED BY <1>5, <1>6

\* The id a sender is given can be decoded and names the row its message was stored
\* under (generate_message_id, MessageId::decrypt, sort_key and chidmessageid).
THEOREM IdNamesRow ==
  ASSUME PushRequestAssumption
  PROVE  Spec => []LocationNamesRow
<1>1. ASSUME IInv, NEW r \in Requests, Accepted(r)
      PROVE  Decrypts(request[r].id) /\ sort_key(request[r].id) = chidmessageid(r)
  <2> DEFINE R == request[r]
             topic == R.headers.topic
  <2>1. /\ Identified(R) /\ R.headers \in Headers
    BY <1>1 DEF IInv, Accepted, Sound, PastHeaders
  <2>2. PICK t \in 1..MaxClock : R.id = generate_message_id(R.chid, topic, t)
    BY <2>1 DEF Identified
  <2>3. topic \in Seq(STRING) /\ (topic = <<>> \/ Len(topic) = 1)
    BY <2>1, HeadersEstablish DEF Identified
  <2>4. CASE topic = <<>>
    <3>1. R.id = <<"02", "uaid", R.chid, t>>
      BY <2>2, <2>4 DEF generate_message_id
    <3> HIDE DEF R
    <3>2. Len(R.id) = 4 /\ R.id[1] = "02" /\ R.id[3] = R.chid
      BY <3>1
    <3>3. sort_key(R.id) = <<"02", R.id[4], R.chid>>
      BY <3>2 DEF sort_key
    <3> QED BY <2>4, <3>2, <3>3 DEF Decrypts, chidmessageid, R
  <2>5. CASE topic # <<>>
    <3>1. topic = <<topic[1]>>
      BY <2>3, <2>5
    <3> DEFINE x == topic[1]
    <3>2. R.id = <<"01", "uaid", R.chid, x>>
      BY <2>2, <2>5, <3>1, TopicKey DEF generate_message_id
    <3>3. chidmessageid(r) = <<"01", R.chid, x>>
      BY <2>5, <3>1, TopicKey DEF chidmessageid
    <3> HIDE DEF R, x
    <3>4. Len(R.id) = 4 /\ R.id[1] = "01" /\ R.id[3] = R.chid /\ R.id[4] = x
      BY <3>2
    <3> QED BY <3>3, <3>4 DEF Decrypts, sort_key, R
  <2> QED BY <2>4, <2>5
<1>2. IInv => LocationNamesRow
  BY <1>1 DEF LocationNamesRow
<1> QED BY <1>2, Invariance, PTL

\* A set of numbers has a least one.
LEMMA LeastExists ==
  ASSUME NEW T \in SUBSET Nat, T # {}
  PROVE  \E x \in T : \A y \in T : x <= y
<1> DEFINE R == OpToRel(<, Nat)
<1>1. IsWellFoundedOn(R, Nat)
  BY NatLessThanWellFounded
<1> HIDE DEF R
<1>2. PICK x \in T : \A y \in T : ~(<<y, x>> \in R)
  BY <1>1, WFMin
<1>3. \A y \in T : ~(y < x)
  BY <1>2 DEF R, OpToRel
<1> QED BY <1>3

\* get_by_key finds an item when a section has it.
LEMMA GetByKeyFinds ==
  ASSUME NEW header, DOMAIN header \subseteq Nat, NEW item, NEW none
  PROVE  get_by_key(header, item, none) # none
           <=> \E i \in DOMAIN header : header[i][item] # none
<1> DEFINE have == {i \in DOMAIN header : header[i][item] # none}
           least == CHOOSE i \in have : \A j \in have : i <= j
<1>1. CASE have = {}
  BY <1>1 DEF get_by_key
<1>2. CASE have # {}
  <2>1. \E i \in have : \A j \in have : i <= j
    BY <1>2, LeastExists
  <2>2. least \in have
    BY <2>1
  <2>3. get_by_key(header, item, none) = header[least][item]
    BY <1>2 DEF get_by_key
  <2> QED BY <1>2, <2>2, <2>3
<1> QED BY <1>1, <1>2

\* An accepted body is encrypted in one way: by headers with a salt, or by itself
\* (validate_encryption, assert_base64_item_exists, assert_not_exists).
THEOREM EncryptedOnce ==
  ASSUME PushRequestAssumption
  PROVE  Spec => []OneEncryption
<1>1. ASSUME IInv, NEW r \in Requests, Accepted(r), request[r].headers.data
      PROVE  LET h == request[r].headers
                 salted == \E i \in DOMAIN h.encryption : h.encryption[i].salt # "none"
             IN  (h.encoding = "aesgcm" /\ salted) \/ (h.encoding = "aes128gcm" /\ ~salted)
  <2> DEFINE h == request[r].headers
  <2>1. HeadersResult(h) = "ok" /\ h \in Headers
    BY <1>1 DEF IInv, Accepted, Sound, PastHeaders, Identified
  <2>2. validate_encryption(h) /\ DOMAIN h.encryption \subseteq Nat
    BY <1>1, <2>1, HeadersEstablish DEF PushRequestAssumption
  <2> DEFINE salted == \E i \in DOMAIN h.encryption : h.encryption[i].salt # "none"
  <2>3. get_by_key(h.encryption, "salt", "none") # "none" <=> salted
    <3>1. get_by_key(h.encryption, "salt", "none") # "none"
            <=> \E i \in DOMAIN h.encryption : h.encryption[i]["salt"] # "none"
      BY <2>2, GetByKeyFinds
    <3> QED BY <3>1
  <2> HIDE DEF h, salted
  <2>4. (h.encoding = "aesgcm" /\ salted) \/ (h.encoding = "aes128gcm" /\ ~salted)
    BY <2>2, <2>3 DEF validate_encryption, validate_encryption_04_rules,
       validate_encryption_06_rules, assert_base64_item_exists, assert_not_exists
  <2> QED BY <2>4 DEF h, salted
<1>2. IInv => OneEncryption
  BY <1>1 DEF OneEncryption
<1> QED BY <1>2, Invariance, PTL
=============================================================================
