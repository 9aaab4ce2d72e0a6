----------------------------- MODULE PushRequest -----------------------------
(***************************************************************************)
(* A push request on its way through the extractors of autoendpoint, from   *)
(* the endpoint of a subscription to the stored row and the message id that *)
(* its sender may later delete it with.  The user is one of WebPush that is *)
(* not connected; module Delivery has the routing of one that may be.       *)
(*                                                                          *)
(* A request suspends while the user and its channels are read and while    *)
(* its body arrives.  Tokens and message ids are what Fernet encrypts: a    *)
(* sender has those it was given.                                           *)
(***************************************************************************)
EXTENDS Integers, Sequences, FiniteSets

CONSTANTS
  Requests,   \* push requests
  Channels,   \* channel ids of the user
  Keys,       \* VAPID keys
  NoKey,      \* a subscription that is not restricted to a key, a header without one
  Auths,      \* Authorization headers that senders use
  Headers,    \* the other headers of a request
  OneDay,     \* ONE_DAY_IN_SECONDS
  Leeway,     \* the leeway of the JWT library
  MAX_TTL,    \* the longest time to live
  TTLWidth,   \* bits of the unsigned number a time to live is cast to
  MaxClock    \* bound on the clock

(* What the constants may be: assumed where the module is instantiated.      *)
PushRequestAssumption ==
  /\ NoKey \notin Keys
  /\ OneDay \in Nat /\ Leeway \in Nat /\ MaxClock \in Nat \ {0}
  /\ MAX_TTL \in Nat /\ TTLWidth \in Nat /\ MAX_TTL < 2^TTLWidth
  /\ \A a \in Auths : a.scheme # "none" => a.exp \in Int
  /\ \A h \in Headers :
       h.ttl \in Int /\ h.topic \in Seq(STRING) /\ DOMAIN h.encryption \subseteq Nat

VARIABLES
  clock,    \* sec_since_epoch and ms_since_epoch
  key,      \* the key each channel was subscribed with
  user,     \* the user record: whether it exists, and its channels
  request,  \* the requests
  rows      \* stored messages: the row key and the request it came with
vars == <<clock, key, user, request, rows>>

(* An Authorization header: its scheme, its key k, whether it has a token t, *)
(* the key that signed the token and the claims exp and aud; encoding is how *)
(* the key is written, here or in Crypto-Key.  A section of a Crypto-Key or  *)
(* Encryption header has some of the items.                                  *)
NoAuth == [scheme |-> "none"]
NoItems == [parsed |-> TRUE, salt |-> "none", dh |-> "none", p256ecdsa |-> NoKey]

Idle == [pc |-> "idle", result |-> "none", chid |-> "none", auth |-> NoAuth, key |-> NoKey,
         headers |-> "none", posted |-> 0, id |-> <<>>, ttl |-> 0, deleted |-> FALSE]

Init ==
  /\ clock = 1
  /\ key \in [Channels -> Keys \cup {NoKey}]
  /\ user = [exists |-> TRUE, chids |-> Channels]
  /\ request = [r \in Requests |-> Idle]
  /\ rows = {}

Set(r, record) == request' = [request EXCEPT ![r] = record]
Done(r, result) == Set(r, [request[r] EXCEPT !.pc = "done", !.result = result])

(* The status of a request's result.                                         *)
status(result) ==
  CASE result = "created"                                     -> 201
    [] result \in {"NoTTL", "InvalidEncryption", "Validation", "PayloadError"} -> 400
    [] result = "VapidError"                                  -> 401
    [] result = "InvalidToken"                                -> 404
    [] result = "NoSubscription"                              -> 410
    [] result = "Database"                                    -> 503

-----------------------------------------------------------------------------
(* The endpoint, and the headers that are about the sender.                  *)

(* The path and the token of a channel: user, channel and the hash of a key. *)
make_endpoint(c) ==
  IF key[c] = NoKey THEN [version |-> "v1", token |-> <<"uaid", c>>]
                    ELSE [version |-> "v2", token |-> <<"uaid", c, key[c]>>]

(* CryptoKeyHeader: a header is a sequence of sections; get_by_key finds the *)
(* first section that has the item.                                          *)
CryptoKeyParses(header) == \A i \in DOMAIN header : header[i].parsed
get_by_key(header, item, none) ==
  LET have == {i \in DOMAIN header : header[i][item] # none}
  IN  IF have = {} THEN none ELSE header[CHOOSE i \in have : \A j \in have : i <= j][item]

(* VapidHeader::parse: what is wrong with the header, if anything.           *)
parse_vapid(auth) ==
  CASE auth.scheme = "none"                             -> "none"
    [] auth.scheme \notin {"bearer", "webpush", "vapid"} -> "VapidError"
    [] auth.scheme = "vapid" /\ auth.k = NoKey          -> "VapidError"
    [] ~auth.t                                          -> "VapidError"
    [] OTHER                                            -> "ok"

(* The public key of the header, or the one in Crypto-Key for a VAPID header *)
(* of version 1.                                                             *)
extract_public_key(auth, headers) ==
  IF auth.scheme = "vapid" THEN auth.k ELSE get_by_key(headers.crypto_key, "p256ecdsa", NoKey)
PublicKeyMissing(auth, headers) ==
  /\ auth.scheme # "vapid"
  /\ \/ ~CryptoKeyParses(headers.crypto_key)
     \/ extract_public_key(auth, headers) = NoKey

(* What a route that does not look at the length of the token would do.      *)
version_1_validation_any(token) == TRUE

version_1_validation(token) == Len(token) = 2

(* A key is decoded whichever alphabet and padding it is written with.       *)
decode_public_key(auth) == auth.encoding \in {"url", "std", "padded"}

version_2_validation(token, auth, public_key) ==
  IF Len(token) # 3 THEN "InvalidToken"
  ELSE IF auth.scheme = "none" \/ ~decode_public_key(auth) \/ public_key # token[3]
       THEN "VapidError" ELSE "ok"

(* The library checks signature and expiry; the rest is checked here.        *)
validate_vapid_jwt(auth, public_key) ==
  /\ decode_public_key(auth) /\ auth.signer = public_key
  /\ auth.exp >= clock - Leeway
  /\ auth.exp <= clock + OneDay
  /\ auth.aud = "here"

(* Subscription up to the first database call.                               *)
TokenResult(version, token, auth, headers) ==
  IF token = <<>> THEN "InvalidToken"
  ELSE IF parse_vapid(auth) = "VapidError" THEN "VapidError"
  ELSE IF parse_vapid(auth) = "ok" /\ PublicKeyMissing(auth, headers) THEN "InvalidEncryption"
  ELSE IF version = "v1" THEN (IF version_1_validation(token) THEN "ok" ELSE "InvalidToken")
  ELSE version_2_validation(token, auth,
         IF auth.scheme = "none" THEN NoKey ELSE extract_public_key(auth, headers))

(* A sender posts to an endpoint it was given, on its path or on the other,  *)
(* or with a token that does not decrypt.                                    *)
Post(r) ==
  /\ request[r].pc = "idle"
  /\ \E c \in Channels, version \in {"v1", "v2"}, auth \in Auths, h \in Headers :
       \E token \in {<<>>, make_endpoint(c).token} :
         LET result == TokenResult(version, token, auth, h)
             R == [Idle EXCEPT !.chid = c, !.auth = auth, !.headers = h, !.posted = clock]
         IN  Set(r, IF result = "ok"
                    THEN [R EXCEPT !.pc = "user",
                            !.key = IF auth.scheme = "none" THEN NoKey ELSE extract_public_key(auth, h)]
                    ELSE [R EXCEPT !.pc = "done", !.result = result])
  /\ UNCHANGED <<clock, key, user, rows>>

get_user(r) ==
  /\ request[r].pc = "user"
  /\ IF user.exists THEN Set(r, [request[r] EXCEPT !.pc = "channels"]) ELSE Done(r, "NoSubscription")
  /\ UNCHANGED <<clock, key, user, rows>>

(* validate_webpush_user, and the claims of the sender after it.             *)
Validate(r) ==
  LET R == request[r]
  IN  /\ R.pc = "channels"
      /\ IF R.chid \notin user.chids THEN Done(r, "NoSubscription")
         ELSE IF R.auth.scheme # "none" /\ ~validate_vapid_jwt(R.auth, R.key)
              THEN Done(r, "VapidError")
              ELSE Set(r, [R EXCEPT !.pc = "body"])
      /\ UNCHANGED <<clock, key, user, rows>>

\* A database call fails, or the body does not arrive.
ExtractorFails(r) ==
  /\ \/ request[r].pc \in {"user", "channels", "route"} /\ Done(r, "Database")
     \/ request[r].pc = "body" /\ Done(r, "PayloadError")
  /\ UNCHANGED <<clock, key, user, rows>>

-----------------------------------------------------------------------------
(* The headers of the notification.                                          *)

assert_base64_item_exists(header, item) ==
  header # <<>> /\ CryptoKeyParses(header) /\ get_by_key(header, item, "none") = "base64"
assert_not_exists(header, item) ==
  CryptoKeyParses(header) /\ get_by_key(header, item, "none") = "none"

validate_encryption_04_rules(h) ==
  /\ assert_base64_item_exists(h.encryption, "salt")
  /\ ~h.encryption_key
  /\ h.crypto_key # <<>> => assert_base64_item_exists(h.crypto_key, "dh")
validate_encryption_06_rules(h) ==
  assert_not_exists(h.encryption, "salt") /\ assert_not_exists(h.crypto_key, "dh")

(* What a check that takes both drafts for one would do.                     *)
validate_encryption_either(h) ==
  h.encoding \in {"aesgcm", "aes128gcm"}
  /\ (validate_encryption_04_rules(h) \/ validate_encryption_06_rules(h))

validate_encryption(h) ==
  \/ h.encoding = "aesgcm" /\ validate_encryption_04_rules(h)
  \/ h.encoding = "aes128gcm" /\ validate_encryption_06_rules(h)

(* The rules of the fields: no negative time to live; a topic is a segment   *)
(* of URL-safe characters, so it has no colon in it.                         *)
ValidateFields(ttl, topic) == ttl >= 0 /\ (topic # <<>> => Len(topic) = 1)

(* A longer time to live is cut to the longest one.                          *)
CutTTL(h) == IF h.ttl > MAX_TTL THEN MAX_TTL ELSE h.ttl

HeadersResult(h) ==
  IF ~h.ttl_given THEN "NoTTL"
  ELSE IF h.data /\ ~validate_encryption(h) THEN "InvalidEncryption"
  ELSE IF ~ValidateFields(CutTTL(h), h.topic) THEN "Validation"
  ELSE "ok"

(* generate_message_id: what is encrypted, in segments.  A topic is written  *)
(* as it came.                                                               *)
generate_message_id(c, topic, timestamp) ==
  IF topic # <<>> THEN <<"01", "uaid", c>> \o topic ELSE <<"02", "uaid", c, timestamp>>

(* The body has arrived: headers, timestamp and message id.  Headers about   *)
(* the encryption of a body that is not there are not passed on.             *)
ReadBody(r) ==
  LET R == request[r]
      h == R.headers
  IN  /\ R.pc = "body"
      /\ IF HeadersResult(h) # "ok" THEN Done(r, HeadersResult(h))
         ELSE Set(r, [R EXCEPT !.pc = "route",
                        !.ttl = CutTTL(h) % 2^TTLWidth,
                        !.id = generate_message_id(R.chid, h.topic, clock)])
      /\ UNCHANGED <<clock, key, user, rows>>

-----------------------------------------------------------------------------
(* The message.                                                              *)

(* The row key of a notification: its topic, or its timestamp.               *)
chidmessageid(r) ==
  LET R == request[r]
  IN  IF R.headers.topic # <<>> THEN <<"01", R.chid>> \o R.headers.topic
                                ELSE <<"02", R.id[4], R.chid>>

(* The message is stored, in place of one with the same row key, which the   *)
(* sender is told unless the answer of the database is an error.             *)
Save(r) ==
  /\ request[r].pc = "route"
  /\ rows' = {row \in rows : row.key # chidmessageid(r)} \cup {[key |-> chidmessageid(r), from |-> r]}
  /\ Done(r, "created") \/ Done(r, "Database")
  /\ UNCHANGED <<clock, key, user>>

(* MessageId::decrypt.                                                       *)
Decrypts(id) == Len(id) = 4

(* MessageId::sort_key: the row key.                                         *)
sort_key(id) == IF id[1] = "01" THEN <<"01", id[3], id[4]>> ELSE <<"02", id[4], id[3]>>

(* DELETE /m/{message_id}, with the id a request was answered with.          *)
delete_notification_route(r) ==
  /\ request[r].result = "created" /\ Decrypts(request[r].id)
  /\ rows' = {row \in rows : row.key # sort_key(request[r].id)}
  /\ Set(r, [request[r] EXCEPT !.deleted = TRUE])
  /\ UNCHANGED <<clock, key, user>>

(* The user agent gives a channel up, or the user is removed.                *)
Unsubscribe ==
  /\ \E c \in user.chids : user' = [user EXCEPT !.chids = @ \ {c}]
  /\ UNCHANGED <<clock, key, request, rows>>
RemoveUser ==
  /\ user.exists
  /\ user' = [exists |-> FALSE, chids |-> {}]
  /\ UNCHANGED <<clock, key, request, rows>>

Tick ==
  /\ clock < MaxClock
  /\ clock' = clock + 1
  /\ UNCHANGED <<key, user, request, rows>>

Next ==
  \/ \E r \in Requests : \/ Post(r) \/ get_user(r) \/ Validate(r) \/ ReadBody(r) \/ Save(r)
                         \/ ExtractorFails(r) \/ delete_notification_route(r)
  \/ Unsubscribe \/ RemoveUser \/ Tick

Spec == Init /\ [][Next]_vars

-----------------------------------------------------------------------------
Accepted(r) == request[r].result = "created"

(* What is answered and stored is well formed: a time to live cast to an     *)
(* unsigned number is still one of at most MAX_TTL (NotificationHeaders).    *)
TypeOK ==
  /\ clock \in 1..MaxClock
  /\ user.chids \subseteq Channels
  /\ \A r \in Requests :
       /\ request[r].pc \in {"idle", "user", "channels", "body", "route", "done"}
       /\ request[r].ttl \in 0..MAX_TTL
       /\ request[r].pc = "done" => status(request[r].result) \in {201, 400, 401, 404, 410, 503}

(* A message for a channel that was subscribed with a key comes from the     *)
(* holder of that key, whichever path and header its sender used             *)
(* (make_endpoint, version_1_validation, version_2_validation,               *)
(* validate_vapid_jwt).                                                      *)
OnlyKeyHolder ==
  \A r \in Requests : Accepted(r) /\ key[request[r].chid] # NoKey =>
    request[r].auth.scheme # "none" /\ request[r].auth.signer = key[request[r].chid]

(* A sender's token is good for a day before it expires and no longer than   *)
(* the leeway after it, although the request waits for the database in       *)
(* between (validate_vapid_jwt).                                             *)
ClaimsInTime ==
  \A r \in Requests : Accepted(r) /\ request[r].auth.scheme # "none" =>
    /\ request[r].posted <= request[r].auth.exp + Leeway
    /\ clock >= request[r].auth.exp - OneDay

(* The id a sender is given names the row of its message: DELETE can decode  *)
(* it, and gets the key that the message was stored under                    *)
(* (generate_message_id, MessageId::decrypt and sort_key, chidmessageid).    *)
LocationNamesRow ==
  \A r \in Requests : Accepted(r) =>
    Decrypts(request[r].id) /\ sort_key(request[r].id) = chidmessageid(r)

(* A user agent can tell how a body is encrypted: by headers with a salt or  *)
(* by the body itself, never by both (validate_encryption).                  *)
OneEncryption ==
  \A r \in Requests : Accepted(r) /\ request[r].headers.data =>
    LET h == request[r].headers
        salted == \E i \in DOMAIN h.encryption : h.encryption[i].salt # "none"
    IN  (h.encoding = "aesgcm" /\ salted) \/ (h.encoding = "aes128gcm" /\ ~salted)

(* A stored message disappears when it is replaced or when its own sender    *)
(* deletes it: the id of another message does not delete it                  *)
(* (delete_notification_route).                                              *)
DeletesItsOwn ==
  [][\A row \in rows \ rows' :
       request'[row.from].deleted \/ \E new \in rows' : new.key = row.key]_vars

(* A message without a topic is not replaced by another one                  *)
(* (sort_key_timestamp).                                                     *)
NoTopicNoReplacement ==
  [][\A row \in rows, new \in rows' :
       request[row.from].headers.topic = <<>> /\ new.key = row.key => new = row]_vars
==============================================================================
