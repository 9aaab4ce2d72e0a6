------------------------------ MODULE MCEndpoint ------------------------------
(***************************************************************************)
(* Parts of autoendpoint on small instances: the mobile bridges, the ADM   *)
(* access token and the extractors of a push request.  They share no state *)
(* here, so one run checks them all: a behaviour is one of the instance    *)
(* that `part` names, and the variables of the others stay as they         *)
(* started.  The constants of Bridge are those of part "apns".             *)
(***************************************************************************)
EXTENDS Bridge, Integers, Sequences, TLC

CONSTANTS n1, n2, n3, c1, c2, k1, k2, NoKey

VARIABLES
  part,
  a_clock, token_info, lock, task,        \* AdmToken
  clock, key, user, request, rows         \* PushRequest

tokenVars == <<a_clock, token_info, lock, task>>
pushVars == <<clock, key, user, request, rows>>
allVars == <<part, vars, tokenVars, pushVars>>

(* Two notifications and a device: of ADM, whose token changes twice; of FCM *)
(* whose app may still name GCM; of APNS, where every call may fail.         *)
Adm == INSTANCE Bridge WITH
  Type <- "adm", OtherTypes <- {}, Senders <- {n1, n2}, MaxToken <- 3, Channels <- {c1},
  GivesAps <- FALSE, HasAuthenticator <- TRUE, Troubles <- {"RequestTimeout"}, DbFails <- FALSE
Fcm == INSTANCE Bridge WITH
  Type <- "fcm", OtherTypes <- {"gcm"}, Senders <- {n1, n2}, MaxToken <- 1, Channels <- {c1, c2},
  GivesAps <- FALSE, HasAuthenticator <- TRUE, DbFails <- FALSE

(* Three notifications share a token; the margin is two ways to ADM.         *)
Token == INSTANCE AdmToken WITH
  Tasks <- {n1, n2, n3}, Margin <- 2, Lifetimes <- {3, 5}, MaxDelay <- 1, MaxClock <- 12,
  clock <- a_clock

(* A request with every Authorization and Crypto-Key header; and one with    *)
(* every combination of the other headers.                                   *)
NoAuth == [scheme |-> "none"]
NoItems == [parsed |-> TRUE, salt |-> "none", dh |-> "none", p256ecdsa |-> NoKey]
Dh == [NoItems EXCEPT !.dh = "base64"]
Auths ==
  [scheme : {"vapid", "bearer", "basic"}, k : {k1, k2, NoKey}, t : BOOLEAN, signer : {k1, k2},
   exp : {0, 2, 7}, aud : {"here", "there"}, encoding : {"url", "std", "broken"}] \cup {NoAuth}
KeyHeaders ==
  {[ttl_given |-> TRUE, ttl |-> 1, topic |-> <<>>, data |-> FALSE, encoding |-> "none",
    encryption |-> <<>>, encryption_key |-> FALSE, crypto_key |-> h] :
     h \in {<<>>, <<[NoItems EXCEPT !.p256ecdsa = k1]>>, <<Dh, [NoItems EXCEPT !.p256ecdsa = k2]>>,
            <<Dh>>, <<[NoItems EXCEPT !.parsed = FALSE]>>}}
Headers ==
  [ttl_given : BOOLEAN, ttl : {-1, 0, 4}, topic : {<<>>, <<"t">>, <<"t", "u">>},
   data : BOOLEAN, encoding : {"none", "aesgcm", "aes128gcm", "other"}, encryption_key : BOOLEAN,
   encryption : {<<>>, <<[NoItems EXCEPT !.salt = "base64"]>>, <<[NoItems EXCEPT !.salt = "bad"]>>,
                 <<NoItems, [NoItems EXCEPT !.salt = "base64"]>>, <<[NoItems EXCEPT !.parsed = FALSE]>>},
   crypto_key : {<<>>, <<Dh>>, <<[NoItems EXCEPT !.dh = "bad"]>>, <<[NoItems EXCEPT !.p256ecdsa = k1]>>}]

Authors == INSTANCE PushRequest WITH
  Requests <- {"r1"}, Channels <- {c1}, Keys <- {k1, k2}, Auths <- Auths, Headers <- KeyHeaders,
  OneDay <- 4, Leeway <- 1, MAX_TTL <- 3, TTLWidth <- 3, MaxClock <- 3
Contents == INSTANCE PushRequest WITH
  Requests <- {"r1"}, Channels <- {c1}, Keys <- {}, Auths <- {NoAuth}, Headers <- Headers,
  OneDay <- 4, Leeway <- 1, MAX_TTL <- 3, TTLWidth <- 3, MaxClock <- 2

ASSUME Assumptions ==
  /\ Adm!BridgeAssumption /\ Fcm!BridgeAssumption /\ BridgeAssumption
  /\ Token!AdmTokenAssumption
  /\ Authors!PushRequestAssumption /\ Contents!PushRequestAssumption

MCInit ==
  /\ \/ part \in {"adm", "token", "authors", "contents"} /\ Adm!Init
     \/ part = "fcm" /\ Fcm!Init
     \/ part = "apns" /\ Init
  /\ Token!Init
  /\ IF part = "authors" THEN Authors!Init ELSE Contents!Init

MCNext ==
  \/ part = "adm" /\ Adm!Next /\ UNCHANGED <<part, tokenVars, pushVars>>
  \/ part = "fcm" /\ Fcm!Next /\ UNCHANGED <<part, tokenVars, pushVars>>
  \/ part = "apns" /\ Next /\ UNCHANGED <<part, tokenVars, pushVars>>
  \/ part = "token" /\ Token!Next /\ UNCHANGED <<part, vars, pushVars>>
  \/ part = "authors" /\ Authors!Next /\ UNCHANGED <<part, vars, tokenVars>>
  \/ part = "contents" /\ Contents!Next /\ UNCHANGED <<part, vars, tokenVars>>

MCSpec == MCInit /\ [][MCNext]_allVars

Symmetry == Permutations({n1, n2})

-----------------------------------------------------------------------------
(* TokenNeverGoesBack and EndpointsUsable of Bridge hold in every part: with *)
(* tokens that change while an app updates them and ADM names new ones, and  *)
(* whatever calls fail.                                                      *)

(* A user is removed for its device's sake only: a 410 is only given when    *)
(* the user is gone, as long as the database answers (drop_user), and errors *)
(* that are not the device's fault remove no user (handle_error).            *)
BlamedIsGone ==
  [][/\ part \in {"adm", "fcm"} => GoneMeansGone'
     /\ part = "apns" => GoneWhenRemoved]_allVars

(* No notification reaches ADM with a token that is out of date, and one     *)
(* request for a token is under way at a time (get_access_token).            *)
NeverExpired == Token!NeverExpired /\ Token!OneFetch

(* A restricted subscription takes messages of its key's holder only         *)
(* (version_2_validation, validate_vapid_jwt), within the time its claims    *)
(* allow.                                                                    *)
OnlyKeyHolder == part = "authors" => Authors!OnlyKeyHolder /\ Authors!ClaimsInTime

(* What is accepted can be used: the id a sender is given names the row of   *)
(* its message (MessageId), a TTL fits its unsigned type, and a user agent   *)
(* can tell how a body is encrypted (validate_encryption).                   *)
AcceptedIsUsable == Contents!LocationNamesRow /\ Authors!TypeOK /\ Contents!OneEncryption
=============================================================================
