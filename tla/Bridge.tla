-------------------------------- MODULE Bridge --------------------------------
(***************************************************************************)
(* One mobile user of autoendpoint: the registration routes its app calls   *)
(* (routes/registration.rs) and the bridge routers that hand notifications  *)
(* to FCM, APNS or ADM (routers/), over the user's Bigtable row.            *)
(*                                                                          *)
(* A request suspends at every database call and while the bridge service   *)
(* answers, so requests work on a copy of the user they read before; what   *)
(* it asks for was decided when the app sent it.  The app waits for the     *)
(* answer of one request before it makes the next; any number of            *)
(* notifications are on their way at once.                                  *)
(***************************************************************************)
EXTENDS Naturals, FiniteSets, FiniteSetsExt

CONSTANTS
  Type,             \* the router type the app registers with: "fcm", "gcm", "apns", "adm"
  OtherTypes,       \* the other router types the app names when it updates its token
  Senders,          \* notification requests
  MaxToken,         \* bound on the registration tokens of the device
  Channels,         \* channel ids
  GivesAps,         \* whether the app gives an aps block (APNS)
  HasAuthenticator, \* whether the credential of the app id has an authenticator (FCM)
  Troubles,         \* what may go wrong between the router and the bridge service, and
                    \* whether the app id may be gone from the configuration
  DbFails           \* whether a database call may fail

ServiceTroubles == {"Authentication", "RequestTimeout", "Connect", "Upstream", "BadResponse"}
ConfigurationTroubles == {"InvalidAppId", "InvalidReleaseChannel"}

(* What the constants may be: assumed where the module is instantiated.      *)
BridgeAssumption ==
  /\ Type \in {"fcm", "gcm", "apns", "adm"} /\ OtherTypes \subseteq {"fcm", "gcm", "apns", "adm"}
  /\ Troubles \subseteq ServiceTroubles \cup ConfigurationTroubles
  /\ MaxToken \in Nat \ {0} /\ IsFiniteSet(Senders) /\ Channels # {}
  /\ GivesAps \in BOOLEAN /\ HasAuthenticator \in BOOLEAN /\ DbFails \in BOOLEAN

VARIABLES
  row,    \* the user's row: user and channel ids
  device, \* the device: its token, whether the app is installed
  app,    \* the app: what it holds and the request it waits for
  sender  \* the notification requests
vars == <<row, device, app, sender>>

NoUser == [type |-> "none", token |-> 0, aps |-> "none", version |-> 0]
HasUser(r) == r.user # NoUser
IdleSender == [pc |-> "idle", user |-> NoUser, aps |-> "none", answer |-> "none", id |-> 0,
               result |-> "none"]
IdleApp(pc, chids) == [pc |-> pc, route |-> "none", user |-> NoUser, type |-> Type, token |-> 0,
                       chid |-> "none", chids |-> chids]

Init ==
  /\ row = [user |-> NoUser, chids |-> {}]
  /\ device = [token |-> 1, installed |-> TRUE]
  /\ app = IdleApp("new", {})
  /\ sender = [n \in Senders |-> IdleSender]

-----------------------------------------------------------------------------
(* The database, seen as in module UserRecord, without retries.              *)

FreshVersion ==
  Min((1..(Cardinality(Senders) + 3))
        \ ({row.user.version, app.user.version} \cup {sender[n].user.version : n \in Senders}))

(* What an update that ignores the version would do.                         *)
update_user_unconditional(r, user) == [r EXCEPT !.user = [user EXCEPT !.version = FreshVersion]]

update_user(r, user) ==
  IF HasUser(r) /\ r.user.version = user.version
  THEN [r EXCEPT !.user = [user EXCEPT !.version = FreshVersion]]
  ELSE r

add_user(r, user) == [r EXCEPT !.user = [user EXCEPT !.version = FreshVersion]]
remove_user == [user |-> NoUser, chids |-> {}]

(* A channel is added without a condition; removing one that is stored also  *)
(* writes a new version.                                                     *)
add_channel(r, chid) == [r EXCEPT !.chids = @ \cup {chid}]
remove_channel(r, chid) ==
  [r EXCEPT !.chids = @ \ {chid},
            !.user = IF HasUser(r) /\ chid \in r.chids THEN [@ EXCEPT !.version = FreshVersion] ELSE @]

(* get_user drops the row of a user that is not complete.                    *)
get_user(r) == IF HasUser(r) THEN r ELSE remove_user

-----------------------------------------------------------------------------
(* Routers: register, and what a notification is made of.                    *)

(* The aps block is stored as the string it came in.                         *)
StoredAps(type) == IF type = "apns" /\ GivesAps THEN "string" ELSE "none"

(* register of the three routers: the router_data of a token.                *)
register(user, type, token) ==
  [user EXCEPT !.type = type, !.token = token, !.aps = StoredAps(type)]

(* derive_aps looks the keys of the replacement up in a JSON value: a string *)
(* has none, so every field keeps its default.                               *)
derive_aps(aps) == IF aps = "object" THEN "replaced" ELSE "default"

(* The HTTP status of each outcome.                                          *)
status(result) ==
  CASE result = "success"                                 -> 200
    [] result \in {"NoSubscription", "NotFound", "Unregistered", "InvalidAppId"} -> 410
    [] result = "InvalidReleaseChannel"                   -> 400
    [] result = "TooMuchData"                             -> 413
    [] result \in {"Authentication", "RequestTimeout", "Connect", "Upstream", "BadResponse"} -> 502
    [] result = "OAuthToken"                              -> 500
    [] result = "General"                                 -> 500
    [] result = "Database"                                -> 503

-----------------------------------------------------------------------------
(* The device.                                                               *)

Rotate ==
  /\ device.installed /\ device.token < MaxToken
  /\ device' = [device EXCEPT !.token = @ + 1]
  /\ UNCHANGED <<row, app, sender>>

Uninstall ==
  /\ device.installed
  /\ device' = [device EXCEPT !.installed = FALSE]
  /\ UNCHANGED <<row, app, sender>>

-----------------------------------------------------------------------------
(* The routes of the app.                                                    *)

(* The app sends its first request, with the token of the device.            *)
Register ==
  /\ app.pc = "new" /\ device.installed
  /\ app' = [app EXCEPT !.pc = "register", !.token = device.token, !.chid = CHOOSE c \in Channels : TRUE]
  /\ UNCHANGED <<row, device, sender>>

(* register_uaid_route: the user, then its first channel, then the answer.   *)
register_uaid_route ==
  /\ \/ /\ app.pc = "register"
        /\ row' = add_user(row, register(NoUser, Type, app.token))
        /\ app' = [app EXCEPT !.pc = "add_channel"]
     \/ /\ app.pc = "add_channel"
        /\ row' = add_channel(row, app.chid)
        /\ app' = IdleApp("idle", {app.chid})
  /\ UNCHANGED <<device, sender>>

(* The app sends a request for a route: a new token is the one the device    *)
(* has then.                                                                 *)
Request(route, type, token, chid, chids) ==
  /\ app.pc = "idle" /\ device.installed
  /\ app' = [app EXCEPT !.pc = "requested", !.route = route, !.type = type, !.token = token,
                        !.chid = chid, !.chids = chids]
  /\ UNCHANGED <<row, device, sender>>

RequestToken ==
  \E type \in {Type} \cup OtherTypes : Request("update_token", type, device.token, "none", app.chids)
RequestChannel == \E c \in Channels : Request("new_channel", Type, 0, c, app.chids)
(* The app counts no longer on a channel it gives up.                        *)
RequestUnregister == \E c \in Channels : Request("unregister_channel", Type, 0, c, app.chids \ {c})
RequestRemove == Request("unregister_user", Type, 0, "none", app.chids)

(* AuthorizationCheck passes (the app sends the secret it was given) and     *)
(* RegistrationPathArgsWithUaid reads the user; without one the app is told  *)
(* NoUser and forgets its registration.                                      *)
RegistrationPathArgsWithUaid ==
  /\ app.pc = "requested"
  /\ app' = IF HasUser(row) THEN [app EXCEPT !.pc = app.route, !.user = row.user]
            ELSE IdleApp("lost", {})
  /\ row' = get_user(row)
  /\ UNCHANGED <<device, sender>>

(* update_token_route: a user that has changed since is not written.         *)
Updated == update_user(row, register(app.user, app.type, app.token))
update_token_route ==
  /\ app.pc = "update_token"
  /\ row' = Updated
  /\ app' = IdleApp("idle", app.chids)
  /\ UNCHANGED <<device, sender>>

new_channel_route ==
  /\ app.pc = "new_channel"
  /\ row' = add_channel(row, app.chid)
  /\ app' = IdleApp("idle", app.chids \cup {app.chid})
  /\ UNCHANGED <<device, sender>>

(* A channel that is not stored is answered NoSubscription.                  *)
unregister_channel_route ==
  /\ app.pc = "unregister_channel"
  /\ row' = remove_channel(row, app.chid)
  /\ app' = IdleApp("idle", app.chids)
  /\ UNCHANGED <<device, sender>>

unregister_user_route ==
  /\ app.pc = "unregister_user"
  /\ row' = remove_user
  /\ app' = IdleApp("lost", {})
  /\ UNCHANGED <<device, sender>>

(* The app is told that its request failed; a failed registration is never   *)
(* used, the next one is another user.                                       *)
RouteFailed ==
  /\ app' = IF app.pc \in {"register", "add_channel"} THEN IdleApp("failed", {})
            ELSE IdleApp("idle", app.chids)
  /\ UNCHANGED <<device, sender>>

(* A database call of a route fails, or was applied when its answer is lost. *)
RouteFails ==
  /\ DbFails
  /\ \/ /\ app.pc \notin {"new", "idle", "lost", "failed"}
        /\ UNCHANGED row
     \/ app.pc = "register" /\ row' = add_user(row, register(NoUser, Type, app.token))
     \/ app.pc \in {"add_channel", "new_channel"} /\ row' = add_channel(row, app.chid)
     \/ app.pc = "update_token" /\ row' = Updated
     \/ app.pc = "unregister_channel" /\ row' = remove_channel(row, app.chid)
     \/ app.pc = "unregister_user" /\ row' = remove_user
  /\ RouteFailed

(* register refuses an app id that is gone from the configuration.           *)
RegisterRefused ==
  /\ Troubles \cap ConfigurationTroubles # {}
  /\ app.pc \in {"register", "update_token"}
  /\ UNCHANGED row
  /\ RouteFailed

-----------------------------------------------------------------------------
(* Notifications: webpush_route and the router of the user's type.           *)

SetSender(n, record) == sender' = [sender EXCEPT ![n] = record]
Done(n, result) == SetSender(n, [IdleSender EXCEPT !.pc = "done", !.answer = sender[n].answer, !.result = result])

(* Where the app has no endpoint yet, or never will.                         *)
Unanswered == {"new", "register", "add_channel", "failed"}

(* Subscription: the user is read and validated.                             *)
Subscription(n) ==
  /\ sender[n].pc \in {"idle", "done"}
  /\ app.pc \notin Unanswered
  /\ \/ /\ IF ~HasUser(row) THEN Done(n, "NoSubscription")
           ELSE SetSender(n, [IdleSender EXCEPT !.user = row.user,
                                !.pc = IF row.user.type = "gcm" THEN "drop" ELSE "route"])
        /\ row' = get_user(row)
     \/ DbFails /\ Done(n, "Database") /\ UNCHANGED row
  /\ UNCHANGED <<device, app>>

(* validate_user drops a GCM user.                                           *)
drop_user(n) ==
  /\ sender[n].pc = "drop"
  /\ \/ row' = remove_user /\ Done(n, "NotFound")
     \/ DbFails /\ Done(n, "Database") /\ row' \in {row, remove_user}
  /\ UNCHANGED <<device, app>>

(* message_size_check, and the message that is sent.                         *)
TooMuchData(n) == Done(n, "TooMuchData")
Sent(n, aps) == SetSender(n, [sender[n] EXCEPT !.pc = "sent", !.aps = aps])

(* The app id of the user is gone from the configuration.                    *)
NotConfigured(n, result) == result \in Troubles /\ Done(n, result)

(* FcmRouter and FcmClient::send up to the request: the access token comes   *)
(* from the authenticator, and without one the request panics.               *)
FcmSend(n) ==
  /\ sender[n].user.type = "fcm"
  /\ \/ TooMuchData(n) \/ NotConfigured(n, "InvalidAppId")
     \/ HasAuthenticator /\ (Done(n, "OAuthToken") \/ Sent(n, "none"))
     \/ ~HasAuthenticator /\ SetSender(n, [sender[n] EXCEPT !.pc = "panicked"])

(* ApnsRouter up to the request.                                             *)
ApnsSend(n) ==
  /\ sender[n].user.type = "apns"
  /\ \/ TooMuchData(n) \/ NotConfigured(n, "InvalidReleaseChannel")
     \/ Sent(n, derive_aps(sender[n].user.aps))

(* AdmRouter and AdmClient::send up to the request; module AdmToken has the  *)
(* access token.                                                             *)
AdmSend(n) ==
  /\ sender[n].user.type = "adm"
  /\ \/ TooMuchData(n) \/ NotConfigured(n, "InvalidAppId") \/ Sent(n, "none")
     \/ \E result \in {"OAuthToken", "Upstream", "BadResponse"} : Done(n, result)

(* webpush_route: the router of the user's type.                             *)
route_notification(n) ==
  /\ sender[n].pc = "route"
  /\ FcmSend(n) \/ ApnsSend(n) \/ AdmSend(n)
  /\ UNCHANGED <<row, device, app>>

(* The bridge service answers.  FCM and APNS know the current token of an    *)
(* installed app, ADM also an older one, and names the current one.          *)
Known(n) ==
  /\ device.installed
  /\ sender[n].user.type = "adm" \/ sender[n].user.token = device.token

Answer(n, answer) ==
  /\ sender[n].pc = "sent"
  /\ SetSender(n, [sender[n] EXCEPT !.pc = "answered", !.answer = answer,
                                   !.id = IF answer = "renamed" THEN device.token ELSE 0])
  /\ UNCHANGED <<row, device, app>>

Accepted(n) == Known(n) /\ Answer(n, IF sender[n].user.token = device.token THEN "ok" ELSE "renamed")
Refused(n) == ~Known(n) /\ Answer(n, "gone")
Troubled(n) == \E a \in Troubles \cap ServiceTroubles : Answer(n, a)

(* What an answer handler that does not tell 404 from other errors would do. *)
HandleAnswerKeeps(n) ==
  /\ sender[n].pc = "answered"
  /\ CASE sender[n].answer = "ok" -> Done(n, "success")
       [] sender[n].answer = "renamed" ->
            SetSender(n, [sender[n] EXCEPT !.pc = "update", !.user.token = sender[n].id])
       [] sender[n].answer = "gone" -> Done(n, "NotFound")
       [] OTHER -> Done(n, sender[n].answer)
  /\ UNCHANGED <<row, device, app>>

(* What a handler that blames the device for its own credentials would do.   *)
HandleAnswerBlames(n) ==
  /\ sender[n].pc = "answered"
  /\ CASE sender[n].answer = "ok" -> Done(n, "success")
       [] sender[n].answer = "renamed" ->
            SetSender(n, [sender[n] EXCEPT !.pc = "update", !.user.token = sender[n].id])
       [] sender[n].answer \in {"gone", "Authentication"} -> SetSender(n, [sender[n] EXCEPT !.pc = "remove"])
       [] OTHER -> Done(n, sender[n].answer)
  /\ UNCHANGED <<row, device, app>>

(* The status and the body of the answer, and handle_error.                  *)
HandleAnswer(n) ==
  /\ sender[n].pc = "answered"
  /\ CASE sender[n].answer = "ok" -> Done(n, "success")
       [] sender[n].answer = "renamed" ->
            SetSender(n, [sender[n] EXCEPT !.pc = "update", !.user.token = sender[n].id])
       [] sender[n].answer = "gone" -> SetSender(n, [sender[n] EXCEPT !.pc = "remove"])
       [] OTHER -> Done(n, sender[n].answer)
  /\ UNCHANGED <<row, device, app>>

(* The recipient is gone: the user is removed, and an error doing so ignored.*)
RemoveGone(n) ==
  /\ sender[n].pc = "remove"
  /\ row' = remove_user \/ (DbFails /\ UNCHANGED row)
  /\ Done(n, IF sender[n].user.type = "apns" THEN "Unregistered" ELSE "NotFound")
  /\ UNCHANGED <<device, app>>

(* ADM named another registration id: the copy of the user is written.       *)
UpdateId(n) ==
  /\ sender[n].pc = "update"
  /\ \/ /\ row' = update_user(row, sender[n].user)
        /\ Done(n, IF HasUser(row) /\ row.user.version = sender[n].user.version THEN "success" ELSE "General")
     \/ DbFails /\ Done(n, "Database") /\ row' \in {row, update_user(row, sender[n].user)}
  /\ UNCHANGED <<device, app>>

SenderStep(n) ==
  \/ Subscription(n) \/ drop_user(n) \/ route_notification(n)
  \/ Accepted(n) \/ Refused(n) \/ Troubled(n)
  \/ HandleAnswer(n) \/ RemoveGone(n) \/ UpdateId(n)

Next ==
  \/ Rotate \/ Uninstall
  \/ Register \/ RequestToken \/ RequestChannel \/ RequestUnregister \/ RequestRemove
  \/ register_uaid_route \/ RegistrationPathArgsWithUaid
  \/ update_token_route \/ new_channel_route \/ unregister_channel_route \/ unregister_user_route
  \/ RouteFails \/ RegisterRefused
  \/ \E n \in Senders : SenderStep(n)

Spec == Init /\ [][Next]_vars

(* Notifications keep coming, requests run on, and the bridge service does   *)
(* not refuse to answer for ever, nor do all requests fail before the send.  *)
Fairness ==
  \A n \in Senders :
    /\ WF_vars(Subscription(n)) /\ WF_vars(drop_user(n)) /\ WF_vars(HandleAnswer(n))
    /\ WF_vars(RemoveGone(n)) /\ WF_vars(UpdateId(n)) /\ WF_vars(route_notification(n))
    /\ SF_vars(route_notification(n) /\ sender'[n].pc = "sent")
    /\ SF_vars(Accepted(n) \/ Refused(n))

LiveSpec == Spec /\ Fairness

-----------------------------------------------------------------------------
UserType ==
  [type : {"none", "fcm", "gcm", "apns", "adm"}, token : 0..MaxToken,
   aps : {"none", "string"}, version : 0..(Cardinality(Senders) + 3)]

TypeOK ==
  /\ row.user \in UserType /\ row.chids \subseteq Channels
  /\ device \in [token : 1..MaxToken, installed : BOOLEAN]
  /\ app.pc \in {"new", "register", "add_channel", "failed", "idle", "requested", "update_token",
                 "new_channel", "unregister_channel", "unregister_user", "lost"}
  /\ app.user \in UserType /\ app.chids \subseteq Channels
  /\ \A n \in Senders : sender[n].user \in UserType
                        /\ (sender[n].pc = "done" => status(sender[n].result) \in {200, 400, 410, 413, 500, 502, 503})

(* A notification never puts a token back: the id ADM named some time ago    *)
(* does not win over a newer one (update_user).  Only the app itself can, by *)
(* a request that was under way while ADM named a newer id, and never the    *)
(* app of another service.                                                   *)
TokenNeverGoesBack ==
  [][HasUser(row) /\ HasUser(row') /\ row'.user.token < row.user.token
       => app.pc = "update_token" /\ row.user.type = "adm"]_vars

(* The stored token is never replaced by one the device had before.          *)
TokenOnlyAdvances ==
  [][HasUser(row) /\ HasUser(row') => row.user.token <= row'.user.token]_vars

(* As long as the user is stored it has every channel for which the app      *)
(* holds an endpoint, whatever removals and updates race with the routes.    *)
EndpointsUsable == app.pc = "idle" /\ HasUser(row) => app.chids \subseteq row.chids

(* An application server is told 410 only when the user is gone for good     *)
(* (handle_error, drop_user; errors.md says the user is permanently          *)
(* unavailable).                                                             *)
GoneMeansGone ==
  \A n \in Senders : sender[n].pc = "done" /\ status(sender[n].result) = 410 => ~HasUser(row)

(* A notification that failed for a reason that is not the device's leaves   *)
(* the user alone: while the device has had one token, only its app or its   *)
(* uninstallation removes it (handle_error).                                 *)
GoneWhenRemoved ==
  HasUser(row) /\ ~HasUser(row') /\ device.token = 1
    => ~device.installed \/ app.pc = "unregister_user"
OnlyGoneRemoved == [][GoneWhenRemoved]_vars

(* A device that is gone is forgotten, as notifications for it keep coming   *)
(* (handle_error).                                                           *)
UninstalledForgotten ==
  (~device.installed /\ app.pc \notin Unanswered) ~> ~HasUser(row)

(* The bridge's word that a recipient is gone removes no user whose stored   *)
(* token is the one the device has now (handle_error, remove_user).          *)
CurrentTokenKept ==
  [][HasUser(row) /\ ~HasUser(row') /\ device.installed /\ row.user.token = device.token
       => app.pc = "unregister_user"]_vars

(* A notification the bridge accepted is answered with success.              *)
AcceptedIsSuccess ==
  \A n \in Senders : sender[n].pc = "done" /\ sender[n].answer \in {"ok", "renamed"} => sender[n].result = "success"

(* An update never changes the router type of a user (DbClient::update_user).*)
RouterTypeFixed == [][HasUser(row) /\ HasUser(row') => row.user.type = row'.user.type]_vars

(* A notification of a user that gave an aps block is made from it.          *)
ApsHonoured == \A n \in Senders : sender[n].pc = "sent" /\ sender[n].user.type = "apns" /\ GivesAps => sender[n].aps = "replaced"

(* A configured credential never makes a request panic (FcmClient::send).    *)
NoPanic == \A n \in Senders : sender[n].pc # "panicked"
=============================================================================
