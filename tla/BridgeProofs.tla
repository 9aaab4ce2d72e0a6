---------------------------- MODULE BridgeProofs ----------------------------
(***************************************************************************)
(* Proofs about module Bridge: for any number of notifications and any     *)
(* number of tokens; and, at the end, about module AdmToken.               *)
(***************************************************************************)
EXTENDS Bridge, FiniteSetTheorems, WellFoundedInduction, TLAPS

AllTypes == {"fcm", "gcm", "apns", "adm"}
Results == {"success", "NoSubscription", "NotFound", "Unregistered", "TooMuchData",
            "Authentication", "RequestTimeout", "Connect", "Upstream", "BadResponse",
            "OAuthToken", "General", "Database", "InvalidReleaseChannel"}
           \cup (Troubles \cap {"InvalidAppId"})
GoneResults == {"NoSubscription", "NotFound", "Unregistered"}

RowType == [user : UserType, chids : SUBSET Channels]
Routes == {"update_token", "new_channel", "unregister_channel", "unregister_user"}
AppType ==
  [pc : {"new", "register", "add_channel", "failed", "idle", "requested", "lost"} \cup Routes,
   route : Routes \cup {"none"}, user : UserType, type : AllTypes, token : 0..MaxToken,
   chid : Channels \cup {"none"}, chids : SUBSET Channels]
SenderType ==
  [pc : {"idle", "done", "drop", "route", "sent", "answered", "update", "remove", "panicked"},
   user : UserType, aps : {"none", "default", "replaced"},
   answer : {"none", "ok", "renamed", "gone"} \cup Troubles, id : 0..MaxToken,
   result : Results \cup {"none"}]

Types ==
  /\ row \in RowType
  /\ device \in [token : 1..MaxToken, installed : BOOLEAN]
  /\ app \in AppType
  /\ sender \in [Senders -> SenderType]

(* A user that was stored: a token the device has had, a type the app gives. *)
StoredUser(u, d) ==
  /\ u.token \in 1..d.token /\ u.version # 0
  /\ u.type \in {Type} \cup OtherTypes

(* A copy of the user that is not out of date does not undo the stored token.*)
NoOlder(u, version, token) == u # NoUser /\ u.version = version => u.token <= token

RowOK(u, d) == u # NoUser => StoredUser(u, d)

(* The token of a request is no older than the stored one, unless ADM names  *)
(* newer ones meanwhile.                                                     *)
On(a, route) == a.pc = route \/ (a.pc = "requested" /\ a.route = route)
AppOK(a, u, d) ==
  /\ a.pc \in {"new", "register"} => u = NoUser /\ a.chids = {}
  /\ a.type \in {Type} \cup OtherTypes
  /\ a.pc = "register" => a.token \in 1..d.token
  /\ a.pc \in {"register", "add_channel"} \/ On(a, "new_channel") \/ On(a, "unregister_channel")
       => a.chid \in Channels
  /\ On(a, "unregister_channel") => a.chid \notin a.chids
  /\ On(a, "update_token") => a.token \in 1..d.token
  /\ On(a, "update_token") /\ u # NoUser /\ u.type # "adm" => u.token <= a.token
  /\ a.pc = "update_token" => a.user.version # 0
  /\ a.pc = "requested" => a.route \in Routes

SenderOK(S, u, d) ==
  /\ S.pc \in {"drop", "route", "sent", "answered", "update", "remove"} => StoredUser(S.user, d)
  /\ S.id <= d.token
  /\ NoOlder(u, S.user.version, S.user.token)
  /\ S.pc = "done" => S.result \in Results
  /\ S.pc = "drop" => S.user.type = "gcm"
  /\ S.pc = "remove" \/ (S.pc = "answered" /\ S.answer = "gone") =>
       ~d.installed \/ S.user.token < d.token
  /\ S.pc = "answered" => S.answer # "none"
  /\ S.pc = "answered" /\ S.answer = "renamed" => S.user.token <= S.id
  /\ S.pc = "update" \/ (S.pc = "answered" /\ S.answer = "renamed") => S.user.type = "adm"
SendersOK == \A n \in Senders : SenderOK(sender[n], row.user, device)

(* Every channel of the app is stored, also while a request is under way.    *)
ChannelsStored == HasUser(row) => app.chids \subseteq row.chids

IInv ==
  /\ Types /\ RowOK(row.user, device) /\ AppOK(app, row.user, device) /\ SendersOK
  /\ ChannelsStored

(* When no database call fails: a notification is told that the user is gone *)
(* only once there is none, and then there is none for good.                 *)
ToldGone(S) == S.pc = "done" /\ S.result \in GoneResults
GoneOK(S, u, pc) ==
  /\ S.pc # "idle" => pc \notin {"new", "register"}
  /\ ToldGone(S) => u = NoUser
GoneInv == \A n \in Senders : GoneOK(sender[n], row.user, app.pc)

-----------------------------------------------------------------------------
(* Versions: the least number that nobody has.                               *)

\* A set of naturals has a least element.
LEMMA LeastExists ==
  ASSUME NEW T \in SUBSET Nat, T # {}
  PROVE  \E x \in T : \A y \in T : x <= y
<1> DEFINE R == OpToRel(<, Nat)
<1>1. IsWellFoundedOn(R, Nat)
  BY NatLessThanWellFounded
<1> HIDE DEF R
<1>2. PICK x \in T : \A y \in T : ~(<<y, x>> \in R)
  BY <1>1, WFMin
<1>3. \A y \in T : ~(y < x)
  BY <1>2 DEF R, OpToRel
<1> QED BY <1>3

\* One more element counts at most once.
LEMMA OneMore ==
  ASSUME NEW T, IsFiniteSet(T), NEW x
  PROVE  /\ IsFiniteSet(T \cup {x})
         /\ Cardinality(T \cup {x}) \in Nat
         /\ Cardinality(T \cup {x}) <= Cardinality(T) + 1
<1>1. /\ IsFiniteSet(T \cup {x})
      /\ Cardinality(T \cup {x}) = IF x \in T THEN Cardinality(T) ELSE Cardinality(T) + 1
  BY FS_AddElement
<1>2. Cardinality(T) \in Nat
  BY FS_CardinalityType
<1> QED BY <1>1, <1>2

\* Of more numbers than are in use one is not, and Min finds one.
LEMMA UnusedNumber ==
  ASSUME NEW K \in Nat, NEW used, IsFiniteSet(used), Cardinality(used) < K
  PROVE  Min((1..K) \ used) \in (1..K) \ used
<1> DEFINE free == (1..K) \ used
<1>1. IsFiniteSet(1..K) /\ Cardinality(1..K) = K
  BY FS_Interval
<1>2. free # {}
  <2>1. SUFFICES ASSUME free = {}  PROVE FALSE
    OBVIOUS
  <2>2. 1..K \in SUBSET used
    BY <2>1
  <2>3. Cardinality(1..K) <= Cardinality(used)
    BY <2>2, FS_Subset
  <2> QED BY <1>1, <2>3, FS_CardinalityType
<1>3. free \in SUBSET Nat
  OBVIOUS
<1> HIDE DEF free
<1>4. \E x \in free : \A y \in free : x <= y
  BY <1>2, <1>3, LeastExists
<1>5. Min(free) \in free
  BY <1>4 DEF Min
<1> QED BY <1>5 DEF free

\* A version that is written is one that no copy of the user has.
IsFresh(version) ==
  /\ version \in 1..(Cardinality(Senders) + 3)
  /\ version # row.user.version /\ version # app.user.version
  /\ \A n \in Senders : version # sender[n].user.version

LEMMA FreshIsFresh ==
  ASSUME BridgeAssumption
  PROVE  IsFresh(FreshVersion)
<1> DEFINE f == [n \in Senders |-> sender[n].user.version]
           K == Cardinality(Senders) + 3
           image == {sender[n].user.version : n \in Senders}
           used == {row.user.version, app.user.version} \cup image
<1>1. IsFiniteSet(Senders) /\ Cardinality(Senders) \in Nat
  BY FS_CardinalityType DEF BridgeAssumption
<1>2. f \in Surjection(Senders, image)
  BY DEF Surjection
<1>3. FreshVersion = Min((1..K) \ used)
  BY DEF FreshVersion
<1>4. /\ row.user.version \in used /\ app.user.version \in used
      /\ \A n \in Senders : sender[n].user.version \in used
  OBVIOUS
<1> HIDE DEF f, image
<1>5. IsFiniteSet(image) /\ Cardinality(image) <= Cardinality(Senders) /\ Cardinality(image) \in Nat
  BY <1>1, <1>2, FS_Surjection, FS_CardinalityType
<1> DEFINE more == image \cup {row.user.version}
<1>6. used = more \cup {app.user.version}
  OBVIOUS
<1>7. IsFiniteSet(more) /\ Cardinality(more) \in Nat /\ Cardinality(more) <= Cardinality(image) + 1
  BY <1>5, OneMore
<1> HIDE DEF used, more
<1>8. IsFiniteSet(used) /\ Cardinality(used) \in Nat /\ Cardinality(used) <= Cardinality(more) + 1
  BY <1>6, <1>7, OneMore
<1>9. K \in Nat /\ Cardinality(used) < K
  BY <1>1, <1>5, <1>7, <1>8
<1>10. K = Cardinality(Senders) + 3
  OBVIOUS
<1> HIDE DEF K
<1>11. Min((1..K) \ used) \in (1..K) \ used
  BY <1>8, <1>9, UnusedNumber
<1> QED BY <1>3, <1>4, <1>10, <1>11 DEF IsFresh

-----------------------------------------------------------------------------
(* What a step does: to the stored user, by the app, by a notification.      *)

(* The stored user stays, goes, or is written with a fresh version.          *)
Written(v, d) == StoredUser(v, d) /\ IsFresh(v.version)
UserChange(u, v, d) == v = u \/ v = NoUser \/ Written(v, d)

(* What the app does to the row.                                             *)
ByApp(r) ==
  /\ r \in RowType /\ UserChange(row.user, r.user, device)
  /\ app.pc \notin {"new", "register"} /\ row.user = NoUser => r.user = NoUser
  /\ row.user # NoUser /\ r.user # NoUser /\ r.user.token < row.user.token
       => app.pc = "update_token" /\ row.user.type = "adm"
  /\ row.user # NoUser /\ r.user = NoUser => app.pc = "unregister_user"

AppTurn ==
  /\ device' = device /\ sender' = sender
  /\ ByApp(row') /\ app' \in AppType
  /\ AppOK(app', row'.user, device)
  /\ row'.user # NoUser => app'.chids \subseteq row'.chids
  /\ app'.pc \in {"new", "register"} => app.pc = "new"

(* A notification writes what ADM named, and nothing older.                  *)
Renamed(u, v) == v # NoUser /\ v # u => v.type = "adm" /\ u.token <= v.token

SenderTurn(n) ==
  /\ device' = device /\ app' = app
  /\ row' \in RowType
  /\ UserChange(row.user, row'.user, device)
  /\ Renamed(row.user, row'.user)
  /\ row'.user # NoUser => row.user # NoUser /\ row'.chids = row.chids
  /\ sender[n].pc # "idle" \/ app.pc \notin {"new", "register"}
  /\ \E S \in SenderType :
       /\ sender' = [sender EXCEPT ![n] = S]
       /\ SenderOK(S, row'.user, device)
       /\ ~DbFails /\ ToldGone(S) => row'.user = NoUser
  /\ "gcm" \notin {Type} \cup OtherTypes => GoneWhenRemoved

DeviceTurn ==
  /\ row' = row /\ app' = app /\ sender' = sender
  /\ device' \in [token : 1..MaxToken, installed : BOOLEAN]
  /\ device.token <= device'.token
  /\ device'.installed => device.installed

\* A copy of the user that somebody holds is no danger after the user was written.
LEMMA ChangeKeepsSender ==
  ASSUME NEW S, NEW u, NEW v, NEW d, SenderOK(S, u, d), UserChange(u, v, d),
         IsFresh(v.version) => v.version # S.user.version
  PROVE  SenderOK(S, v, d)
BY DEF SenderOK, UserChange, Written, NoOlder

LEMMA ChangeKeepsApp ==
  ASSUME NEW a, NEW u, NEW v, NEW d, AppOK(a, u, d), Renamed(u, v),
         v # NoUser => u # NoUser
  PROVE  AppOK(a, v, d)
BY DEF AppOK, Renamed

LEMMA ChangeKeepsRow ==
  ASSUME NEW u, NEW v, NEW d, RowOK(u, d), UserChange(u, v, d)
  PROVE  RowOK(v, d)
BY DEF RowOK, UserChange, Written

\* The invariant is kept by a step of the app,
LEMMA AppTurnKeeps ==
  ASSUME IInv, AppTurn
  PROVE  IInv'
<1>1. RowOK(row'.user, device)
  BY ChangeKeepsRow DEF IInv, AppTurn, ByApp
<1>2. \A n \in Senders : SenderOK(sender[n], row'.user, device)
  <2>1. SUFFICES ASSUME NEW n \in Senders  PROVE SenderOK(sender[n], row'.user, device)
    OBVIOUS
  <2>2. IsFresh(row'.user.version) => row'.user.version # sender[n].user.version
    BY DEF IsFresh
  <2> QED BY <2>2, ChangeKeepsSender DEF IInv, SendersOK, AppTurn, ByApp
<1>3. Types'
  BY DEF IInv, Types, AppTurn, ByApp
<1>4. RowOK(row.user, device)' /\ AppOK(app, row.user, device)'
  BY <1>1 DEF AppTurn
<1>5. SendersOK'
  BY <1>2 DEF SendersOK, AppTurn
<1>6. ChannelsStored'
  BY DEF AppTurn, ChannelsStored, HasUser
<1> QED BY <1>3, <1>4, <1>5, <1>6 DEF IInv

\* by a step of a notification
LEMMA SenderTurnKeeps ==
  ASSUME IInv, NEW n \in Senders, SenderTurn(n)
  PROVE  IInv'
<1>1. RowOK(row'.user, device)
  BY ChangeKeepsRow DEF IInv, SenderTurn
<1>2. AppOK(app, row'.user, device)
  BY ChangeKeepsApp DEF IInv, SenderTurn
<1>3. PICK S \in SenderType : /\ sender' = [sender EXCEPT ![n] = S]
                              /\ SenderOK(S, row'.user, device)
  BY DEF SenderTurn
<1>4. \A m \in Senders : SenderOK(sender'[m], row'.user, device)
  <2>1. SUFFICES ASSUME NEW m \in Senders  PROVE SenderOK(sender'[m], row'.user, device)
    OBVIOUS
  <2>2. CASE m = n
    BY <1>3, <2>2 DEF IInv, Types
  <2>3. CASE m # n
    <3>1. IsFresh(row'.user.version) => row'.user.version # sender[m].user.version
      BY DEF IsFresh
    <3>2. SenderOK(sender[m], row'.user, device)
      BY <3>1, ChangeKeepsSender DEF IInv, SendersOK, SenderTurn
    <3> QED BY <1>3, <2>3, <3>2 DEF IInv, Types
  <2> QED BY <2>2, <2>3
<1>5. Types'
  <2>1. sender' \in [Senders -> SenderType]
    BY <1>3 DEF IInv, Types
  <2> QED BY <2>1 DEF IInv, Types, SenderTurn
<1>6. RowOK(row.user, device)' /\ AppOK(app, row.user, device)'
  BY <1>1, <1>2 DEF SenderTurn
<1>7. SendersOK'
  BY <1>4 DEF SendersOK, SenderTurn
<1>8. ChannelsStored'
  BY DEF SenderTurn, ChannelsStored, HasUser, IInv
<1> QED BY <1>5, <1>6, <1>7, <1>8 DEF IInv

\* and by a step of the device.
LEMMA DeviceTurnKeeps ==
  ASSUME IInv, DeviceTurn
  PROVE  IInv'
<1>1. device \in [token : 1..MaxToken, installed : BOOLEAN] /\ device.token \in Int /\ device'.token \in Int
  BY DEF IInv, Types, DeviceTurn
<1>2. \A u : StoredUser(u, device) => StoredUser(u, device')
  BY <1>1 DEF StoredUser, DeviceTurn
<1>3. RowOK(row.user, device')
  BY <1>2 DEF IInv, RowOK
<1>4. AppOK(app, row.user, device')
  <2>1. \A t : t \in 1..device.token => t \in 1..device'.token
    BY <1>1 DEF DeviceTurn
  <2>2. AppOK(app, row.user, device)
    BY DEF IInv
  <2> QED BY <2>1, <2>2 DEF AppOK
<1>5. \A n \in Senders : SenderOK(sender[n], row.user, device')
  <2>1. SUFFICES ASSUME NEW n \in Senders  PROVE SenderOK(sender[n], row.user, device')
    OBVIOUS
  <2>2. sender[n].id \in Int /\ sender[n].user.token \in Int
    BY DEF IInv, Types, SenderType, UserType
  <2> QED BY <1>1, <1>2, <2>2 DEF IInv, SendersOK, SenderOK, DeviceTurn
<1>6. Types'
  BY DEF IInv, Types, DeviceTurn
<1>7. RowOK(row.user, device)' /\ AppOK(app, row.user, device)'
  BY <1>3, <1>4 DEF DeviceTurn
<1>8. SendersOK' /\ ChannelsStored'
  BY <1>5 DEF SendersOK, ChannelsStored, DeviceTurn, IInv, HasUser
<1> QED BY <1>6, <1>7, <1>8 DEF IInv

-----------------------------------------------------------------------------
(* The steps of the device and of the app.                                   *)

LEMMA NoUserTyped ==
  ASSUME BridgeAssumption
  PROVE  NoUser \in UserType /\ remove_user \in RowType /\ remove_user.user = NoUser
<1>1. Cardinality(Senders) \in Nat /\ MaxToken \in Nat
  BY FS_CardinalityType DEF BridgeAssumption
<1>2. 0 \in 0..MaxToken /\ 0 \in 0..(Cardinality(Senders) + 3)
  BY <1>1
<1>3. NoUser \in UserType
  BY <1>2 DEF NoUser, UserType
<1> QED BY <1>3 DEF remove_user, RowType

LEMMA RotateTurns ==
  ASSUME BridgeAssumption, IInv, Rotate
  PROVE  DeviceTurn
<1>1. /\ device \in [token : 1..MaxToken, installed : BOOLEAN] /\ MaxToken \in Nat
      /\ device.token < MaxToken /\ device' = [device EXCEPT !.token = device.token + 1]
  BY DEF IInv, Types, Rotate, BridgeAssumption
<1>2. device.token + 1 \in 1..MaxToken /\ device.token <= device.token + 1
  BY <1>1
<1> QED BY <1>1, <1>2 DEF DeviceTurn, Rotate

LEMMA UninstallTurns ==
  ASSUME BridgeAssumption, IInv, Uninstall
  PROVE  DeviceTurn
<1>1. device \in [token : 1..MaxToken, installed : BOOLEAN] /\ device' = [device EXCEPT !.installed = FALSE]
  BY DEF IInv, Types, Uninstall
<1>2. device.token <= device.token
  BY <1>1
<1> QED BY <1>1, <1>2 DEF DeviceTurn, Uninstall

\* The fields of register.
LEMMA Registered ==
  ASSUME BridgeAssumption, NEW u \in UserType, NEW type \in AllTypes, NEW token \in 0..MaxToken,
         NEW w, w = register(u, type, token)
  PROVE  w \in UserType /\ w.type = type /\ w.token = token /\ w.version = u.version
<1> DEFINE aps == StoredAps(type)
           w1 == [u EXCEPT !.type = type, !.token = token]
<1>1. w = [w1 EXCEPT !.aps = aps]
  BY DEF register
<1>2. w1 \in UserType /\ w1.type = type /\ w1.token = token /\ w1.version = u.version
  BY DEF UserType, AllTypes
<1>3. aps \in {"none", "string"}
  BY DEF StoredAps
<1> HIDE DEF w1, aps
<1> QED BY <1>1, <1>2, <1>3 DEF UserType

\* A user that is written has a fresh version.
LEMMA FreshUser ==
  ASSUME BridgeAssumption, NEW u \in UserType, NEW v, v = [u EXCEPT !.version = FreshVersion]
  PROVE  /\ v \in UserType /\ v.type = u.type /\ v.token = u.token /\ IsFresh(v.version)
         /\ v.version # 0 /\ v # NoUser
<1>1. IsFresh(FreshVersion) /\ Cardinality(Senders) \in Nat
  BY FreshIsFresh, FS_CardinalityType DEF BridgeAssumption
<1>2. FreshVersion \in 0..(Cardinality(Senders) + 3) /\ FreshVersion # 0
  BY <1>1 DEF IsFresh
<1>3. v \in UserType /\ v.type = u.type /\ v.token = u.token /\ v.version = FreshVersion
  BY <1>2 DEF UserType
<1> QED BY <1>1, <1>2, <1>3 DEF NoUser

\* add_user
LEMMA AddUserRow ==
  ASSUME BridgeAssumption, IInv, app.pc = "register", NEW r,
         r = add_user(row, register(NoUser, Type, app.token))
  PROVE  ByApp(r) /\ r.chids = row.chids
<1> DEFINE w == register(NoUser, Type, app.token)
           v == [w EXCEPT !.version = FreshVersion]
<1>1. /\ row \in RowType /\ row.user = NoUser /\ app.token \in 1..device.token
      /\ app.token \in 0..MaxToken /\ Type \in AllTypes
  BY DEF IInv, AppOK, Types, AppType, BridgeAssumption, AllTypes
<1>2. w \in UserType /\ w.type = Type /\ w.token = app.token
  BY <1>1, NoUserTyped, Registered
<1>3. r = [row EXCEPT !.user = v]
  BY DEF add_user
<1> HIDE DEF w
<1>4. v \in UserType /\ v.type = Type /\ v.token = app.token /\ IsFresh(v.version) /\ v.version # 0
  BY <1>2, FreshUser
<1> HIDE DEF v
<1>5. r \in RowType /\ r.user = v /\ r.chids = row.chids
  BY <1>1, <1>3, <1>4 DEF RowType
<1>6. Written(v, device)
  BY <1>1, <1>4 DEF Written, StoredUser
<1> QED BY <1>1, <1>5, <1>6 DEF ByApp, UserChange

\* add_channel
LEMMA AddChannelRow ==
  ASSUME IInv, NEW c \in Channels, NEW r, r = add_channel(row, c)
  PROVE  ByApp(r) /\ r.user = row.user /\ r.chids = row.chids \cup {c}
<1>1. row \in RowType
  BY DEF IInv, Types
<1>2. r \in RowType /\ r.user = row.user /\ r.chids = row.chids \cup {c}
  BY <1>1 DEF add_channel, RowType
<1>3. row.user.token \in Int
  BY <1>1 DEF RowType, UserType
<1> QED BY <1>2, <1>3 DEF ByApp, UserChange

\* remove_channel
LEMMA RemoveChannelRow ==
  ASSUME BridgeAssumption, IInv, NEW c \in Channels, NEW r, r = remove_channel(row, c)
  PROVE  ByApp(r) /\ r.chids = row.chids \ {c}
<1> DEFINE w == [row.user EXCEPT !.version = FreshVersion]
           v == IF HasUser(row) /\ c \in row.chids THEN w ELSE row.user
<1>1. row \in RowType /\ row.user \in UserType /\ row.user.token \in Int
  BY DEF IInv, Types, RowType, UserType
<1>2. r = [row EXCEPT !.chids = row.chids \ {c}, !.user = v]
  BY DEF remove_channel
<1>3. /\ w \in UserType /\ w.type = row.user.type /\ w.token = row.user.token
      /\ IsFresh(w.version) /\ w.version # 0 /\ w # NoUser
  BY <1>1, FreshUser
<1> HIDE DEF w
<1>4. HasUser(row) => Written(w, device)
  BY <1>3 DEF IInv, RowOK, HasUser, Written, StoredUser
<1>5. /\ v \in UserType /\ UserChange(row.user, v, device) /\ (v # NoUser <=> row.user # NoUser)
      /\ v.token = row.user.token
  BY <1>1, <1>3, <1>4 DEF UserChange, HasUser
<1> HIDE DEF v
<1>6. r \in RowType /\ r.user = v /\ r.chids = row.chids \ {c}
  BY <1>1, <1>2, <1>5 DEF RowType
<1> QED BY <1>1, <1>5, <1>6 DEF ByApp

\* A conditional update writes the copy of the user, or nothing.
LEMMA UpdateRow ==
  ASSUME BridgeAssumption, IInv, NEW u \in UserType, NEW r, r = update_user(row, u),
         StoredUser(u, device)
  PROVE  /\ r \in RowType /\ r.chids = row.chids /\ UserChange(row.user, r.user, device)
         /\ r.user # NoUser <=> row.user # NoUser
         /\ \/ r.user = row.user
            \/ row.user.version = u.version /\ r.user.type = u.type /\ r.user.token = u.token
<1>1. row \in RowType
  BY DEF IInv, Types
<1>2. CASE HasUser(row) /\ row.user.version = u.version
  <2> DEFINE v == [u EXCEPT !.version = FreshVersion]
  <2>1. /\ v \in UserType /\ v.type = u.type /\ v.token = u.token /\ IsFresh(v.version)
        /\ v.version # 0 /\ v # NoUser
    BY FreshUser
  <2>2. r = [row EXCEPT !.user = v]
    BY <1>2 DEF update_user
  <2> HIDE DEF v
  <2>3. r \in RowType /\ r.chids = row.chids /\ r.user = v
    BY <1>1, <2>1, <2>2 DEF RowType
  <2>4. Written(v, device)
    BY <2>1 DEF Written, StoredUser
  <2> QED BY <1>2, <2>1, <2>3, <2>4 DEF UserChange, HasUser
<1>3. CASE ~(HasUser(row) /\ row.user.version = u.version)
  BY <1>1, <1>3 DEF update_user, UserChange
<1> QED BY <1>2, <1>3

\* The update of update_token_route
LEMMA UpdatedRow ==
  ASSUME BridgeAssumption, IInv, app.pc = "update_token", NEW r, r = Updated
  PROVE  ByApp(r) /\ r.chids = row.chids
<1> DEFINE u == register(app.user, app.type, app.token)
<1>1. /\ app.user \in UserType /\ app.type \in {Type} \cup OtherTypes /\ app.type \in AllTypes
      /\ app.token \in 1..device.token /\ app.token \in 0..MaxToken /\ app.user.version # 0
      /\ row.user # NoUser /\ row.user.type # "adm" => row.user.token <= app.token
  <2>1. app \in AppType /\ AppOK(app, row.user, device) /\ On(app, "update_token")
    BY DEF IInv, Types, On
  <2> QED BY <2>1 DEF AppType, AppOK
<1>2. u \in UserType /\ u.type = app.type /\ u.token = app.token /\ u.version = app.user.version
  BY <1>1, Registered
<1>3. r = update_user(row, u)
  BY DEF Updated
<1> HIDE DEF u
<1>4. StoredUser(u, device)
  BY <1>1, <1>2 DEF StoredUser
<1>5. /\ r \in RowType /\ r.chids = row.chids /\ UserChange(row.user, r.user, device)
      /\ r.user # NoUser <=> row.user # NoUser
      /\ r.user = row.user \/ r.user.token = u.token
  BY <1>2, <1>3, <1>4, UpdateRow
<1>6. row.user.token \in Int /\ app.token \in Int
  BY <1>1 DEF IInv, Types, RowType, UserType, BridgeAssumption
<1>7. r.user.token < row.user.token /\ row.user # NoUser => row.user.type = "adm"
  BY <1>1, <1>2, <1>5, <1>6
<1> QED BY <1>5, <1>7 DEF ByApp

\* The app that makes no request.
LEMMA IdleAppTyped ==
  ASSUME BridgeAssumption, NEW pc \in {"new", "idle", "lost", "failed"}, NEW chids \in SUBSET Channels,
         NEW a, a = IdleApp(pc, chids)
  PROVE  /\ a \in AppType /\ a.pc = pc /\ a.chids = chids /\ a.type = Type
         /\ \A u, d : (pc = "new" => u = NoUser /\ chids = {}) => AppOK(a, u, d)
<1> DEFINE none == NoUser
<1>1. a = [pc |-> pc, route |-> "none", user |-> none, type |-> Type, token |-> 0,
           chid |-> "none", chids |-> chids]
  BY DEF IdleApp
<1>2. none \in UserType /\ 0 \in 0..MaxToken /\ Type \in AllTypes
  BY NoUserTyped DEF BridgeAssumption, AllTypes
<1> HIDE DEF none
<1>3. a \in AppType /\ a.pc = pc /\ a.chids = chids /\ a.type = Type
  BY <1>1, <1>2 DEF AppType
<1> QED BY <1>3 DEF AppOK, On

\* An answer to the app.
LEMMA IdleTurns ==
  ASSUME BridgeAssumption, IInv, device' = device, sender' = sender, ByApp(row'),
         NEW pc \in {"idle", "lost", "failed"}, NEW chids \in SUBSET Channels,
         app' = IdleApp(pc, chids), row'.user # NoUser => chids \subseteq row'.chids
  PROVE  AppTurn
<1>1. app' \in AppType /\ app'.pc = pc /\ app'.chids = chids /\ AppOK(app', row'.user, device)
  BY IdleAppTyped
<1> QED BY <1>1 DEF AppTurn

\* A request that leaves the app.
LEMMA RequestTurns ==
  ASSUME BridgeAssumption, IInv, NEW route \in Routes, NEW type \in {Type} \cup OtherTypes,
         NEW token, NEW chid \in Channels \cup {"none"}, NEW chids \in SUBSET app.chids,
         Request(route, type, token, chid, chids),
         token = IF route = "update_token" THEN device.token ELSE 0,
         route \in {"new_channel", "unregister_channel"} => chid \in Channels,
         route = "unregister_channel" => chid \notin chids
  PROVE  AppTurn
<1> DEFINE a1 == [app EXCEPT !.pc = "requested", !.route = route, !.type = type]
<1>1. /\ row \in RowType /\ app \in AppType /\ type \in AllTypes /\ app.pc = "idle"
      /\ device.token \in 1..device.token /\ device.token \in 0..MaxToken /\ 0 \in 0..MaxToken
      /\ device' = device /\ sender' = sender /\ row' = row
  BY DEF IInv, Types, BridgeAssumption, AllTypes, Request
<1>2. app' = [a1 EXCEPT !.token = token, !.chid = chid, !.chids = chids]
  BY DEF Request
<1>3. a1 \in AppType /\ a1.pc = "requested" /\ a1.route = route /\ a1.type = type
  BY <1>1 DEF AppType
<1> HIDE DEF a1
<1>4. /\ app' \in AppType /\ app'.pc = "requested" /\ app'.route = route /\ app'.type = type
      /\ app'.token = token /\ app'.chid = chid /\ app'.chids = chids
  BY <1>1, <1>2, <1>3 DEF AppType
<1>5. row.user # NoUser => row.user.token <= device.token
  BY <1>1 DEF IInv, RowOK, StoredUser
<1>6. AppOK(app', row'.user, device)
  BY <1>1, <1>4, <1>5 DEF AppOK, On, Routes
<1>7. row'.user # NoUser => app'.chids \subseteq row'.chids
  BY <1>1, <1>4 DEF IInv, ChannelsStored, HasUser
<1>8. ByApp(row')
  BY <1>1 DEF ByApp, UserChange, RowType, UserType
<1> QED BY <1>1, <1>4, <1>6, <1>7, <1>8 DEF AppTurn

\* Register
LEMMA RegisterTurns ==
  ASSUME BridgeAssumption, IInv, Register
  PROVE  AppTurn
<1> DEFINE c == CHOOSE c \in Channels : TRUE
           t == device.token
<1>1. /\ row \in RowType /\ app \in AppType /\ app.pc = "new"
      /\ t \in 1..device.token /\ t \in 0..MaxToken /\ c \in Channels
      /\ device' = device /\ sender' = sender /\ row' = row
      /\ app' = [app EXCEPT !.pc = "register", !.token = t, !.chid = c]
  BY DEF IInv, Types, BridgeAssumption, Register
<1> HIDE DEF c, t
<1>2. /\ app' \in AppType /\ app'.pc = "register" /\ app'.token = t /\ app'.chid = c
      /\ app'.chids = app.chids /\ app'.type = app.type
  BY <1>1 DEF AppType
<1>3. AppOK(app', row'.user, device)
  BY <1>1, <1>2 DEF IInv, AppOK, On
<1>4. row'.user # NoUser => app'.chids \subseteq row'.chids
  BY <1>1, <1>2 DEF IInv, ChannelsStored, HasUser
<1>5. ByApp(row')
  BY <1>1 DEF ByApp, UserChange, RowType, UserType
<1> QED BY <1>1, <1>2, <1>3, <1>4, <1>5 DEF AppTurn

\* register_uaid_route, its first write
LEMMA AddUserTurns ==
  ASSUME BridgeAssumption, IInv, register_uaid_route, app.pc = "register"
  PROVE  AppTurn
<1>1. /\ row' = add_user(row, register(NoUser, Type, app.token))
      /\ app' = [app EXCEPT !.pc = "add_channel"]
      /\ device' = device /\ sender' = sender
  BY DEF register_uaid_route
<1>2. ByApp(row')
  BY <1>1, AddUserRow
<1>3. app \in AppType /\ app.chids = {} /\ app.chid \in Channels
  BY DEF IInv, Types, AppOK
<1>4. /\ app' \in AppType /\ app'.pc = "add_channel" /\ app'.chid = app.chid
      /\ app'.type = app.type /\ app'.chids = app.chids
  BY <1>1, <1>3 DEF AppType
<1>5. AppOK(app', row'.user, device)
  BY <1>3, <1>4 DEF IInv, AppOK, On
<1> QED BY <1>1, <1>2, <1>3, <1>4, <1>5 DEF AppTurn

\* and its second.
LEMMA AddChannelTurns ==
  ASSUME BridgeAssumption, IInv, register_uaid_route, app.pc = "add_channel"
  PROVE  AppTurn
<1>1. /\ row' = add_channel(row, app.chid) /\ app' = IdleApp("idle", {app.chid})
      /\ device' = device /\ sender' = sender
  BY DEF register_uaid_route
<1>2. app.chid \in Channels
  BY DEF IInv, AppOK
<1>3. ByApp(row') /\ row'.chids = row.chids \cup {app.chid}
  BY <1>1, <1>2, AddChannelRow
<1> QED BY <1>1, <1>2, <1>3, IdleTurns

\* The read of the user.
LEMMA ReadTurns ==
  ASSUME BridgeAssumption, IInv, RegistrationPathArgsWithUaid
  PROVE  AppTurn
<1>1. /\ app.pc = "requested" /\ app.route \in Routes /\ row \in RowType /\ app \in AppType
      /\ device' = device /\ sender' = sender /\ row' = get_user(row)
  BY DEF RegistrationPathArgsWithUaid, IInv, AppOK, Types
<1>2. CASE HasUser(row)
  <2> DEFINE u == row.user
  <2>1. row' = row /\ app' = [app EXCEPT !.pc = app.route, !.user = u]
    BY <1>1, <1>2 DEF get_user, RegistrationPathArgsWithUaid
  <2>2. u \in UserType /\ u.version # 0
    BY <1>1, <1>2 DEF IInv, RowType, RowOK, HasUser, StoredUser
  <2> HIDE DEF u
  <2>3. /\ app' \in AppType /\ app'.pc = app.route /\ app'.user = u /\ app'.type = app.type
        /\ app'.token = app.token /\ app'.chid = app.chid /\ app'.chids = app.chids
    BY <1>1, <2>1, <2>2 DEF AppType
  <2>4. AppOK(app', row'.user, device)
    BY <1>1, <2>1, <2>2, <2>3 DEF IInv, AppOK, On, Routes
  <2>5. row'.user # NoUser => app'.chids \subseteq row'.chids
    BY <2>1, <2>3 DEF IInv, ChannelsStored, HasUser
  <2>6. ByApp(row')
    BY <1>1, <2>1 DEF ByApp, UserChange, RowType, UserType
  <2> QED BY <1>1, <2>3, <2>4, <2>5, <2>6 DEF AppTurn, Routes
<1>3. CASE ~HasUser(row)
  <2>1. row' = remove_user /\ app' = IdleApp("lost", {}) /\ row.user = NoUser
    BY <1>1, <1>3 DEF get_user, RegistrationPathArgsWithUaid, HasUser
  <2>2. row' \in RowType /\ row'.user = NoUser
    BY <2>1, NoUserTyped
  <2>3. ByApp(row')
    BY <2>1, <2>2 DEF ByApp, UserChange
  <2> QED BY <1>1, <2>1, <2>2, <2>3, IdleTurns
<1> QED BY <1>2, <1>3

\* What the app counts on is stored.
LEMMA AppChannels ==
  ASSUME IInv
  PROVE  app.chids \in SUBSET Channels /\ (row.user # NoUser => app.chids \subseteq row.chids)
BY DEF IInv, Types, AppType, ChannelsStored, HasUser

\* update_token_route
LEMMA UpdateTokenTurns ==
  ASSUME BridgeAssumption, IInv, update_token_route
  PROVE  AppTurn
<1>1. /\ app.pc = "update_token" /\ device' = device /\ sender' = sender
      /\ row' = Updated /\ app' = IdleApp("idle", app.chids)
  BY DEF update_token_route
<1>2. ByApp(row') /\ row'.chids = row.chids
  BY <1>1, UpdatedRow
<1>3. row'.user # NoUser => app.chids \subseteq row'.chids
  BY <1>1, <1>2, AppChannels DEF ByApp
<1> QED BY <1>1, <1>2, <1>3, AppChannels, IdleTurns

\* new_channel_route
LEMMA NewChannelTurns ==
  ASSUME BridgeAssumption, IInv, new_channel_route
  PROVE  AppTurn
<1>1. /\ app.pc = "new_channel" /\ device' = device /\ sender' = sender
      /\ row' = add_channel(row, app.chid) /\ app' = IdleApp("idle", app.chids \cup {app.chid})
  BY DEF new_channel_route
<1>2. app.chid \in Channels
  BY <1>1 DEF IInv, AppOK, On
<1>3. ByApp(row') /\ row'.user = row.user /\ row'.chids = row.chids \cup {app.chid}
  BY <1>1, <1>2, AddChannelRow
<1>4. app.chids \cup {app.chid} \in SUBSET Channels
  BY <1>2, AppChannels
<1>5. row'.user # NoUser => app.chids \cup {app.chid} \subseteq row'.chids
  BY <1>3, AppChannels
<1> QED BY <1>1, <1>3, <1>4, <1>5, IdleTurns

\* What remove_channel leaves has the channels the app still counts on.
LEMMA GivenUp ==
  ASSUME BridgeAssumption, IInv, app.pc = "unregister_channel", NEW r, r = remove_channel(row, app.chid)
  PROVE  ByApp(r) /\ (r.user # NoUser => app.chids \subseteq r.chids)
<1>1. app.chid \in Channels /\ app.chid \notin app.chids
  BY DEF IInv, AppOK, On
<1>2. ByApp(r) /\ r.chids = row.chids \ {app.chid}
  BY <1>1, RemoveChannelRow
<1> QED BY <1>1, <1>2, AppChannels DEF ByApp

\* unregister_channel_route
LEMMA UnregisterChannelTurns ==
  ASSUME BridgeAssumption, IInv, unregister_channel_route
  PROVE  AppTurn
<1>1. /\ app.pc = "unregister_channel" /\ device' = device /\ sender' = sender
      /\ row' = remove_channel(row, app.chid) /\ app' = IdleApp("idle", app.chids)
  BY DEF unregister_channel_route
<1>2. ByApp(row') /\ (row'.user # NoUser => app.chids \subseteq row'.chids)
  BY <1>1, GivenUp
<1> QED BY <1>1, <1>2, AppChannels, IdleTurns

\* remove_user
LEMMA RemovedRow ==
  ASSUME BridgeAssumption, app.pc = "unregister_user"
  PROVE  ByApp(remove_user) /\ remove_user.user = NoUser
BY NoUserTyped DEF ByApp, UserChange

\* unregister_user_route
LEMMA UnregisterUserTurns ==
  ASSUME BridgeAssumption, IInv, unregister_user_route
  PROVE  AppTurn
<1>1. /\ app.pc = "unregister_user" /\ device' = device /\ sender' = sender
      /\ row' = remove_user /\ app' = IdleApp("lost", {})
  BY DEF unregister_user_route
<1>2. ByApp(row')
  BY <1>1, RemovedRow
<1> QED BY <1>1, <1>2, IdleTurns

\* A route that fails, before or after it has written.
LEMMA RouteFailedTurns ==
  ASSUME BridgeAssumption, IInv, RouteFailed, ByApp(row'),
         row'.user # NoUser => app.chids \subseteq row'.chids
  PROVE  AppTurn
<1>1. device' = device /\ sender' = sender
  BY DEF RouteFailed
<1>2. app' = IdleApp("failed", {}) \/ app' = IdleApp("idle", app.chids)
  BY DEF RouteFailed
<1> QED BY <1>1, <1>2, AppChannels, IdleTurns

LEMMA RouteFailsTurns ==
  ASSUME BridgeAssumption, IInv, RouteFails \/ RegisterRefused
  PROVE  AppTurn
<1>1. RouteFailed
  BY DEF RouteFails, RegisterRefused
<1>2. CASE row' = row
  <2>1. ByApp(row')
    BY <1>2 DEF IInv, Types, ByApp, UserChange, RowType, UserType
  <2> QED BY <1>1, <1>2, <2>1, AppChannels, RouteFailedTurns
<1>3. CASE app.pc = "register" /\ row' = add_user(row, register(NoUser, Type, app.token))
  <2>1. ByApp(row') /\ app.chids = {}
    BY <1>3, AddUserRow DEF IInv, AppOK
  <2> QED BY <1>1, <2>1, RouteFailedTurns
<1>4. CASE app.pc \in {"add_channel", "new_channel"} /\ row' = add_channel(row, app.chid)
  <2>1. app.chid \in Channels
    BY <1>4 DEF IInv, AppOK, On
  <2>2. ByApp(row') /\ row'.user = row.user /\ row'.chids = row.chids \cup {app.chid}
    BY <1>4, <2>1, AddChannelRow
  <2>3. row'.user # NoUser => app.chids \subseteq row'.chids
    BY <2>2, AppChannels
  <2> QED BY <1>1, <2>2, <2>3, RouteFailedTurns
<1>5. CASE app.pc = "update_token" /\ row' = Updated
  <2>1. ByApp(row') /\ row'.chids = row.chids
    BY <1>5, UpdatedRow
  <2>2. row'.user # NoUser => app.chids \subseteq row'.chids
    BY <1>5, <2>1, AppChannels DEF ByApp
  <2> QED BY <1>1, <2>1, <2>2, RouteFailedTurns
<1>6. CASE app.pc = "unregister_channel" /\ row' = remove_channel(row, app.chid)
  BY <1>1, <1>6, GivenUp, RouteFailedTurns
<1>7. CASE app.pc = "unregister_user" /\ row' = remove_user
  BY <1>1, <1>7, RemovedRow, RouteFailedTurns
<1> QED BY <1>2, <1>3, <1>4, <1>5, <1>6, <1>7 DEF RouteFails, RegisterRefused

-----------------------------------------------------------------------------
(* The steps of a notification.                                              *)

LEMMA IdleSenderTyped ==
  ASSUME BridgeAssumption
  PROVE  /\ IdleSender \in SenderType /\ IdleSender.user = NoUser /\ IdleSender.id = 0
         /\ IdleSender.pc = "idle"
<1>1. NoUser \in UserType /\ 0 \in 0..MaxToken
  BY NoUserTyped DEF BridgeAssumption
<1> DEFINE none == NoUser
<1>2. IdleSender = [pc |-> "idle", user |-> none, aps |-> "none", answer |-> "none", id |-> 0,
                    result |-> "none"]
  BY DEF IdleSender
<1>3. none \in UserType /\ none = NoUser
  BY <1>1
<1> HIDE DEF none
<1> QED BY <1>1, <1>2, <1>3 DEF SenderType

\* A notification that is answered holds no copy of the user any more.
LEMMA DoneOK ==
  ASSUME BridgeAssumption, IInv, NEW n \in Senders, NEW result \in Results, Done(n, result),
         NEW v, RowOK(v, device)
  PROVE  \E S \in SenderType :
           /\ sender' = [sender EXCEPT ![n] = S] /\ SenderOK(S, v, device)
           /\ S.pc = "done" /\ S.result = result
<1> DEFINE answer == sender[n].answer
           S1 == [IdleSender EXCEPT !.pc = "done", !.answer = answer]
           S == [S1 EXCEPT !.result = result]
<1>1. sender' = [sender EXCEPT ![n] = S]
  BY DEF Done, SetSender
<1>2. answer \in {"none", "ok", "renamed", "gone"} \cup Troubles
  BY DEF IInv, Types, SenderType
<1> HIDE DEF answer
<1>3. /\ S1 \in SenderType /\ S1.pc = "done" /\ S1.user = NoUser /\ S1.id = 0
  BY <1>2, IdleSenderTyped DEF SenderType
<1> HIDE DEF S1
<1>4. S \in SenderType
  BY <1>3 DEF SenderType
<1>5. /\ S.pc = "done" /\ S.user = NoUser /\ S.id = 0 /\ S.result = result
  BY <1>3 DEF SenderType
<1> HIDE DEF S
<1>6. 0 <= device.token
  BY DEF IInv, Types, BridgeAssumption
<1>7. NoOlder(v, NoUser.version, NoUser.token)
  BY DEF NoOlder, RowOK, StoredUser, NoUser
<1>8. SenderOK(S, v, device)
  BY <1>5, <1>6, <1>7 DEF SenderOK
<1> QED BY <1>1, <1>4, <1>5, <1>8

\* A step in which a notification is answered and the user stays or goes.
LEMMA DoneTurns ==
  ASSUME BridgeAssumption, IInv, NEW n \in Senders, NEW result \in Results, Done(n, result),
         device' = device, app' = app, row' = row \/ row' = remove_user,
         sender[n].pc # "idle" \/ app.pc \notin {"new", "register"},
         ~DbFails /\ result \in GoneResults => row'.user = NoUser,
         "gcm" \notin {Type} \cup OtherTypes => GoneWhenRemoved
  PROVE  SenderTurn(n)
<1>1. row' \in RowType /\ (row' = row \/ row'.user = NoUser)
  BY NoUserTyped DEF IInv, Types
<1>2. RowOK(row'.user, device)
  BY <1>1 DEF IInv, RowOK
<1>3. \E S \in SenderType :
         /\ sender' = [sender EXCEPT ![n] = S] /\ SenderOK(S, row'.user, device)
         /\ S.pc = "done" /\ S.result = result
  BY <1>2, DoneOK
<1>4. \E S \in SenderType :
         /\ sender' = [sender EXCEPT ![n] = S] /\ SenderOK(S, row'.user, device)
         /\ ~DbFails /\ ToldGone(S) => row'.user = NoUser
  BY <1>3 DEF ToldGone
<1> QED BY <1>1, <1>4 DEF SenderTurn, UserChange, Renamed

\* A step in which a notification goes on and the user stays.
LEMMA GoOnTurns ==
  ASSUME IInv, NEW n \in Senders, NEW S \in SenderType, SetSender(n, S),
         row' = row, device' = device, app' = app,
         S.pc # "done", SenderOK(S, row.user, device), sender[n].pc # "idle" \/ app.pc \notin {"new", "register"}
  PROVE  SenderTurn(n)
<1>1. sender' = [sender EXCEPT ![n] = S]
  BY DEF SetSender
<1>2. \E T \in SenderType :
         /\ sender' = [sender EXCEPT ![n] = T] /\ SenderOK(T, row'.user, device)
         /\ ~DbFails /\ ToldGone(T) => row'.user = NoUser
  BY <1>1 DEF ToldGone
<1> QED BY <1>2 DEF SenderTurn, UserChange, Renamed, IInv, Types, GoneWhenRemoved, HasUser

\* A database call of a notification that does nothing to the user.
LEMMA RowStays ==
  ASSUME row' = row
  PROVE  GoneWhenRemoved
BY DEF GoneWhenRemoved

\* Subscription
LEMMA SubscriptionTurns ==
  ASSUME BridgeAssumption, IInv, NEW n \in Senders, Subscription(n)
  PROVE  SenderTurn(n)
<1>1. /\ sender[n].pc \in {"idle", "done"} /\ app.pc \notin {"new", "register"}
      /\ device' = device /\ app' = app
      /\ row' = get_user(row) \/ (Done(n, "Database") /\ row' = row)
  BY DEF Subscription, Unanswered
<1>2. CASE ~HasUser(row) /\ ~Done(n, "Database")
  <2>1. Done(n, "NoSubscription") /\ row' = remove_user /\ row'.user = NoUser
    BY <1>1, <1>2, NoUserTyped DEF Subscription, get_user
  <2>2. GoneWhenRemoved
    BY <1>2 DEF GoneWhenRemoved
  <2>3. "NoSubscription" \in Results
    BY DEF Results
  <2> QED BY <1>1, <2>1, <2>2, <2>3, DoneTurns
<1>3. CASE HasUser(row) /\ ~Done(n, "Database")
  <2> DEFINE pc == IF row.user.type = "gcm" THEN "drop" ELSE "route"
             u == row.user
             S == [IdleSender EXCEPT !.user = u, !.pc = pc]
  <2>1. row' = row
    BY <1>1, <1>3 DEF get_user
  <2>2. SetSender(n, S)
    BY <1>3 DEF Subscription
  <2>3. /\ u \in UserType /\ 0 \in 0..MaxToken /\ pc \in {"drop", "route"}
        /\ pc = "drop" => u.type = "gcm"
    BY DEF IInv, Types, RowType, BridgeAssumption
  <2>4. StoredUser(u, device) /\ NoOlder(u, u.version, u.token) /\ 0 <= device.token
    BY <1>3 DEF IInv, RowOK, HasUser, NoOlder, Types, RowType, UserType, BridgeAssumption
  <2>5. u = row.user
    OBVIOUS
  <2> HIDE DEF u, pc
  <2>6. S \in SenderType
    BY <2>3, IdleSenderTyped DEF SenderType
  <2>7. S.pc = pc /\ S.user = u /\ S.id = 0
    BY IdleSenderTyped DEF SenderType
  <2> HIDE DEF S
  <2>8. SenderOK(S, u, device)
    BY <2>3, <2>4, <2>7 DEF SenderOK
  <2>9. S.pc # "done"
    BY <2>3, <2>7
  <2> QED BY <1>1, <2>1, <2>2, <2>5, <2>6, <2>8, <2>9, GoOnTurns
<1>4. CASE Done(n, "Database")
  <2>1. "Database" \in Results /\ "Database" \notin GoneResults
    BY DEF Results, GoneResults
  <2>2. row' = row \/ (row' = remove_user /\ ~HasUser(row))
    BY <1>1 DEF get_user
  <2>3. GoneWhenRemoved
    BY <2>2, RowStays DEF GoneWhenRemoved
  <2> QED BY <1>1, <1>4, <2>1, <2>2, <2>3, DoneTurns
<1> QED BY <1>2, <1>3, <1>4

\* drop_user
LEMMA DropUserTurns ==
  ASSUME BridgeAssumption, IInv, NEW n \in Senders, drop_user(n)
  PROVE  SenderTurn(n)
<1>1. sender[n].pc = "drop" /\ device' = device /\ app' = app
  BY DEF drop_user
<1>2. sender[n].user.type = "gcm" /\ sender[n].user.type \in {Type} \cup OtherTypes
  BY <1>1 DEF IInv, SendersOK, SenderOK, StoredUser
<1>3. "NotFound" \in Results /\ "Database" \in Results /\ "Database" \notin GoneResults
  BY DEF Results, GoneResults
<1>4. CASE row' = remove_user /\ Done(n, "NotFound")
  BY <1>1, <1>2, <1>3, <1>4, DoneTurns, NoUserTyped
<1>5. CASE Done(n, "Database") /\ row' \in {row, remove_user}
  BY <1>1, <1>2, <1>3, <1>5, DoneTurns
<1> QED BY <1>4, <1>5 DEF drop_user

\* A result that does not say that the user is gone.
LEMMA OtherResultTurns ==
  ASSUME BridgeAssumption, IInv, NEW n \in Senders, NEW result \in Results \ GoneResults,
         Done(n, result), sender[n].pc # "idle", row' = row, device' = device, app' = app
  PROVE  SenderTurn(n)
BY DoneTurns, RowStays

\* FcmSend, ApnsSend, AdmSend
LEMMA RouteTurns ==
  ASSUME BridgeAssumption, IInv, NEW n \in Senders, route_notification(n)
  PROVE  SenderTurn(n)
<1>1. sender[n].pc = "route" /\ row' = row /\ device' = device /\ app' = app
  BY DEF route_notification
<1>2. sender[n] \in SenderType /\ SenderOK(sender[n], row.user, device)
  BY DEF IInv, Types, SendersOK
<1>3. CASE \E result \in Results \ GoneResults : Done(n, result)
  BY <1>1, <1>3, OtherResultTurns
<1>4. CASE \E aps \in {"none", "default", "replaced"} : Sent(n, aps)
  <2>1. PICK aps \in {"none", "default", "replaced"} : Sent(n, aps)
    BY <1>4
  <2> DEFINE S == [sender[n] EXCEPT !.pc = "sent", !.aps = aps]
  <2>2. /\ S \in SenderType /\ S.pc = "sent" /\ S.user = sender[n].user /\ S.id = sender[n].id
    BY <1>2 DEF SenderType
  <2>3. SetSender(n, S)
    BY <2>1 DEF Sent
  <2> HIDE DEF S
  <2>4. SenderOK(S, row.user, device)
    BY <1>1, <1>2, <2>2 DEF SenderOK
  <2> QED BY <1>1, <2>2, <2>3, <2>4, GoOnTurns
<1>5. CASE SetSender(n, [sender[n] EXCEPT !.pc = "panicked"])
  <2> DEFINE S == [sender[n] EXCEPT !.pc = "panicked"]
  <2>1. /\ S \in SenderType /\ S.pc = "panicked" /\ S.user = sender[n].user /\ S.id = sender[n].id
    BY <1>2 DEF SenderType
  <2>2. SetSender(n, S)
    BY <1>5
  <2> HIDE DEF S
  <2>3. SenderOK(S, row.user, device)
    BY <1>1, <1>2, <2>1 DEF SenderOK
  <2> QED BY <1>1, <2>1, <2>2, <2>3, GoOnTurns
<1>6. FcmSend(n) \/ ApnsSend(n) \/ AdmSend(n)
  BY DEF route_notification
<1>7. /\ {"TooMuchData", "OAuthToken", "Upstream", "BadResponse", "InvalidReleaseChannel"}
           \subseteq Results \ GoneResults
      /\ "InvalidAppId" \in Troubles => "InvalidAppId" \in Results \ GoneResults
  BY DEF Results, GoneResults
<1> QED BY <1>3, <1>4, <1>5, <1>6, <1>7
        DEF FcmSend, ApnsSend, AdmSend, TooMuchData, NotConfigured, derive_aps

\* An answer of the bridge service.
LEMMA AnswerTurns ==
  ASSUME BridgeAssumption, IInv, NEW n \in Senders,
         NEW answer \in {"ok", "renamed", "gone"} \cup Troubles, Answer(n, answer),
         answer = "gone" => ~Known(n), answer = "renamed" => sender[n].user.type = "adm"
  PROVE  SenderTurn(n)
<1> DEFINE id == IF answer = "renamed" THEN device.token ELSE 0
           S == [sender[n] EXCEPT !.pc = "answered", !.answer = answer, !.id = id]
<1>1. sender[n].pc = "sent" /\ row' = row /\ device' = device /\ app' = app /\ SetSender(n, S)
  BY DEF Answer
<1>2. /\ sender[n] \in SenderType /\ SenderOK(sender[n], row.user, device)
      /\ sender[n].user \in UserType
  BY DEF IInv, Types, SendersOK, SenderType
<1>3. /\ device.token \in 1..MaxToken /\ MaxToken \in Nat
      /\ sender[n].user.token \in 1..device.token
  BY <1>1, <1>2 DEF IInv, Types, BridgeAssumption, SenderOK, StoredUser
<1>4. id \in 0..MaxToken /\ id <= device.token /\ (answer = "renamed" => sender[n].user.token <= id)
  BY <1>3
<1>5. answer = "gone" => ~device.installed \/ sender[n].user.token < device.token
  BY <1>3 DEF Known
<1>6. answer # "none"
  BY DEF BridgeAssumption, ServiceTroubles, ConfigurationTroubles
<1> HIDE DEF id
<1>7. /\ S \in SenderType /\ S.pc = "answered" /\ S.user = sender[n].user /\ S.id = id
      /\ S.answer = answer
  BY <1>2, <1>4 DEF SenderType
<1> HIDE DEF S
<1>8. SenderOK(S, row.user, device)
  BY <1>1, <1>2, <1>4, <1>5, <1>6, <1>7 DEF SenderOK
<1> QED BY <1>1, <1>7, <1>8, GoOnTurns

\* The status and the body of an answer, and handle_error.
LEMMA HandleAnswerTurns ==
  ASSUME BridgeAssumption, IInv, NEW n \in Senders, HandleAnswer(n)
  PROVE  SenderTurn(n)
<1>1. sender[n].pc = "answered" /\ row' = row /\ device' = device /\ app' = app
  BY DEF HandleAnswer
<1>2. /\ sender[n] \in SenderType /\ SenderOK(sender[n], row.user, device)
      /\ sender[n].user \in UserType /\ sender[n].answer # "none"
      /\ sender[n].answer \in {"none", "ok", "renamed", "gone"} \cup Troubles
  BY <1>1 DEF IInv, Types, SendersOK, SenderType, SenderOK
<1>3. CASE sender[n].answer = "ok"
  <2>1. Done(n, "success")
    BY <1>3 DEF HandleAnswer
  <2> QED BY <1>1, <2>1, OtherResultTurns DEF Results, GoneResults
<1>4. CASE sender[n].answer = "renamed"
  <2> DEFINE u == [sender[n].user EXCEPT !.token = sender[n].id]
             S == [sender[n] EXCEPT !.pc = "update", !.user = u]
  <2>1. SetSender(n, S)
    BY <1>4 DEF HandleAnswer
  <2>2. sender[n].id \in 0..MaxToken /\ sender[n].user.token <= sender[n].id /\ sender[n].id <= device.token
        /\ StoredUser(sender[n].user, device) /\ NoOlder(row.user, sender[n].user.version, sender[n].user.token)
        /\ sender[n].user.type = "adm"
    BY <1>1, <1>2, <1>4 DEF SenderType, SenderOK
  <2>3. u \in UserType /\ u.token = sender[n].id /\ u.type = sender[n].user.type /\ u.version = sender[n].user.version
    BY <1>2, <2>2 DEF UserType
  <2> HIDE DEF u
  <2>4. S \in SenderType /\ S.pc = "update" /\ S.user = u /\ S.id = sender[n].id
    BY <1>2, <2>3 DEF SenderType
  <2> HIDE DEF S
  <2>5. device.token \in Int /\ row.user.token \in Int /\ sender[n].user.token \in Int
    BY <1>2 DEF IInv, Types, RowType, UserType
  <2>6. StoredUser(u, device)
    BY <2>2, <2>3, <2>5 DEF StoredUser
  <2>7. NoOlder(row.user, u.version, u.token)
    BY <2>2, <2>3, <2>5 DEF NoOlder
  <2>8. SenderOK(S, row.user, device)
    BY <2>2, <2>3, <2>4, <2>6, <2>7 DEF SenderOK
  <2> QED BY <1>1, <2>1, <2>4, <2>8, GoOnTurns
<1>5. CASE sender[n].answer = "gone"
  <2> DEFINE S == [sender[n] EXCEPT !.pc = "remove"]
  <2>1. /\ S \in SenderType /\ S.pc = "remove" /\ S.user = sender[n].user /\ S.id = sender[n].id
    BY <1>2 DEF SenderType
  <2>2. SetSender(n, S)
    BY <1>5 DEF HandleAnswer
  <2> HIDE DEF S
  <2>3. SenderOK(S, row.user, device)
    BY <1>1, <1>2, <1>5, <2>1 DEF SenderOK
  <2> QED BY <1>1, <2>1, <2>2, <2>3, GoOnTurns
<1>6. CASE sender[n].answer \notin {"ok", "renamed", "gone"}
  <2> DEFINE result == sender[n].answer
  <2>1. Done(n, result)
    BY <1>6 DEF HandleAnswer
  <2>2. result \in Results \ GoneResults
    BY <1>2, <1>6 DEF BridgeAssumption, ServiceTroubles, ConfigurationTroubles, Results, GoneResults
  <2> HIDE DEF result
  <2> QED BY <1>1, <2>1, <2>2, OtherResultTurns
<1> QED BY <1>3, <1>4, <1>5, <1>6

\* The recipient is gone.
LEMMA RemoveGoneTurns ==
  ASSUME BridgeAssumption, IInv, NEW n \in Senders, RemoveGone(n)
  PROVE  SenderTurn(n)
<1> DEFINE result == IF sender[n].user.type = "apns" THEN "Unregistered" ELSE "NotFound"
<1>1. /\ sender[n].pc = "remove" /\ device' = device /\ app' = app /\ Done(n, result)
      /\ row' = remove_user \/ (DbFails /\ row' = row)
  BY DEF RemoveGone
<1>2. result \in Results
  BY DEF Results
<1> HIDE DEF result
<1>3. /\ ~device.installed \/ sender[n].user.token < device.token
      /\ sender[n].user.token \in 1..device.token /\ device.token \in Int
  BY <1>1 DEF IInv, SendersOK, SenderOK, StoredUser, Types
<1>4. GoneWhenRemoved
  BY <1>3 DEF GoneWhenRemoved
<1>5. ~DbFails => row'.user = NoUser
  BY <1>1, NoUserTyped
<1> QED BY <1>1, <1>2, <1>4, <1>5, DoneTurns

\* ADM named another registration id.
LEMMA UpdateIdTurns ==
  ASSUME BridgeAssumption, IInv, NEW n \in Senders, UpdateId(n)
  PROVE  SenderTurn(n)
<1>1. /\ sender[n].pc = "update" /\ device' = device /\ app' = app
      /\ row' = row \/ row' = update_user(row, sender[n].user)
  BY DEF UpdateId
<1>2. PICK result \in {"success", "General", "Database"} : Done(n, result)
  BY DEF UpdateId
<1>3. result \in Results /\ result \notin GoneResults
  BY DEF Results, GoneResults
<1>4. CASE row' = row
  BY <1>1, <1>2, <1>3, <1>4, OtherResultTurns
<1>5. CASE row' = update_user(row, sender[n].user)
  <2> DEFINE u == sender[n].user
  <2>1. /\ u \in UserType /\ StoredUser(u, device) /\ NoOlder(row.user, u.version, u.token)
        /\ u.type = "adm"
    BY <1>1 DEF IInv, Types, SenderType, SendersOK, SenderOK
  <2>2. row' = update_user(row, u)
    BY <1>5
  <2> HIDE DEF u
  <2>3. /\ row' \in RowType /\ row'.chids = row.chids /\ UserChange(row.user, row'.user, device)
        /\ row'.user # NoUser <=> row.user # NoUser
        /\ \/ row'.user = row.user
           \/ row.user.version = u.version /\ row'.user.type = u.type /\ row'.user.token = u.token
    BY <2>1, <2>2, UpdateRow
  <2>4. Renamed(row.user, row'.user)
    BY <2>1, <2>3 DEF Renamed, NoOlder
  <2>5. RowOK(row'.user, device)
    BY <2>3, ChangeKeepsRow DEF IInv
  <2>6. \E S \in SenderType :
           /\ sender' = [sender EXCEPT ![n] = S] /\ SenderOK(S, row'.user, device)
           /\ S.pc = "done" /\ S.result = result
    BY <1>2, <1>3, <2>5, DoneOK
  <2>7. \E S \in SenderType :
           /\ sender' = [sender EXCEPT ![n] = S] /\ SenderOK(S, row'.user, device)
           /\ ~DbFails /\ ToldGone(S) => row'.user = NoUser
    BY <1>3, <2>6 DEF ToldGone
  <2> QED BY <1>1, <2>3, <2>4, <2>7 DEF SenderTurn, GoneWhenRemoved, HasUser
<1> QED BY <1>1, <1>4, <1>5

-----------------------------------------------------------------------------
(* The theorems.                                                             *)

\* Every step is one of the device, of the app or of a notification.
LEMMA Turns ==
  ASSUME BridgeAssumption, IInv, Next
  PROVE  DeviceTurn \/ AppTurn \/ \E n \in Senders : SenderTurn(n)
<1>1. CASE Rotate \/ Uninstall
  BY <1>1, RotateTurns, UninstallTurns
<1>2. CASE Register \/ register_uaid_route \/ RegistrationPathArgsWithUaid
  <2>1. register_uaid_route => app.pc = "register" \/ app.pc = "add_channel"
    BY DEF register_uaid_route
  <2> QED BY <1>2, <2>1, RegisterTurns, AddUserTurns, AddChannelTurns, ReadTurns
<1>3. CASE RequestToken \/ RequestChannel \/ RequestUnregister \/ RequestRemove
  <2>1. {"update_token", "new_channel", "unregister_channel", "unregister_user"} = Routes
    BY DEF Routes
  <2>2. CASE RequestToken
    <3>1. PICK type \in {Type} \cup OtherTypes : Request("update_token", type, device.token, "none", app.chids)
      BY <2>2 DEF RequestToken
    <3>2. "update_token" \in Routes /\ "none" \in Channels \cup {"none"} /\ app.chids \in SUBSET app.chids
      BY <2>1
    <3> QED BY <3>1, <3>2, RequestTurns
  <2>3. CASE RequestChannel
    <3>1. PICK c \in Channels : Request("new_channel", Type, 0, c, app.chids)
      BY <2>3 DEF RequestChannel
    <3> QED BY <2>1, <3>1, RequestTurns
  <2>4. CASE RequestUnregister
    <3>1. PICK c \in Channels : Request("unregister_channel", Type, 0, c, app.chids \ {c})
      BY <2>4 DEF RequestUnregister
    <3>2. c \notin app.chids \ {c} /\ app.chids \ {c} \in SUBSET app.chids
      OBVIOUS
    <3> QED BY <2>1, <3>1, <3>2, RequestTurns
  <2>5. CASE RequestRemove
    <3>1. Request("unregister_user", Type, 0, "none", app.chids)
      BY <2>5 DEF RequestRemove
    <3> QED BY <2>1, <3>1, RequestTurns
  <2> QED BY <1>3, <2>2, <2>3, <2>4, <2>5
<1>4. CASE update_token_route \/ new_channel_route \/ unregister_channel_route
           \/ unregister_user_route \/ RouteFails \/ RegisterRefused
  BY <1>4, UpdateTokenTurns, NewChannelTurns, UnregisterChannelTurns, UnregisterUserTurns, RouteFailsTurns
<1>5. ASSUME NEW n \in Senders, SenderStep(n)
      PROVE  SenderTurn(n)
  <2>1. CASE Accepted(n)
    <3>1. PICK a \in {"ok", "renamed"} : Answer(n, a) /\ (a = "renamed" => sender[n].user.type = "adm")
      BY <2>1 DEF Accepted, Known
    <3> QED BY <3>1, AnswerTurns
  <2>2. CASE Refused(n)
    <3>1. ~Known(n) /\ Answer(n, "gone")
      BY <2>2 DEF Refused
    <3> QED BY <3>1, AnswerTurns
  <2>3. CASE Troubled(n)
    <3>1. PICK a \in Troubles : Answer(n, a)
      BY <2>3 DEF Troubled
    <3>2. a # "gone" /\ a # "renamed"
      BY DEF BridgeAssumption, ServiceTroubles, ConfigurationTroubles
    <3> QED BY <3>1, <3>2, AnswerTurns
  <2> QED BY <1>5, <2>1, <2>2, <2>3, SubscriptionTurns, DropUserTurns, RouteTurns,
             HandleAnswerTurns, RemoveGoneTurns, UpdateIdTurns DEF SenderStep
<1> QED BY <1>1, <1>2, <1>3, <1>4, <1>5 DEF Next

LEMMA InvInit ==
  ASSUME BridgeAssumption, Init
  PROVE  IInv
<1>1. row = remove_user /\ row \in RowType /\ row.user = NoUser
  BY NoUserTyped DEF Init, remove_user
<1>2. device \in [token : 1..MaxToken, installed : BOOLEAN]
  BY DEF Init, BridgeAssumption
<1>3. app \in AppType /\ app.pc = "new" /\ app.chids = {} /\ AppOK(app, row.user, device)
  BY <1>1, IdleAppTyped DEF Init
<1>4. sender \in [Senders -> SenderType] /\ \A n \in Senders : sender[n] = IdleSender
  BY IdleSenderTyped DEF Init
<1>5. SendersOK
  <2>1. 0 <= device.token
    BY <1>2 DEF BridgeAssumption
  <2> QED BY <1>1, <1>4, <2>1, IdleSenderTyped DEF SendersOK, SenderOK, NoOlder
<1> QED BY <1>1, <1>2, <1>3, <1>4, <1>5 DEF IInv, Types, RowOK, ChannelsStored, HasUser

LEMMA InvStep ==
  ASSUME BridgeAssumption, IInv, [Next]_vars
  PROVE  IInv'
<1>1. CASE Next
  BY <1>1, Turns, DeviceTurnKeeps, AppTurnKeeps, SenderTurnKeeps
<1>2. CASE UNCHANGED vars
  BY <1>2 DEF vars, IInv, Types, RowOK, AppOK, On, SendersOK, SenderOK, ChannelsStored, HasUser,
              StoredUser, NoOlder
<1> QED BY <1>1, <1>2

LEMMA Invariance ==
  ASSUME BridgeAssumption
  PROVE  Spec => []IInv
<1>1. Init => IInv
  BY InvInit
<1>2. IInv /\ [Next]_vars => IInv'
  BY InvStep
<1> QED BY <1>1, <1>2, PTL DEF Spec

\* Users, copies of them and results have the types the routes give them
\* (DbClient, RouterError).
THEOREM TypeCorrect ==
  ASSUME BridgeAssumption
  PROVE  Spec => []TypeOK
<1>1. IInv => TypeOK
  <2>1. SUFFICES ASSUME IInv  PROVE TypeOK
    OBVIOUS
  <2>2. \A result \in Results : status(result) \in {200, 400, 410, 413, 500, 502, 503}
    BY DEF Results, status
  <2>3. \A n \in Senders : /\ sender[n].user \in UserType
                           /\ sender[n].pc = "done" => status(sender[n].result) \in {200, 400, 410, 413, 500, 502, 503}
    BY <2>1, <2>2 DEF IInv, Types, SenderType, SendersOK, SenderOK
  <2> QED BY <2>1, <2>3 DEF IInv, Types, RowType, AppType, Routes, TypeOK
<1> QED BY <1>1, Invariance, PTL

\* A late id of ADM undoes no newer token (update_user), for any number of
\* notifications and tokens, whatever calls fail; an older token comes from a
\* request of the app that was under way while ADM named a newer one.
THEOREM TokensOnlyAdvance ==
  ASSUME BridgeAssumption
  PROVE  Spec => TokenNeverGoesBack
<1> DEFINE Kept == HasUser(row) /\ HasUser(row') /\ row'.user.token < row.user.token
                     => app.pc = "update_token" /\ row.user.type = "adm"
<1>1. ASSUME IInv, Next  PROVE Kept
  <2>1. row.user.token \in Int
    BY <1>1 DEF IInv, Types, RowType, UserType
  <2>2. CASE AppTurn
    BY <2>2 DEF AppTurn, ByApp, HasUser
  <2>3. ASSUME NEW n \in Senders, SenderTurn(n)  PROVE Kept
    <3>1. Renamed(row.user, row'.user) /\ row'.user.token \in Int
      BY <2>3 DEF SenderTurn, RowType, UserType
    <3> QED BY <2>1, <3>1 DEF Renamed, HasUser
  <2>4. CASE DeviceTurn
    BY <2>1, <2>4 DEF DeviceTurn
  <2> QED BY <1>1, <2>2, <2>3, <2>4, Turns
<1>2. IInv /\ [Next]_vars => [Kept]_vars
  BY <1>1
<1> QED BY <1>2, Invariance, PTL DEF Spec, TokenNeverGoesBack

\* A stored user has every channel its app holds an endpoint of, whatever
\* removals and updates race with the registration routes.
THEOREM ChannelsOfTheApp ==
  ASSUME BridgeAssumption
  PROVE  Spec => []EndpointsUsable
<1>1. IInv => EndpointsUsable
  BY DEF IInv, ChannelsStored, EndpointsUsable
<1> QED BY <1>1, Invariance, PTL

\* Without GCM, which drops its users, only its app or its uninstallation
\* removes the user of a device that has had one token (handle_error).
THEOREM OnlyTheDeviceIsGone ==
  ASSUME BridgeAssumption, "gcm" \notin {Type} \cup OtherTypes
  PROVE  Spec => OnlyGoneRemoved
<1>1. ASSUME IInv, Next  PROVE GoneWhenRemoved
  <2>1. AppTurn => GoneWhenRemoved
    BY DEF AppTurn, ByApp, GoneWhenRemoved, HasUser
  <2> QED BY <1>1, <2>1, Turns, RowStays DEF DeviceTurn, SenderTurn
<1>2. IInv /\ [Next]_vars => [GoneWhenRemoved]_vars
  BY <1>1
<1> QED BY <1>2, Invariance, PTL DEF Spec, OnlyGoneRemoved

\* When no database call fails and the app id stays in the configuration, 410
\* means that the user is gone for good (handle_error, drop_user, Subscription).
THEOREM ToldGoneIsGone ==
  ASSUME BridgeAssumption, ~DbFails, "InvalidAppId" \notin Troubles
  PROVE  Spec => []GoneMeansGone
<1>1. Init => GoneInv
  <2>1. SUFFICES ASSUME Init  PROVE GoneInv
    OBVIOUS
  <2>2. \A n \in Senders : sender[n] = IdleSender
    BY <2>1 DEF Init
  <2> QED BY <2>2, IdleSenderTyped DEF GoneInv, GoneOK, ToldGone
<1>2. ASSUME IInv, GoneInv, [Next]_vars  PROVE GoneInv'
  <2>1. CASE AppTurn
    <3>1. /\ sender' = sender /\ (app'.pc \in {"new", "register"} => app.pc = "new")
          /\ app.pc \notin {"new", "register"} /\ row.user = NoUser => row'.user = NoUser
      BY <2>1 DEF AppTurn, ByApp
    <3> QED BY <1>2, <3>1 DEF GoneInv, GoneOK, ToldGone, GoneResults
  <2>2. CASE DeviceTurn
    BY <1>2, <2>2 DEF DeviceTurn, GoneInv, GoneOK, ToldGone
  <2>3. ASSUME NEW n \in Senders, SenderTurn(n)  PROVE GoneInv'
    <3>1. PICK S \in SenderType : /\ sender' = [sender EXCEPT ![n] = S]
                                  /\ ToldGone(S) => row'.user = NoUser
      BY <2>3 DEF SenderTurn
    <3>2. app' = app /\ (row'.user # NoUser => row.user # NoUser) /\ app.pc \notin {"new", "register"}
      BY <1>2, <2>3 DEF SenderTurn, GoneInv, GoneOK
    <3>3. \A m \in Senders : sender'[m] = IF m = n THEN S ELSE sender[m]
      BY <1>2, <3>1 DEF IInv, Types
    <3>4. \A m \in Senders : GoneOK(sender'[m], row'.user, app'.pc)
      BY <1>2, <3>1, <3>2, <3>3 DEF GoneInv, GoneOK, ToldGone
    <3> QED BY <3>4 DEF GoneInv
  <2>4. CASE UNCHANGED vars
    BY <1>2, <2>4 DEF vars, GoneInv
  <2> QED BY <1>2, <2>1, <2>2, <2>3, <2>4, Turns
<1>3. IInv /\ GoneInv => GoneMeansGone
  <2>1. SUFFICES ASSUME IInv, GoneInv, NEW n \in Senders,
                        sender[n].pc = "done", status(sender[n].result) = 410
                 PROVE  ~HasUser(row)
    BY DEF GoneMeansGone
  <2>2. sender[n].result \in Results
    BY <2>1 DEF IInv, SendersOK, SenderOK
  <2>3. sender[n].result \in GoneResults
    BY <2>1, <2>2 DEF Results, GoneResults, status
  <2> QED BY <2>1, <2>3 DEF GoneInv, GoneOK, ToldGone, HasUser
<1> QED BY <1>1, <1>2, <1>3, Invariance, PTL DEF Spec

-----------------------------------------------------------------------------
(***************************************************************************)
(* The ADM access token (module AdmToken), for any number of requests, any *)
(* token lifetimes and any delays that fit the margin.                     *)
(***************************************************************************)
CONSTANTS Tasks, Margin, Lifetimes, MaxDelay, MaxClock
VARIABLES clock, token_info, lock, task
Token == INSTANCE AdmToken

Fetching(t) == task[t].pc \in {"fetching", "answering"}

TaskType == [pc : {"idle", "asking", "fetching", "answering", "sending", "sent", "failed"},
             until : Nat, life : Nat, since : Nat, accepted : BOOLEAN]

TokenTypeOK ==
  /\ clock \in Nat
  /\ token_info \in [until : Nat, expiration_time : Nat]
  /\ lock \in BOOLEAN
  /\ task \in [Tasks -> TaskType]

(* The cache may believe in a token for longer than ADM does, by the time    *)
(* the answer was on its way and no more.                                    *)
CacheInTime == token_info.expiration_time <= token_info.until + MaxDelay

(* What is on its way has not been so for too long, and a notification left  *)
(* with a token that outlives its way.                                       *)
OnTheWay(T) ==
  /\ T.pc = "answering" =>
       /\ T.since <= clock /\ clock <= T.since + MaxDelay
       /\ T.life \in Lifetimes /\ T.until = T.since + T.life
  /\ T.pc = "sending" =>
       /\ T.since <= clock /\ clock <= T.since + MaxDelay
       /\ T.since + MaxDelay < T.until
WaysInTime == \A t \in Tasks : OnTheWay(task[t])

(* Whoever asks ADM for a token holds the lock.                              *)
FetchLocks == \A t \in Tasks : Fetching(t) => lock

TokenIInv == TokenTypeOK /\ CacheInTime /\ WaysInTime /\ FetchLocks /\ Token!OneFetch /\ Token!NeverExpired

-----------------------------------------------------------------------------
LEMMA InitIInv ==
  ASSUME Token!AdmTokenAssumption, Token!Init
  PROVE  TokenIInv
<1>1. Token!Idle \in TaskType /\ Token!Idle.pc = "idle" /\ Token!Idle.accepted
  BY DEF Token!Idle, TaskType
<1>2. TokenTypeOK
  BY <1>1 DEF Token!Init, TokenTypeOK
<1>5. CacheInTime
  BY DEF Token!AdmTokenAssumption, Token!Init, CacheInTime
<1>3. \A t \in Tasks : task[t] = Token!Idle
  BY DEF Token!Init
<1>4. WaysInTime /\ FetchLocks /\ Token!OneFetch /\ Token!NeverExpired
  BY <1>1, <1>3 DEF WaysInTime, OnTheWay, FetchLocks, Fetching, Token!OneFetch, Token!NeverExpired
<1> QED BY <1>2, <1>4, <1>5 DEF TokenIInv

\* A step of one request: what its new record must satisfy.
LEMMA TaskStep ==
  ASSUME Token!AdmTokenAssumption, TokenIInv, NEW t \in Tasks, NEW T \in TaskType, Token!Set(t, T),
         OnTheWay(T), T.accepted, UNCHANGED clock,
         token_info' \in [until : Nat, expiration_time : Nat], CacheInTime',
         lock' \in BOOLEAN,
         \A u \in Tasks \ {t} : Fetching(u) => lock',
         T.pc \in {"fetching", "answering"} => lock' /\ \A u \in Tasks \ {t} : ~Fetching(u)
  PROVE  TokenIInv'
<1>1. /\ task' \in [Tasks -> TaskType]
      /\ task'[t] = T
      /\ \A u \in Tasks \ {t} : task'[u] = task[u]
  BY DEF TokenIInv, TokenTypeOK, Token!Set
<1>2. TokenTypeOK'
  BY <1>1 DEF TokenIInv, TokenTypeOK
<1>3. WaysInTime'
  BY <1>1 DEF TokenIInv, WaysInTime, OnTheWay
<1>4. FetchLocks' /\ Token!OneFetch'
  BY <1>1 DEF TokenIInv, FetchLocks, Token!OneFetch, Fetching
<1>5. Token!NeverExpired'
  BY <1>1 DEF TokenIInv, Token!NeverExpired
<1> QED BY <1>2, <1>3, <1>4, <1>5 DEF TokenIInv

LEMMA TickStep ==
  ASSUME Token!AdmTokenAssumption, TokenIInv, Token!Tick
  PROVE  TokenIInv'
<1>1. TokenTypeOK' /\ CacheInTime'
  BY DEF TokenIInv, TokenTypeOK, Token!Tick, CacheInTime
<1>2. WaysInTime'
  BY DEF TokenIInv, TokenTypeOK, TaskType, Token!AdmTokenAssumption, Token!Tick, WaysInTime, OnTheWay
<1>3. FetchLocks' /\ Token!OneFetch' /\ Token!NeverExpired'
  BY DEF TokenIInv, Token!Tick, FetchLocks, Fetching, Token!OneFetch, Token!NeverExpired
<1> QED BY <1>1, <1>2, <1>3 DEF TokenIInv

LEMMA SendStep ==
  ASSUME Token!AdmTokenAssumption, TokenIInv, NEW t \in Tasks, Token!send(t)
  PROVE  TokenIInv'
<1> DEFINE T == [Token!Idle EXCEPT !.pc = "asking"]
<1>1. T \in TaskType /\ T.pc = "asking" /\ T.accepted
  BY DEF Token!Idle, TaskType
<1> HIDE DEF T
<1>2. OnTheWay(T)
  BY <1>1 DEF OnTheWay
<1>3. Token!Set(t, T) /\ UNCHANGED <<clock, token_info, lock>>
  BY DEF Token!send, T
<1>4. CacheInTime' /\ \A u \in Tasks : Fetching(u) => lock'
  BY <1>3 DEF TokenIInv, CacheInTime, FetchLocks
<1> QED BY <1>1, <1>2, <1>3, <1>4, TaskStep DEF TokenIInv, TokenTypeOK

\* A cached token is handed out only if it outlives the way to ADM.
LEMMA GetAccessTokenStep ==
  ASSUME Token!AdmTokenAssumption, TokenIInv, NEW t \in Tasks, Token!get_access_token(t)
  PROVE  TokenIInv'
<1>1. ~lock /\ (\A u \in Tasks : ~Fetching(u)) /\ UNCHANGED <<clock, token_info>> /\ CacheInTime'
  BY DEF Token!get_access_token, TokenIInv, FetchLocks, CacheInTime
<1>2. CASE token_info.expiration_time > clock + Margin
  <2> DEFINE T == [Token!Idle EXCEPT !.pc = "sending", !.until = token_info.until, !.since = clock]
  <2>1. /\ T \in TaskType /\ T.pc = "sending" /\ T.accepted
        /\ T.until = token_info.until /\ T.since = clock
    BY DEF Token!Idle, TaskType, TokenIInv, TokenTypeOK
  <2>2. Token!Set(t, T) /\ UNCHANGED lock
    BY <1>2 DEF Token!get_access_token, Token!Ready
  <2> HIDE DEF T
  <2>3. OnTheWay(T)
    BY <1>2, <2>1 DEF OnTheWay, TokenIInv, TokenTypeOK, CacheInTime, Token!AdmTokenAssumption
  <2> QED BY <1>1, <2>1, <2>2, <2>3, TaskStep DEF TokenIInv, TokenTypeOK
<1>3. CASE ~(token_info.expiration_time > clock + Margin)
  <2> DEFINE T == [task[t] EXCEPT !.pc = "fetching"]
  <2>1. T \in TaskType /\ T.pc = "fetching" /\ T.accepted
    BY DEF TaskType, TokenIInv, TokenTypeOK, Token!NeverExpired
  <2>2. Token!Set(t, T) /\ lock'
    BY <1>3 DEF Token!get_access_token
  <2> HIDE DEF T
  <2>3. OnTheWay(T)
    BY <2>1 DEF OnTheWay
  <2>4. lock' = TRUE
    BY <1>3 DEF Token!get_access_token
  <2> QED BY <1>1, <2>1, <2>2, <2>3, <2>4, TaskStep DEF TokenIInv, TokenTypeOK
<1> QED BY <1>2, <1>3

LEMMA IssueStep ==
  ASSUME Token!AdmTokenAssumption, TokenIInv, NEW t \in Tasks, Token!Issue(t)
  PROVE  TokenIInv'
<1>1. Fetching(t) /\ lock /\ (\A u \in Tasks \ {t} : ~Fetching(u))
  BY DEF Token!Issue, Fetching, TokenIInv, FetchLocks, Token!OneFetch
<1>2. PICK life \in Lifetimes :
        Token!Set(t, [task[t] EXCEPT !.pc = "answering", !.life = life,
                               !.until = clock + life, !.since = clock])
  BY DEF Token!Issue
<1> DEFINE T == [task[t] EXCEPT !.pc = "answering", !.life = life,
                                !.until = clock + life, !.since = clock]
<1>3. /\ T \in TaskType /\ T.pc = "answering" /\ T.accepted
      /\ T.life = life /\ T.until = clock + life /\ T.since = clock
  BY clock + life \in Nat DEF TaskType, TokenIInv, TokenTypeOK, Token!NeverExpired, Token!AdmTokenAssumption
<1>4. Token!Set(t, T) /\ UNCHANGED <<clock, token_info, lock>>
  BY <1>2 DEF Token!Issue
<1> HIDE DEF T
<1>5. OnTheWay(T)
  BY <1>3 DEF OnTheWay, TokenIInv, TokenTypeOK, Token!AdmTokenAssumption
<1>6. CacheInTime'
  BY <1>4 DEF TokenIInv, CacheInTime
<1> QED BY <1>1, <1>3, <1>4, <1>5, <1>6, TaskStep DEF TokenIInv, TokenTypeOK

\* A token that was given out MaxDelay ago still outlives the way back.
LEMMA TokenResponseStep ==
  ASSUME Token!AdmTokenAssumption, TokenIInv, NEW t \in Tasks, Token!TokenResponse(t)
  PROVE  TokenIInv'
<1>1. Fetching(t) /\ (\A u \in Tasks \ {t} : ~Fetching(u))
  BY DEF Token!TokenResponse, Fetching, TokenIInv, Token!OneFetch
<1>2. /\ task[t] \in TaskType /\ clock \in Nat
      /\ task[t].since <= clock /\ clock <= task[t].since + MaxDelay
      /\ task[t].life \in Lifetimes /\ task[t].until = task[t].since + task[t].life
  BY DEF Token!TokenResponse, TokenIInv, TokenTypeOK, WaysInTime, OnTheWay
<1> DEFINE T == [Token!Idle EXCEPT !.pc = "sending", !.until = task[t].until, !.since = clock]
<1>3. /\ T \in TaskType /\ T.pc = "sending" /\ T.accepted
      /\ T.until = task[t].until /\ T.since = clock
  BY <1>2 DEF Token!Idle, TaskType
<1>4. Token!Set(t, T) /\ UNCHANGED clock /\ lock' = FALSE
  BY DEF Token!TokenResponse, Token!Ready
<1> HIDE DEF T
<1>5. OnTheWay(T)
  BY <1>2, <1>3 DEF OnTheWay, TaskType, Token!AdmTokenAssumption
<1>6. /\ token_info' \in [until : Nat, expiration_time : Nat]
      /\ token_info'.until = task[t].until
      /\ token_info'.expiration_time = clock + task[t].life
  BY <1>2 DEF Token!TokenResponse, TaskType
<1>7. CacheInTime'
  BY <1>2, <1>6 DEF CacheInTime, TaskType, Token!AdmTokenAssumption
<1> QED BY <1>1, <1>3, <1>4, <1>5, <1>6, <1>7, TaskStep

LEMMA FetchFailsStep ==
  ASSUME Token!AdmTokenAssumption, TokenIInv, NEW t \in Tasks, Token!FetchFails(t)
  PROVE  TokenIInv'
<1>1. Fetching(t) /\ (\A u \in Tasks \ {t} : ~Fetching(u))
  BY DEF Token!FetchFails, Fetching, TokenIInv, Token!OneFetch
<1> DEFINE T == [Token!Idle EXCEPT !.pc = "failed"]
<1>2. T \in TaskType /\ T.pc = "failed" /\ T.accepted
  BY DEF Token!Idle, TaskType
<1>4. Token!Set(t, T) /\ UNCHANGED <<clock, token_info>> /\ lock' = FALSE
  BY DEF Token!FetchFails
<1> HIDE DEF T
<1>3. OnTheWay(T)
  BY <1>2 DEF OnTheWay
<1>5. CacheInTime'
  BY <1>4 DEF TokenIInv, CacheInTime
<1> QED BY <1>1, <1>2, <1>3, <1>4, <1>5, TaskStep DEF TokenIInv, TokenTypeOK

\* The notification arrives before ADM forgets its token.
LEMMA DeliverStep ==
  ASSUME Token!AdmTokenAssumption, TokenIInv, NEW t \in Tasks, Token!Deliver(t)
  PROVE  TokenIInv'
<1>1. task[t].until > clock
  BY DEF Token!Deliver, TokenIInv, TokenTypeOK, TaskType, WaysInTime, OnTheWay, Token!AdmTokenAssumption
<1> DEFINE T == [Token!Idle EXCEPT !.pc = "sent", !.accepted = (task[t].until > clock)]
<1>2. T \in TaskType /\ T.pc = "sent" /\ T.accepted
  BY <1>1 DEF Token!Idle, TaskType
<1>3. Token!Set(t, T) /\ UNCHANGED <<clock, token_info, lock>>
  BY DEF Token!Deliver
<1> HIDE DEF T
<1>4. OnTheWay(T)
  BY <1>2 DEF OnTheWay
<1>5. CacheInTime' /\ \A u \in Tasks : Fetching(u) => lock'
  BY <1>3 DEF TokenIInv, CacheInTime, FetchLocks
<1> QED BY <1>2, <1>3, <1>4, <1>5, TaskStep DEF TokenIInv, TokenTypeOK

LEMMA NextIInv ==
  ASSUME Token!AdmTokenAssumption, TokenIInv, [Token!Next]_(Token!vars)
  PROVE  TokenIInv'
<1>1. CASE UNCHANGED Token!vars
  BY <1>1 DEF Token!vars, TokenIInv, TokenTypeOK, CacheInTime, WaysInTime, OnTheWay, FetchLocks, Fetching,
              Token!OneFetch, Token!NeverExpired
<1> QED BY <1>1, TickStep, SendStep, GetAccessTokenStep, IssueStep, TokenResponseStep,
           FetchFailsStep, DeliverStep DEF Token!Next

(* ADM never sees a token it has forgotten, and only one request for a token *)
(* is under way at a time (get_access_token), if two ways between the        *)
(* endpoint and ADM fit the margin and the life of a token.                  *)
THEOREM TokensInTime ==
  ASSUME Token!AdmTokenAssumption
  PROVE  Token!Spec => [](Token!NeverExpired /\ Token!OneFetch)
<1>1. Token!Init => TokenIInv
  BY InitIInv
<1>2. TokenIInv /\ [Token!Next]_(Token!vars) => TokenIInv'
  BY NextIInv
<1>3. TokenIInv => Token!NeverExpired /\ Token!OneFetch
  BY DEF TokenIInv
<1> QED BY <1>1, <1>2, <1>3, PTL DEF Token!Spec
=============================================================================
