--------------------------- MODULE BroadcastProofs ---------------------------
(***************************************************************************)
(* Proofs about module Broadcast: no change is lost to a subscriber, for   *)
(* any number of broadcasts, versions, sessions and publications.          *)
(***************************************************************************)
EXTENDS Broadcast, TLAPS

(***************************************************************************)
(* The inductive invariant.  Keys index the table and the versions alike,  *)
(* a broadcast has one key, every key has its revision in the list and a   *)
(* session subscribes to keys there are.  On the ordered list the early    *)
(* exit of change_count_delta misses nothing, so a revision newer than the *)
(* session's change_count is one the next delta reports.                   *)
(***************************************************************************)
KeysAligned == Len(broadcast_versions) = Len(table)

IdsDistinct == \A i, j \in DOMAIN table : table[i] = table[j] => i = j

EveryKeyListed ==
  \A k \in DOMAIN table : \E i \in DOMAIN broadcast_list : broadcast_list[i].broadcast = k

SubscriptionsKnown == \A c \in Clients : Subscribed(c) \subseteq DOMAIN table

Newer(list, k, count) ==
  \E i \in DOMAIN list : list[i].broadcast = k /\ list[i].change_count > count

Informed ==
  \A c \in online : \A k \in Subscribed(c) :
    \/ held[c][table[k]] = broadcast_versions[k]
    \/ Newer(broadcast_list, k, broadcast_subs[c].change_count)

IInv == /\ TypeOK
        /\ KeysAligned
        /\ IdsDistinct
        /\ EveryKeyListed
        /\ SubscriptionsKnown
        /\ RevisionsOrdered
        /\ Informed

Revisions == [change_count : Nat, broadcast : Nat]
Subscriptions == [broadcast_list : SUBSET Nat, change_count : Nat]
Views == [BroadcastIds -> Versions \cup {Unset}]

-----------------------------------------------------------------------------
(* Operators of the tracker. *)

LEMMA LookupIs ==
  ASSUME IdsDistinct, NEW k \in DOMAIN table
  PROVE  lookup_key(table[k]) = k /\ Known(table[k])
BY DEF IdsDistinct, lookup_key, Known

LEMMA LookupFinds ==
  ASSUME NEW b, Known(b)
  PROVE  lookup_key(b) \in DOMAIN table /\ table[lookup_key(b)] = b
BY DEF lookup_key, Known

\* The early exit of change_count_delta: since the list is ordered, all that is
\* newer lies behind any newer revision.
LEMMA DeltaIs ==
  ASSUME IInv, NEW subs, subs.change_count \in Nat, NEW k
  PROVE  k \in change_count_delta(subs)
           <=> k \in subs.broadcast_list /\ Newer(broadcast_list, k, subs.change_count)
<1>1. broadcast_list \in Seq(Revisions) /\ Len(broadcast_list) \in Nat
      /\ DOMAIN broadcast_list = 1..Len(broadcast_list)
  BY DEF IInv, TypeOK, Revisions
<1>2. \A i \in DOMAIN broadcast_list : broadcast_list[i].change_count \in Nat
  <2>1. \A i \in DOMAIN broadcast_list : broadcast_list[i] \in Revisions
    BY <1>1
  <2> QED BY <2>1 DEF Revisions
<1>3. ASSUME NEW i \in DOMAIN broadcast_list,
             broadcast_list[i].change_count > subs.change_count
      PROVE  \A j \in i..Len(broadcast_list) :
               broadcast_list[j].change_count > subs.change_count
  <2> TAKE j \in i..Len(broadcast_list)
  <2>1. j \in DOMAIN broadcast_list /\ (i < j \/ i = j)
    BY <1>1
  <2>2. i < j => broadcast_list[i].change_count < broadcast_list[j].change_count
    BY <2>1 DEF IInv, RevisionsOrdered
  <2> QED BY <1>2, <1>3, <2>1, <2>2
<1>4. ASSUME k \in change_count_delta(subs)
      PROVE  k \in subs.broadcast_list /\ Newer(broadcast_list, k, subs.change_count)
  <2>1. PICK i \in DOMAIN broadcast_list :
          /\ k = broadcast_list[i].broadcast
          /\ \A j \in i..Len(broadcast_list) :
               broadcast_list[j].change_count > subs.change_count
    BY <1>4 DEF change_count_delta
  <2>2. broadcast_list[i].change_count > subs.change_count
    BY <1>1, <2>1
  <2> QED BY <1>4, <2>1, <2>2 DEF change_count_delta, Newer
<1>5. ASSUME k \in subs.broadcast_list, Newer(broadcast_list, k, subs.change_count)
      PROVE  k \in change_count_delta(subs)
  <2>1. PICK i \in DOMAIN broadcast_list :
          broadcast_list[i].broadcast = k /\ broadcast_list[i].change_count > subs.change_count
    BY <1>5 DEF Newer
  <2> QED BY <1>3, <1>5, <2>1 DEF change_count_delta
<1> QED BY <1>4, <1>5

\* p is q with x behind it.
IsAppend(p, q, x, S) ==
  /\ p \in Seq(S)
  /\ Len(q) \in Nat /\ DOMAIN q = 1..Len(q)
  /\ DOMAIN p = 1..(Len(q) + 1) /\ Len(p) = Len(q) + 1
  /\ p[Len(q) + 1] = x
  /\ \A i \in 1..Len(q) : p[i] = q[i]

LEMMA AppendIs ==
  ASSUME NEW S, NEW q \in Seq(S), NEW x \in S
  PROVE  IsAppend(Append(q, x), q, x, S)
BY DEF IsAppend

\* p is list with its revision at f, the one of key, moved to the end under count;
\* the others keep their order.
IsMoved(p, list, f, key, count) ==
  /\ p \in Seq(Revisions)
  /\ Len(p) = Len(list)
  /\ p[Len(list)] = [change_count |-> count, broadcast |-> key]
  /\ \A j \in 1..(Len(list) - 1) : p[j] = IF j < f THEN list[j] ELSE list[j + 1]

LEMMA PushRevisionIs ==
  ASSUME NEW list \in Seq(Revisions), NEW key \in Nat, NEW count \in Nat,
         NEW f \in DOMAIN list, list[f].broadcast = key,
         \A i \in DOMAIN list : list[i].broadcast = key => i = f
  PROVE  IsMoved(PushRevision(list, key, count), list, f, key, count)
<1> DEFINE At(i) == list[i].broadcast = key
           first == CHOOSE i \in DOMAIN list : At(i) /\ \A j \in 1..(i - 1) : ~At(j)
           revision == [change_count |-> count, broadcast |-> key]
           rest == Without(list, f)
<1>1. /\ Len(list) \in Nat /\ DOMAIN list = 1..Len(list) /\ revision \in Revisions
      /\ f \in 1..Len(list)
  BY DEF Revisions
<1>2. At(f) /\ \A j \in 1..(f - 1) : ~At(j)
  BY <1>1
<1>3. first = f
  BY <1>2
<1>4. PushRevision(list, key, count) = Append(rest, revision)
  BY <1>3 DEF PushRevision
<1>5. \A j \in 1..(Len(list) - 1) :
        j \in 1..Len(list) /\ j + 1 \in 1..Len(list)
  BY <1>1
<1>6. rest \in [1..(Len(list) - 1) -> Revisions] /\ Len(list) - 1 \in Nat
  BY <1>1, <1>5 DEF Without
<1>7. rest \in Seq(Revisions) /\ Len(rest) = Len(list) - 1
  BY <1>6
<1>8. \A j \in 1..(Len(list) - 1) : rest[j] = IF j < f THEN list[j] ELSE list[j + 1]
  BY DEF Without
<1> HIDE DEF rest, revision
<1>9. /\ Append(rest, revision) \in Seq(Revisions)
      /\ Len(Append(rest, revision)) = Len(list)
      /\ Append(rest, revision)[Len(list)] = revision
      /\ \A j \in 1..(Len(list) - 1) : Append(rest, revision)[j] = rest[j]
  <2> HIDE DEF At, first, Revisions
  <2>0. rest \in Seq(Revisions) /\ revision \in Revisions
    BY <1>1, <1>7
  <2>1. /\ Append(rest, revision) \in Seq(Revisions)
        /\ Len(Append(rest, revision)) = Len(rest) + 1
        /\ Append(rest, revision)[Len(rest) + 1] = revision
        /\ \A j \in 1..Len(rest) : Append(rest, revision)[j] = rest[j]
    <3>1. IsAppend(Append(rest, revision), rest, revision, Revisions)
      BY <2>0, AppendIs
    <3> QED BY <3>1 DEF IsAppend
  <2>2. Len(rest) + 1 = Len(list)
    BY <1>1, <1>7
  <2> QED BY <1>7, <2>1, <2>2
<1> QED BY <1>4, <1>8, <1>9 DEF revision, IsMoved

-----------------------------------------------------------------------------
(* Steps of a session. *)

LEMMA TrackerUnchanged ==
  ASSUME UNCHANGED trackerVars
  PROVE  /\ KeysAligned => KeysAligned'
         /\ IdsDistinct => IdsDistinct'
         /\ EveryKeyListed => EveryKeyListed'
BY DEF trackerVars, KeysAligned, IdsDistinct, EveryKeyListed

\* A session gets subscriptions and a view in which nothing it is subscribed to is
\* out of date.
BroughtUpToDate(c, S, H) ==
  /\ S \in Subscriptions /\ H \in Views
  /\ broadcast_subs' = [broadcast_subs EXCEPT ![c] = S]
  /\ held' = [held EXCEPT ![c] = H]
  /\ online' \subseteq online \cup {c}
  /\ waiting' \in [Clients -> {"ToPing", "ForPong"}]
  /\ S.broadcast_list \subseteq DOMAIN table /\ S.change_count <= change_count
  /\ \A k \in S.broadcast_list : H[table[k]] = broadcast_versions[k]
  /\ UNCHANGED <<megaphone, published, updater, response, trackerVars>>

LEMMA SessionStep ==
  ASSUME IInv, NEW c \in Clients, NEW S, NEW H, BroughtUpToDate(c, S, H)
  PROVE  IInv'
<1> USE DEF BroughtUpToDate
<1>1. broadcast_subs \in [Clients -> Subscriptions] /\ held \in [Clients -> Views]
      /\ online \subseteq Clients
  BY DEF IInv, TypeOK, Subscriptions, Views
<1>2. /\ broadcast_subs'[c] = S /\ held'[c] = H
      /\ \A d \in Clients \ {c} : broadcast_subs'[d] = broadcast_subs[d] /\ held'[d] = held[d]
      /\ \A d \in online' : d = c \/ (d \in online /\ d \in Clients \ {c})
  BY <1>1
<1>3. /\ broadcast_subs' \in [Clients -> Subscriptions] /\ held' \in [Clients -> Views]
      /\ online' \subseteq Clients
  BY <1>1
<1>4. TypeOK'
  BY <1>3 DEF IInv, TypeOK, Subscriptions, Views, trackerVars
<1>5. KeysAligned' /\ IdsDistinct' /\ EveryKeyListed'
  BY TrackerUnchanged DEF IInv
<1>6. SubscriptionsKnown'
  <2>1. ASSUME NEW d \in Clients PROVE broadcast_subs'[d].broadcast_list \subseteq DOMAIN table
    BY <1>2 DEF IInv, SubscriptionsKnown, Subscribed
  <2> QED BY <2>1 DEF SubscriptionsKnown, Subscribed, trackerVars
<1>7. \A d \in online' : broadcast_subs'[d].change_count <= change_count
  BY <1>2 DEF IInv, RevisionsOrdered
<1>8. RevisionsOrdered'
  BY <1>7 DEF IInv, RevisionsOrdered, trackerVars
<1>9. Informed'
  <2>1. UNCHANGED <<table, broadcast_versions, broadcast_list>>
    BY DEF trackerVars
  <2> SUFFICES ASSUME NEW d \in online', NEW k \in broadcast_subs'[d].broadcast_list
               PROVE  \/ held'[d][table[k]] = broadcast_versions[k]
                      \/ Newer(broadcast_list, k, broadcast_subs'[d].change_count)
    BY <2>1 DEF Informed, Subscribed
  <2>2. CASE d = c
    BY <1>2, <2>2
  <2>3. CASE d # c
    <3>1. /\ d \in online /\ broadcast_subs'[d] = broadcast_subs[d] /\ held'[d] = held[d]
      BY <1>2, <2>3
    <3>2. \/ held[d][table[k]] = broadcast_versions[k]
          \/ Newer(broadcast_list, k, broadcast_subs[d].change_count)
      BY <3>1 DEF IInv, Informed, Subscribed
    <3> QED BY <3>1, <3>2
  <2> QED BY <2>2, <2>3
<1> QED BY <1>4, <1>5, <1>6, <1>8, <1>9 DEF IInv

\* A session is brought up to date with what the tracker has: it holds the version
\* of every broadcast it is told about.
LEMMA ToldIs ==
  ASSUME IInv, NEW k \in DOMAIN table, NEW view, NEW told
  PROVE  /\ table[k] \in BroadcastIds
         /\ table[k] \in told => Told(view, told)[table[k]] = broadcast_versions[k]
         /\ table[k] \notin told => Told(view, told)[table[k]] = view[table[k]]
<1>1. table[k] \in BroadcastIds
  BY DEF IInv, TypeOK
<1>2. lookup_key(table[k]) = k
  BY LookupIs DEF IInv
<1> QED BY <1>1, <1>2 DEF Told

\* Only known broadcasts are told.
LEMMA ToldType ==
  ASSUME IInv, NEW view \in Views, NEW told, \A b \in told : Known(b)
  PROVE  Told(view, told) \in Views
<1>1. \A b \in told : broadcast_versions[lookup_key(b)] \in Versions
  <2> TAKE b \in told
  <2>1. lookup_key(b) \in DOMAIN table
    BY LookupFinds
  <2>2. DOMAIN broadcast_versions = DOMAIN table /\ broadcast_versions \in Seq(Versions)
    BY DEF IInv, TypeOK, KeysAligned
  <2> QED BY <2>1, <2>2
<1> QED BY <1>1 DEF Told, Views

LEMMA HelloStep ==
  ASSUME IInv, NEW c \in Clients, NEW desired \in ClientSubscriptions, Hello(c, desired)
  PROVE  IInv'
<1> DEFINE view == [b \in BroadcastIds |-> IF b \in DOMAIN desired THEN desired[b] ELSE Unset]
           S == [broadcast_list |-> KnownKeys(desired), change_count |-> change_count]
           H == Told(view, Outdated(desired))
<1>1. /\ broadcast_subs' = [broadcast_subs EXCEPT ![c] = S]
      /\ held' = [held EXCEPT ![c] = H]
      /\ online' \subseteq online \cup {c}
      /\ waiting' = [waiting EXCEPT ![c] = "ToPing"]
      /\ UNCHANGED <<megaphone, published, updater, response, trackerVars>>
  BY DEF Hello
<1>2. /\ DOMAIN desired \subseteq BroadcastIds
      /\ \A b \in DOMAIN desired : desired[b] \in Versions
  BY DEF ClientSubscriptions
<1>3. /\ change_count \in Nat /\ waiting \in [Clients -> {"ToPing", "ForPong"}]
      /\ table \in Seq(BroadcastIds)
  BY DEF IInv, TypeOK
<1>4. KnownKeys(desired) \subseteq DOMAIN table
  BY LookupFinds DEF KnownKeys
<1>5. S \in Subscriptions
  BY <1>3, <1>4 DEF Subscriptions
<1>6. H \in Views
  <2>1. view \in Views
    BY <1>2 DEF Views
  <2>2. \A b \in Outdated(desired) : Known(b)
    BY DEF Outdated
  <2> QED BY <2>1, <2>2, ToldType
<1>7. waiting' \in [Clients -> {"ToPing", "ForPong"}]
  BY <1>1, <1>3
<1>8. ASSUME NEW k \in KnownKeys(desired) PROVE H[table[k]] = broadcast_versions[k]
  <2>1. PICK b \in DOMAIN desired : Known(b) /\ k = lookup_key(b)
    BY <1>8 DEF KnownKeys
  <2>2. k \in DOMAIN table /\ table[k] = b /\ b \in BroadcastIds
    BY <1>2, <2>1, LookupFinds
  <2>3. CASE b \in Outdated(desired)
    BY <2>2, <2>3, ToldIs
  <2>4. CASE b \notin Outdated(desired)
    <3>1. broadcast_versions[k] = desired[b]
      BY <2>1, <2>4 DEF Outdated
    <3>2. H[table[k]] = view[table[k]]
      BY <2>2, <2>4, ToldIs
    <3> QED BY <2>1, <2>2, <3>1, <3>2
  <2> QED BY <2>3, <2>4
<1> HIDE DEF H
<1>9. S.broadcast_list = KnownKeys(desired) /\ S.change_count = change_count
  OBVIOUS
<1> HIDE DEF S
<1>10. BroughtUpToDate(c, S, H)
  BY <1>1, <1>3, <1>4, <1>5, <1>6, <1>7, <1>8, <1>9 DEF BroughtUpToDate
<1> QED BY <1>10, SessionStep

\* What the delta of a session does not report, its client holds.
LEMMA NotReportedIsHeld ==
  ASSUME IInv, NEW c \in online, NEW k \in Subscribed(c),
         k \notin change_count_delta(broadcast_subs[c])
  PROVE  held[c][table[k]] = broadcast_versions[k]
<1>1. broadcast_subs[c].change_count \in Nat
  BY DEF IInv, TypeOK
<1>2. ~Newer(broadcast_list, k, broadcast_subs[c].change_count)
  BY <1>1, DeltaIs DEF Subscribed
<1> QED BY <1>2 DEF IInv, Informed

LEMMA DeltaKnown ==
  ASSUME IInv, NEW c \in Clients
  PROVE  /\ change_count_delta(broadcast_subs[c]) \subseteq DOMAIN table
         /\ \A b \in IdsOf(change_count_delta(broadcast_subs[c])) : Known(b)
BY DEF IInv, SubscriptionsKnown, Subscribed, change_count_delta, IdsOf, Known

LEMMA SubscribeStep ==
  ASSUME IInv, NEW c \in Clients, NEW desired \in ClientSubscriptions, Subscribe(c, desired)
  PROVE  IInv'
<1> DEFINE subs == broadcast_subs[c]
           old == IdsOf(subs.broadcast_list)
           view == [b \in BroadcastIds |->
                      IF b \in DOMAIN desired /\ b \notin old THEN desired[b] ELSE held[c][b]]
           delta == change_count_delta(subs)
           told == IdsOf(delta) \cup Outdated(desired)
           S == [broadcast_list |-> subs.broadcast_list \cup KnownKeys(desired),
                 change_count |-> change_count]
           H == Told(view, told)
<1>1. /\ broadcast_subs' = [broadcast_subs EXCEPT ![c] = S]
      /\ held' = [held EXCEPT ![c] = H]
      /\ c \in online /\ online' \subseteq online \cup {c} /\ waiting' = waiting
      /\ UNCHANGED <<megaphone, published, updater, response, trackerVars>>
  BY DEF Subscribe
<1>2. /\ DOMAIN desired \subseteq BroadcastIds
      /\ \A b \in DOMAIN desired : desired[b] \in Versions
  BY DEF ClientSubscriptions
<1>3. /\ change_count \in Nat /\ waiting \in [Clients -> {"ToPing", "ForPong"}]
      /\ table \in Seq(BroadcastIds) /\ held[c] \in Views /\ subs \in Subscriptions
  BY DEF IInv, TypeOK, Views, Subscriptions
<1>4. KnownKeys(desired) \subseteq DOMAIN table /\ subs.broadcast_list \subseteq DOMAIN table
  BY LookupFinds DEF KnownKeys, IInv, SubscriptionsKnown, Subscribed
<1>5. S \in Subscriptions
  BY <1>3, <1>4 DEF Subscriptions
<1>6. H \in Views
  <2>1. view \in Views
    BY <1>2, <1>3 DEF Views
  <2>2. \A b \in told : Known(b)
    BY DeltaKnown DEF Outdated
  <2> QED BY <2>1, <2>2, ToldType
<1>7. ASSUME NEW k \in DOMAIN table PROVE k \in delta => table[k] \in told
  BY DEF IdsOf
<1>8. ASSUME NEW k \in subs.broadcast_list PROVE H[table[k]] = broadcast_versions[k]
  <2>1. k \in DOMAIN table /\ table[k] \in old /\ table[k] \in BroadcastIds
    BY <1>3, <1>4 DEF IdsOf
  <2>2. CASE table[k] \in told
    BY <2>1, <2>2, ToldIs
  <2>3. CASE table[k] \notin told
    <3>1. held[c][table[k]] = broadcast_versions[k]
      BY <1>1, <1>7, <2>1, <2>3, NotReportedIsHeld DEF Subscribed
    <3>2. H[table[k]] = view[table[k]]
      BY <2>1, <2>3, ToldIs
    <3> QED BY <2>1, <3>1, <3>2
  <2> QED BY <2>2, <2>3
<1>9. ASSUME NEW k \in KnownKeys(desired) \ subs.broadcast_list
      PROVE  H[table[k]] = broadcast_versions[k]
  <2>1. PICK b \in DOMAIN desired : Known(b) /\ k = lookup_key(b)
    BY <1>9 DEF KnownKeys
  <2>2. k \in DOMAIN table /\ table[k] = b /\ b \in BroadcastIds
    BY <1>2, <2>1, LookupFinds
  <2>3. CASE b \in told
    BY <2>2, <2>3, ToldIs
  <2>4. CASE b \notin told
    <3>1. broadcast_versions[k] = desired[b]
      BY <2>1, <2>4 DEF Outdated
    <3>2. H[table[k]] = view[table[k]]
      BY <2>2, <2>4, ToldIs
    <3>3. b \notin old
      BY <1>4, <1>9, <2>2 DEF IdsOf, IInv, IdsDistinct
    <3> QED BY <2>1, <2>2, <3>1, <3>2, <3>3
  <2> QED BY <2>3, <2>4
<1>10. /\ S.broadcast_list = subs.broadcast_list \cup KnownKeys(desired)
       /\ S.change_count = change_count
  OBVIOUS
<1> HIDE DEF H, S
<1>11. BroughtUpToDate(c, S, H)
  BY <1>1, <1>3, <1>4, <1>5, <1>6, <1>8, <1>9, <1>10 DEF BroughtUpToDate
<1> QED BY <1>11, SessionStep

LEMMA EndSessionStep ==
  ASSUME IInv, NEW c \in Clients, EndSession(c),
         UNCHANGED <<megaphone, published, updater, response, trackerVars>>
  PROVE  IInv'
<1>1. /\ change_count \in Nat /\ waiting \in [Clients -> {"ToPing", "ForPong"}]
  BY DEF IInv, TypeOK
<1>2. /\ broadcast_subs' = [broadcast_subs EXCEPT ![c] = NoSubs]
      /\ held' = [held EXCEPT ![c] = Nothing]
      /\ online' \subseteq online \cup {c}
      /\ waiting' \in [Clients -> {"ToPing", "ForPong"}]
  BY <1>1 DEF EndSession
<1>3. /\ NoSubs \in Subscriptions /\ NoSubs.broadcast_list = {}
      /\ NoSubs.change_count = 0
  BY DEF NoSubs, Subscriptions
<1>4. Nothing \in Views
  BY DEF Nothing, Views
<1>5. BroughtUpToDate(c, NoSubs, Nothing)
  BY <1>1, <1>2, <1>3, <1>4 DEF BroughtUpToDate
<1> QED BY <1>5, SessionStep

LEMMA TickStep ==
  ASSUME IInv, NEW c \in Clients, Tick(c)
  PROVE  IInv'
<1> DEFINE subs == broadcast_subs[c]
           delta == change_count_delta(subs)
           S == [subs EXCEPT !.change_count = change_count]
           H == Told(held[c], IdsOf(delta))
<1>1. CASE waiting[c] = "ForPong" /\ EndSession(c)
  BY <1>1, EndSessionStep DEF Tick
<1>2. CASE ~(waiting[c] = "ForPong" /\ EndSession(c))
  <2>1. /\ change_count \in Nat /\ waiting \in [Clients -> {"ToPing", "ForPong"}]
        /\ table \in Seq(BroadcastIds) /\ held \in [Clients -> Views]
        /\ broadcast_subs \in [Clients -> Subscriptions]
    BY DEF IInv, TypeOK, Views, Subscriptions
  <2>2. /\ broadcast_subs' = [broadcast_subs EXCEPT ![c] = S]
        /\ held' = [held EXCEPT ![c] = H]
        /\ c \in online /\ online' \subseteq online \cup {c}
        /\ UNCHANGED <<megaphone, published, updater, response, trackerVars>>
    BY <1>2, <2>1 DEF Tick
  <2>3. waiting' \in [Clients -> {"ToPing", "ForPong"}]
    BY <1>2, <2>1 DEF Tick
  <2>4. /\ S \in Subscriptions /\ S.broadcast_list = subs.broadcast_list
        /\ S.change_count = change_count
    BY <2>1 DEF Subscriptions
  <2>5. subs.broadcast_list \subseteq DOMAIN table
    BY DEF IInv, SubscriptionsKnown, Subscribed
  <2>6. H \in Views
    BY <2>1, DeltaKnown, ToldType
  <2>7. ASSUME NEW k \in subs.broadcast_list PROVE H[table[k]] = broadcast_versions[k]
    <3>1. k \in DOMAIN table /\ (k \in delta => table[k] \in IdsOf(delta))
      BY <2>5 DEF IdsOf
    <3>2. k \notin delta => held[c][table[k]] = broadcast_versions[k]
      BY <2>2, NotReportedIsHeld DEF Subscribed
    <3> QED BY <3>1, <3>2, ToldIs
  <2> HIDE DEF S, H, subs
  <2>8. /\ S.broadcast_list \subseteq DOMAIN table /\ S.change_count <= change_count
        /\ \A k \in S.broadcast_list : H[table[k]] = broadcast_versions[k]
    BY <2>1, <2>4, <2>5, <2>7
  <2>9. BroughtUpToDate(c, S, H)
    BY <2>2, <2>3, <2>4, <2>6, <2>8 DEF BroughtUpToDate
  <2> QED BY <2>9, SessionStep
<1> QED BY <1>1, <1>2

LEMMA PongStep ==
  ASSUME IInv, NEW c \in Clients, Pong(c)
  PROVE  IInv'
<1>1. waiting' \in [Clients -> {"ToPing", "ForPong"}]
  BY DEF IInv, TypeOK, Pong
<1>2. UNCHANGED <<megaphone, published, updater, response, trackerVars, online,
                  broadcast_subs, held>>
  BY DEF Pong
<1>3. TypeOK'
  BY <1>1, <1>2 DEF IInv, TypeOK, trackerVars
<1> QED BY <1>2, <1>3, TrackerUnchanged
        DEF IInv, SubscriptionsKnown, Subscribed, RevisionsOrdered, Informed, trackerVars

LEMMA DisconnectStep ==
  ASSUME IInv, NEW c \in Clients, Disconnect(c)
  PROVE  IInv'
BY EndSessionStep DEF Disconnect

-----------------------------------------------------------------------------
(* Steps of Megaphone and of the updater. *)

LEMMA PublishStep ==
  ASSUME IInv, NEW b \in BroadcastIds, NEW v \in Versions, Publish(b, v)
  PROVE  IInv'
<1>1. UNCHANGED <<updater, response, trackerVars, sessionVars>>
  BY DEF Publish
<1>2. megaphone' \in [BroadcastIds -> Versions \cup {Unset}] /\ published' \in 0..MaxPublications
  BY MaxPublicationsAssumption DEF Publish, IInv, TypeOK
<1>3. TypeOK'
  BY <1>1, <1>2 DEF IInv, TypeOK, trackerVars, sessionVars
<1> QED BY <1>1, <1>3, TrackerUnchanged
        DEF IInv, SubscriptionsKnown, Subscribed, RevisionsOrdered, Informed, trackerVars,
            sessionVars

LEMMA UpdaterStep ==
  ASSUME IInv, UpdaterFetch \/ UpdaterLock
  PROVE  IInv'
<1>1. UNCHANGED <<megaphone, published, trackerVars, sessionVars>>
  BY DEF UpdaterFetch, UpdaterLock
<1>2. response' \in SUBSET Broadcasts /\ updater' \in {"sleep", "fetched", "writing"}
  BY DEF UpdaterFetch, UpdaterLock, IInv, TypeOK, Broadcasts
<1>3. TypeOK'
  BY <1>1, <1>2 DEF IInv, TypeOK, trackerVars, sessionVars
<1> QED BY <1>1, <1>3, TrackerUnchanged
        DEF IInv, SubscriptionsKnown, Subscribed, RevisionsOrdered, Informed, trackerVars,
            sessionVars

\* A new broadcast: nobody is subscribed to its key.
LEMMA AddNewStep ==
  ASSUME IInv, NEW b \in Broadcasts, AddNew(b), UNCHANGED sessionVars,
         UNCHANGED <<megaphone, published>>, response' \in SUBSET Broadcasts,
         updater' \in {"sleep", "fetched", "writing"}
  PROVE  IInv'
<1> DEFINE id == b.broadcast_id
           n == Len(table)
           m == Len(broadcast_list)
           r == [change_count |-> change_count + 1, broadcast |-> n + 1]
<1>1. /\ table \in Seq(BroadcastIds) /\ broadcast_versions \in Seq(Versions)
      /\ broadcast_list \in Seq(Revisions) /\ change_count \in Nat
      /\ id \in BroadcastIds /\ b.version \in Versions
  BY DEF IInv, TypeOK, Revisions, Broadcasts
<1>2. n \in Nat /\ m \in Nat /\ r \in Revisions
  BY <1>1 DEF Revisions
<1>3. r.change_count = change_count + 1 /\ r.broadcast = n + 1
  OBVIOUS
<1>4. /\ table' = Append(table, id) /\ broadcast_versions' = Append(broadcast_versions, b.version)
      /\ broadcast_list' = Append(broadcast_list, r) /\ change_count' = change_count + 1
      /\ ~Known(id)
  BY DEF AddNew
<1> HIDE DEF id, r
<1>5. /\ table' \in Seq(BroadcastIds) /\ Len(table') = n + 1 /\ table'[n + 1] = id
      /\ DOMAIN table = 1..n /\ DOMAIN table' = 1..(n + 1)
      /\ \A k \in 1..n : table'[k] = table[k]
  <2>1. IsAppend(table', table, id, BroadcastIds)
    BY <1>1, <1>4, AppendIs
  <2> QED BY <2>1 DEF IsAppend
<1>6. /\ broadcast_versions' \in Seq(Versions) /\ Len(broadcast_versions') = n + 1
      /\ \A k \in 1..n : broadcast_versions'[k] = broadcast_versions[k]
  <2>1. Len(broadcast_versions) = n
    BY DEF IInv, KeysAligned
  <2>2. IsAppend(broadcast_versions', broadcast_versions, b.version, Versions)
    BY <1>1, <1>4, AppendIs
  <2> QED BY <2>1, <2>2 DEF IsAppend
<1>7. /\ broadcast_list' \in Seq(Revisions) /\ broadcast_list'[m + 1] = r
      /\ DOMAIN broadcast_list = 1..m /\ DOMAIN broadcast_list' = 1..(m + 1)
      /\ \A i \in 1..m : broadcast_list'[i] = broadcast_list[i]
  <2>1. IsAppend(broadcast_list', broadcast_list, r, Revisions)
    BY <1>1, <1>2, <1>4, AppendIs
  <2> QED BY <2>1 DEF IsAppend
<1> HIDE DEF n, m
<1>8. /\ TypeOK'
  <2>1. change_count' \in Nat
    BY <1>1, <1>4
  <2> QED BY <1>5, <1>6, <1>7, <2>1 DEF IInv, TypeOK, Revisions, sessionVars
<1>9. KeysAligned'
  BY <1>5, <1>6 DEF KeysAligned
<1>10. IdsDistinct'
  <2>1. \A k \in 1..n : table[k] # id
    BY <1>4, <1>5 DEF Known
  <2> QED BY <1>2, <1>5, <2>1 DEF IInv, IdsDistinct
<1>11. EveryKeyListed'
  <2>1. ASSUME NEW k \in 1..n
        PROVE  \E i \in DOMAIN broadcast_list' : broadcast_list'[i].broadcast = k
    <3>1. PICK i \in 1..m : broadcast_list[i].broadcast = k
      BY <1>5, <1>7 DEF IInv, EveryKeyListed
    <3> QED BY <1>2, <1>7, <3>1
  <2>2. m + 1 \in DOMAIN broadcast_list' /\ broadcast_list'[m + 1].broadcast = n + 1
    BY <1>2, <1>3, <1>7
  <2> QED BY <1>2, <1>5, <2>1, <2>2 DEF EveryKeyListed
<1>12. SubscriptionsKnown'
  <2>1. DOMAIN table \subseteq DOMAIN table'
    BY <1>2, <1>5
  <2> QED BY <2>1 DEF IInv, SubscriptionsKnown, Subscribed, sessionVars
<1>13. \A i \in 1..m : /\ broadcast_list[i].change_count \in Nat
                       /\ broadcast_list[i].change_count <= change_count
                       /\ broadcast_list[i].broadcast \in 1..n
  <2>1. \A i \in DOMAIN broadcast_list : broadcast_list[i] \in Revisions
    BY <1>1
  <2> QED BY <1>5, <1>7, <2>1 DEF IInv, RevisionsOrdered, Revisions
<1>14. RevisionsOrdered'
  <2>1. \A i, j \in 1..(m + 1) :
          i < j => broadcast_list'[i].change_count < broadcast_list'[j].change_count
    <3> TAKE i, j \in 1..(m + 1)
    <3>1. CASE j \in 1..m
      BY <1>2, <1>7, <3>1 DEF IInv, RevisionsOrdered
    <3>2. CASE j = m + 1
      BY <1>1, <1>2, <1>3, <1>7, <1>13, <3>2
    <3> QED BY <1>2, <3>1, <3>2
  <2>2. \A i \in 1..(m + 1) : /\ broadcast_list'[i].change_count <= change_count'
                              /\ broadcast_list'[i].broadcast \in 1..(n + 1)
    <3> TAKE i \in 1..(m + 1)
    <3>1. CASE i \in 1..m
      BY <1>1, <1>2, <1>4, <1>7, <1>13, <3>1
    <3>2. CASE i = m + 1
      BY <1>1, <1>2, <1>3, <1>4, <1>7, <3>2
    <3> QED BY <1>2, <3>1, <3>2
  <2>3. \A i, j \in 1..(m + 1) :
          broadcast_list'[i].broadcast = broadcast_list'[j].broadcast => i = j
    <3> TAKE i, j \in 1..(m + 1)
    <3>1. CASE i \in 1..m /\ j \in 1..m
      BY <1>7, <3>1 DEF IInv, RevisionsOrdered
    <3>2. CASE i = m + 1 \/ j = m + 1
      BY <1>2, <1>3, <1>7, <1>13, <3>2
    <3> QED BY <1>2, <3>1, <3>2
  <2>4. \A c \in online' : broadcast_subs'[c].change_count <= change_count'
    <3>1. \A c \in online : broadcast_subs[c].change_count \in Nat
      BY DEF IInv, TypeOK
    <3> QED BY <1>1, <1>4, <3>1 DEF IInv, RevisionsOrdered, sessionVars
  <2> QED BY <1>5, <1>7, <2>1, <2>2, <2>3, <2>4 DEF RevisionsOrdered
<1>15. Informed'
  <2> SUFFICES ASSUME NEW c \in online, NEW k \in broadcast_subs[c].broadcast_list
               PROVE  \/ held[c][table'[k]] = broadcast_versions'[k]
                      \/ Newer(broadcast_list', k, broadcast_subs[c].change_count)
    BY DEF Informed, Subscribed, sessionVars
  <2>1. k \in 1..n /\ c \in Clients
    BY <1>5 DEF IInv, SubscriptionsKnown, Subscribed, TypeOK
  <2>2. \/ held[c][table[k]] = broadcast_versions[k]
        \/ Newer(broadcast_list, k, broadcast_subs[c].change_count)
    BY DEF IInv, Informed, Subscribed
  <2>3. Newer(broadcast_list, k, broadcast_subs[c].change_count)
          => Newer(broadcast_list', k, broadcast_subs[c].change_count)
    BY <1>2, <1>7 DEF Newer
  <2> QED BY <1>5, <1>6, <2>1, <2>2, <2>3
<1> QED BY <1>8, <1>9, <1>10, <1>11, <1>12, <1>14, <1>15 DEF IInv

\* A changed version: its revision moves to the end of the list, where every session
\* of the node sees it as newer.
LEMMA ChangeStep ==
  ASSUME IInv, NEW key \in DOMAIN table, NEW version \in Versions,
         change_count' = change_count + 1,
         broadcast_versions' = [broadcast_versions EXCEPT ![key] = version],
         broadcast_list' = PushRevision(broadcast_list, key, change_count + 1),
         UNCHANGED table, UNCHANGED sessionVars,
         UNCHANGED <<megaphone, published>>, response' \in SUBSET Broadcasts,
         updater' \in {"sleep", "fetched", "writing"}
  PROVE  IInv'
<1> DEFINE n == Len(table)
           m == Len(broadcast_list)
           r == [change_count |-> change_count + 1, broadcast |-> key]
<1>1. /\ table \in Seq(BroadcastIds) /\ broadcast_versions \in Seq(Versions)
      /\ broadcast_list \in Seq(Revisions) /\ change_count \in Nat
  BY DEF IInv, TypeOK, Revisions
<1>2. n \in Nat /\ m \in Nat /\ DOMAIN table = 1..n /\ DOMAIN broadcast_list = 1..m
      /\ key \in Nat
  BY <1>1
<1>3. r.change_count = change_count + 1 /\ r.broadcast = key
  OBVIOUS
<1>4. PICK f \in 1..m : broadcast_list[f].broadcast = key
  BY <1>2 DEF IInv, EveryKeyListed
<1>5. \A i \in 1..m : broadcast_list[i].broadcast = key => i = f
  BY <1>2, <1>4 DEF IInv, RevisionsOrdered
<1>6. /\ broadcast_list' \in Seq(Revisions) /\ Len(broadcast_list') = m
      /\ broadcast_list'[m] = r
      /\ \A j \in 1..(m - 1) :
           broadcast_list'[j] = IF j < f THEN broadcast_list[j] ELSE broadcast_list[j + 1]
  <2>1. change_count + 1 \in Nat
    BY <1>1
  <2>2. IsMoved(broadcast_list', broadcast_list, f, key, change_count + 1)
    BY <1>1, <1>2, <1>4, <1>5, <2>1, PushRevisionIs
  <2> QED BY <2>2 DEF IsMoved
<1>7. DOMAIN broadcast_list' = 1..m
  BY <1>6
<1>8. /\ broadcast_versions' \in Seq(Versions) /\ Len(broadcast_versions') = n
      /\ \A k \in 1..n \ {key} : broadcast_versions'[k] = broadcast_versions[k]
  <2>1. Len(broadcast_versions) = n /\ DOMAIN broadcast_versions = 1..n
    BY <1>1 DEF IInv, KeysAligned
  <2> QED BY <1>1, <1>2, <2>1
<1> HIDE DEF n, m, r
<1> DEFINE old(j) == IF j < f THEN j ELSE j + 1
<1>9. \A j \in 1..(m - 1) : /\ old(j) \in 1..m /\ old(j) # f
                            /\ broadcast_list'[j] = broadcast_list[old(j)]
  BY <1>2, <1>4, <1>6
<1>10. \A j, l \in 1..(m - 1) : (j < l => old(j) < old(l)) /\ (old(j) = old(l) => j = l)
  BY <1>2, <1>4
<1>11. \A i \in 1..m : i # f => \E j \in 1..(m - 1) : old(j) = i
  <2> SUFFICES ASSUME NEW i \in 1..m, i # f PROVE \E j \in 1..(m - 1) : old(j) = i
    OBVIOUS
  <2>1. CASE i < f
    BY <1>2, <1>4, <2>1
  <2>2. CASE i > f
    <3>1. i - 1 \in 1..(m - 1) /\ old(i - 1) = i
      BY <1>2, <1>4, <2>2
    <3> QED BY <3>1
  <2> QED BY <1>2, <1>4, <2>1, <2>2
<1> HIDE DEF old
<1>12. \A j \in 1..m : j \in 1..(m - 1) \/ j = m
  BY <1>2
<1>13. \A i \in 1..m : /\ broadcast_list[i].change_count \in Nat
                       /\ broadcast_list[i].change_count <= change_count
                       /\ broadcast_list[i].broadcast \in 1..n
  <2>1. \A i \in DOMAIN broadcast_list : broadcast_list[i] \in Revisions
    BY <1>1
  <2>2. \A i \in DOMAIN broadcast_list : broadcast_list[i].change_count \in Nat
    BY <2>1 DEF Revisions
  <2> QED BY <1>2, <2>2 DEF IInv, RevisionsOrdered
<1>14. TypeOK'
  <2>1. change_count' \in Nat
    BY <1>1
  <2> QED BY <1>6, <1>8, <2>1 DEF IInv, TypeOK, Revisions, sessionVars
<1>15. KeysAligned' /\ IdsDistinct' /\ SubscriptionsKnown'
  BY <1>8 DEF IInv, KeysAligned, IdsDistinct, SubscriptionsKnown, Subscribed, sessionVars, n
<1>16. m \in 1..m
  BY <1>2, <1>4
<1>17. EveryKeyListed'
  <2> SUFFICES ASSUME NEW k \in DOMAIN table
               PROVE  \E i \in 1..m : broadcast_list'[i].broadcast = k
    BY <1>7 DEF EveryKeyListed
  <2>1. CASE k = key
    BY <1>3, <1>6, <1>16, <2>1
  <2>2. CASE k # key
    <3>1. PICK i \in 1..m : broadcast_list[i].broadcast = k
      BY <1>2 DEF IInv, EveryKeyListed
    <3>2. PICK j \in 1..(m - 1) : old(j) = i
      BY <1>4, <1>11, <2>2, <3>1
    <3>3. j \in 1..m
      BY <1>2
    <3> QED BY <1>9, <3>1, <3>2, <3>3
  <2> QED BY <2>1, <2>2
<1>18. RevisionsOrdered'
  <2>1. \A i, j \in 1..m :
          i < j => broadcast_list'[i].change_count < broadcast_list'[j].change_count
    <3> SUFFICES ASSUME NEW i \in 1..m, NEW j \in 1..m, i < j
                 PROVE  broadcast_list'[i].change_count < broadcast_list'[j].change_count
      OBVIOUS
    <3>1. i \in 1..(m - 1)
      BY <1>2
    <3>2. CASE j = m
      <4>1. broadcast_list'[j].change_count = change_count + 1
        BY <1>3, <1>6, <3>2
      <4>2. /\ broadcast_list'[i].change_count \in Nat
            /\ broadcast_list'[i].change_count <= change_count
        BY <1>9, <1>13, <3>1
      <4> QED BY <1>1, <4>1, <4>2
    <3>3. CASE j \in 1..(m - 1)
      <4>1. /\ old(i) \in 1..m /\ old(j) \in 1..m /\ old(i) < old(j)
            /\ broadcast_list'[i] = broadcast_list[old(i)]
            /\ broadcast_list'[j] = broadcast_list[old(j)]
        BY <1>9, <1>10, <3>1, <3>3
      <4> QED BY <1>2, <4>1 DEF IInv, RevisionsOrdered
    <3> QED BY <1>12, <3>2, <3>3
  <2>2. \A i \in 1..m : /\ broadcast_list'[i].change_count <= change_count'
                        /\ broadcast_list'[i].broadcast \in 1..n
    <3> TAKE i \in 1..m
    <3>1. CASE i = m
      BY <1>1, <1>2, <1>3, <1>6, <3>1
    <3>2. CASE i \in 1..(m - 1)
      <4>1. /\ broadcast_list'[i].change_count \in Nat
            /\ broadcast_list'[i].change_count <= change_count
            /\ broadcast_list'[i].broadcast \in 1..n
        BY <1>9, <1>13, <3>2
      <4> QED BY <1>1, <4>1
    <3> QED BY <1>12, <3>1, <3>2
  <2>3. \A i \in 1..(m - 1) : broadcast_list'[i].broadcast # key
    BY <1>5, <1>9
  <2>4. \A i, j \in 1..m :
          broadcast_list'[i].broadcast = broadcast_list'[j].broadcast => i = j
    <3> SUFFICES ASSUME NEW i \in 1..m, NEW j \in 1..m,
                        broadcast_list'[i].broadcast = broadcast_list'[j].broadcast
                 PROVE  i = j
      OBVIOUS
    <3>1. CASE i \in 1..(m - 1) /\ j \in 1..(m - 1)
      <4>1. broadcast_list[old(i)].broadcast = broadcast_list[old(j)].broadcast
        BY <1>9, <3>1
      <4>2. old(i) = old(j)
        BY <1>2, <1>9, <3>1, <4>1 DEF IInv, RevisionsOrdered
      <4> QED BY <1>10, <3>1, <4>2
    <3>2. CASE i = m /\ j \in 1..(m - 1)
      BY <1>3, <1>6, <2>3, <3>2
    <3>3. CASE i \in 1..(m - 1) /\ j = m
      BY <1>3, <1>6, <2>3, <3>3
    <3> QED BY <1>12, <3>1, <3>2, <3>3
  <2>5. \A c \in online' : broadcast_subs'[c].change_count <= change_count'
    <3>1. \A c \in online : broadcast_subs[c].change_count \in Nat
      BY DEF IInv, TypeOK
    <3> QED BY <1>1, <3>1 DEF IInv, RevisionsOrdered, sessionVars
  <2> QED BY <1>2, <1>7, <2>1, <2>2, <2>4, <2>5 DEF RevisionsOrdered
<1>19. Informed'
  <2> SUFFICES ASSUME NEW c \in online, NEW k \in broadcast_subs[c].broadcast_list
               PROVE  \/ held[c][table[k]] = broadcast_versions'[k]
                      \/ Newer(broadcast_list', k, broadcast_subs[c].change_count)
    BY DEF Informed, Subscribed, sessionVars
  <2>1. k \in 1..n /\ c \in Clients
    BY <1>2 DEF IInv, SubscriptionsKnown, Subscribed, TypeOK
  <2>2. CASE k = key
    <3>1. broadcast_subs[c].change_count \in Nat
          /\ broadcast_subs[c].change_count <= change_count
      BY <2>1 DEF IInv, TypeOK, RevisionsOrdered
    <3>2. change_count + 1 > broadcast_subs[c].change_count
      BY <1>1, <3>1
    <3> QED BY <1>3, <1>6, <1>7, <1>16, <2>2, <3>2 DEF Newer
  <2>3. CASE k # key
    <3>1. \/ held[c][table[k]] = broadcast_versions[k]
          \/ Newer(broadcast_list, k, broadcast_subs[c].change_count)
      BY DEF IInv, Informed, Subscribed
    <3>2. ASSUME Newer(broadcast_list, k, broadcast_subs[c].change_count)
          PROVE  Newer(broadcast_list', k, broadcast_subs[c].change_count)
      <4>1. PICK i \in 1..m : /\ broadcast_list[i].broadcast = k
                              /\ broadcast_list[i].change_count > broadcast_subs[c].change_count
        BY <1>2, <3>2 DEF Newer
      <4>2. PICK j \in 1..(m - 1) : old(j) = i
        BY <1>4, <1>11, <2>3, <4>1
      <4>3. j \in DOMAIN broadcast_list' /\ broadcast_list'[j] = broadcast_list[i]
        BY <1>2, <1>7, <1>9, <4>2
      <4> QED BY <4>1, <4>3 DEF Newer
    <3> QED BY <1>8, <2>1, <2>3, <3>1, <3>2
  <2> QED BY <2>2, <2>3
<1> QED BY <1>14, <1>15, <1>17, <1>18, <1>19 DEF IInv

LEMMA AddBroadcastStep ==
  ASSUME IInv, NEW b \in response, add_broadcast(b)
  PROVE  IInv'
<1> DEFINE key == lookup_key(b.broadcast_id)
<1>1. b \in Broadcasts /\ response' \in SUBSET Broadcasts
      /\ updater' \in {"sleep", "fetched", "writing"}
      /\ UNCHANGED <<megaphone, published>> /\ UNCHANGED sessionVars
  BY DEF IInv, TypeOK, add_broadcast
<1>2. CASE AddNew(b)
  BY <1>1, <1>2, AddNewStep
<1>3. CASE update_broadcast(b)
  <2>1. key \in DOMAIN table /\ b.version \in Versions
    BY <1>1, <1>3, LookupFinds DEF update_broadcast, Broadcasts
  <2>2. CASE UNCHANGED trackerVars
    <3>1. TypeOK'
      BY <1>1, <2>2 DEF IInv, TypeOK, trackerVars, sessionVars
    <3> QED BY <1>1, <2>2, <3>1, TrackerUnchanged
            DEF IInv, SubscriptionsKnown, Subscribed, RevisionsOrdered, Informed, trackerVars,
                sessionVars
  <2>3. CASE ~UNCHANGED trackerVars
    <3>1. /\ change_count' = change_count + 1
          /\ broadcast_versions' = [broadcast_versions EXCEPT ![key] = b.version]
          /\ broadcast_list' = PushRevision(broadcast_list, key, change_count + 1)
          /\ UNCHANGED table
      BY <1>3, <2>3 DEF update_broadcast
    <3> HIDE DEF key
    <3> QED BY <1>1, <2>1, <3>1, ChangeStep
  <2> QED BY <2>2, <2>3
<1> QED BY <1>2, <1>3 DEF add_broadcast

-----------------------------------------------------------------------------
LEMMA InitIInv == Init => IInv
<1> SUFFICES ASSUME Init PROVE IInv
  OBVIOUS
<1>1. /\ table = <<>> /\ broadcast_versions = <<>> /\ broadcast_list = <<>> /\ change_count = 0
      /\ online = {} /\ broadcast_subs = [c \in Clients |-> NoSubs]
  BY DEF Init
<1>2. TypeOK
  BY MaxPublicationsAssumption DEF Init, TypeOK, Nothing, NoSubs
<1>3. KeysAligned /\ IdsDistinct /\ EveryKeyListed
  BY <1>1 DEF KeysAligned, IdsDistinct, EveryKeyListed
<1>4. SubscriptionsKnown
  BY <1>1 DEF SubscriptionsKnown, Subscribed, NoSubs
<1>5. RevisionsOrdered /\ Informed
  BY <1>1 DEF RevisionsOrdered, Informed
<1> QED BY <1>2, <1>3, <1>4, <1>5 DEF IInv

LEMMA NextIInv ==
  ASSUME IInv, [Next]_vars
  PROVE  IInv'
<1>1. CASE UNCHANGED vars
  <2>1. TypeOK'
    BY <1>1 DEF vars, IInv, TypeOK, trackerVars, sessionVars
  <2> QED BY <1>1, <2>1, TrackerUnchanged
          DEF vars, IInv, SubscriptionsKnown, Subscribed, RevisionsOrdered, Informed,
              trackerVars, sessionVars
<1>2. CASE Next
  BY <1>2, PublishStep, UpdaterStep, AddBroadcastStep, HelloStep, SubscribeStep, TickStep,
     PongStep, DisconnectStep DEF Next
<1> QED BY <1>1, <1>2

LEMMA Invariance == Spec => []IInv
<1>1. Init => IInv
  BY InitIInv
<1>2. IInv /\ [Next]_vars => IInv'
  BY NextIInv
<1> QED BY <1>1, <1>2, PTL DEF Spec

\* The revision list stays strictly ordered and no session is ahead of it, whatever
\* add_broadcast, broadcast_init, broadcast_subscribe and the ticks do to it.
THEOREM ListOrdered == Spec => []RevisionsOrdered
<1>1. IInv => RevisionsOrdered
  BY DEF IInv
<1> QED BY <1>1, Invariance, PTL

\* A client holds the tracker's version of every broadcast it subscribed to, or the
\* next change_count_delta of its session reports it.
THEOREM NothingMissed == Spec => []NoMissedBroadcast
<1>1. IInv => NoMissedBroadcast
  BY NotReportedIsHeld DEF NoMissedBroadcast
<1> QED BY <1>1, Invariance, PTL
=============================================================================
