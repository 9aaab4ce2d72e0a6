------------------------------ MODULE Broadcast ------------------------------
(***************************************************************************)
(* Megaphone broadcasts of one autoconnect node.                           *)
(*                                                                         *)
(* A background task polls the Megaphone service and writes what it        *)
(* answers into the node's BroadcastChangeTracker; every WebSocket session *)
(* keeps a BroadcastSubs (the broadcasts its client asked for and the last *)
(* change_count it was brought up to) and asks the tracker for a delta     *)
(* whenever its PingManager ticks.  The tracker sits behind a RwLock: the  *)
(* updater holds it for a whole Megaphone response, sessions only read it. *)
(*                                                                         *)
(* A BroadcastKey is an index into `table` (1-based here, 0-based in the   *)
(* code); `lookup` is the inverse of `table`.                              *)
(***************************************************************************)
EXTENDS Naturals, Sequences, FiniteSets

CONSTANTS
  BroadcastIds,   \* the identifiers Megaphone may ever publish
  Versions,       \* the version strings it may publish for them
  Unset,          \* no version: not published / not held
  Clients,        \* the WebSocket sessions of the node
  MaxPublications \* bound on the number of versions Megaphone publishes

ASSUME UnsetAssumption == Unset \notin Versions
ASSUME MaxPublicationsAssumption == MaxPublications \in Nat

VARIABLES
  megaphone,          \* what the Megaphone service currently publishes
  published,          \* how many versions it has published
  updater,            \* "sleep", "fetched" or "writing" (write lock held)
  response,           \* broadcasts of the response not yet added
  table,              \* BroadcastRegistry: key -> broadcast id
  broadcast_versions, \* key -> latest version
  broadcast_list,     \* revisions, oldest change first
  change_count,       \* the tracker's change count
  online,             \* clients with an identified session
  waiting,            \* PingManager state of each session
  broadcast_subs,     \* BroadcastSubs of each session
  held                \* what the client holds once it has read its socket

trackerVars == <<table, broadcast_versions, broadcast_list, change_count>>
sessionVars == <<online, waiting, broadcast_subs, held>>
vars == <<megaphone, published, updater, response, trackerVars, sessionVars>>

Broadcasts == [broadcast_id : BroadcastIds, version : Versions]
NoSubs == [broadcast_list |-> {}, change_count |-> 0]
Nothing == [b \in BroadcastIds |-> Unset]

\* A client names each broadcast at most once (the message is a JSON map).
ClientSubscriptions == UNION {[S -> Versions] : S \in SUBSET BroadcastIds}

TypeOK ==
  /\ megaphone \in [BroadcastIds -> Versions \cup {Unset}]
  /\ published \in 0..MaxPublications
  /\ updater \in {"sleep", "fetched", "writing"}
  /\ response \in SUBSET Broadcasts
  /\ table \in Seq(BroadcastIds)
  /\ broadcast_versions \in Seq(Versions)
  /\ broadcast_list \in Seq([change_count : Nat, broadcast : Nat])
  /\ change_count \in Nat
  /\ online \in SUBSET Clients
  /\ waiting \in [Clients -> {"ToPing", "ForPong"}]
  /\ broadcast_subs \in [Clients -> [broadcast_list : SUBSET Nat, change_count : Nat]]
  /\ held \in [Clients -> [BroadcastIds -> Versions \cup {Unset}]]

Init ==
  /\ megaphone = Nothing
  /\ published = 0
  /\ updater = "sleep"
  /\ response = {}
  /\ table = <<>>
  /\ broadcast_versions = <<>>
  /\ broadcast_list = <<>>
  /\ change_count = 0
  /\ online = {}
  /\ waiting = [c \in Clients |-> "ToPing"]
  /\ broadcast_subs = [c \in Clients |-> NoSubs]
  /\ held = [c \in Clients |-> Nothing]

-----------------------------------------------------------------------------
(* The tracker's queries. *)

Known(b) == \E k \in DOMAIN table : table[k] = b
lookup_key(b) == CHOOSE k \in DOMAIN table : table[k] = b

\* The sequence s without its element at position i.
Without(s, i) == [j \in 1..(Len(s) - 1) |-> IF j < i THEN s[j] ELSE s[j + 1]]

\* Mutant: a revision updated in place keeps its old position in the list.
PushRevisionInPlace(list, key, count) ==
  IF \E i \in DOMAIN list : list[i].broadcast = key
  THEN [i \in DOMAIN list |-> IF list[i].broadcast = key
                              THEN [list[i] EXCEPT !.change_count = count]
                              ELSE list[i]]
  ELSE Append(list, [change_count |-> count, broadcast |-> key])

\* broadcast_list with the revision of key brought to the end under a new count.
PushRevision(list, key, count) ==
  LET revision == [change_count |-> count, broadcast |-> key]
      At(i)    == list[i].broadcast = key
      first    == CHOOSE i \in DOMAIN list : At(i) /\ \A j \in 1..(i - 1) : ~At(j)
  IN  IF \E i \in DOMAIN list : At(i)
      THEN Append(Without(list, first), revision)
      ELSE Append(list, revision)

\* Mutant: a session one change behind is taken to be up to date.
DeltaOffByOne(subs) ==
  {broadcast_list[i].broadcast :
     i \in {n \in DOMAIN broadcast_list :
              broadcast_list[n].change_count > subs.change_count + 1}}
  \cap subs.broadcast_list

\* The keys change_count_delta reports: it walks the list backwards and stops
\* at the first revision that is not newer than the session's change_count.
change_count_delta(subs) ==
  {broadcast_list[i].broadcast :
     i \in {n \in DOMAIN broadcast_list :
              \A j \in n..Len(broadcast_list) :
                broadcast_list[j].change_count > subs.change_count}}
  \cap subs.broadcast_list

\* The named broadcasts whose version the tracker knows to be another one.
Outdated(desired) ==
  {b \in DOMAIN desired :
     Known(b) /\ broadcast_versions[lookup_key(b)] # desired[b]}

KnownKeys(desired) == {lookup_key(b) : b \in {d \in DOMAIN desired : Known(d)}}

\* The client's versions after it is told the versions of the ids in told.
Told(view, told) ==
  [b \in BroadcastIds |->
     IF b \in told THEN broadcast_versions[lookup_key(b)] ELSE view[b]]

IdsOf(keys) == {table[k] : k \in keys}

-----------------------------------------------------------------------------
(* Megaphone and the updater task. *)

\* External: the Megaphone service publishes a version of a broadcast.
Publish(b, v) ==
  /\ published < MaxPublications
  /\ published' = published + 1
  /\ megaphone[b] # v
  /\ megaphone' = [megaphone EXCEPT ![b] = v]
  /\ UNCHANGED <<updater, response, trackerVars, sessionVars>>

\* The poll answers; a failed or empty answer leaves the tracker alone.
UpdaterFetch ==
  /\ updater = "sleep"
  /\ \E b \in BroadcastIds : megaphone[b] # Unset
  /\ response' = {[broadcast_id |-> b, version |-> megaphone[b]] :
                    b \in {d \in BroadcastIds : megaphone[d] # Unset}}
  /\ updater' = "fetched"
  /\ UNCHANGED <<megaphone, published, trackerVars, sessionVars>>

\* The updater obtains the write lock.
UpdaterLock ==
  /\ updater = "fetched"
  /\ updater' = "writing"
  /\ UNCHANGED <<megaphone, published, response, trackerVars, sessionVars>>

\* The registry grows by one key; versions are inserted with it.
AddNew(b) ==
  /\ ~Known(b.broadcast_id)
  /\ change_count' = change_count + 1
  /\ table' = Append(table, b.broadcast_id)
  /\ broadcast_versions' = Append(broadcast_versions, b.version)
  /\ broadcast_list' =
       Append(broadcast_list, [change_count |-> change_count + 1,
                               broadcast |-> Len(table) + 1])

\* Mutant: the new version is stored, the change is not counted.
UpdateUncounted(b) ==
  LET key == lookup_key(b.broadcast_id)
  IN  /\ Known(b.broadcast_id)
      /\ broadcast_versions' = [broadcast_versions EXCEPT ![key] = b.version]
      /\ UNCHANGED <<table, broadcast_list, change_count>>

update_broadcast(b) ==
  LET key == lookup_key(b.broadcast_id)
  IN  /\ Known(b.broadcast_id)
      /\ \/ /\ broadcast_versions[key] = b.version
            /\ UNCHANGED trackerVars
         \/ /\ broadcast_versions[key] # b.version
            /\ change_count' = change_count + 1
            /\ broadcast_versions' = [broadcast_versions EXCEPT ![key] = b.version]
            /\ broadcast_list' = PushRevision(broadcast_list, key, change_count + 1)
            /\ UNCHANGED table

\* One broadcast of the response, in the order of a HashMap (any order); the
\* last one releases the lock and the task sleeps.
add_broadcast(b) ==
  /\ updater = "writing"
  /\ b \in response
  /\ update_broadcast(b) \/ AddNew(b)
  /\ response' = response \ {b}
  /\ updater' = IF response = {b} THEN "sleep" ELSE "writing"
  /\ UNCHANGED <<megaphone, published, sessionVars>>

-----------------------------------------------------------------------------
(* Sessions.  All of them read the tracker under the read lock. *)

ReadLocked == updater # "writing"

\* Hello: broadcast_init subscribes and reports what is out of date.
Hello(c, desired) ==
  LET view == [b \in BroadcastIds |-> IF b \in DOMAIN desired THEN desired[b] ELSE Unset]
  IN  /\ ReadLocked
      /\ c \notin online
      /\ online' = online \cup {c}
      /\ waiting' = [waiting EXCEPT ![c] = "ToPing"]
      /\ broadcast_subs' =
           [broadcast_subs EXCEPT ![c] = [broadcast_list |-> KnownKeys(desired),
                                          change_count |-> change_count]]
      /\ held' = [held EXCEPT ![c] = Told(view, Outdated(desired))]
      /\ UNCHANGED <<megaphone, published, updater, response, trackerVars>>

\* BroadcastSubscribe: first the pending delta, then the new broadcasts.  The
\* version a client names for a broadcast it is already subscribed to may be
\* one it held before deltas still in its socket.
Subscribe(c, desired) ==
  LET subs == broadcast_subs[c]
      old  == IdsOf(subs.broadcast_list)
      view == [b \in BroadcastIds |->
                 IF b \in DOMAIN desired /\ b \notin old THEN desired[b] ELSE held[c][b]]
  IN  /\ ReadLocked
      /\ c \in online
      /\ broadcast_subs' =
           [broadcast_subs EXCEPT
              ![c] = [broadcast_list |-> subs.broadcast_list \cup KnownKeys(desired),
                      change_count |-> change_count]]
      /\ held' = [held EXCEPT
                    ![c] = Told(view, IdsOf(change_count_delta(subs)) \cup Outdated(desired))]
      /\ UNCHANGED <<megaphone, published, updater, response, trackerVars, online, waiting>>

EndSession(c) ==
  /\ online' = online \ {c}
  /\ waiting' = [waiting EXCEPT ![c] = "ToPing"]
  /\ broadcast_subs' = [broadcast_subs EXCEPT ![c] = NoSubs]
  /\ held' = [held EXCEPT ![c] = Nothing]

\* The PingManager timer fires.  Without a pong since the last ping the
\* session ends; otherwise the client gets its pending delta or, if there is
\* none, a WebSocket ping.  Either way it is up to date with change_count.
Tick(c) ==
  LET delta == change_count_delta(broadcast_subs[c])
  IN  /\ c \in online
      /\ \/ waiting[c] = "ForPong" /\ EndSession(c)
         \/ /\ waiting[c] = "ToPing"
            /\ ReadLocked
            /\ broadcast_subs' = [broadcast_subs EXCEPT ![c].change_count = change_count]
            /\ held' = [held EXCEPT ![c] = Told(@, IdsOf(delta))]
            /\ waiting' = [waiting EXCEPT ![c] = IF delta = {} THEN "ForPong" ELSE "ToPing"]
            /\ UNCHANGED online
      /\ UNCHANGED <<megaphone, published, updater, response, trackerVars>>

\* A pong is read from the socket.
Pong(c) ==
  /\ c \in online
  /\ waiting[c] = "ForPong"
  /\ waiting' = [waiting EXCEPT ![c] = "ToPing"]
  /\ UNCHANGED <<megaphone, published, updater, response, trackerVars,
                 online, broadcast_subs, held>>

\* The client goes away, or its session fails for any other reason.
Disconnect(c) ==
  /\ c \in online
  /\ EndSession(c)
  /\ UNCHANGED <<megaphone, published, updater, response, trackerVars>>

Next ==
  \/ \E b \in BroadcastIds, v \in Versions : Publish(b, v)
  \/ UpdaterFetch
  \/ UpdaterLock
  \/ \E b \in response : add_broadcast(b)
  \/ \E c \in Clients : \/ \E desired \in ClientSubscriptions :
                             Hello(c, desired) \/ Subscribe(c, desired)
                        \/ Tick(c) \/ Pong(c) \/ Disconnect(c)

\* The updater loop never ends and some polls succeed; the timers of a session
\* fire for ever, and tokio's RwLock queues readers and writers fairly.
Fairness ==
  /\ WF_vars(UpdaterFetch)
  /\ WF_vars(UpdaterLock)
  /\ WF_vars(\E b \in response : add_broadcast(b))
  /\ \A c \in Clients : SF_vars(Tick(c))

Spec == Init /\ [][Next]_vars /\ Fairness

-----------------------------------------------------------------------------
(* Properties. *)

Subscribed(c) == broadcast_subs[c].broadcast_list

(***************************************************************************)
(* No change is lost to a subscriber: whatever interleaving of Megaphone   *)
(* responses, hellos, subscriptions and ticks, a client either holds the   *)
(* tracker's version of a broadcast it subscribed to, or the next          *)
(* change_count_delta of its session reports that broadcast.               *)
(***************************************************************************)
NoMissedBroadcast ==
  \A c \in online : \A k \in Subscribed(c) :
    \/ held[c][table[k]] = broadcast_versions[k]
    \/ k \in change_count_delta(broadcast_subs[c])

(***************************************************************************)
(* What the early exit of change_count_delta relies on: the revision list  *)
(* is strictly ordered by change_count, never ahead of the tracker's count *)
(* (so no session is), holds each key at most once and only known keys.    *)
(***************************************************************************)
RevisionsOrdered ==
  /\ \A i, j \in DOMAIN broadcast_list :
       i < j => broadcast_list[i].change_count < broadcast_list[j].change_count
  /\ \A i \in DOMAIN broadcast_list :
       /\ broadcast_list[i].change_count <= change_count
       /\ broadcast_list[i].broadcast \in DOMAIN table
  /\ \A i, j \in DOMAIN broadcast_list :
       broadcast_list[i].broadcast = broadcast_list[j].broadcast => i = j
  /\ \A c \in online : broadcast_subs[c].change_count <= change_count

(***************************************************************************)
(* A session that stays up and subscribed to a broadcast ends up holding   *)
(* the version Megaphone settles on, through the poll, the lock and the    *)
(* timer, however the pings and deltas interleave.                         *)
(***************************************************************************)
EventuallyInformed ==
  \A c \in Clients, b \in BroadcastIds, v \in Versions :
    <>[](c \in online /\ b \in IdsOf(Subscribed(c)) /\ megaphone[b] = v)
      => <>[](held[c][b] = v)
=============================================================================
