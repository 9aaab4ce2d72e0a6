---------------------------- MODULE LegacyServer ----------------------------
(***************************************************************************)
(* The connections of the legacy autopush server: the accept loop with its *)
(* limit, the handshakes with their timeouts, the PingManager future that  *)
(* drives a connection, the WebpushSocket it shares with the client's      *)
(* state machine, and the MegaphoneUpdater.                                *)
(*                                                                         *)
(* All of it runs on one reactor thread: a future is polled until its poll *)
(* returns, and only the world outside (sockets, timers) moves meanwhile.  *)
(* running names the connection whose PingManager is being polled, and     *)
(* each step of its poll is one action, so that what arrives between two   *)
(* looks at a socket or a timer is seen.  The debug_assert! lines are not  *)
(* part of a release build: they are stated as properties.                 *)
(***************************************************************************)
EXTENDS Naturals, FiniteSets, Sequences

CONSTANTS
    Connections,       \* TCP connections made to the server
    MaxConnections,    \* max_connections
    CloseTimeout,      \* whether close_handshake_timeout is set
    Unsolicited,       \* whether peers send pongs nobody asked for
    Stalls,            \* whether a send queue may be full
    MaxVersion,        \* bound: revisions of the broadcasts
    MaxTexts,          \* bound: messages of a peer
    MaxInbox           \* bound: frames waiting to be read

NoConn == "none"

\* What the constants may be: assumed where the module is instantiated.
ServerConstants ==
    /\ MaxConnections \in Nat \ {0}
    /\ CloseTimeout \in BOOLEAN /\ Unsolicited \in BOOLEAN /\ Stalls \in BOOLEAN
    /\ MaxVersion \in Nat \ {0} /\ MaxTexts \in Nat /\ MaxInbox \in Nat
    /\ NoConn \notin Connections

VARIABLES
    conn,              \* the connection tasks
    net,               \* sockets: frames to read, whether sends are refused
    peer,              \* the other ends
    open_connections,  \* Server::open_connections
    running,           \* the connection being polled
    version,           \* change_count of the broadcast tracker
    updater            \* MegaphoneState

vars == <<conn, net, peer, open_connections, running, version, updater>>

\* The parts of a poll: the ping loop, the flush after it, the client.
PollSteps == {"loop", "flush", "client", "close"}

ConnType ==
    [phase: {"new", "dispatch", "handshake", "exchange", "closing", "ended",
             "refused"},
     pc: PollSteps \cup {"idle"},
     timer: {"running", "elapsed"},
     waiting: {"SendPing", "Pong", "Close"},
     ws_ping: BOOLEAN, ws_pong_timeout: BOOLEAN, ws_pong_received: BOOLEAN,
     broadcast_delta: SUBSET (1..MaxVersion),
     client: {"hello", "processing", "connecting", "input", "busy", "send", "done"},
     subs: 0..MaxVersion,     \* BroadcastSubs::change_count, 0 before hello
     reply: SUBSET (1..MaxVersion),  \* revisions in the message the client is to send
     timedOut: BOOLEAN]       \* whether PongTimeout ended the session

\* PingManager::new, WebpushSocket::new and Client::new
NewConn ==
    [phase |-> "new", pc |-> "idle", timer |-> "running",
     waiting |-> "SendPing", ws_ping |-> FALSE, ws_pong_timeout |-> FALSE,
     ws_pong_received |-> FALSE, broadcast_delta |-> {}, client |-> "hello",
     subs |-> 0, reply |-> {}, timedOut |-> FALSE]

Init ==
    /\ conn = [c \in Connections |-> NewConn]
    /\ net = [c \in Connections |-> [inbox |-> <<>>, full |-> FALSE]]
    /\ peer = [c \in Connections |->
                 [silent |-> FALSE, pings |-> 0, got |-> {}, texts |-> 0]]
    /\ open_connections = 0
    /\ running = NoConn
    /\ version = 1 /\ updater = "waiting"

Set(c, r) == conn' = [conn EXCEPT ![c] = r]
Active(c) == conn[c].phase \in {"exchange", "closing"}

-----------------------------------------------------------------------------
(***************************************************************************)
(* The accept loop and the handshakes                                      *)
(***************************************************************************)

\* Mutant: the limit is checked but the connection is not counted.
AcceptUncounted(c) ==
    /\ running = NoConn /\ conn[c].phase = "new"
    /\ Set(c, [conn[c] EXCEPT !.phase = IF open_connections >= MaxConnections
                                        THEN "refused" ELSE "dispatch"])
    /\ UNCHANGED <<net, peer, open_connections, running, version, updater>>

\* A connection over the limit is dropped without an answer.
Accept(c) ==
    /\ running = NoConn /\ conn[c].phase = "new"
    /\ IF open_connections >= MaxConnections
       THEN /\ Set(c, [conn[c] EXCEPT !.phase = "refused"])
            /\ UNCHANGED open_connections
       ELSE /\ Set(c, [conn[c] EXCEPT !.phase = "dispatch"])
            /\ open_connections' = open_connections + 1
    /\ UNCHANGED <<net, peer, running, version, updater>>

\* What client.then does with every outcome of a connection, whose future is
\* dropped with all it holds.
Ends(c, r) ==
    /\ Set(c, [NewConn EXCEPT !.phase = "ended", !.timedOut = r.timedOut])
    /\ open_connections' = open_connections - 1
    /\ running' = NoConn

\* Dispatch::poll: enough was read to tell a websocket upgrade from the other
\* requests, which are answered (or refused) and end the connection.
Dispatched(c) ==
    /\ running = NoConn /\ conn[c].phase = "dispatch" /\ ~peer[c].silent
    /\ \/ /\ Set(c, [conn[c] EXCEPT !.phase = "handshake"])
          /\ UNCHANGED <<open_connections, running>>
       \/ Ends(c, conn[c])
    /\ UNCHANGED <<net, peer, version, updater>>

\* accept_hdr_async is done: PingManager::new starts the ping interval.
Handshaken(c) ==
    /\ running = NoConn /\ conn[c].phase = "handshake" /\ ~peer[c].silent
    /\ Set(c, [conn[c] EXCEPT !.phase = "exchange"])
    /\ UNCHANGED <<net, peer, open_connections, running, version, updater>>

\* timeout(): open_handshake_timeout passed, or the socket failed.
HandshakeTimeout(c) ==
    /\ running = NoConn /\ conn[c].phase \in {"dispatch", "handshake"}
    /\ Ends(c, conn[c])
    /\ UNCHANGED <<net, peer, version, updater>>

-----------------------------------------------------------------------------
(***************************************************************************)
(* PingManager::poll: the ping loop                                        *)
(***************************************************************************)
At(c, pc) == running = c /\ conn[c].pc = pc
Rest == UNCHANGED <<open_connections, version, updater>>

\* The reactor polls the task, for whatever reason.
Poll(c) ==
    /\ running = NoConn /\ Active(c)
    /\ running' = c
    /\ Set(c, [conn[c] EXCEPT !.pc = "loop"])
    /\ UNCHANGED <<net, peer>> /\ Rest

\* send_ws_ping once the sink takes the message: a broadcast instead of a ping
\* when there is a delta.  The pings a peer can still answer are bounded.
send_ws_ping(p, delta) ==
    IF delta # {} THEN [p EXCEPT !.got = @ \cup delta]
    ELSE [p EXCEPT !.pings = IF @ < MaxInbox THEN @ + 1 ELSE @]

Pinged(c, delta) == peer' = [peer EXCEPT ![c] = send_ws_ping(@, delta)]

\* What the tracker has changed since a change_count, revision by revision.
Since(subs) == (subs + 1)..version

\* Client::broadcast_delta: what changed since the subscription last heard,
\* even if the hello response still waits.
TakeDelta(r) ==
    IF /\ r.broadcast_delta = {} /\ r.phase = "exchange"
       /\ r.subs # 0 /\ r.subs < version
    THEN [r EXCEPT !.broadcast_delta = Since(r.subs), !.subs = version]
    ELSE r

\* Mutant: the delta is taken out of the socket although it was not sent.
PollPingForgets(c) ==
    LET r == TakeDelta(conn[c]) IN
    /\ At(c, "loop") /\ conn[c].ws_ping
    /\ IF net[c].full
       THEN /\ Set(c, [r EXCEPT !.pc = "flush", !.broadcast_delta = {}])
            /\ UNCHANGED peer
       ELSE /\ Pinged(c, r.broadcast_delta)
            /\ Set(c, [r EXCEPT !.ws_ping = FALSE, !.timer = "running",
                          !.broadcast_delta = {},
                          !.waiting = IF r.broadcast_delta # {} THEN "SendPing"
                                                               ELSE "Pong"])
    /\ UNCHANGED <<net, running>> /\ Rest

\* An error of the sink ends the task: the Client is dropped as it is.
PollPing(c) ==
    LET r == TakeDelta(conn[c]) IN
    /\ At(c, "loop") /\ conn[c].ws_ping
    /\ \/ /\ net[c].full
          /\ Set(c, [r EXCEPT !.pc = "flush"])
          /\ UNCHANGED <<peer, running, open_connections>>
       \/ /\ ~net[c].full
          /\ Pinged(c, r.broadcast_delta)
          /\ Set(c, [r EXCEPT !.ws_ping = FALSE, !.timer = "running",
                        !.broadcast_delta = {},
                        !.waiting = IF r.broadcast_delta # {} THEN "SendPing"
                                                              ELSE "Pong"])
          /\ UNCHANGED <<running, open_connections>>
       \/ Ends(c, r) /\ UNCHANGED peer
    /\ UNCHANGED <<net, version, updater>>

Matching(c, w) == At(c, "loop") /\ ~conn[c].ws_ping /\ conn[c].waiting = w

WaitingForSendPing(c) ==
    /\ Matching(c, "SendPing")
    /\ Set(c, IF conn[c].timer = "elapsed" THEN [conn[c] EXCEPT !.ws_ping = TRUE]
              ELSE [conn[c] EXCEPT !.pc = "flush"])
    /\ UNCHANGED <<net, peer, running>> /\ Rest

\* Mutant: a socket with a pong timeout to deliver is looked at again at once.
WaitingForPongSpins(c) ==
    LET r == conn[c] IN
    /\ Matching(c, "Pong")
    /\ Set(c, IF r.ws_pong_received
              THEN [r EXCEPT !.timer = "running", !.waiting = "SendPing",
                             !.ws_pong_received = FALSE]
              ELSE IF r.ws_pong_timeout THEN r
              ELSE IF r.timer = "elapsed" THEN [r EXCEPT !.ws_pong_timeout = TRUE]
              ELSE [r EXCEPT !.pc = "flush"])
    /\ UNCHANGED <<net, peer, running>> /\ Rest

\* The timeout is left for the socket to report once it has nothing to read.
WaitingForPong(c) ==
    LET r == conn[c] IN
    /\ Matching(c, "Pong")
    /\ Set(c, IF r.ws_pong_received
              THEN [r EXCEPT !.timer = "running", !.waiting = "SendPing",
                             !.ws_pong_received = FALSE]
              ELSE IF r.ws_pong_timeout THEN [r EXCEPT !.pc = "flush"]
              ELSE IF r.timer = "elapsed" THEN [r EXCEPT !.ws_pong_timeout = TRUE]
              ELSE [r EXCEPT !.pc = "flush"])
    /\ UNCHANGED <<net, peer, running>> /\ Rest

\* While the timer runs there is no way out of the loop: no action here.
WaitingForClose(c) ==
    /\ Matching(c, "Close") /\ conn[c].timer = "elapsed"
    /\ Ends(c, conn[c])
    /\ UNCHANGED <<net, peer, version, updater>>

\* poll_complete sends a ping that is still due; PingManager does not learn
\* of it, and a delta that went out stays.  An error of it ends the task too.
PollComplete(c) ==
    LET r == conn[c]
        go == [r EXCEPT !.pc = IF r.phase = "closing" THEN "close" ELSE "client"]
    IN
    /\ At(c, "flush")
    /\ \/ /\ r.ws_ping /\ ~net[c].full
          /\ Pinged(c, r.broadcast_delta) /\ Set(c, [go EXCEPT !.ws_ping = FALSE])
          /\ UNCHANGED <<running, open_connections>>
       \/ /\ ~r.ws_ping \/ net[c].full
          /\ Set(c, go) /\ UNCHANGED <<peer, running, open_connections>>
       \/ Ends(c, r) /\ UNCHANGED peer
    /\ UNCHANGED <<net, version, updater>>

-----------------------------------------------------------------------------
(***************************************************************************)
(* PingManager::poll: the client, by what it does with the socket          *)
(***************************************************************************)
Returns(c, r) ==
    Set(c, [r EXCEPT !.pc = "idle"]) /\ running' = NoConn /\ UNCHANGED open_connections

\* A session that is not identified yet fails the whole task; an identified
\* one leaves the registry and is done, unless the registry refuses, which
\* fails the task too.
ClientFails(c, r) ==
    \/ Ends(c, r)
    \/ /\ r.client \notin {"hello", "processing", "connecting"}
       /\ Set(c, [r EXCEPT !.client = "done", !.reply = {}])
       /\ UNCHANGED <<open_connections, running>>

Goes(c, r) == Set(c, r) /\ UNCHANGED <<open_connections, running>>

\* A message of the peer.  The first has to be a hello; later ones make a
\* call, are answered at once, need nothing, or are refused.
\* BroadcastSubscribe moves the subscription when it is read, and its answer
\* waits to be sent.
ReadText(c, r) ==
    \/ r.client = "hello" /\ Goes(c, [r EXCEPT !.client = "processing"])
    \/ /\ r.client = "input"
       /\ \/ \E next \in {"busy", "send", "input"} : Goes(c, [r EXCEPT !.client = next])
          \/ Goes(c, [r EXCEPT !.client = "send", !.reply = Since(r.subs), !.subs = version])
    \/ ClientFails(c, r)

\* WebpushSocket's Stream::poll, frame by frame.
ReadFrame(c) ==
    LET r == conn[c] IN
    /\ At(c, "client") /\ r.client \in {"hello", "input"}
    /\ net[c].inbox # <<>>
    /\ net' = [net EXCEPT ![c].inbox = Tail(@)]
    /\ \/ /\ Head(net[c].inbox) = "pong"
          /\ Goes(c, [r EXCEPT !.ws_pong_received = TRUE, !.ws_pong_timeout = FALSE])
       \/ Head(net[c].inbox) = "text" /\ ReadText(c, r)
       \/ Head(net[c].inbox) = "close" /\ ClientFails(c, r)
    /\ UNCHANGED <<peer, version, updater>>

\* Mutant: the timeout is reported although frames are waiting.
NothingToReadEarly(c) ==
    LET r == conn[c] IN
    /\ At(c, "client") /\ r.client \in {"hello", "input"}
    /\ \/ /\ r.ws_pong_timeout
          /\ ClientFails(c, [r EXCEPT !.timedOut = TRUE])
       \/ net[c].inbox = <<>> /\ ~r.ws_pong_timeout /\ Returns(c, r)
    /\ UNCHANGED <<net, peer, version, updater>>

\* Mutant: a pong timeout is never reported.
NothingToReadWaits(c) ==
    /\ At(c, "client") /\ conn[c].client \in {"hello", "input"}
    /\ net[c].inbox = <<>>
    /\ Returns(c, conn[c])
    /\ UNCHANGED <<net, peer, version, updater>>

\* Stream::poll with nothing to read: the place where a pong timeout counts.
NothingToRead(c) ==
    LET r == conn[c] IN
    /\ At(c, "client") /\ r.client \in {"hello", "input"}
    /\ net[c].inbox = <<>>
    /\ IF r.ws_pong_timeout THEN ClientFails(c, [r EXCEPT !.timedOut = TRUE])
                            ELSE Returns(c, r)
    /\ UNCHANGED <<net, peer, version, updater>>

\* input_with_timeout: no hello within the open handshake timeout.
HelloTimeout(c) ==
    /\ At(c, "client") /\ conn[c].client = "hello"
    /\ Ends(c, conn[c])
    /\ UNCHANGED <<net, peer, version, updater>>

\* Sink::start_send: a ping that is due goes first, and may take the room of
\* the client's message.
ClientSends(c) ==
    LET r == conn[c]
        pinged == [r EXCEPT !.ws_ping = FALSE]
        p == IF r.ws_ping THEN send_ws_ping(peer[c], r.broadcast_delta) ELSE peer[c]
    IN
    /\ At(c, "client") /\ r.client = "send"
    /\ \/ net[c].full /\ Returns(c, r) /\ UNCHANGED peer
       \/ /\ ~net[c].full /\ Stalls /\ r.ws_ping
          /\ Returns(c, pinged) /\ peer' = [peer EXCEPT ![c] = p]
       \/ /\ ~net[c].full
          /\ Goes(c, [pinged EXCEPT !.client = "input", !.reply = {}])
          /\ peer' = [peer EXCEPT ![c] = [p EXCEPT !.got = @ \cup r.reply]]
       \/ ClientFails(c, r) /\ UNCHANGED peer
    /\ UNCHANGED <<net, version, updater>>

\* The client waits for the database or the registry and the socket is not
\* read; then the call is answered or fails.
ClientWaits(c) ==
    /\ At(c, "client") /\ conn[c].client \in {"processing", "connecting", "busy"}
    /\ Returns(c, conn[c])
    /\ UNCHANGED <<net, peer, version, updater>>

\* The answer to the hello: broadcast_init subscribes at once and what it
\* found goes out with the hello response, once the registry has the client.
HelloProcessed(c, r) ==
    Goes(c, [r EXCEPT !.client = "connecting", !.subs = version, !.reply = 1..version])

ClientCalled(c) ==
    LET r == conn[c] IN
    /\ At(c, "client") /\ r.client \in {"processing", "connecting", "busy"}
    /\ \/ r.client = "processing" /\ HelloProcessed(c, r)
       \/ r.client # "processing" /\ Goes(c, [r EXCEPT !.client = "send"])
       \/ ClientFails(c, r)
    /\ UNCHANGED <<net, peer, version, updater>>

\* input_or_notif finds a Disconnect: another connection has the uaid.
Disconnected(c) ==
    /\ At(c, "client") /\ conn[c].client = "input"
    /\ ClientFails(c, conn[c])
    /\ UNCHANGED <<net, peer, version, updater>>

\* The client is done: CloseState::Closing, with a timeout if one is set.
ClientDone(c) ==
    LET r == [conn[c] EXCEPT !.phase = "closing", !.pc = "close"] IN
    /\ At(c, "client") /\ conn[c].client = "done"
    /\ Set(c, IF CloseTimeout
              THEN [r EXCEPT !.timer = "running", !.waiting = "Close"] ELSE r)
    /\ UNCHANGED <<net, peer, running>> /\ Rest

\* WebpushSocket::close; the close frame needs room in the send queue, and an
\* error ends the task like a success.
CloseSocket(c) ==
    /\ At(c, "close")
    /\ (net[c].full /\ Returns(c, conn[c])) \/ Ends(c, conn[c])
    /\ UNCHANGED <<net, peer, version, updater>>

-----------------------------------------------------------------------------
(***************************************************************************)
(* Peers, sockets, timers and Megaphone                                    *)
(***************************************************************************)
World == UNCHANGED <<open_connections, running, version, updater>>

Arrives(c, frame) == net' = [net EXCEPT ![c].inbox = Append(@, frame)]

PeerPong(c) ==
    /\ Active(c) /\ ~peer[c].silent /\ Len(net[c].inbox) < MaxInbox
    /\ \/ peer[c].pings > 0 /\ peer' = [peer EXCEPT ![c].pings = @ - 1]
       \/ Unsolicited /\ UNCHANGED peer
    /\ Arrives(c, "pong")
    /\ UNCHANGED conn /\ World

PeerText(c) ==
    /\ Active(c) /\ ~peer[c].silent /\ Len(net[c].inbox) < MaxInbox
    /\ peer[c].texts < MaxTexts
    /\ peer' = [peer EXCEPT ![c].texts = @ + 1]
    /\ Arrives(c, "text")
    /\ UNCHANGED conn /\ World

\* The peer closes, or is never heard of again.
PeerLeaves(c) ==
    /\ conn[c].phase # "new" /\ ~peer[c].silent
    /\ peer' = [peer EXCEPT ![c].silent = TRUE]
    /\ \/ UNCHANGED net
       \/ Active(c) /\ Len(net[c].inbox) < MaxInbox /\ Arrives(c, "close")
    /\ UNCHANGED conn /\ World

SendQueueFills(c) ==
    /\ Stalls /\ Active(c) /\ ~net[c].full
    /\ net' = [net EXCEPT ![c].full = TRUE]
    /\ UNCHANGED <<conn, peer>> /\ World

SendQueueDrains(c) ==
    /\ net[c].full
    /\ net' = [net EXCEPT ![c].full = FALSE]
    /\ UNCHANGED <<conn, peer>> /\ World

TimerElapses(c) ==
    /\ Active(c) /\ conn[c].timer = "running"
    /\ Set(c, [conn[c] EXCEPT !.timer = "elapsed"])
    /\ UNCHANGED <<net, peer>> /\ World

\* MegaphoneUpdater::poll: a response is applied at once, an error is only
\* logged; both go back to waiting for the interval.
MegaphoneRequest ==
    /\ running = NoConn /\ updater = "waiting"
    /\ updater' = "requesting"
    /\ UNCHANGED <<conn, net, peer, open_connections, running, version>>

MegaphoneResponse ==
    /\ running = NoConn /\ updater = "requesting"
    /\ updater' = "waiting"
    /\ \/ version < MaxVersion /\ version' = version + 1
       \/ UNCHANGED version
    /\ UNCHANGED <<conn, net, peer, open_connections, running>>

-----------------------------------------------------------------------------
PollStep(c) ==
    \/ PollPing(c) \/ WaitingForSendPing(c) \/ WaitingForPong(c)
    \/ WaitingForClose(c) \/ PollComplete(c) \/ ReadFrame(c) \/ NothingToRead(c)
    \/ HelloTimeout(c) \/ ClientSends(c) \/ ClientWaits(c) \/ ClientCalled(c)
    \/ Disconnected(c) \/ ClientDone(c) \/ CloseSocket(c)

PeerStep(c) == PeerPong(c) \/ PeerText(c) \/ PeerLeaves(c) \/ SendQueueFills(c)

Next ==
    \/ \E c \in Connections :
         \/ Accept(c) \/ Dispatched(c) \/ Handshaken(c) \/ HandshakeTimeout(c)
         \/ Poll(c) \/ PollStep(c)
         \/ PeerStep(c) \/ SendQueueDrains(c) \/ TimerElapses(c)
    \/ MegaphoneRequest \/ MegaphoneResponse

Spec == Init /\ [][Next]_vars

\* A poll, once started, runs; nothing is assumed of timers and peers.
PollSpec == Spec /\ \A c \in Connections : WF_vars(PollStep(c))

\* The reactor polls every task again, timers elapse and a database call
\* returns; a peer may stop at any time, and nothing makes its socket take
\* what is sent.
FairSpec ==
    /\ PollSpec
    /\ \A c \in Connections :
         /\ SF_vars(Poll(c)) /\ WF_vars(TimerElapses(c))
         /\ SF_vars(HandshakeTimeout(c)) /\ SF_vars(HelloTimeout(c))
         /\ SF_vars(ClientCalled(c))

-----------------------------------------------------------------------------
(***************************************************************************)
(* Properties                                                              *)
(***************************************************************************)

\* The type of the state.
TypeOK ==
    /\ conn \in [Connections -> ConnType]
    /\ net \in [Connections ->
                  [inbox: Seq({"pong", "text", "close"}), full: BOOLEAN]]
    /\ peer \in [Connections -> [silent: BOOLEAN, pings: 0..MaxInbox,
                                 got: SUBSET (1..MaxVersion), texts: 0..MaxTexts]]
    /\ open_connections \in Nat
    /\ running \in Connections \cup {NoConn}
    /\ version \in 0..MaxVersion /\ updater \in {"waiting", "requesting"}

Open == {c \in Connections :
           conn[c].phase \in {"dispatch", "handshake", "exchange", "closing"}}

\* open_connections counts the connection tasks, whatever path they end on,
\* and so the server never serves more than max_connections.
SlotsCounted ==
    open_connections = Cardinality(Open) /\ open_connections <= MaxConnections

\* Every revision up to the subscription has reached the peer, waits in the
\* socket or is in the message the client is to send: whatever moved the
\* subscription, the tracker does not offer it again.
DeltaKept ==
    \A c \in Connections :
        LET r == conn[c] IN
        r.phase = "exchange" /\ r.client # "done" =>
            1..r.subs \subseteq peer[c].got \cup r.broadcast_delta \cup r.reply

\* No revision reaches a peer after a newer one.
OldestFirst ==
    [][\A c \in Connections :
         \A v \in peer'[c].got \ peer[c].got, w \in peer[c].got : w < v]_vars

\* PongTimeout never ends a session that has a pong waiting to be read or has
\* read one for the ping it waits on: "extra sure that no pong was received".
TimeoutHonest ==
    \A c \in Connections :
       conn'[c].timedOut /\ ~conn[c].timedOut =>
          /\ \A i \in DOMAIN net[c].inbox : net[c].inbox[i] # "pong"
          /\ ~conn[c].ws_pong_received
NoFalseTimeout == [][TimeoutHonest]_vars

\* Every poll of a PingManager returns to the reactor.
PollReturns == (running # NoConn) ~> (running = NoConn)

\* The slot of a peer that is gone is given back, or what the server sends
\* it is not taken: then it is never pinged.
SilentIsDropped ==
    \A c \in Connections :
        (c \in Open /\ peer[c].silent) ~> (conn[c].phase = "ended" \/ net[c].full)

\* The slot of a peer that is gone is given back whatever its socket takes.
StalledIsDropped ==
    \A c \in Connections :
        (c \in Open /\ peer[c].silent) ~> (conn[c].phase = "ended")

\* debug_assert!(!socket.ws_pong_received) of WaitingFor::SendPing.
NoStalePong ==
    \A c \in Connections : Matching(c, "SendPing") => ~conn[c].ws_pong_received

\* debug_assert!(!socket.ws_pong_timeout) of WaitingFor::Close.
NoTimeoutAtClose ==
    \A c \in Connections : Matching(c, "Close") => ~conn[c].ws_pong_timeout

=============================================================================
