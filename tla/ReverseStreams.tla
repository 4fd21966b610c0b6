--------------------------- MODULE ReverseStreams ---------------------------
(***************************************************************************)
(* The rendezvous of reverse mode.  The server accepts an external         *)
(* connection on a reverse link, files it under a fresh stream id and asks *)
(* the client, over the one control session, to open a data tunnel for     *)
(* that id.  The tunnel's StreamHello claims the connection; a timer per   *)
(* id drops a connection nobody claims.  One listener task per link, one   *)
(* timer task per id, the control session, the client's task per           *)
(* OpenStream and the server's task per data connection interleave.  A     *)
(* pinned peer may also open a data connection nobody asked it for, and    *)
(* the server may restart under the tunnels its clients are still dialling.*)
(***************************************************************************)
EXTENDS Naturals, Sequences, FiniteSets, Functions

CONSTANTS Conns,       \* external connections that may arrive
          Links,       \* TCP reverse links of the server's config
          Peers,       \* peers the server pins
          Authorised,  \* Authorised[p]: peer p's `links` in the server's config
          Offers,      \* Offers[p]: reverse links with a target in p's config
          QueueCap,    \* capacity of the open-stream channel (32 in the code)
          MaxBreaks,   \* bound: how often a control connection breaks
          MaxHellos,   \* bound: data connections the server did not ask for
          MaxRestarts, \* bound: restarts of the server
          NoConn,      \* no connection
          NoPeer       \* no control session

ASSUME ConfigAssumption == /\ Authorised \in [Peers -> SUBSET Links]
                           /\ Offers \in [Peers -> SUBSET Links]
ASSUME BoundAssumption == /\ QueueCap \in Nat \ {0}
                          /\ {MaxBreaks, MaxHellos, MaxRestarts} \subseteq Nat
ASSUME NullAssumption == NoConn \notin Conns /\ NoPeer \notin Peers

VARIABLES
  arrived,   \* history: <<c, l>>, connection c was accepted on link l
  closed,    \* external connections the server has dropped
  nextId,    \* next_stream_id
  listener,  \* the locals of each link's listener task
  pending,   \* PendingStreams: stream id -> external connection
  timers,    \* stream ids whose cleanup task is sleeping
  queue,     \* the open-stream channel
  control,   \* "binding", "serving", or "gone" (bind failed, receiver dropped)
  session,   \* the peer whose control session is being served
  live,      \* whether that session's TCP connection still works
  wire,      \* OpenStream messages sent and not yet read by the client
  tunnels,   \* the client's open-stream tasks and the data connections
  events     \* how often each bounded event has happened

vars == <<arrived, closed, nextId, listener, pending, timers, queue, control,
          session, live, wire, tunnels, events>>

serverVars  == <<nextId, listener, pending, timers>>
channelVars == <<queue, control, session, live, wire, events>>

Idle == [step |-> "accept", conn |-> NoConn, id |-> 0]
Down == [Idle EXCEPT !.step = "down"]

Limit == [break |-> MaxBreaks, hello |-> MaxHellos, restart |-> MaxRestarts]

Messages == [link : Links, id : Nat]
Listeners == [step : {"down", "accept", "insert", "send"},
              conn : Conns \cup {NoConn}, id : Nat]

\* asked: the tunnel answers an OpenStream of the server that is running now
\* (a history of the tunnel; the server cannot tell).
Tunnels == [peer : Peers, link : Links, id : Nat, asked : BOOLEAN,
            phase : {"target", "dial", "hello", "relay"},
            conn : Conns \cup {NoConn}]

TypeOK == /\ arrived \subseteq Conns \X Links
          /\ closed \subseteq Conns
          /\ nextId \in Nat \ {0}
          /\ listener \in [Links -> Listeners]
          /\ DOMAIN pending \subseteq Nat
          /\ pending \in [DOMAIN pending -> Conns]
          /\ timers \subseteq Nat
          /\ queue \in Seq(Messages)
          /\ control \in {"binding", "serving", "gone"}
          /\ session \in Peers \cup {NoPeer}
          /\ live \in BOOLEAN
          /\ wire \in Seq(Messages)
          /\ tunnels \subseteq Tunnels
          /\ events \in [DOMAIN Limit -> Nat]

\* HashMap::insert and HashMap::remove on PendingStreams.
Insert(id, c) == [i \in DOMAIN pending \cup {id} |->
                    IF i = id THEN c ELSE pending[i]]
Remove(id) == Restrict(pending, DOMAIN pending \ {id})

\* fetch_add on next_stream_id.
BumpId == nextId + 1

\* One more of a bounded kind of event.
Occurs(kind) == /\ events[kind] < Limit[kind]
                /\ events' = [events EXCEPT ![kind] = @ + 1]

Relays == {t \in tunnels : t.phase = "relay"}
Holding(c) == {l \in Links : listener[l].step = "insert" /\ listener[l].conn = c}

\* The connections the server holds and has not joined to a tunnel.
Waiting == {c \in Conns : Holding(c) # {} \/ c \in Range(pending)}

\* A reverse listener that cannot bind returns at once: it never accepts.
Init == /\ arrived = {}
        /\ closed = {}
        /\ nextId = 1
        /\ listener \in [Links -> {Idle, Down}]
        /\ pending = [i \in {} |-> NoConn]
        /\ timers = {}
        /\ queue = << >>
        /\ control = "binding"
        /\ session = NoPeer
        /\ live = FALSE
        /\ wire = << >>
        /\ tunnels = {}
        /\ events = [k \in DOMAIN Limit |-> 0]
-----------------------------------------------------------------------------
(***************************************************************************)
(* spawn_reverse_listener: accept, take an id, file the connection, then   *)
(* wait for room in the channel; the cleanup task is spawned only after    *)
(* the send has returned.                                                  *)
(***************************************************************************)
Accept(l, c) ==
  /\ listener[l].step = "accept"
  /\ \A k \in Links : <<c, k>> \notin arrived
  /\ arrived' = arrived \cup {<<c, l>>}
  /\ nextId' = BumpId
  /\ listener' = [listener EXCEPT ![l] =
                    [step |-> "insert", conn |-> c, id |-> nextId]]
  /\ UNCHANGED <<closed, pending, timers, channelVars, tunnels>>

\* Mutant: the connection is moved out of the listener before it is filed.
InsertTaken(l) ==
  /\ listener[l].step = "insert"
  /\ pending' = Insert(listener[l].id, NoConn)
  /\ listener' = [listener EXCEPT ![l].step = "send", ![l].conn = NoConn]
  /\ UNCHANGED <<arrived, closed, nextId, timers, channelVars, tunnels>>

InsertPending(l) ==
  /\ listener[l].step = "insert"
  /\ pending' = Insert(listener[l].id, listener[l].conn)
  /\ listener' = [listener EXCEPT ![l].step = "send", ![l].conn = NoConn]
  /\ UNCHANGED <<arrived, closed, nextId, timers, channelVars, tunnels>>

\* Mutant: the message carries the id read back from next_stream_id.
SendLatestId(l) ==
  /\ listener[l].step = "send"
  /\ control # "gone"
  /\ Len(queue) < QueueCap
  /\ queue' = Append(queue, [link |-> l, id |-> nextId - 1])
  /\ timers' = timers \cup {listener[l].id}
  /\ listener' = [listener EXCEPT ![l] = Idle]
  /\ UNCHANGED <<arrived, closed, nextId, pending, control, session, live,
                 wire, tunnels, events>>

\* Mutant: no cleanup task is spawned.
SendWithoutCleanup(l) ==
  /\ listener[l].step = "send"
  /\ control # "gone"
  /\ Len(queue) < QueueCap
  /\ queue' = Append(queue, [link |-> l, id |-> listener[l].id])
  /\ listener' = [listener EXCEPT ![l] = Idle]
  /\ UNCHANGED <<arrived, closed, nextId, pending, timers, control, session,
                 live, wire, tunnels, events>>

\* The send completes when the channel has room; the listener then spawns the
\* cleanup task and goes back to accept().
SendOpenStream(l) ==
  /\ listener[l].step = "send"
  /\ control # "gone"
  /\ Len(queue) < QueueCap
  /\ queue' = Append(queue, [link |-> l, id |-> listener[l].id])
  /\ timers' = timers \cup {listener[l].id}
  /\ listener' = [listener EXCEPT ![l] = Idle]
  /\ UNCHANGED <<arrived, closed, nextId, pending, control, session, live,
                 wire, tunnels, events>>

\* The receiver is gone: the connection is taken back out and dropped.
SendFails(l) ==
  /\ listener[l].step = "send"
  /\ control = "gone"
  /\ closed' = closed \cup {pending[i] : i \in DOMAIN pending \cap {listener[l].id}}
  /\ pending' = Remove(listener[l].id)
  /\ listener' = [listener EXCEPT ![l] = Idle]
  /\ UNCHANGED <<arrived, nextId, timers, channelVars, tunnels>>

\* Mutant: the cleanup task sleeps again while the entry is there.
CleanupWaitsOn(id) ==
  /\ id \in timers \ DOMAIN pending
  /\ timers' = timers \ {id}
  /\ UNCHANGED <<arrived, closed, nextId, listener, pending, channelVars,
                 tunnels>>

\* The cleanup task of one id wakes up and removes the entry if it is there.
CleanupTimer(id) ==
  /\ id \in timers
  /\ timers' = timers \ {id}
  /\ closed' = closed \cup {pending[i] : i \in DOMAIN pending \cap {id}}
  /\ pending' = Remove(id)
  /\ UNCHANGED <<arrived, nextId, listener, channelVars, tunnels>>
-----------------------------------------------------------------------------
(***************************************************************************)
(* run_control_accept_loop and the server's run_control_session: sessions  *)
(* are served one at a time and share the receiver of the channel.  The    *)
(* handshake and the queue of authenticated connections are one step here. *)
(***************************************************************************)
ControlBinds ==
  /\ control = "binding"
  /\ control' = "serving"
  /\ UNCHANGED <<arrived, closed, serverVars, queue, session, live, wire,
                 tunnels, events>>

\* Returning from the accept loop drops the receiver and what it buffered.
ControlBindFails ==
  /\ control = "binding"
  /\ control' = "gone"
  /\ queue' = << >>
  /\ UNCHANGED <<arrived, closed, serverVars, session, live, wire, tunnels,
                 events>>

SessionStarts(p) ==
  /\ control = "serving"
  /\ session = NoPeer
  /\ session' = p
  /\ live' = TRUE
  /\ UNCHANGED <<arrived, closed, serverVars, queue, control, wire, tunnels,
                 events>>

\* The select! takes a queued message and writes it to the session's socket.
ForwardOpenStream ==
  /\ session # NoPeer
  /\ queue # << >>
  /\ live
  /\ queue' = Tail(queue)
  /\ wire' = Append(wire, Head(queue))
  /\ UNCHANGED <<arrived, closed, serverVars, control, session, live, tunnels,
                 events>>

\* The write goes into the buffer of a connection that is already dead: it
\* succeeds and the message is lost.
ForwardIntoDeadSocket ==
  /\ session # NoPeer
  /\ queue # << >>
  /\ ~live
  /\ queue' = Tail(queue)
  /\ UNCHANGED <<arrived, closed, serverVars, control, session, live, wire,
                 tunnels, events>>

\* The write fails: the message taken from the channel is lost and the session
\* ends.
ForwardFails ==
  /\ session # NoPeer
  /\ queue # << >>
  /\ ~live
  /\ queue' = Tail(queue)
  /\ session' = NoPeer
  /\ UNCHANGED <<arrived, closed, serverVars, control, live, wire, tunnels,
                 events>>

\* recv_json fails: the session ends, what is queued waits for the next one.
SessionEnds ==
  /\ session # NoPeer
  /\ ~live
  /\ session' = NoPeer
  /\ UNCHANGED <<arrived, closed, serverVars, queue, control, live, wire,
                 tunnels, events>>

\* The network or the client process fails: what was in flight is lost, and
\* the server does not know yet.
ControlBreaks ==
  /\ live
  /\ Occurs("break")
  /\ live' = FALSE
  /\ wire' = << >>
  /\ UNCHANGED <<arrived, closed, serverVars, queue, control, session, tunnels>>

\* The server's process ends and is started again: every connection it held is
\* closed and the stream ids begin anew.  A client's task that has not reached
\* the server yet does not notice.
ServerRestarts ==
  /\ Occurs("restart")
  /\ closed' = closed \cup Waiting \cup {t.conn : t \in Relays}
  /\ nextId' = 1
  /\ listener' \in [Links -> {Idle, Down}]
  /\ pending' = [i \in {} |-> NoConn]
  /\ timers' = {}
  /\ queue' = << >>
  /\ control' = "binding"
  /\ session' = NoPeer
  /\ live' = FALSE
  /\ wire' = << >>
  /\ tunnels' = {[t EXCEPT !.asked = FALSE] :
                   t \in {u \in tunnels : u.phase \in {"target", "dial"}}}
  /\ UNCHANGED arrived
-----------------------------------------------------------------------------
(***************************************************************************)
(* The client's run_control_session and handle_open_stream, and the        *)
(* server's handle_data_connection for the tunnel the client dials.        *)
(***************************************************************************)
Advance(t, phase) == (tunnels \ {t}) \cup {[t EXCEPT !.phase = phase]}

\* link_expects_reverse holds: a task is spawned for the stream.
ClientOpensStream ==
  /\ wire # << >>
  /\ Head(wire).link \in Offers[session]
  /\ wire' = Tail(wire)
  /\ tunnels' = tunnels \cup
       {[peer |-> session, link |-> Head(wire).link, id |-> Head(wire).id,
         asked |-> TRUE, phase |-> "target", conn |-> NoConn]}
  /\ UNCHANGED <<arrived, closed, serverVars, queue, control, session, live,
                 events>>

\* "received OpenStream for unknown/non-reverse link, ignoring".
ClientIgnoresStream ==
  /\ wire # << >>
  /\ Head(wire).link \notin Offers[session]
  /\ wire' = Tail(wire)
  /\ UNCHANGED <<arrived, closed, serverVars, queue, control, session, live,
                 tunnels, events>>

\* The client reaches its local target and dials the server's data port.
TargetConnects(t) ==
  /\ t.phase = "target"
  /\ tunnels' = Advance(t, "dial")
  /\ UNCHANGED <<arrived, closed, serverVars, channelVars>>

\* Both ends complete the Noise handshake and the client sends StreamHello.
TunnelHandshakes(t) ==
  /\ t.phase = "dial"
  /\ tunnels' = Advance(t, "hello")
  /\ UNCHANGED <<arrived, closed, serverVars, channelVars>>

\* A pinned peer, whatever program it runs, opens a data connection nobody
\* asked it for; its StreamHello names any link and any id (bound: at most the
\* next one to be issued).
PeerSendsHello(p, l, id) ==
  /\ Occurs("hello")
  /\ tunnels' = tunnels \cup
       {[peer |-> p, link |-> l, id |-> id, asked |-> FALSE,
         phase |-> "hello", conn |-> NoConn]}
  /\ UNCHANGED <<arrived, closed, serverVars, queue, control, session, live,
                 wire>>

\* The target refuses, the limiter rejects the dial, a handshake or the
\* StreamHello times out, or the connection breaks.
TunnelFails(t) ==
  /\ t.phase # "relay"
  /\ tunnels' = tunnels \ {t}
  /\ UNCHANGED <<arrived, closed, serverVars, channelVars>>

\* Mutant: a completed handshake is taken for an authorisation.
HelloFromAnyPeer(t) == TRUE

\* The checks of handle_data_connection before it touches the pending map: the
\* link the hello names, never the link the connection was filed under.
HelloAccepted(t) == t.link \in Authorised[t.peer]

\* Mutant: the handler looks the connection up and leaves it in the map.
ClaimByLookup(t) ==
  /\ t.phase = "hello"
  /\ HelloAccepted(t)
  /\ t.id \in DOMAIN pending
  /\ tunnels' = (tunnels \ {t}) \cup
                {[t EXCEPT !.phase = "relay", !.conn = pending[t.id]]}
  /\ UNCHANGED <<arrived, closed, serverVars, channelVars>>

\* StreamHello names a stream that is still pending: the handler takes the
\* connection out of the map, whatever link it arrived on, and relays.
ClaimStream(t) ==
  /\ t.phase = "hello"
  /\ HelloAccepted(t)
  /\ t.id \in DOMAIN pending
  /\ pending' = Remove(t.id)
  /\ tunnels' = (tunnels \ {t}) \cup
                {[t EXCEPT !.phase = "relay", !.conn = pending[t.id]]}
  /\ UNCHANGED <<arrived, closed, nextId, listener, timers, channelVars>>

\* Not authorised, or the stream is unknown or already timed out.
RejectHello(t) ==
  /\ t.phase = "hello"
  /\ ~(HelloAccepted(t) /\ t.id \in DOMAIN pending)
  /\ tunnels' = tunnels \ {t}
  /\ UNCHANGED <<arrived, closed, serverVars, channelVars>>

\* copy_bidirectional returns: both connections are dropped.
RelayEnds(t) ==
  /\ t.phase = "relay"
  /\ tunnels' = tunnels \ {t}
  /\ closed' = closed \cup {t.conn}
  /\ UNCHANGED <<arrived, serverVars, channelVars>>
-----------------------------------------------------------------------------
ListenerStep(l) == InsertPending(l) \/ SendOpenStream(l) \/ SendFails(l)
Forward == ForwardOpenStream \/ ForwardIntoDeadSocket \/ ForwardFails
ClientReads == ClientOpensStream \/ ClientIgnoresStream
TunnelStep(t) == \/ TargetConnects(t) \/ TunnelHandshakes(t) \/ TunnelFails(t)
                 \/ ClaimStream(t) \/ RejectHello(t)

Next == \/ \E l \in Links : ListenerStep(l) \/ \E c \in Conns : Accept(l, c)
        \/ \E id \in timers : CleanupTimer(id)
        \/ ControlBinds \/ ControlBindFails
        \/ \E p \in Peers : SessionStarts(p)
        \/ Forward \/ SessionEnds \/ ControlBreaks \/ ServerRestarts
        \/ ClientReads
        \/ \E p \in Peers, l \in Links, id \in 1 .. nextId : PeerSendsHello(p, l, id)
        \/ \E t \in tunnels : TunnelStep(t) \/ RelayEnds(t)

Safety == Init /\ [][Next]_vars

\* What the server's own runtime guarantees: every spawned task is polled and
\* every sleep ends.  Nothing is assumed of the client or the network.
ServerFairness == /\ \A l \in Links : WF_vars(ListenerStep(l))
                  /\ WF_vars(\E id \in timers : CleanupTimer(id))
                  /\ WF_vars(ControlBinds \/ ControlBindFails)
                  /\ WF_vars(Forward)

\* Some client keeps dialling (run_control_loop never gives up).
ClientReconnects == WF_vars(\E p \in Peers : SessionStarts(p))

OfflineSpec == Safety /\ ServerFairness
Spec == Safety /\ ServerFairness /\ ClientReconnects
-----------------------------------------------------------------------------
(***************************************************************************)
(* Properties.                                                             *)
(***************************************************************************)
\* Everything in the server that holds connection c, tagged by what it is.
Owners(c) == ({"listener"} \X Holding(c))
        \cup ({"pending"} \X {i \in DOMAIN pending : pending[i] = c})
        \cup ({"relay"} \X {t \in Relays : t.conn = c})
        \cup ({"closed"} \X ({c} \cap closed))

\* Every accepted external connection has exactly one owner: the listener that
\* accepted it, one entry of the pending map, one relay, or nobody because it
\* was dropped.  A claim racing the cleanup timer, a stale OpenStream read
\* after a reconnect, or a reused stream id would break it (server.rs
\* spawn_reverse_listener and handle_data_connection share the map).
OwnedOnce == \A c \in Conns : \A l \in Links :
               <<c, l>> \in arrived => Cardinality(Owners(c)) = 1

\* A tunnel that answers an OpenStream of the running server is relayed only to
\* a connection of the link the OpenStream named.  handle_data_connection
\* removes the entry by stream id alone, so this rests on every id travelling
\* with its own link through the channel, the session and the client.  Of a
\* tunnel nobody asked for, or asked for before a restart, it says nothing.
JoinedOnOwnLink == \A t \in Relays : t.asked => <<t.conn, t.link>> \in arrived

\* What README.md:116-120 says of a peer's `links`: "an id not in a peer's list
\* is simply unreachable to that peer, enforced server-side when a data tunnel's
\* StreamHello names it".  A connection that arrived on a link is relayed only
\* to a peer granted that link.  The code compares the grants with the link the
\* hello names and takes the connection by the id the hello names.
GrantsEnforced == \A t \in Relays :
                    \E l \in Authorised[t.peer] : <<t.conn, l>> \in arrived

\* Every entry of the pending map has somebody who will remove it: its cleanup
\* task, or the listener still waiting to send its OpenStream.
PendingHasCleanup == \A i \in DOMAIN pending :
                       \/ i \in timers
                       \/ \E l \in Links : /\ listener[l].step = "send"
                                          /\ listener[l].id = i

\* The relays: a connection, the peer whose tunnel carries it, and whether the
\* running server asked for that tunnel.
Joined == {<<t.conn, t.peer, t.asked>> : t \in Relays}

Abs == INSTANCE Rendezvous WITH waiting <- Waiting, joined <- Joined

\* The server's tasks, the queues and the client implement the rendezvous: a
\* connection is joined at most once, to a tunnel of a peer that is granted a
\* link (the connection's own link when the server asked for the tunnel), never
\* after it was dropped, and is never lost, over restarts too.
ImplementsRendezvous == Abs!Spec

\* PendingStreams' comment: an entry is removed when it is claimed or by the
\* per-entry timeout if the client never answers (e.g. it is offline).
PendingResolved == \A c \in Conns : c \in Waiting ~> c \notin Waiting
=============================================================================
