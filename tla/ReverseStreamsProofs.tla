------------------------ MODULE ReverseStreamsProofs ------------------------
(***************************************************************************)
(* Theorems about ReverseStreams for every set of connections, links and   *)
(* peers and every capacity of the open-stream channel.                    *)
(***************************************************************************)
EXTENDS ReverseStreams, FiniteSetTheorems, TLAPS

\* The <<link, stream id>> pairs the running server has sent and that are on
\* their way back to the pending map: queued, on the wire, or carried by a
\* tunnel the server asked for.
Signals == {<<queue[i].link, queue[i].id>> : i \in DOMAIN queue}
      \cup {<<wire[i].link, wire[i].id>> : i \in DOMAIN wire}
      \cup {<<t.link, t.id>> : t \in {u \in tunnels : u.asked}}

\* Stream ids are issued once: what is under way carries an id below next_id,
\* two listeners never work on the same id, and the id a listener is about to
\* insert is neither filed nor signalled yet.
IdsFresh ==
  /\ \A i \in DOMAIN pending : i < nextId
  /\ \A s \in Signals : s[2] < nextId
  /\ \A l \in Links : listener[l].step \in {"insert", "send"} =>
       /\ listener[l].id < nextId
       /\ \A k \in Links : /\ listener[k].step \in {"insert", "send"}
                            /\ listener[k].id = listener[l].id
                            => k = l
  /\ \A l \in Links : listener[l].step = "insert" =>
       /\ listener[l].id \notin DOMAIN pending
       /\ \A s \in Signals : s[2] # listener[l].id

\* Who passes on an id of the server names the link its connection arrived on.
LinksAgree ==
  /\ \A l \in Links : listener[l].step = "insert" =>
       <<listener[l].conn, l>> \in arrived
  /\ \A l \in Links :
       /\ listener[l].step = "send"
       /\ listener[l].id \in DOMAIN pending
       => <<pending[listener[l].id], l>> \in arrived
  /\ \A s \in Signals : s[2] \in DOMAIN pending =>
       <<pending[s[2]], s[1]>> \in arrived

\* No connection has two owners.
Exclusive ==
  /\ \A l, k \in Links :
       /\ listener[l].step = "insert" /\ listener[k].step = "insert"
       /\ listener[l].conn = listener[k].conn
       => l = k
  /\ \A l \in Links : listener[l].step = "insert" =>
       /\ \A i \in DOMAIN pending : pending[i] # listener[l].conn
       /\ \A t \in Relays : t.conn # listener[l].conn
       /\ listener[l].conn \notin closed
  /\ \A i, j \in DOMAIN pending : pending[i] = pending[j] => i = j
  /\ \A i \in DOMAIN pending : /\ \A t \in Relays : t.conn # pending[i]
                               /\ pending[i] \notin closed
  /\ \A t, u \in Relays : t.conn = u.conn => t = u
  /\ \A t \in Relays : t.conn \notin closed

\* Every connection something owns has arrived, and every connection that has
\* arrived is owned.
Accounted ==
  /\ \A i \in DOMAIN pending : \E l \in Links : <<pending[i], l>> \in arrived
  /\ \A c \in closed : \E l \in Links : <<c, l>> \in arrived
  /\ \A t \in Relays : \E l \in Links : <<t.conn, l>> \in arrived
  /\ \A c \in Conns, l \in Links : <<c, l>> \in arrived =>
       \/ \E k \in Links : listener[k].step = "insert" /\ listener[k].conn = c
       \/ \E i \in DOMAIN pending : pending[i] = c
       \/ \E t \in Relays : t.conn = c
       \/ c \in closed

\* What the types of the messages and of the relays rest on: only a working
\* session has messages in flight, and a task that holds a connection holds a
\* real one.
Consistent ==
  /\ live => session # NoPeer
  /\ wire # << >> => live
  /\ \A l \in Links : listener[l].step = "insert" => listener[l].conn \in Conns
  /\ \A t \in tunnels : t.phase = "relay" => t.conn \in Conns

\* The inductive invariant behind the theorems below.
IInv == /\ TypeOK /\ Consistent /\ IdsFresh /\ LinksAgree
        /\ Exclusive /\ Accounted /\ JoinedOnOwnLink /\ PendingHasCleanup

Phases == {"target", "dial", "hello", "relay"}

\* A tunnel that advances keeps its peer, link, stream id and origin.
LEMMA AdvanceTunnel ==
  ASSUME NEW t \in Tunnels, TargetConnects(t) \/ TunnelHandshakes(t)
  PROVE  \E u \in Tunnels :
           /\ u.peer = t.peer /\ u.link = t.link /\ u.id = t.id /\ u.asked = t.asked
           /\ t.phase # "relay" /\ u.phase # "relay"
           /\ tunnels' = (tunnels \ {t}) \cup {u}
<1>1. ASSUME NEW ph \in Phases
      PROVE  LET u == [t EXCEPT !.phase = ph]
             IN  /\ u \in Tunnels
                 /\ u.peer = t.peer /\ u.link = t.link /\ u.id = t.id /\ u.asked = t.asked
                 /\ u.phase = ph
  BY DEF Tunnels, Phases
<1>2. CASE TargetConnects(t)
  <2> DEFINE u == [t EXCEPT !.phase = "dial"]
  <2>1. /\ u \in Tunnels /\ u.peer = t.peer /\ u.link = t.link /\ u.id = t.id /\ u.asked = t.asked
        /\ u.phase = "dial"
    BY <1>1 DEF Phases
  <2>2. t.phase # "relay" /\ tunnels' = (tunnels \ {t}) \cup {u}
    BY <1>2 DEF TargetConnects, Advance
  <2> QED BY <2>1, <2>2
<1>3. CASE TunnelHandshakes(t)
  <2> DEFINE u == [t EXCEPT !.phase = "hello"]
  <2>1. /\ u \in Tunnels /\ u.peer = t.peer /\ u.link = t.link /\ u.id = t.id /\ u.asked = t.asked
        /\ u.phase = "hello"
    BY <1>1 DEF Phases
  <2>2. t.phase # "relay" /\ tunnels' = (tunnels \ {t}) \cup {u}
    BY <1>3 DEF TunnelHandshakes, Advance
  <2> QED BY <2>1, <2>2
<1> QED BY <1>2, <1>3

\* A claim turns the tunnel into a relay to the connection it removed.
LEMMA ClaimTunnel ==
  ASSUME NEW t \in Tunnels, ClaimStream(t), TypeOK
  PROVE  \E u \in Tunnels :
           /\ u.peer = t.peer /\ u.link = t.link /\ u.id = t.id /\ u.asked = t.asked
           /\ t.phase # "relay" /\ u.phase = "relay" /\ u.conn = pending[t.id]
           /\ tunnels' = (tunnels \ {t}) \cup {u}
<1> DEFINE u == [t EXCEPT !.phase = "relay", !.conn = pending[t.id]]
<1>1. pending[t.id] \in Conns
  BY DEF ClaimStream, TypeOK
<1>2. ASSUME NEW c \in Conns
      PROVE  LET v == [t EXCEPT !.phase = "relay", !.conn = c]
             IN  /\ v \in Tunnels
                 /\ v.peer = t.peer /\ v.link = t.link /\ v.id = t.id /\ v.asked = t.asked
                 /\ v.phase = "relay" /\ v.conn = c
  BY DEF Tunnels
<1>3. /\ u \in Tunnels /\ u.peer = t.peer /\ u.link = t.link /\ u.id = t.id /\ u.asked = t.asked
      /\ u.phase = "relay" /\ u.conn = pending[t.id]
  BY <1>1, <1>2
<1>4. t.phase # "relay" /\ tunnels' = (tunnels \ {t}) \cup {u}
  BY DEF ClaimStream
<1> QED BY <1>3, <1>4

\* The sequence operations on channels of messages.
LEMMA MessageSeqs ==
  /\ << >> \in Seq(Messages)
  /\ \A q \in Seq(Messages) : q # << >> =>
       /\ Head(q) \in Messages
       /\ Tail(q) \in Seq(Messages)
  /\ \A q \in Seq(Messages) : \A m \in Messages : Append(q, m) \in Seq(Messages)
<1> QED BY Z3

\* The counters of events keep their type.
LEMMA OccursType ==
  ASSUME NEW k \in DOMAIN Limit, events \in [DOMAIN Limit -> Nat], Occurs(k)
  PROVE  events' \in [DOMAIN Limit -> Nat]
<1>1. events[k] \in Nat /\ events' = [events EXCEPT ![k] = events[k] + 1]
  BY DEF Occurs
<1>2. PICK n \in Nat : n = events[k] + 1
  BY <1>1
<1> QED BY <1>1, <1>2

\* A restart keeps only tunnels that have not reached the server.
LEMMA RestartTunnels ==
  ASSUME TypeOK, ServerRestarts
  PROVE  /\ tunnels' \subseteq Tunnels
         /\ \A u \in tunnels' : u.phase # "relay" /\ ~u.asked
<1> SUFFICES ASSUME NEW u \in tunnels'
             PROVE  u \in Tunnels /\ u.phase # "relay" /\ ~u.asked
  OBVIOUS
<1>1. PICK t \in tunnels : /\ t.phase \in {"target", "dial"}
                           /\ u = [t EXCEPT !.asked = FALSE]
  BY DEF ServerRestarts
<1>2. t \in Tunnels
  BY DEF TypeOK
<1> QED BY <1>1, <1>2 DEF Tunnels

LEMMA RestartType ==
  ASSUME TypeOK, Consistent, ServerRestarts
  PROVE  TypeOK' /\ Consistent'
<1>1. queue' \in Seq(Messages) /\ wire' \in Seq(Messages)
  BY MessageSeqs DEF ServerRestarts
<1>2. /\ listener' \in [Links -> Listeners]
      /\ \A l \in Links : listener'[l].step \notin {"insert", "send"}
  BY NullAssumption DEF ServerRestarts, Idle, Down, Listeners
<1>3. DOMAIN pending' \subseteq Nat /\ pending' \in [DOMAIN pending' -> Conns]
  BY DEF ServerRestarts
<1>4. closed' \subseteq Conns
  <2>1. Waiting \subseteq Conns /\ \A t \in Relays : t.conn \in Conns
    BY DEF Waiting, Relays, Consistent
  <2>2. closed' = closed \cup Waiting \cup {t.conn : t \in Relays}
    BY DEF ServerRestarts
  <2> QED BY <2>1, <2>2 DEF TypeOK
<1>5. events' \in [DOMAIN Limit -> Nat]
  BY OccursType DEF ServerRestarts, TypeOK, Limit
<1>6. /\ arrived' = arrived /\ nextId' = 1 /\ timers' = {}
      /\ control' = "binding" /\ session' = NoPeer /\ live' = FALSE
      /\ wire' = << >>
  BY DEF ServerRestarts
<1>7. TypeOK'
  <2>1. /\ arrived' \subseteq Conns \X Links /\ nextId' \in Nat \ {0}
        /\ timers' \subseteq Nat /\ control' \in {"binding", "serving", "gone"}
        /\ session' \in Peers \cup {NoPeer} /\ live' \in BOOLEAN
    <3>1. arrived' \subseteq Conns \X Links
      BY <1>6 DEF TypeOK
    <3>2. nextId' \in Nat \ {0}
      BY <1>6
    <3>3. /\ timers' \subseteq Nat /\ control' \in {"binding", "serving", "gone"}
          /\ session' \in Peers \cup {NoPeer}
      BY <1>6
    <3>4. live' \in BOOLEAN
      BY <1>6
    <3> QED BY <3>1, <3>2, <3>3, <3>4
  <2>2. tunnels' \subseteq Tunnels
    BY RestartTunnels
  <2> QED BY <1>1, <1>2, <1>3, <1>4, <1>5, <2>1, <2>2 DEF TypeOK
<1>8. Consistent'
  BY <1>2, <1>6, RestartTunnels DEF Consistent
<1> QED BY <1>7, <1>8

\* Type correctness and Consistent are preserved together.
LEMMA TypeStep ==
  ASSUME TypeOK, Consistent, [Next]_vars PROVE TypeOK' /\ Consistent'
<1> USE ConfigAssumption, BoundAssumption, NullAssumption DEF TypeOK, Consistent
<1>1. ASSUME NEW l \in Links, NEW c \in Conns, Accept(l, c)
      PROVE  TypeOK' /\ Consistent'
  BY <1>1 DEF Accept, BumpId, channelVars, Listeners
<1>2. ASSUME NEW l \in Links, InsertPending(l) PROVE TypeOK' /\ Consistent'
  BY <1>2 DEF InsertPending, Insert, channelVars, Listeners
<1>3. ASSUME NEW l \in Links, SendOpenStream(l) PROVE TypeOK' /\ Consistent'
  BY <1>3 DEF SendOpenStream, Idle, Listeners, Messages
<1>4. ASSUME NEW l \in Links, SendFails(l) PROVE TypeOK' /\ Consistent'
  BY <1>4 DEF SendFails, Remove, Restrict, Idle, channelVars, Listeners
<1>5. ASSUME NEW id \in timers, CleanupTimer(id) PROVE TypeOK' /\ Consistent'
  BY <1>5 DEF CleanupTimer, Remove, Restrict, channelVars
<1>6. ASSUME ControlBinds \/ ControlBindFails PROVE TypeOK' /\ Consistent'
  <2>1. queue' \in Seq(Messages)
    BY <1>6, MessageSeqs DEF ControlBinds, ControlBindFails
  <2>2. TypeOK'
    BY <1>6, <2>1 DEF ControlBinds, ControlBindFails, serverVars
  <2>3. Consistent'
    BY <1>6 DEF ControlBinds, ControlBindFails, serverVars
  <2> QED BY <2>2, <2>3
<1>7. ASSUME NEW p \in Peers, SessionStarts(p) PROVE TypeOK' /\ Consistent'
  BY <1>7 DEF SessionStarts, serverVars
<1>8. ASSUME Forward \/ SessionEnds PROVE TypeOK' /\ Consistent'
  <2> USE <1>8 DEF Forward, ForwardOpenStream, ForwardIntoDeadSocket,
                   ForwardFails, SessionEnds, serverVars
  <2>1. queue # << >> => /\ Tail(queue) \in Seq(Messages)
                         /\ Append(wire, Head(queue)) \in Seq(Messages)
    <3>1. queue \in Seq(Messages) /\ wire \in Seq(Messages)
      OBVIOUS
    <3> QED BY ONLY <3>1, MessageSeqs
  <2>2. queue' \in Seq(Messages)
    BY <2>1
  <2>3. wire' \in Seq(Messages)
    BY <2>1
  <2>4. TypeOK'
    BY <2>2, <2>3
  <2>5. Consistent'
    OBVIOUS
  <2> QED BY <2>4, <2>5
<1>9. ASSUME ControlBreaks PROVE TypeOK' /\ Consistent'
  <2> USE <1>9 DEF ControlBreaks, serverVars
  <2>1. wire' \in Seq(Messages) /\ events' \in [DOMAIN Limit -> Nat]
    <3>1. events' \in [DOMAIN Limit -> Nat]
      BY OccursType DEF ControlBreaks, Limit
    <3> QED BY <3>1, MessageSeqs
  <2>2. TypeOK'
    <3> HIDE DEF ControlBreaks
    <3>1. /\ UNCHANGED <<arrived, closed, serverVars, queue, control, session,
                         tunnels>>
          /\ live' = FALSE
      BY DEF ControlBreaks
    <3> QED BY <2>1, <3>1
  <2>3. Consistent'
    OBVIOUS
  <2> QED BY <2>2, <2>3
<1>10. ASSUME ClientReads PROVE TypeOK' /\ Consistent'
  <2> USE <1>10 DEF ClientReads, ClientOpensStream, ClientIgnoresStream, serverVars
  <2>1. Head(wire) \in Messages /\ wire' \in Seq(Messages) /\ session \in Peers
    BY MessageSeqs
  <2>2. tunnels' \subseteq Tunnels
    <3>1. PICK m \in Messages : m = Head(wire)
      BY <2>1
    <3>2. [peer |-> session, link |-> m.link, id |-> m.id, asked |-> TRUE,
           phase |-> "target", conn |-> NoConn] \in Tunnels
      BY <2>1 DEF Tunnels, Messages
    <3> QED BY <3>1, <3>2
  <2>3. TypeOK'
    BY <2>1, <2>2
  <2>4. \A t \in tunnels' : t.phase = "relay" => t.conn \in Conns
    BY <2>1
  <2>5. Consistent'
    BY <2>4
  <2> QED BY <2>3, <2>5
<1>11. ASSUME NEW t \in tunnels, TunnelStep(t) PROVE TypeOK' /\ Consistent'
  <2>1. t \in Tunnels
    BY DEF TypeOK
  <2>2. CASE TargetConnects(t) \/ TunnelHandshakes(t)
    <3>1. PICK u \in Tunnels : /\ u.phase # "relay"
                               /\ tunnels' = (tunnels \ {t}) \cup {u}
      BY <2>1, <2>2, AdvanceTunnel
    <3>2. UNCHANGED <<arrived, closed, serverVars, channelVars>>
      BY <2>2 DEF TargetConnects, TunnelHandshakes
    <3> QED BY <3>1, <3>2 DEF serverVars, channelVars
  <2>3. CASE ClaimStream(t)
    <3>1. PICK u \in Tunnels : /\ u.conn = pending[t.id]
                               /\ tunnels' = (tunnels \ {t}) \cup {u}
      BY <2>1, <2>3, ClaimTunnel
    <3>2. /\ t.id \in DOMAIN pending /\ pending' = Remove(t.id)
          /\ UNCHANGED <<arrived, closed, nextId, listener, timers, channelVars>>
      BY <2>3 DEF ClaimStream
    <3> QED BY <3>1, <3>2 DEF channelVars, Remove, Restrict
  <2>4. CASE TunnelFails(t) \/ RejectHello(t)
    BY <2>4 DEF TunnelFails, RejectHello, serverVars, channelVars
  <2> QED BY <1>11, <2>2, <2>3, <2>4 DEF TunnelStep
<1>12. ASSUME NEW t \in tunnels, RelayEnds(t) PROVE TypeOK' /\ Consistent'
  BY <1>12 DEF RelayEnds, serverVars, channelVars
<1>13. CASE UNCHANGED vars
  BY <1>13 DEF vars
<1>14. ASSUME NEW p \in Peers, NEW l \in Links, NEW id \in 1 .. nextId,
              PeerSendsHello(p, l, id)
       PROVE  TypeOK' /\ Consistent'
  <2> DEFINE t == [peer |-> p, link |-> l, id |-> id, asked |-> FALSE,
                   phase |-> "hello", conn |-> NoConn]
  <2>1. t \in Tunnels /\ t.phase # "relay"
    <3>1. id \in Nat
      BY DEF TypeOK
    <3> QED BY <3>1 DEF Tunnels
  <2>2. /\ tunnels' = tunnels \cup {t}
        /\ UNCHANGED <<arrived, closed, serverVars, queue, control, session,
                       live, wire>>
    BY <1>14 DEF PeerSendsHello
  <2>3. events' \in [DOMAIN Limit -> Nat]
    BY <1>14, OccursType DEF PeerSendsHello, Limit
  <2> HIDE DEF t
  <2> QED BY <2>1, <2>2, <2>3 DEF serverVars
<1>15. ASSUME ServerRestarts PROVE TypeOK' /\ Consistent'
  BY <1>15, RestartType
<1> QED
  BY <1>1, <1>2, <1>3, <1>4, <1>5, <1>6, <1>7, <1>8, <1>9, <1>10, <1>11, <1>12,
     <1>13, <1>14, <1>15 DEF Next, ListenerStep

-----------------------------------------------------------------------------
(***************************************************************************)
(* How each action changes the signals under way.                          *)
(***************************************************************************)

\* Tail, Head and Append only move or add one message.
LEMMA SeqMembers ==
  /\ \A q \in Seq(Messages) : q # << >> =>
       /\ \E i \in DOMAIN q : Head(q) = q[i]
       /\ \A j \in DOMAIN Tail(q) : \E i \in DOMAIN q : Tail(q)[j] = q[i]
  /\ \A q \in Seq(Messages) : \A m \in Messages : \A j \in DOMAIN Append(q, m) :
       Append(q, m)[j] = m \/ \E i \in DOMAIN q : Append(q, m)[j] = q[i]
<1>1. ASSUME NEW q \in Seq(Messages), q # << >>
      PROVE  /\ \E i \in DOMAIN q : Head(q) = q[i]
             /\ \A j \in DOMAIN Tail(q) : \E i \in DOMAIN q : Tail(q)[j] = q[i]
  <2>1. Len(q) \in Nat /\ Len(q) > 0 /\ DOMAIN q = 1 .. Len(q) /\ Head(q) = q[1]
    BY <1>1
  <2>2. /\ DOMAIN Tail(q) = 1 .. (Len(q) - 1)
        /\ \A j \in 1 .. (Len(q) - 1) : Tail(q)[j] = q[j + 1]
    BY <1>1
  <2>3. \A j \in 1 .. (Len(q) - 1) : j + 1 \in 1 .. Len(q)
    BY <2>1
  <2> QED BY <2>1, <2>2, <2>3
<1>2. ASSUME NEW q \in Seq(Messages), NEW m \in Messages, NEW j \in DOMAIN Append(q, m)
      PROVE  Append(q, m)[j] = m \/ \E i \in DOMAIN q : Append(q, m)[j] = q[i]
  OBVIOUS
<1> QED BY <1>1, <1>2

\* A completed send is the only step that adds a signal.
LEMMA SignalsGrow ==
  ASSUME TypeOK, NEW l \in Links, SendOpenStream(l)
  PROVE  Signals' \subseteq Signals \cup {<<l, listener[l].id>>}
<1> DEFINE m == [link |-> l, id |-> listener[l].id]
<1>1. queue \in Seq(Messages) /\ m \in Messages /\ m.link = l /\ m.id = listener[l].id
  BY DEF TypeOK, Messages, Listeners
<1>2. queue' = Append(queue, m) /\ wire' = wire /\ tunnels' = tunnels
  BY DEF SendOpenStream
<1> HIDE DEF m
<1>3. \A j \in DOMAIN queue' : queue'[j] = m \/ \E i \in DOMAIN queue : queue'[j] = queue[i]
  BY <1>1, <1>2, SeqMembers
<1> QED BY <1>1, <1>2, <1>3 DEF Signals

\* Forwarding, reading and losing messages never adds one.
LEMMA SignalsMove ==
  ASSUME TypeOK,
         \/ ControlBinds \/ ControlBindFails
         \/ Forward \/ SessionEnds \/ ControlBreaks \/ ClientReads
  PROVE  Signals' \subseteq Signals
<1> USE DEF Signals
<1>1. CASE ControlBinds \/ SessionEnds
  BY <1>1 DEF ControlBinds, SessionEnds
<1>2. CASE ControlBindFails
  <2>1. wire' = wire /\ tunnels' = tunnels /\ DOMAIN queue' = {}
    BY <1>2 DEF ControlBindFails
  <2> QED BY <2>1
<1>3. CASE ControlBreaks
  <2>1. queue' = queue /\ tunnels' = tunnels /\ DOMAIN wire' = {}
    BY <1>3 DEF ControlBreaks
  <2> QED BY <2>1
<1>4. CASE Forward
  <2>1. queue \in Seq(Messages) /\ wire \in Seq(Messages) /\ queue # << >>
    BY <1>4 DEF Forward, ForwardOpenStream, ForwardIntoDeadSocket, ForwardFails,
                TypeOK
  <2>2. Head(queue) \in Messages
    BY <2>1, MessageSeqs
  <2>3. PICK h \in DOMAIN queue : Head(queue) = queue[h]
    BY <2>1, SeqMembers
  <2>4. \A j \in DOMAIN Tail(queue) : \E i \in DOMAIN queue : Tail(queue)[j] = queue[i]
    BY <2>1, SeqMembers
  <2>5. \A j \in DOMAIN Append(wire, Head(queue)) :
          \/ Append(wire, Head(queue))[j] = queue[h]
          \/ \E i \in DOMAIN wire : Append(wire, Head(queue))[j] = wire[i]
    BY <2>1, <2>2, <2>3, SeqMembers
  <2>6. /\ queue' = Tail(queue) /\ tunnels' = tunnels
        /\ wire' = wire \/ wire' = Append(wire, Head(queue))
    BY <1>4 DEF Forward, ForwardOpenStream, ForwardIntoDeadSocket, ForwardFails
  <2> QED BY <2>3, <2>4, <2>5, <2>6
<1>5. CASE ClientReads
  <2>1. wire \in Seq(Messages) /\ wire # << >>
    BY <1>5 DEF ClientReads, ClientOpensStream, ClientIgnoresStream, TypeOK
  <2>2. PICK h \in DOMAIN wire : Head(wire) = wire[h]
    BY <2>1, SeqMembers
  <2>3. \A j \in DOMAIN Tail(wire) : \E i \in DOMAIN wire : Tail(wire)[j] = wire[i]
    BY <2>1, SeqMembers
  <2>4. queue' = queue /\ wire' = Tail(wire)
    BY <1>5 DEF ClientReads, ClientOpensStream, ClientIgnoresStream
  <2>5. \A t \in tunnels' : t \in tunnels \/ (t.link = wire[h].link /\ t.id = wire[h].id)
    BY <1>5, <2>2 DEF ClientReads, ClientOpensStream, ClientIgnoresStream
  <2> QED BY <2>3, <2>4, <2>5
<1> QED BY <1>1, <1>2, <1>3, <1>4, <1>5

-----------------------------------------------------------------------------
(***************************************************************************)
(* Each action preserves the invariant.  Bookkeeping is what remains of    *)
(* IInv once the types are known.                                          *)
(***************************************************************************)
Bookkeeping == /\ IdsFresh /\ LinksAgree /\ Exclusive /\ Accounted
               /\ JoinedOnOwnLink /\ PendingHasCleanup

\* A step that leaves the server's tables and the relays alone, and adds no
\* signal, preserves everything.
LEMMA QuietStep ==
  ASSUME TypeOK, Bookkeeping, UNCHANGED <<arrived, closed, serverVars>>,
         Relays' = Relays, Signals' \subseteq Signals
  PROVE  Bookkeeping'
<1> USE DEF serverVars
<1>1. IdsFresh' BY DEF Bookkeeping, IdsFresh
<1>2. LinksAgree' BY DEF Bookkeeping, LinksAgree
<1>3. Exclusive' BY DEF Bookkeeping, Exclusive
<1>4. Accounted' BY DEF Bookkeeping, Accounted
<1>5. JoinedOnOwnLink' BY DEF Bookkeeping, JoinedOnOwnLink
<1>6. PendingHasCleanup' BY DEF Bookkeeping, PendingHasCleanup
<1> QED BY <1>1, <1>2, <1>3, <1>4, <1>5, <1>6 DEF Bookkeeping

\* The control channel and the client's side only move messages.
LEMMA ChannelStep ==
  ASSUME TypeOK, Bookkeeping,
         \/ ControlBinds \/ ControlBindFails \/ \E p \in Peers : SessionStarts(p)
         \/ Forward \/ SessionEnds \/ ControlBreaks \/ ClientReads
  PROVE  Bookkeeping'
<1>1. UNCHANGED <<arrived, closed, serverVars>>
  BY DEF ControlBinds, ControlBindFails, SessionStarts, Forward,
         ForwardOpenStream, ForwardIntoDeadSocket, ForwardFails, SessionEnds,
         ControlBreaks, ClientReads, ClientOpensStream, ClientIgnoresStream
<1>2. Relays' = Relays
  BY DEF ControlBinds, ControlBindFails, SessionStarts, Forward,
         ForwardOpenStream, ForwardIntoDeadSocket, ForwardFails, SessionEnds,
         ControlBreaks, ClientReads, ClientOpensStream, ClientIgnoresStream,
         Relays
<1>3. Signals' \subseteq Signals
  <2>1. CASE \E p \in Peers : SessionStarts(p)
    BY <2>1 DEF SessionStarts, Signals
  <2> QED BY <2>1, SignalsMove
<1> QED BY <1>1, <1>2, <1>3, QuietStep

\* A tunnel that has not claimed its stream touches nothing of the server's.
LEMMA TunnelQuietStep ==
  ASSUME TypeOK, Bookkeeping, NEW t \in tunnels,
         \/ TargetConnects(t) \/ TunnelHandshakes(t)
         \/ TunnelFails(t) \/ RejectHello(t)
  PROVE  Bookkeeping'
<1>1. UNCHANGED <<arrived, closed, serverVars, queue, wire>>
  BY DEF TargetConnects, TunnelHandshakes, TunnelFails, RejectHello, channelVars
<1>2. Relays' = Relays /\ Signals' \subseteq Signals
  <2>1. CASE TargetConnects(t) \/ TunnelHandshakes(t)
    <3>1. PICK u \in Tunnels :
            /\ u.peer = t.peer /\ u.link = t.link /\ u.id = t.id /\ u.asked = t.asked
            /\ t.phase # "relay" /\ u.phase # "relay"
            /\ tunnels' = (tunnels \ {t}) \cup {u}
      BY <2>1, AdvanceTunnel DEF TypeOK
    <3> QED BY <1>1, <3>1 DEF Relays, Signals
  <2>2. CASE TunnelFails(t) \/ RejectHello(t)
    <3>1. t.phase # "relay" /\ tunnels' = tunnels \ {t}
      BY <2>2 DEF TunnelFails, RejectHello
    <3> QED BY <1>1, <3>1 DEF Relays, Signals
  <2> QED BY <2>1, <2>2
<1> QED BY <1>1, <1>2, QuietStep

\* A new connection gets an id nobody has seen.
LEMMA AcceptStep ==
  ASSUME TypeOK, Bookkeeping, NEW l \in Links, NEW c \in Conns, Accept(l, c)
  PROVE  Bookkeeping'
<1>1. /\ \A k \in Links : <<c, k>> \notin arrived
      /\ arrived' = arrived \cup {<<c, l>>}
      /\ nextId \in Nat /\ nextId' = nextId + 1
      /\ UNCHANGED <<closed, pending, timers>>
  BY DEF Accept, BumpId, TypeOK
<1>2. Relays' = Relays /\ Signals' = Signals
  BY DEF Accept, channelVars, Relays, Signals
<1>3. /\ \A k \in Links : k # l => listener'[k] = listener[k]
      /\ listener[l].step = "accept"
      /\ listener'[l].step = "insert" /\ listener'[l].conn = c
      /\ listener'[l].id = nextId
  BY DEF Accept, TypeOK
<1>4. /\ \A i \in DOMAIN pending : i \in Nat
      /\ \A k \in Links : listener[k].id \in Nat
      /\ \A s \in Signals : s[2] \in Nat
  <2>1. /\ \A i \in DOMAIN queue : queue[i].id \in Nat
        /\ \A i \in DOMAIN wire : wire[i].id \in Nat
    <3>1. \A q \in Seq(Messages) : \A i \in DOMAIN q : q[i] \in Messages
      OBVIOUS
    <3>2. queue \in Seq(Messages) /\ wire \in Seq(Messages)
      BY DEF TypeOK
    <3>3. /\ \A i \in DOMAIN queue : queue[i] \in Messages
          /\ \A i \in DOMAIN wire : wire[i] \in Messages
      BY <3>1, <3>2
    <3>4. \A m \in Messages : m.id \in Nat
      BY DEF Messages
    <3> QED BY ONLY <3>3, <3>4
  <2>2. \A t \in tunnels : t.id \in Nat
    BY DEF TypeOK, Tunnels
  <2>3. ASSUME NEW s \in Signals PROVE s[2] \in Nat
    <3>1. CASE \E i \in DOMAIN queue : s = <<queue[i].link, queue[i].id>>
      BY <2>1, <3>1
    <3>2. CASE \E i \in DOMAIN wire : s = <<wire[i].link, wire[i].id>>
      BY <2>1, <3>2
    <3>3. CASE \E t \in {u \in tunnels : u.asked} : s = <<t.link, t.id>>
      BY <2>2, <3>3
    <3> QED BY <3>1, <3>2, <3>3 DEF Signals
  <2> QED BY <2>3 DEF TypeOK, Listeners
<1>5. IdsFresh'
  BY <1>1, <1>2, <1>3, <1>4 DEF Bookkeeping, IdsFresh
<1>6. LinksAgree'
  BY <1>1, <1>2, <1>3 DEF Bookkeeping, LinksAgree
<1>7. Exclusive'
  <2>1. /\ \A i \in DOMAIN pending : pending[i] # c
        /\ \A t \in Relays : t.conn # c
        /\ c \notin closed
        /\ \A k \in Links : listener[k].step = "insert" => listener[k].conn # c
    BY <1>1 DEF Bookkeeping, Accounted, LinksAgree
  <2> QED BY <1>1, <1>2, <1>3, <2>1 DEF Bookkeeping, Exclusive
<1>8. Accounted'
  BY <1>1, <1>2, <1>3 DEF Bookkeeping, Accounted
<1>9. JoinedOnOwnLink'
  BY <1>1, <1>2 DEF Bookkeeping, JoinedOnOwnLink
<1>10. PendingHasCleanup'
  BY <1>1, <1>3 DEF Bookkeeping, PendingHasCleanup
<1> QED BY <1>5, <1>6, <1>7, <1>8, <1>9, <1>10 DEF Bookkeeping

\* The connection moves from the listener to a new entry of the map.
LEMMA InsertStep ==
  ASSUME TypeOK, Consistent, Bookkeeping, NEW l \in Links, InsertPending(l)
  PROVE  Bookkeeping'
<1> DEFINE id == listener[l].id
           c == listener[l].conn
<1>1. UNCHANGED <<arrived, closed, nextId, timers>>
  BY DEF InsertPending
<1>2. Relays' = Relays /\ Signals' = Signals
  BY DEF InsertPending, channelVars, Relays, Signals
<1>3. /\ \A k \in Links : k # l => listener'[k] = listener[k]
      /\ listener[l].step = "insert" /\ c \in Conns
      /\ listener'[l].step = "send" /\ listener'[l].id = id
  BY DEF InsertPending, TypeOK, Listeners, Consistent
<1>4. /\ id \notin DOMAIN pending
      /\ \A s \in Signals : s[2] # id
  BY <1>3 DEF Bookkeeping, IdsFresh
<1>5. /\ DOMAIN pending' = DOMAIN pending \cup {id}
      /\ pending'[id] = c
      /\ \A i \in DOMAIN pending : pending'[i] = pending[i]
  BY <1>4 DEF InsertPending, Insert
<1>6. \A k \in Links : /\ listener[k].step \in {"insert", "send"} /\ k # l
                        => listener[k].id # id
  BY <1>3 DEF Bookkeeping, IdsFresh
<1> HIDE DEF id, c
<1>7. IdsFresh'
  BY <1>1, <1>2, <1>3, <1>5, <1>6 DEF Bookkeeping, IdsFresh, id
<1>8. LinksAgree'
  BY <1>1, <1>2, <1>3, <1>4, <1>5, <1>6 DEF Bookkeeping, LinksAgree, c
<1>9. Exclusive'
  BY <1>1, <1>2, <1>3, <1>5 DEF Bookkeeping, Exclusive, c
<1>10. Accounted'
  BY <1>1, <1>2, <1>3, <1>5 DEF Bookkeeping, Accounted, LinksAgree, c
<1>11. JoinedOnOwnLink'
  BY <1>1, <1>2 DEF Bookkeeping, JoinedOnOwnLink
<1>12. PendingHasCleanup'
  BY <1>1, <1>3, <1>5 DEF Bookkeeping, PendingHasCleanup
<1> QED BY <1>7, <1>8, <1>9, <1>10, <1>11, <1>12 DEF Bookkeeping

\* A completed send starts the timer and adds the one new signal.
LEMMA SendStep ==
  ASSUME TypeOK, Bookkeeping, NEW l \in Links, SendOpenStream(l)
  PROVE  Bookkeeping'
<1>1. /\ UNCHANGED <<arrived, closed, nextId, pending>>
      /\ timers' = timers \cup {listener[l].id}
  BY DEF SendOpenStream
<1>2. Relays' = Relays /\ Signals' \subseteq Signals \cup {<<l, listener[l].id>>}
  BY SignalsGrow DEF SendOpenStream, Relays
<1>3. /\ \A k \in Links : k # l => listener'[k] = listener[k]
      /\ listener[l].step = "send" /\ listener'[l].step = "accept"
  BY DEF SendOpenStream, TypeOK, Idle
<1>4. IdsFresh'
  BY <1>1, <1>2, <1>3 DEF Bookkeeping, IdsFresh
<1>5. LinksAgree'
  BY <1>1, <1>2, <1>3 DEF Bookkeeping, LinksAgree
<1>6. Exclusive'
  BY <1>1, <1>2, <1>3 DEF Bookkeeping, Exclusive
<1>7. Accounted'
  BY <1>1, <1>2, <1>3 DEF Bookkeeping, Accounted
<1>8. JoinedOnOwnLink'
  BY <1>1, <1>2 DEF Bookkeeping, JoinedOnOwnLink
<1>9. PendingHasCleanup'
  BY <1>1, <1>3 DEF Bookkeeping, PendingHasCleanup
<1> QED BY <1>4, <1>5, <1>6, <1>7, <1>8, <1>9 DEF Bookkeeping

\* Dropping what is filed under one id, by the timer or by the listener whose
\* send failed, moves at most one connection from the map to the closed ones.
LEMMA DropStep ==
  ASSUME TypeOK, Bookkeeping,
         NEW id,
         pending' = Remove(id),
         closed' = closed \cup {pending[i] : i \in DOMAIN pending \cap {id}},
         UNCHANGED <<arrived, nextId, channelVars, tunnels>>,
         \/ listener' = listener /\ timers' = timers \ {id}
         \/ \E k \in Links :
              /\ listener[k].step = "send" /\ listener[k].id = id
              /\ listener' = [listener EXCEPT ![k] = Idle] /\ timers' = timers
  PROVE  Bookkeeping'
<1>1. /\ DOMAIN pending' = DOMAIN pending \ {id}
      /\ \A i \in DOMAIN pending' : pending'[i] = pending[i]
  BY DEF Remove, Restrict
<1>2. Relays' = Relays /\ Signals' = Signals
  BY DEF channelVars, Relays, Signals
<1>3. \A l \in Links : \/ listener'[l] = listener[l]
                        \/ /\ listener[l].step = "send" /\ listener[l].id = id
                           /\ listener'[l].step = "accept"
  BY DEF TypeOK, Idle
<1>4. \A i \in timers : i # id => i \in timers'
  OBVIOUS
<1>5. IdsFresh'
  BY <1>1, <1>2, <1>3 DEF Bookkeeping, IdsFresh
<1>6. LinksAgree'
  BY <1>1, <1>2, <1>3 DEF Bookkeeping, LinksAgree
<1>7. Exclusive'
  BY <1>1, <1>2, <1>3 DEF Bookkeeping, Exclusive
<1>8. Accounted'
  BY <1>1, <1>2, <1>3 DEF Bookkeeping, Accounted
<1>9. JoinedOnOwnLink'
  BY <1>2 DEF Bookkeeping, JoinedOnOwnLink
<1>10. PendingHasCleanup'
  BY <1>1, <1>3, <1>4 DEF Bookkeeping, PendingHasCleanup
<1> QED BY <1>5, <1>6, <1>7, <1>8, <1>9, <1>10 DEF Bookkeeping

\* A claim moves the connection from the map to a relay: on the connection's
\* own link if the server asked for the tunnel.
LEMMA ClaimStep ==
  ASSUME TypeOK, Bookkeeping, NEW t \in tunnels, ClaimStream(t)
  PROVE  Bookkeeping'
<1>1. PICK u \in Tunnels :
        /\ u.peer = t.peer /\ u.link = t.link /\ u.id = t.id /\ u.asked = t.asked
        /\ t.phase # "relay" /\ u.phase = "relay" /\ u.conn = pending[t.id]
        /\ tunnels' = (tunnels \ {t}) \cup {u}
  BY ClaimTunnel DEF TypeOK
<1>2. /\ UNCHANGED <<arrived, closed, nextId, listener, timers, queue, wire>>
      /\ t.id \in DOMAIN pending /\ pending' = Remove(t.id)
  BY DEF ClaimStream, channelVars
<1>3. /\ DOMAIN pending' = DOMAIN pending \ {t.id}
      /\ \A i \in DOMAIN pending' : pending'[i] = pending[i]
  BY <1>2 DEF Remove, Restrict
<1>4. Signals' \subseteq Signals /\ Relays' = Relays \cup {u}
  BY <1>1, <1>2 DEF Signals, Relays
<1>5. u.asked => <<u.conn, u.link>> \in arrived
  <2>1. t.asked => <<t.link, t.id>> \in Signals
    BY DEF Signals
  <2> QED BY <1>1, <1>2, <2>1 DEF Bookkeeping, LinksAgree
<1>6. IdsFresh'
  BY <1>2, <1>3, <1>4 DEF Bookkeeping, IdsFresh
<1>7. LinksAgree'
  BY <1>2, <1>3, <1>4 DEF Bookkeeping, LinksAgree
<1>8. Exclusive'
  BY <1>1, <1>2, <1>3, <1>4 DEF Bookkeeping, Exclusive
<1>9. Accounted'
  BY <1>1, <1>2, <1>3, <1>4 DEF Bookkeeping, Accounted
<1>10. JoinedOnOwnLink'
  BY <1>2, <1>4, <1>5 DEF Bookkeeping, JoinedOnOwnLink
<1>11. PendingHasCleanup'
  BY <1>2, <1>3 DEF Bookkeeping, PendingHasCleanup
<1> QED BY <1>6, <1>7, <1>8, <1>9, <1>10, <1>11 DEF Bookkeeping

\* The end of a relay closes its connection.
LEMMA RelayEndsStep ==
  ASSUME TypeOK, Bookkeeping, NEW t \in tunnels, RelayEnds(t)
  PROVE  Bookkeeping'
<1>1. /\ UNCHANGED <<arrived, serverVars, queue, wire>>
      /\ closed' = closed \cup {t.conn} /\ t \in Relays
  BY DEF RelayEnds, channelVars, Relays
<1>2. Signals' \subseteq Signals /\ Relays' = Relays \ {t}
  BY DEF RelayEnds, channelVars, Signals, Relays
<1>3. IdsFresh'
  BY <1>1, <1>2 DEF Bookkeeping, IdsFresh, serverVars
<1>4. LinksAgree'
  BY <1>1, <1>2 DEF Bookkeeping, LinksAgree, serverVars
<1>5. Exclusive'
  BY <1>1, <1>2 DEF Bookkeeping, Exclusive, serverVars
<1>6. Accounted'
  BY <1>1, <1>2 DEF Bookkeeping, Accounted, serverVars
<1>7. JoinedOnOwnLink'
  BY <1>1, <1>2 DEF Bookkeeping, JoinedOnOwnLink
<1>8. PendingHasCleanup'
  BY <1>1 DEF Bookkeeping, PendingHasCleanup, serverVars
<1> QED BY <1>3, <1>4, <1>5, <1>6, <1>7, <1>8 DEF Bookkeeping

\* A hello nobody asked for adds neither a signal nor a relay.
LEMMA HelloStep ==
  ASSUME TypeOK, Bookkeeping, NEW p \in Peers, NEW l \in Links, NEW id,
         PeerSendsHello(p, l, id)
  PROVE  Bookkeeping' /\ UNCHANGED <<arrived, closed, serverVars>> /\ Relays' = Relays
<1> DEFINE t == [peer |-> p, link |-> l, id |-> id, asked |-> FALSE,
                 phase |-> "hello", conn |-> NoConn]
<1>1. /\ tunnels' = tunnels \cup {t}
      /\ UNCHANGED <<arrived, closed, serverVars, queue, wire>>
  BY DEF PeerSendsHello
<1>2. t.phase # "relay" /\ ~t.asked
  OBVIOUS
<1> HIDE DEF t
<1>3. Relays' = Relays /\ Signals' \subseteq Signals
  BY <1>1, <1>2 DEF Relays, Signals
<1> QED BY <1>1, <1>3, QuietStep

\* After a restart nothing is filed, signalled or relayed, and every connection
\* that had arrived is closed.
LEMMA RestartStep ==
  ASSUME TypeOK, Consistent, Bookkeeping, ServerRestarts
  PROVE  Bookkeeping' /\ Relays' = {} /\ Waiting' = {}
<1>1. /\ DOMAIN pending' = {} /\ DOMAIN queue' = {} /\ DOMAIN wire' = {}
      /\ arrived' = arrived
      /\ closed' = closed \cup Waiting \cup {t.conn : t \in Relays}
  BY DEF ServerRestarts
<1>2. \A l \in Links : listener'[l].step \notin {"insert", "send"}
  BY DEF ServerRestarts, Idle, Down
<1>3. Relays' = {} /\ Signals' = {}
  BY <1>1, RestartTunnels DEF Relays, Signals
<1>4. Waiting' = {}
  BY <1>1, <1>2 DEF Waiting, Holding, Range
<1>5. IdsFresh'
  BY <1>1, <1>2, <1>3 DEF IdsFresh
<1>6. LinksAgree'
  BY <1>1, <1>2, <1>3 DEF LinksAgree
<1>7. Exclusive'
  BY <1>1, <1>2, <1>3 DEF Exclusive
<1>8. Accounted'
  <2>1. ASSUME NEW c \in closed' PROVE \E l \in Links : <<c, l>> \in arrived
    <3>1. CASE c \in closed
      BY <3>1 DEF Bookkeeping, Accounted
    <3>2. CASE c \in Waiting
      <4>1. CASE Holding(c) # {}
        BY <4>1 DEF Holding, Bookkeeping, LinksAgree
      <4>2. CASE c \in Range(pending)
        BY <4>2 DEF Range, Bookkeeping, Accounted
      <4> QED BY <3>2, <4>1, <4>2 DEF Waiting
    <3>3. CASE c \in {t.conn : t \in Relays}
      BY <3>3 DEF Bookkeeping, Accounted
    <3> QED BY <1>1, <3>1, <3>2, <3>3
  <2>2. ASSUME NEW c \in Conns, NEW l \in Links, <<c, l>> \in arrived
        PROVE  c \in closed'
    <3>1. CASE \E k \in Links : listener[k].step = "insert" /\ listener[k].conn = c
      BY <1>1, <3>1 DEF Waiting, Holding
    <3>2. CASE \E i \in DOMAIN pending : pending[i] = c
      BY <1>1, <3>2 DEF Waiting, Range
    <3>3. CASE c \in closed \/ \E t \in Relays : t.conn = c
      BY <1>1, <3>3
    <3> QED BY <2>2, <3>1, <3>2, <3>3 DEF Bookkeeping, Accounted
  <2> QED BY <1>1, <1>3, <2>1, <2>2 DEF Accounted
<1>9. JoinedOnOwnLink' /\ PendingHasCleanup'
  BY <1>1, <1>3 DEF JoinedOnOwnLink, PendingHasCleanup
<1> QED BY <1>3, <1>4, <1>5, <1>6, <1>7, <1>8, <1>9 DEF Bookkeeping
-----------------------------------------------------------------------------
(***************************************************************************)
(* The theorems.                                                           *)
(***************************************************************************)
\* A freshly started server, with no connection and no signal, satisfies it.
LEMMA InitIInv == Init => IInv
<1> SUFFICES ASSUME Init PROVE IInv
  OBVIOUS
<1>1. TypeOK
  <2>1. queue \in Seq(Messages) /\ wire \in Seq(Messages)
    BY MessageSeqs DEF Init
  <2>2. listener \in [Links -> Listeners]
    BY DEF Init, Idle, Down, Listeners
  <2>3. DOMAIN pending \subseteq Nat /\ pending \in [DOMAIN pending -> Conns]
    BY DEF Init
  <2>4. /\ arrived \subseteq Conns \X Links /\ closed \subseteq Conns
        /\ timers \subseteq Nat /\ tunnels \subseteq Tunnels
    BY DEF Init
  <2>5. nextId \in Nat \ {0} /\ events \in [DOMAIN Limit -> Nat]
    BY DEF Init
  <2>6. /\ control \in {"binding", "serving", "gone"}
        /\ session \in Peers \cup {NoPeer} /\ live \in BOOLEAN
    BY DEF Init
  <2> QED BY <2>1, <2>2, <2>3, <2>4, <2>5, <2>6 DEF TypeOK
<1>2. Signals = {} /\ Relays = {}
  BY DEF Init, Signals, Relays
<1>3. \A l \in Links : listener[l].step \notin {"insert", "send"}
  BY DEF Init, Idle, Down
<1>4. DOMAIN pending = {} /\ arrived = {} /\ closed = {}
  BY DEF Init
<1>5. Consistent
  BY <1>3, NullAssumption DEF Init, Consistent
<1> QED BY <1>1, <1>2, <1>3, <1>4, <1>5
        DEF IInv, IdsFresh, LinksAgree, Exclusive, Accounted, JoinedOnOwnLink,
            PendingHasCleanup

\* Every step of the server, the channel and the client preserves it.
LEMMA NextIInv == IInv /\ [Next]_vars => IInv'
<1> SUFFICES ASSUME IInv, [Next]_vars PROVE IInv'
  OBVIOUS
<1>1. TypeOK /\ Consistent /\ Bookkeeping
  BY DEF IInv, Bookkeeping
<1>2. TypeOK' /\ Consistent'
  BY <1>1, TypeStep
<1>3. Bookkeeping'
  <2>1. ASSUME NEW l \in Links, ListenerStep(l) PROVE Bookkeeping'
    <3>1. CASE InsertPending(l)
      BY <1>1, <3>1, InsertStep
    <3>2. CASE SendOpenStream(l)
      BY <1>1, <3>2, SendStep
    <3>3. CASE SendFails(l)
      <4> DEFINE id == listener[l].id
      <4>1. /\ pending' = Remove(id)
            /\ closed' = closed \cup {pending[i] : i \in DOMAIN pending \cap {id}}
            /\ UNCHANGED <<arrived, nextId, channelVars, tunnels>>
            /\ listener[l].step = "send"
            /\ listener' = [listener EXCEPT ![l] = Idle] /\ timers' = timers
        BY <3>3 DEF SendFails
      <4> HIDE DEF id
      <4> QED BY <1>1, <4>1, DropStep DEF id
    <3> QED BY <2>1, <3>1, <3>2, <3>3 DEF ListenerStep
  <2>2. ASSUME NEW l \in Links, NEW c \in Conns, Accept(l, c) PROVE Bookkeeping'
    BY <1>1, <2>2, AcceptStep
  <2>3. ASSUME NEW id \in timers, CleanupTimer(id) PROVE Bookkeeping'
    <3>1. /\ pending' = Remove(id)
          /\ closed' = closed \cup {pending[i] : i \in DOMAIN pending \cap {id}}
          /\ UNCHANGED <<arrived, nextId, channelVars, tunnels>>
          /\ listener' = listener /\ timers' = timers \ {id}
      BY <2>3 DEF CleanupTimer
    <3> QED BY <1>1, <3>1, DropStep
  <2>4. CASE \/ ControlBinds \/ ControlBindFails
             \/ \E p \in Peers : SessionStarts(p)
             \/ Forward \/ SessionEnds \/ ControlBreaks \/ ClientReads
    BY <1>1, <2>4, ChannelStep
  <2>5. ASSUME NEW t \in tunnels, TunnelStep(t) PROVE Bookkeeping'
    BY <1>1, <2>5, TunnelQuietStep, ClaimStep DEF TunnelStep
  <2>6. ASSUME NEW t \in tunnels, RelayEnds(t) PROVE Bookkeeping'
    BY <1>1, <2>6, RelayEndsStep
  <2>7. CASE UNCHANGED vars
    <3>1. /\ UNCHANGED <<arrived, closed, serverVars>>
          /\ Relays' = Relays /\ Signals' = Signals
      BY <2>7 DEF vars, serverVars, Relays, Signals
    <3> QED BY <1>1, <3>1, QuietStep
  <2>8. ASSUME NEW p \in Peers, NEW l \in Links, NEW id \in 1 .. nextId,
               PeerSendsHello(p, l, id)
        PROVE  Bookkeeping'
    BY <1>1, <2>8, HelloStep
  <2>9. CASE ServerRestarts
    BY <1>1, <2>9, RestartStep
  <2> QED BY <2>1, <2>2, <2>3, <2>4, <2>5, <2>6, <2>7, <2>8, <2>9 DEF Next
<1> QED BY <1>2, <1>3 DEF IInv, Bookkeeping

\* At most one owner (Exclusive, LinksAgree) and at least one (Accounted).
LEMMA IInvOwnedOnce == IInv => OwnedOnce
<1> SUFFICES ASSUME IInv, NEW c \in Conns, NEW l \in Links, <<c, l>> \in arrived
             PROVE  Cardinality(Owners(c)) = 1
  BY DEF OwnedOnce
<1> SUFFICES \E o : Owners(c) = {o}
  BY FS_Singleton
<1> DEFINE P == {i \in DOMAIN pending : pending[i] = c}
           R == {t \in Relays : t.conn = c}
           C == {c} \cap closed
<1> USE DEF IInv, Exclusive
<1>1. Owners(c) = ({"listener"} \X Holding(c)) \cup ({"pending"} \X P)
             \cup ({"relay"} \X R) \cup ({"closed"} \X C)
  BY DEF Owners
<1>2. CASE \E k \in Links : listener[k].step = "insert" /\ listener[k].conn = c
  <2>1. PICK k \in Links : listener[k].step = "insert" /\ listener[k].conn = c
    BY <1>2
  <2>2. Holding(c) = {k} /\ P = {} /\ R = {} /\ C = {}
    BY <2>1 DEF Holding
  <2>3. Owners(c) = {<<"listener", k>>}
    BY ONLY <1>1, <2>2
  <2> QED BY <2>3
<1>3. CASE \E i \in DOMAIN pending : pending[i] = c
  <2>1. PICK i \in DOMAIN pending : pending[i] = c
    BY <1>3
  <2>2. Holding(c) = {} /\ P = {i} /\ R = {} /\ C = {}
    BY <2>1 DEF Holding
  <2>3. Owners(c) = {<<"pending", i>>}
    BY ONLY <1>1, <2>2
  <2> QED BY <2>3
<1>4. CASE \E t \in Relays : t.conn = c
  <2>1. PICK t \in Relays : t.conn = c
    BY <1>4
  <2>2. Holding(c) = {} /\ P = {} /\ R = {t} /\ C = {}
    BY <2>1 DEF Holding
  <2>3. Owners(c) = {<<"relay", t>>}
    BY ONLY <1>1, <2>2
  <2> QED BY <2>3
<1>5. CASE c \in closed
  <2>1. Holding(c) = {} /\ P = {} /\ R = {} /\ C = {c}
    BY <1>5 DEF Holding
  <2>2. Owners(c) = {<<"closed", c>>}
    BY ONLY <1>1, <2>1
  <2> QED BY <2>2
<1> QED BY <1>2, <1>3, <1>4, <1>5 DEF Accounted

\* Every value keeps its type in every behaviour of the rendezvous.
THEOREM TypeCorrect == Safety => []TypeOK
<1>1. IInv => TypeOK
  BY DEF IInv
<1> QED BY InitIInv, NextIInv, <1>1, PTL DEF Safety

\* However the listeners, the timers, the control sessions and the data
\* connections interleave, an accepted connection has exactly one owner.
THEOREM OwnedOnceAlways == Safety => []OwnedOnce
BY InitIInv, NextIInv, IInvOwnedOnce, PTL DEF Safety

\* A relay joins a tunnel the running server asked for to a connection of the
\* tunnel's own link, although handle_data_connection looks only at the stream
\* id, and whatever hellos other peers send.
THEOREM JoinedOnOwnLinkAlways == Safety => []JoinedOnOwnLink
<1>1. IInv => JoinedOnOwnLink
  BY DEF IInv
<1> QED BY InitIInv, NextIInv, <1>1, PTL DEF Safety

\* No entry of the pending map is without a task that will remove it.
THEOREM PendingHasCleanupAlways == Safety => []PendingHasCleanup
<1>1. IInv => PendingHasCleanup
  BY DEF IInv
<1> QED BY InitIInv, NextIInv, <1>1, PTL DEF Safety

-----------------------------------------------------------------------------
(***************************************************************************)
(* The refinement: every step is a step of Rendezvous or leaves it alone.  *)
(***************************************************************************)
AbsStep == [Abs!Next]_<<arrived, Waiting, Joined, closed>>

\* A step that leaves connections, map, listeners and relays alone stutters.
LEMMA QuietRefines ==
  ASSUME UNCHANGED <<arrived, closed, listener, pending>>, Relays' = Relays
  PROVE  AbsStep
BY DEF AbsStep, Waiting, Holding, Joined

\* Filing a connection and sending its signal move it within Waiting.
LEMMA ListenerRefines ==
  ASSUME IInv, NEW l \in Links, InsertPending(l) \/ SendOpenStream(l)
  PROVE  AbsStep
<1>1. UNCHANGED <<arrived, closed, tunnels>>
  BY DEF InsertPending, SendOpenStream
<1>2. \A k \in Links : k # l => listener'[k] = listener[k]
  BY DEF InsertPending, SendOpenStream, IInv, TypeOK
<1>3. Waiting' = Waiting
  <2>1. CASE InsertPending(l)
    <3>1. /\ listener[l].step = "insert" /\ listener'[l].step = "send"
          /\ listener[l].conn \in Conns
          /\ listener[l].id \notin DOMAIN pending
      BY <2>1 DEF InsertPending, IInv, TypeOK, Listeners, Consistent, IdsFresh
    <3>2. Range(pending') = Range(pending) \cup {listener[l].conn}
      BY <2>1, <3>1 DEF InsertPending, Insert, Range
    <3> QED BY <1>2, <3>1, <3>2 DEF Waiting, Holding
  <2>2. CASE SendOpenStream(l)
    <3>1. /\ listener[l].step = "send" /\ listener'[l].step = "accept"
          /\ pending' = pending
      BY <2>2 DEF SendOpenStream, IInv, TypeOK, Idle
    <3> QED BY <1>2, <3>1 DEF Waiting, Holding
  <2> QED BY <2>1, <2>2
<1> QED BY <1>1, <1>3 DEF AbsStep, Joined, Relays

\* Accepting is Rendezvous' Arrive.
LEMMA AcceptRefines ==
  ASSUME IInv, NEW l \in Links, NEW c \in Conns, Accept(l, c)
  PROVE  Abs!Arrive(c, l)
<1>1. /\ \A k \in Links : k # l => listener'[k] = listener[k]
      /\ listener[l].step = "accept"
      /\ listener'[l].step = "insert" /\ listener'[l].conn = c
  BY DEF Accept, IInv, TypeOK
<1>2. Waiting' = Waiting \cup {c}
  <2>1. pending' = pending
    BY DEF Accept
  <2> QED BY <1>1, <2>1 DEF Waiting, Holding
<1>3. Joined' = Joined
  BY DEF Accept, Joined, Relays
<1> QED BY <1>2, <1>3 DEF Accept, Abs!Arrive

\* The cleanup task and a failed send are GiveUp, or find nothing to remove.
LEMMA DropRefines ==
  ASSUME IInv, NEW id,
         pending' = Remove(id),
         closed' = closed \cup {pending[i] : i \in DOMAIN pending \cap {id}},
         UNCHANGED <<arrived, tunnels>>,
         \A k \in Links : \/ listener'[k] = listener[k]
                          \/ /\ listener[k].step # "insert"
                             /\ listener'[k].step # "insert"
  PROVE  AbsStep
<1>1. Joined' = Joined
  BY DEF Joined, Relays
<1>2. \A c : Holding(c)' = Holding(c)
  BY DEF Holding
<1>3. CASE id \in DOMAIN pending
  <2> DEFINE c == pending[id]
  <2>1. c \in Conns /\ closed' = closed \cup {c}
    BY <1>3 DEF IInv, TypeOK
  <2>2. Holding(c) = {} /\ c \in Range(pending)
    BY <1>3 DEF Holding, Range, IInv, Exclusive
  <2>3. Range(pending') = Range(pending) \ {c}
    BY <1>3 DEF Remove, Restrict, Range, IInv, Exclusive
  <2> HIDE DEF c
  <2>4. Waiting' = Waiting \ {c} /\ c \in Waiting
    BY <1>2, <2>1, <2>2, <2>3 DEF Waiting
  <2>5. Abs!GiveUp(c)
    BY <1>1, <2>1, <2>4 DEF Abs!GiveUp
  <2> QED BY <2>1, <2>5 DEF AbsStep, Abs!Next
<1>4. CASE id \notin DOMAIN pending
  <2>1. closed' = closed
    BY <1>4
  <2>2. Range(pending') = Range(pending)
    BY <1>4 DEF Remove, Restrict, Range
  <2>3. Waiting' = Waiting
    BY <1>2, <2>2 DEF Waiting
  <2> QED BY <1>1, <2>1, <2>3 DEF AbsStep
<1> QED BY <1>3, <1>4

\* A claim is Rendezvous' Join.
LEMMA ClaimRefines ==
  ASSUME IInv, NEW t \in tunnels, ClaimStream(t)
  PROVE  AbsStep
<1> DEFINE c == pending[t.id]
<1>1. PICK u \in Tunnels :
        /\ u.peer = t.peer /\ u.link = t.link /\ u.id = t.id /\ u.asked = t.asked
        /\ t.phase # "relay" /\ u.phase = "relay" /\ u.conn = c
        /\ tunnels' = (tunnels \ {t}) \cup {u}
  BY ClaimTunnel DEF IInv, TypeOK
<1>2. /\ UNCHANGED <<arrived, closed, listener>>
      /\ t.id \in DOMAIN pending /\ pending' = Remove(t.id)
      /\ t.link \in Authorised[t.peer]
  BY DEF ClaimStream, HelloAccepted
<1>3. c \in Conns /\ t.peer \in Peers /\ t.asked \in BOOLEAN
  BY <1>2 DEF IInv, TypeOK, Tunnels
<1>4. t.asked => <<c, t.link>> \in arrived
  <2>1. t.asked => <<t.link, t.id>> \in Signals
    BY DEF Signals
  <2> QED BY <1>2, <2>1 DEF IInv, LinksAgree
<1>5. Joined' = Joined \cup {<<c, t.peer, t.asked>>}
  <2>1. Relays' = Relays \cup {u}
    BY <1>1 DEF Relays
  <2> QED BY <1>1, <2>1 DEF Joined
<1>6. Waiting' = Waiting \ {c} /\ c \in Waiting
  <2>1. Holding(c) = {} /\ c \in Range(pending)
    BY <1>2 DEF Holding, Range, IInv, Exclusive
  <2>2. Range(pending') = Range(pending) \ {c}
    BY <1>2 DEF Remove, Restrict, Range, IInv, Exclusive
  <2>3. \A d : Holding(d)' = Holding(d)
    BY <1>2 DEF Holding
  <2> HIDE DEF c
  <2> QED BY <1>3, <2>1, <2>2, <2>3 DEF Waiting
<1> HIDE DEF c
<1>7. Abs!Join(c, t.peer, t.asked)
  BY <1>2, <1>4, <1>5, <1>6 DEF Abs!Join
<1> QED BY <1>3, <1>7 DEF AbsStep, Abs!Next

\* The end of a relay is Rendezvous' Finish.
LEMMA RelayEndsRefines ==
  ASSUME IInv, NEW t \in tunnels, RelayEnds(t)
  PROVE  AbsStep
<1>1. t \in Relays /\ Relays' = Relays \ {t}
  BY DEF RelayEnds, Relays
<1>2. t.conn \in Conns /\ t.peer \in Peers /\ t.asked \in BOOLEAN
  BY <1>1 DEF IInv, Consistent, TypeOK, Tunnels, Relays
<1>3. \A u \in Relays : u.conn = t.conn => u = t
  BY <1>1 DEF IInv, Exclusive
<1>4. /\ Joined' = Joined \ {<<t.conn, t.peer, t.asked>>}
      /\ <<t.conn, t.peer, t.asked>> \in Joined
  BY <1>1, <1>3 DEF Joined
<1>5. UNCHANGED <<arrived, Waiting>> /\ closed' = closed \cup {t.conn}
  BY DEF RelayEnds, serverVars, Waiting, Holding
<1>6. Abs!Finish(t.conn, t.peer, t.asked)
  BY <1>4, <1>5 DEF Abs!Finish
<1> QED BY <1>2, <1>6 DEF AbsStep, Abs!Next

\* The initial states are the rendezvous' initial state.
LEMMA InitRefines == Init => Abs!Init
<1> SUFFICES ASSUME Init PROVE Abs!Init
  OBVIOUS
<1>1. arrived = {} /\ closed = {} /\ Joined = {}
  BY DEF Init, Joined, Relays
<1>2. Waiting = {}
  <2>1. \A l \in Links : listener[l].step # "insert"
    BY DEF Init, Idle, Down
  <2>2. DOMAIN pending = {}
    BY DEF Init
  <2> QED BY <2>1, <2>2 DEF Waiting, Holding, Range
<1> QED BY <1>1, <1>2 DEF Abs!Init

\* Under the invariant every step is a rendezvous step or a stutter.
LEMMA NextRefines == IInv /\ [Next]_vars => AbsStep
<1> SUFFICES ASSUME IInv, [Next]_vars PROVE AbsStep
  OBVIOUS
<1>1. ASSUME NEW l \in Links, ListenerStep(l) PROVE AbsStep
  <2>1. CASE InsertPending(l) \/ SendOpenStream(l)
    BY <2>1, ListenerRefines
  <2>2. CASE SendFails(l)
    <3> DEFINE id == listener[l].id
    <3>1. /\ pending' = Remove(id)
          /\ closed' = closed \cup {pending[i] : i \in DOMAIN pending \cap {id}}
          /\ UNCHANGED <<arrived, tunnels>>
      BY <2>2 DEF SendFails
    <3>2. \A k \in Links : \/ listener'[k] = listener[k]
                           \/ /\ listener[k].step # "insert"
                              /\ listener'[k].step # "insert"
      BY <2>2 DEF SendFails, Idle, IInv, TypeOK
    <3> HIDE DEF id
    <3> QED BY <3>1, <3>2, DropRefines
  <2> QED BY <1>1, <2>1, <2>2 DEF ListenerStep
<1>2. ASSUME NEW l \in Links, NEW c \in Conns, Accept(l, c) PROVE AbsStep
  <2>1. Abs!Arrive(c, l)
    BY <1>2, AcceptRefines
  <2> QED BY <2>1 DEF AbsStep, Abs!Next
<1>3. ASSUME NEW id \in timers, CleanupTimer(id) PROVE AbsStep
  <2>1. /\ pending' = Remove(id)
        /\ closed' = closed \cup {pending[i] : i \in DOMAIN pending \cap {id}}
        /\ UNCHANGED <<arrived, tunnels, listener>>
    BY <1>3 DEF CleanupTimer
  <2> QED BY <2>1, DropRefines
<1>4. CASE \/ ControlBinds \/ ControlBindFails
           \/ \E p \in Peers : SessionStarts(p)
           \/ Forward \/ SessionEnds \/ ControlBreaks \/ ClientReads
  <2>1. UNCHANGED <<arrived, closed, listener, pending>> /\ Relays' = Relays
    BY <1>4 DEF ControlBinds, ControlBindFails, SessionStarts, Forward,
         ForwardOpenStream, ForwardIntoDeadSocket, ForwardFails, SessionEnds,
         ControlBreaks, ClientReads, ClientOpensStream, ClientIgnoresStream,
         Relays, serverVars
  <2> QED BY <2>1, QuietRefines
<1>5. ASSUME NEW t \in tunnels, TunnelStep(t) PROVE AbsStep
  <2>1. CASE ClaimStream(t)
    BY <2>1, ClaimRefines
  <2>2. CASE TargetConnects(t) \/ TunnelHandshakes(t)
    <3>1. PICK u \in Tunnels : /\ t.phase # "relay" /\ u.phase # "relay"
                               /\ tunnels' = (tunnels \ {t}) \cup {u}
      BY <2>2, AdvanceTunnel DEF IInv, TypeOK
    <3>2. UNCHANGED <<arrived, closed, listener, pending>>
      BY <2>2 DEF TargetConnects, TunnelHandshakes, serverVars
    <3> QED BY <3>1, <3>2, QuietRefines DEF Relays
  <2>3. CASE TunnelFails(t) \/ RejectHello(t)
    <3>1. /\ UNCHANGED <<arrived, closed, listener, pending>>
          /\ t.phase # "relay" /\ tunnels' = tunnels \ {t}
      BY <2>3 DEF TunnelFails, RejectHello, serverVars
    <3> QED BY <3>1, QuietRefines DEF Relays
  <2> QED BY <1>5, <2>1, <2>2, <2>3 DEF TunnelStep
<1>6. ASSUME NEW t \in tunnels, RelayEnds(t) PROVE AbsStep
  BY <1>6, RelayEndsRefines
<1>7. CASE UNCHANGED vars
  BY <1>7, QuietRefines DEF vars, Relays
<1>8. TypeOK /\ Consistent /\ Bookkeeping
  BY DEF IInv, Bookkeeping
<1>9. ASSUME NEW p \in Peers, NEW l \in Links, NEW id \in 1 .. nextId,
             PeerSendsHello(p, l, id)
      PROVE  AbsStep
  BY <1>8, <1>9, HelloStep, QuietRefines DEF serverVars
<1>10. CASE ServerRestarts
  <2>1. /\ closed' = closed \cup Waiting \cup {t.conn : t \in Relays}
        /\ arrived' = arrived
    BY <1>10 DEF ServerRestarts
  <2>2. Waiting' = {} /\ Joined' = {}
    BY <1>8, <1>10, RestartStep DEF Joined
  <2>3. {t.conn : t \in Relays} = {j[1] : j \in Joined}
    <3>1. \A t \in Relays : /\ <<t.conn, t.peer, t.asked>> \in Joined
                            /\ <<t.conn, t.peer, t.asked>>[1] = t.conn
      BY DEF Joined
    <3>2. \A j \in Joined : \E t \in Relays : j[1] = t.conn
      BY DEF Joined
    <3> QED BY ONLY <3>1, <3>2
  <2>4. Abs!Restart
    BY <2>1, <2>2, <2>3 DEF Abs!Restart
  <2> QED BY <2>4 DEF AbsStep, Abs!Next
<1> QED BY <1>1, <1>2, <1>3, <1>4, <1>5, <1>6, <1>7, <1>9, <1>10 DEF Next

\* The rendezvous of the code implements the abstract one: every accepted
\* connection is joined at most once, to a tunnel of a peer granted a link (its
\* own link when the server asked for the tunnel), never after it was dropped,
\* and none is lost, whatever hellos the peers send and over restarts.
THEOREM Refinement == Safety => ImplementsRendezvous
BY InitIInv, NextIInv, InitRefines, NextRefines, PTL
   DEF Safety, ImplementsRendezvous, Abs!Spec, AbsStep, Abs!absVars
=============================================================================
