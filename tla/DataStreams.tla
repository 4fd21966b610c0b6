---------------------------- MODULE DataStreams ----------------------------
(***************************************************************************)
(* The data channel at one daemon and the counters it keeps.  A stream of  *)
(* the server is an accepted data connection: handshake, StreamHello, the  *)
(* checks, the target or the waiting connection, the relay.  A stream of   *)
(* the client is a local connection on a forward link: dial, handshake,    *)
(* StreamHello, the relay.  The relay copies between a, the tunnel, and b, *)
(* the local side.                                                         *)
(*                                                                         *)
(* The counters are atomics that other threads read at any moment: the two *)
(* increments that open a relay are two steps; the updates at its end,     *)
(* which no property takes apart, are one.  The limiter is                 *)
(* HandshakeLimiter's, the rendezvous of reverse streams ReverseStreams':  *)
(* here a claim by id finds a connection, of any link, or not.             *)
(***************************************************************************)
EXTENDS Integers, FiniteSets

CONSTANTS Streams,  \* bound: the connections a daemon gets
          Peers,    \* peers the server knows
          LinkIds,  \* link ids a StreamHello may name
          Link,     \* the configured links: id -> [transport, mode]
          Grants,   \* peer -> the links it may use
          Sizes,    \* side of a relay -> the numbers of bytes it may send
          None

ASSUME StreamsAssumption == IsFiniteSet(Streams)
ASSUME NoneAssumption == None \notin LinkIds
ASSUME LinkAssumption ==
  /\ DOMAIN Link \subseteq LinkIds
  /\ \A l \in DOMAIN Link : Link[l] \in [transport : {"tcp", "udp"},
                                         mode : {"forward", "reverse"}]
ASSUME GrantsAssumption == Grants \in [Peers -> SUBSET LinkIds]
ASSUME SizesAssumption == Sizes \in [{"a", "b"} -> SUBSET Nat]

VARIABLES role,    \* of the daemon: server or client
          stream,  \* per stream: where its task is, what the relay copied each way
          stats    \* per link: LinkStats

dataVars == <<role, stream, stats>>

Setup    == {"dial", "handshake", "hello", "connect"}
Counted  == {"opening", "relay"}   \* in active_streams
NewStream == [at |-> "idle", peer |-> None, link |-> None, aToB |-> 0, bToA |-> 0, eof |-> {}]
NoStats   == [active |-> 0, total |-> 0, forward |-> 0, back |-> 0]
ZeroStats == [l \in DOMAIN Link |-> NoStats]

DataTypeOK ==
  /\ role \in {"server", "client"}
  /\ stream \in [Streams -> [at : {"idle", "ended"} \cup Setup \cup Counted,
                             peer : Peers \cup {None}, link : LinkIds \cup {None},
                             aToB : Nat, bToA : Nat, eof : SUBSET {"a", "b"}]]
  /\ stats \in [DOMAIN Link -> [active : Nat, total : Nat, forward : Nat, back : Nat]]

DataInit == /\ role \in {"server", "client"}
            /\ stream = [s \in Streams |-> NewStream]
            /\ stats = ZeroStats

Goes(s, from, to) == stream[s].at = from /\ stream' = [stream EXCEPT ![s].at = to]

\* The task of s returns early: both its connections are dropped.
Drop(s) == stream' = [stream EXCEPT ![s] = [NewStream EXCEPT !.at = "ended"]]

\* relay begins on link l: fetch_add on active_streams.
OpenRelay(s, l) ==
  /\ stream' = [stream EXCEPT ![s] = [@ EXCEPT !.at = "opening", !.link = l]]
  /\ stats' = [stats EXCEPT ![l].active = @ + 1]
-----------------------------------------------------------------------------
(***************************************************************************)
(* The server: run_data_accept_loop and handle_data_connection.            *)
(***************************************************************************)
Accept(s) == /\ role = "server" /\ Goes(s, "idle", "handshake")
             /\ UNCHANGED <<role, stats>>

MatchPeer(s) == /\ role = "server" /\ stream[s].at = "handshake"
                /\ \E p \in Peers :
                     stream' = [stream EXCEPT ![s] = [@ EXCEPT !.at = "hello", !.peer = p]]
                /\ UNCHANGED <<role, stats>>

\* What a StreamHello of peer p must satisfy; streamId: it names a stream.
Admits(p, l, streamId) ==
  /\ l \in Grants[p]
  /\ l \in DOMAIN Link
  /\ Link[l].transport = "tcp"
  /\ Link[l].mode = (IF streamId THEN "reverse" ELSE "forward")

\* A forward stream goes on to its target, a reverse one claims the connection
\* that waits under the stream id of the hello, whatever link it waits on, and
\* is counted on the link the hello names; a hello that is refused, or names no
\* waiting stream, ends it.
Hello(s, l, streamId) ==
  /\ role = "server" /\ stream[s].at = "hello"
  /\ UNCHANGED role
  /\ IF Admits(stream[s].peer, l, streamId)
     THEN \/ /\ ~streamId
             /\ stream' = [stream EXCEPT ![s] = [@ EXCEPT !.at = "connect", !.link = l]]
             /\ UNCHANGED stats
          \/ streamId /\ OpenRelay(s, l)
          \/ streamId /\ Drop(s) /\ UNCHANGED stats
     ELSE Drop(s) /\ UNCHANGED stats

ConnectTarget(s) == /\ stream[s].at = "connect"
                    /\ OpenRelay(s, stream[s].link)
                    /\ UNCHANGED role
-----------------------------------------------------------------------------
(***************************************************************************)
(* The client: run_forward_listener and dial_data_tunnel_and_relay.        *)
(***************************************************************************)
\* A local connection at the listener of a forward link.
AcceptLocal(s) == /\ role = "client" /\ stream[s].at = "idle"
                  /\ \E l \in DOMAIN Link :
                       /\ Link[l] = [transport |-> "tcp", mode |-> "forward"]
                       /\ stream' = [stream EXCEPT ![s] = [@ EXCEPT !.at = "dial", !.link = l]]
                  /\ UNCHANGED <<role, stats>>

ConnectServer(s) == Goes(s, "dial", "handshake") /\ UNCHANGED <<role, stats>>

ClientHandshake(s) == /\ role = "client" /\ Goes(s, "handshake", "hello")
                      /\ UNCHANGED <<role, stats>>

\* send_json succeeds and the relay begins, whatever the server makes of it.
SendHello(s) == /\ role = "client" /\ stream[s].at = "hello"
                /\ OpenRelay(s, stream[s].link)
                /\ UNCHANGED role
-----------------------------------------------------------------------------
(***************************************************************************)
(* Both: every step before the relay may fail, and the handshake and the   *)
(* wait for the hello have timeouts; then the relay.                       *)
(***************************************************************************)
\* Mutant: the server waits for a StreamHello without a timeout.
SetupFailsButHello(s) == /\ stream[s].at \in Setup \ {"hello"}
                         /\ Drop(s) /\ UNCHANGED <<role, stats>>

SetupFails(s) == stream[s].at \in Setup /\ Drop(s) /\ UNCHANGED <<role, stats>>

\* Mutant: a stream is not counted as opened.
CountNothing(s) == Goes(s, "opening", "relay") /\ UNCHANGED <<role, stats>>

\* fetch_add on total_streams.
CountTotal(s) == /\ Goes(s, "opening", "relay")
                 /\ stats' = [stats EXCEPT ![stream[s].link].total = @ + 1]
                 /\ UNCHANGED role

\* copy_bidirectional has passed on what side x sent, and x closes; the other
\* direction goes on.
SideCloses(s, x) ==
  /\ stream[s].at = "relay" /\ x \notin stream[s].eof
  /\ \E n \in Sizes[x] :
       LET closed == stream[s].eof \cup {x}
       IN  stream' = [stream EXCEPT ![s] = IF x = "a"
                        THEN [@ EXCEPT !.eof = closed, !.aToB = n]
                        ELSE [@ EXCEPT !.eof = closed, !.bToA = n]]
  /\ UNCHANGED <<role, stats>>

\* Both sides have closed: the stream is counted out and its bytes in.
RelayEnds(s) ==
  /\ stream[s].eof = {"a", "b"} /\ Goes(s, "relay", "ended")
  /\ stats' = [stats EXCEPT ![stream[s].link] =
                  [active |-> @.active - 1, total |-> @.total,
                   forward |-> @.forward + stream[s].aToB, back |-> @.back + stream[s].bToA]]
  /\ UNCHANGED role

\* Mutant: an error leaves the relay before the stream is counted out.
RelayFailsEarly(s) == stream[s].at = "relay" /\ Drop(s) /\ UNCHANGED <<role, stats>>

\* Mutant: a failed stream is counted out twice.
RelayFailsTwice(s) == /\ stream[s].at = "relay" /\ Drop(s)
                      /\ stats' = [stats EXCEPT ![stream[s].link].active = @ - 2]
                      /\ UNCHANGED role

\* A read or a write fails: what was copied is not counted.
RelayFails(s) == /\ stream[s].at = "relay" /\ Drop(s)
                 /\ stats' = [stats EXCEPT ![stream[s].link].active = @ - 1]
                 /\ UNCHANGED role

StreamStep(s) ==
  \/ Accept(s) \/ MatchPeer(s) \/ ConnectTarget(s)
  \/ \E l \in LinkIds, streamId \in BOOLEAN : Hello(s, l, streamId)
  \/ AcceptLocal(s) \/ ConnectServer(s) \/ ClientHandshake(s) \/ SendHello(s)
  \/ SetupFails(s) \/ CountTotal(s) \/ \E x \in {"a", "b"} : SideCloses(s, x)
  \/ RelayEnds(s) \/ RelayFails(s)

\* Tasks run and what has a timeout or a connect error ends; peers and
\* applications need not send or close anything.
Proceeds(s) == \/ SetupFails(s) \/ CountTotal(s) \/ RelayEnds(s)
-----------------------------------------------------------------------------
\* The bytes that the streams in S relayed to the local side and from it, each
\* byte the pair of its stream and its position.
ToLocal(S) == UNION {{s} \X (1..stream[s].aToB) : s \in S}
FromLocal(S) == UNION {{s} \X (1..stream[s].bToA) : s \in S}

Quiet == \A s \in Streams : stream[s].at \in {"idle", "ended"}
Over(l) == {s \in Streams : stream[s].link = l}

\* When no stream is under way nothing is counted as active, and the byte
\* counters are the sums over the streams that ended without an error, one
\* direction each: no path through the relay forgets to count a stream out or
\* in, or counts bytes twice.  Which direction is forward is left open: relay
\* counts tunnel to local side, stats.rs speaks of client or initiator to
\* target, and on half of the links that is the other one.
QuietIsExact ==
  Quiet => \A l \in DOMAIN Link :
             /\ stats[l].active = 0
             /\ \/ /\ stats[l].forward = Cardinality(ToLocal(Over(l)))
                   /\ stats[l].back = Cardinality(FromLocal(Over(l)))
                \/ /\ stats[l].forward = Cardinality(FromLocal(Over(l)))
                   /\ stats[l].back = Cardinality(ToLocal(Over(l)))

\* No stream waits for ever once nothing but this daemon is to act: a setup
\* ends in a relay or an error, a relay ends when both sides have closed.
Waiting(s) == \/ stream[s].at \in Setup \cup {"opening"}
              \/ stream[s].at = "relay" /\ stream[s].eof = {"a", "b"}
StreamsSettle == \A s \in Streams : Waiting(s) ~> ~Waiting(s)
=============================================================================
