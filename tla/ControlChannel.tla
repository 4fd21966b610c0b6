--------------------------- MODULE ControlChannel ---------------------------
(***************************************************************************)
(* The life of control connections: each client's reconnect loop with its  *)
(* backoff, the server's handshake tasks, the queue of authenticated       *)
(* connections they feed, and the loop that serves one connection after    *)
(* the other.  What a session says is in ControlFraming and                *)
(* ReverseStreams, what both roles store about it in ControlStatus; here   *)
(* only a client's connected flag is kept.                                 *)
(*                                                                         *)
(* A connection that breaks (the network cuts it, or an end leaves it over *)
(* a torn frame) is noticed by each end on its own, as a failed read or    *)
(* write; an end that has closed is noticed by the other in the same way.  *)
(* One that is lost silently delivers nothing more, a close included: the  *)
(* client notices by its pings, the server only if it has a stream to ask  *)
(* for, which may never be.                                                *)
(***************************************************************************)
EXTENDS Naturals, Sequences, FiniteSets, Functions

CONSTANTS Clients,    \* the configured peers, one running client each
          MaxBackoff, \* seconds: MAX_BACKOFF
          MaxFaults,  \* bound on breaks, timeouts and failed handshakes
          None

ASSUME ControlAssumption == /\ MaxBackoff \in Nat \ {0}
                            /\ MaxFaults \in Nat
                            /\ IsFiniteSet(Clients)

\* A connection that gets as far as the handshake ends only through a fault.
Conns == 1..(MaxFaults + Cardinality(Clients))

ASSUME NoneAssumption == None \notin Clients \cup Conns

VARIABLES client,   \* each client: where its loop is, its connection, its backoff
          owner,    \* the client that opened a connection, None before that
          clientEnd, serverEnd, \* what each end of a connection is doing
          broken,   \* connections the network has cut
          silent,   \* the ones among them whose ends are told nothing
          backlog,  \* authenticated connections not yet served, in order: the
                    \* channel's slots and the tasks waiting to send into it
          serving,  \* the connection of the running session, or None
          online,   \* clients whose ControlStatus says connected
          faults    \* faults so far

controlVars == <<client, owner, clientEnd, serverEnd, broken, silent, backlog, serving,
                 online, faults>>

Backoffs == 1..MaxBackoff

ControlTypeOK ==
  /\ client \in [Clients -> [at : {"dial", "handshake", "session", "sleep"},
                             conn : Conns \cup {None}, backoff : Backoffs]]
  /\ owner \in [Conns -> Clients \cup {None}]
  /\ clientEnd \in [Conns -> {"none", "handshake", "session", "closed"}]
  /\ serverEnd \in [Conns -> {"none", "handshake", "backlog", "session", "closed"}]
  /\ broken \subseteq Conns /\ silent \subseteq broken
  /\ backlog \in Seq(Conns)
  /\ serving \in Conns \cup {None}
  /\ online \subseteq Clients
  /\ faults \in 0..MaxFaults

ControlInit ==
  /\ client = [c \in Clients |-> [at |-> "dial", conn |-> None, backoff |-> 1]]
  /\ owner = [i \in Conns |-> None]
  /\ clientEnd = [i \in Conns |-> "none"] /\ serverEnd = [i \in Conns |-> "none"]
  /\ broken = {} /\ silent = {} /\ backlog = <<>> /\ serving = None
  /\ online = {} /\ faults = 0

Fault == faults < MaxFaults /\ faults' = faults + 1
-----------------------------------------------------------------------------
(***************************************************************************)
(* The client: run_control_loop.                                           *)
(***************************************************************************)
\* The connection is made, accepted, and admitted by the limiter.
Dial(c) ==
  /\ client[c].at = "dial"
  /\ \E i \in Conns :
       /\ owner[i] = None /\ \A j \in 1..(i - 1) : owner[j] # None
       /\ owner' = [owner EXCEPT ![i] = c]
       /\ client' = [client EXCEPT ![c] = [@ EXCEPT !.at = "handshake", !.conn = i]]
       /\ clientEnd' = [clientEnd EXCEPT ![i] = "handshake"]
       /\ serverEnd' = [serverEnd EXCEPT ![i] = "handshake"]
  /\ UNCHANGED <<broken, silent, backlog, serving, online, faults>>

\* Nothing listens, or the server drops the connection at the limiter.
ConnectFails(c) ==
  /\ client[c].at = "dial"
  /\ client' = [client EXCEPT ![c].at = "sleep"]
  /\ UNCHANGED <<owner, clientEnd, serverEnd, broken, silent, backlog, serving, online, faults>>

\* The server's answer arrives: set_connected, and the backoff starts anew.
HandshakeCompletes(c) ==
  LET i == client[c].conn
  IN  /\ client[c].at = "handshake"
      /\ serverEnd[i] \in {"backlog", "session"} /\ i \notin broken
      /\ client' = [client EXCEPT ![c] = [@ EXCEPT !.at = "session", !.backoff = 1]]
      /\ clientEnd' = [clientEnd EXCEPT ![i] = "session"]
      /\ online' = online \cup {c}
      /\ UNCHANGED <<owner, serverEnd, broken, silent, backlog, serving, faults>>

\* The client leaves connection i for the sleep; set_disconnected after a session.
ClientLeaves(c) ==
  /\ client' = [client EXCEPT ![c] = [@ EXCEPT !.at = "sleep", !.conn = None]]
  /\ clientEnd' = [clientEnd EXCEPT ![client[c].conn] = "closed"]
  /\ online' = online \ {c}
  /\ UNCHANGED <<owner, serverEnd, broken, silent, backlog, serving>>

\* Mutant: a handshake that gets no answer is waited for without a timeout.
ClientNoticesInSession(c) ==
  LET i == client[c].conn
  IN  /\ client[c].at = "session"
      /\ i \in broken \/ serverEnd[i] = "closed"
      /\ ClientLeaves(c) /\ UNCHANGED faults

\* A read or write of the handshake or of the session fails, or the handshake
\* gets no answer within HANDSHAKE_TIMEOUT.
ClientNotices(c) ==
  LET i == client[c].conn
  IN  /\ client[c].at \in {"handshake", "session"}
      /\ i \in broken \/ serverEnd[i] = "closed"
      /\ ClientLeaves(c) /\ UNCHANGED faults

\* HANDSHAKE_TIMEOUT, whatever the server is doing.
ClientTimesOut(c) == client[c].at = "handshake" /\ Fault /\ ClientLeaves(c)

\* Mutant: the backoff is doubled without a bound.
WakeUnbounded(c) ==
  /\ client[c].at = "sleep"
  /\ client' = [client EXCEPT ![c].at = "dial", ![c].backoff = 2 * @]
  /\ UNCHANGED <<owner, clientEnd, serverEnd, broken, silent, backlog, serving, online, faults>>

\* min(backoff * 2, MAX_BACKOFF)
Doubled(b) == IF 2 * b < MaxBackoff THEN 2 * b ELSE MaxBackoff

\* The sleep is over, after a session as after a failure.
Wake(c) ==
  /\ client[c].at = "sleep"
  /\ client' = [client EXCEPT ![c] = [@ EXCEPT !.at = "dial", !.backoff = Doubled(client[c].backoff)]]
  /\ UNCHANGED <<owner, clientEnd, serverEnd, broken, silent, backlog, serving, online, faults>>
-----------------------------------------------------------------------------
(***************************************************************************)
(* The server: handshake tasks and the session loop.                       *)
(***************************************************************************)
\* The task answers the handshake and sends the connection to the loop; the
\* client may have given up in the meantime.
Authenticate(i) ==
  /\ serverEnd[i] = "handshake" /\ i \notin broken
  /\ serverEnd' = [serverEnd EXCEPT ![i] = "backlog"]
  /\ backlog' = Append(backlog, i)
  /\ UNCHANGED <<client, owner, clientEnd, broken, silent, serving, online, faults>>

Rejected(i) == /\ serverEnd' = [serverEnd EXCEPT ![i] = "closed"]
               /\ UNCHANGED <<client, owner, clientEnd, broken, silent, backlog, serving, online>>

HandshakeBreaks(i) == /\ serverEnd[i] = "handshake"
                      /\ i \in broken \/ clientEnd[i] = "closed"
                      /\ Rejected(i) /\ UNCHANGED faults

ServerTimesOut(i) == serverEnd[i] = "handshake" /\ Fault /\ Rejected(i)

\* Mutant: the newest connection is served and the older ones are dropped.
ServeNewest ==
  /\ serving = None /\ backlog # <<>>
  /\ serving' = backlog[Len(backlog)] /\ backlog' = <<>>
  /\ serverEnd' = [i \in Conns |-> IF i = serving' THEN "session"
                                   ELSE IF i \in Range(backlog) THEN "closed" ELSE serverEnd[i]]
  /\ UNCHANGED <<client, owner, clientEnd, broken, silent, online, faults>>

\* authenticated_rx.recv, and the session begins, whether the connection is
\* still alive or not.
ServeNext ==
  /\ serving = None /\ backlog # <<>>
  /\ serving' = Head(backlog) /\ backlog' = Tail(backlog)
  /\ serverEnd' = [serverEnd EXCEPT ![Head(backlog)] = "session"]
  /\ UNCHANGED <<client, owner, clientEnd, broken, silent, online, faults>>

\* Mutant: only a connection the network cut is noticed, not one the client closed.
SessionEndsOnBreak ==
  /\ serving # None /\ serving \in broken
  /\ serving' = None
  /\ serverEnd' = [serverEnd EXCEPT ![serving] = "closed"]
  /\ UNCHANGED <<client, owner, clientEnd, broken, silent, backlog, online, faults>>

\* run_control_session returns on a failed read or write.
SessionEnds ==
  /\ serving # None /\ (serving \in broken \/ clientEnd[serving] = "closed")
  /\ serving' = None
  /\ serverEnd' = [serverEnd EXCEPT ![serving] = "closed"]
  /\ UNCHANGED <<client, owner, clientEnd, broken, silent, backlog, online, faults>>

Break(i) == /\ owner[i] # None /\ i \notin broken
            /\ clientEnd[i] # "closed" \/ serverEnd[i] # "closed"
            /\ Fault
            /\ broken' = broken \cup {i}
            /\ silent' \in {silent, silent \cup {i}}
            /\ UNCHANGED <<client, owner, clientEnd, serverEnd, backlog, serving, online>>
-----------------------------------------------------------------------------
ClientStep(c) == \/ Dial(c) \/ ConnectFails(c) \/ HandshakeCompletes(c) \/ ClientNotices(c)
                 \/ ClientTimesOut(c) \/ Wake(c)

ControlNext == \/ \E c \in Clients : ClientStep(c)
               \/ \E i \in Conns : \/ Authenticate(i) \/ HandshakeBreaks(i)
                                   \/ ServerTimesOut(i) \/ Break(i)
               \/ ServeNext \/ SessionEnds

\* Tasks run, handshakes time out, a client's pings find a broken connection,
\* the server notices one that was reset or closed but not one that was lost
\* silently, and a client that keeps dialing gets through again and again;
\* faults need not happen.
ControlFairness ==
  /\ \A c \in Clients : /\ SF_controlVars(Dial(c))
                        /\ WF_controlVars(HandshakeCompletes(c) \/ ClientNotices(c))
                        /\ WF_controlVars(Wake(c))
  /\ \A i \in Conns : WF_controlVars(Authenticate(i) \/ HandshakeBreaks(i))
  /\ WF_controlVars(ServeNext) /\ WF_controlVars(SessionEnds /\ serving \notin silent)

ControlSpec == ControlInit /\ [][ControlNext]_controlVars /\ ControlFairness
-----------------------------------------------------------------------------
\* A client that says "connected" holds a connection the server will serve or
\* serves, unless it was cut: no authenticated connection is dropped between
\* the handshake task and the session loop.
OnlineIsKnown ==
  \A c \in online : LET i == client[c].conn
                    IN  i \in broken \/ i = serving \/ i \in Range(backlog)

\* Once the faults are over the dead connections in the backlog are worked
\* off, and the server stays with one whose client is there; only a session
\* that was lost silently can keep it from that, the gap the comment on
\* run_control_loop admits.
EventuallyServing ==
  <>[](/\ serving # None
       /\ serving \in silent \/ (serving \notin broken /\ clientEnd[serving] = "session"))

\* Every client ends up connected, as far as it can tell; only one is served.
EventuallyOnline == <>[](online = Clients)
=============================================================================
