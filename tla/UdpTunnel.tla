------------------------------ MODULE UdpTunnel ------------------------------
(***************************************************************************)
(* ghostport-udp: datagrams of local applications, tunnelled in one Noise  *)
(* session per flow.  The client opens a flow for each local source, with  *)
(* a socket of its own; the server tells sessions apart by the source      *)
(* address it sees.  Datagrams between them are lost, duplicated and       *)
(* reordered, and a NAT may give a flow a new address.                     *)
(*                                                                         *)
(* A datagram is its kind, the address the server sees, and the session    *)
(* whose key it is encrypted with (an initiation names the flow that made  *)
(* it instead).  Of a payload only one thing is kept: that some payloads   *)
(* of an application read as a StreamHello (ParsesAs).  Time is not        *)
(* counted: an idle timer may expire whenever nothing is there to be       *)
(* handled.                                                                *)
(*                                                                         *)
(* A datagram sent stays in the network: it may arrive at any later time,  *)
(* more than once, or never.                                               *)
(***************************************************************************)
EXTENDS Naturals, Sequences

CONSTANTS
    Apps,          \* local sources of datagrams
    Links,         \* the UDP forward links
    LinkOf,        \* LinkOf[a]: the link whose listener a sends to
    ParsesAs,      \* ParsesAs[a]: the links that payloads of a name, read as a hello
    Authorised,    \* links that the client's peer entry at the server lists
    MaxFlows,      \* bound: flows opened
    MaxSessions,   \* bound: sessions opened
    MaxRebinds,    \* bound: new addresses given by the NAT
    Cap            \* capacity of the channel of a flow or session

ASSUME UdpAssumption ==
    /\ LinkOf \in [Apps -> Links] /\ ParsesAs \in [Apps -> SUBSET Links]
    /\ Authorised \subseteq Links
    /\ MaxFlows \in Nat /\ MaxSessions \in Nat /\ MaxRebinds \in Nat
    /\ Cap \in Nat \ {0}

Flows == 1..MaxFlows
Sessions == 1..MaxSessions
\* A flow's socket starts with an address of its own; rebinding gives new ones.
Addrs == 1..(MaxFlows + MaxRebinds)

\* To the server: handshake message 1, StreamHello, payload.  To the client:
\* handshake message 2, payload.
Initiation(f, addr) == [kind |-> "init", addr |-> addr, key |-> f]
Datagram(kind, addr, s) == [kind |-> kind, addr |-> addr, key |-> s]
Uplink == {Initiation(f, addr) : f \in Flows, addr \in Addrs}
            \cup [kind : {"hello", "data"}, addr : Addrs, key : Sessions]
Downlink == [kind : {"response", "reply"}, addr : Addrs, key : Sessions]

VARIABLES
    flows,       \* FlowMap: flows[a], 0 for none
    flow,        \* the tasks that run run_flow, with the locals that matter
    sessions,    \* SessionMap: sessions[addr], 0 for none
    session,     \* the tasks that run run_session
    up, down,    \* datagrams sent to the server and to the client
    nextFlow, nextSession, rebinds,
    talking,     \* datagrams still arrive, from anywhere
    delivered,   \* history: <<application, link of the target it reached>>
    replied      \* history: <<application replied to, application reached>>

client == <<flows, flow, nextFlow>>
server == <<sessions, session, nextSession>>
udp == <<client, server, up, down, rebinds, talking, delivered, replied>>

NoFlow == [phase |-> "none", app |-> 0, addr |-> 0, key |-> 0, inbox |-> 0]
NoSession == [phase |-> "none", addr |-> 0, flow |-> 0, link |-> 0, inbox |-> <<>>]

UdpInit ==
    /\ flows = [a \in Apps |-> 0]
    /\ flow = [f \in Flows |-> NoFlow]
    /\ sessions = [addr \in Addrs |-> 0]
    /\ session = [s \in Sessions |-> NoSession]
    /\ up = {} /\ down = {}
    /\ nextFlow = 1 /\ nextSession = 1 /\ rebinds = 0
    /\ talking = TRUE
    /\ delivered = {} /\ replied = {}

-----------------------------------------------------------------------------
(* The network and the NAT *)

\* The NAT gives the flow's socket a new address, which nobody notices.
Rebind(f) ==
    /\ rebinds < MaxRebinds /\ flow[f].phase \in {"handshake", "relay"}
    /\ rebinds' = rebinds + 1
    /\ flow' = [flow EXCEPT ![f].addr = MaxFlows + rebinds + 1]
    /\ UNCHANGED <<flows, nextFlow, server, up, down, talking, delivered, replied>>

\* From some moment on nothing arrives any more.
Quiet ==
    /\ talking /\ talking' = FALSE
    /\ UNCHANGED <<client, server, up, down, rebinds, delivered, replied>>

-----------------------------------------------------------------------------
(* The client: run_forward_listener and run_flow *)

clientOnly == <<server, rebinds, talking, delivered>>

\* A datagram of a local source without a flow starts one.
OpenFlow(a) ==
    /\ talking /\ flows[a] = 0 /\ nextFlow \in Flows
    /\ flows' = [flows EXCEPT ![a] = nextFlow]
    /\ flow' = [flow EXCEPT ![nextFlow] =
                    [NoFlow EXCEPT !.phase = "start", !.app = a, !.addr = nextFlow]]
    /\ nextFlow' = nextFlow + 1
    /\ UNCHANGED <<clientOnly, up, down, replied>>

\* try_send into the channel of the source's flow; when the channel is full,
\* or the flow has ended and is not yet removed, the datagram is dropped.
QueueLocal(a) ==
    /\ talking /\ flows[a] # 0
    /\ LET f == flows[a] IN
        /\ flow[f].phase # "closing" /\ flow[f].inbox < Cap
        /\ flow' = [flow EXCEPT ![f].inbox = @ + 1]
    /\ UNCHANGED <<clientOnly, flows, nextFlow, up, down, replied>>

\* Bind, connect, handshake message 1.
Dial(f) ==
    /\ flow[f].phase = "start"
    /\ flow' = [flow EXCEPT ![f].phase = "handshake"]
    /\ up' = up \cup {Initiation(f, flow[f].addr)}
    /\ UNCHANGED <<clientOnly, flows, nextFlow, down, replied>>

\* Handshake message 2 arrives; StreamHello and the first datagram follow,
\* the hello unacknowledged.
FinishHandshake(f) ==
    /\ talking /\ flow[f].phase = "handshake"
    /\ \E p \in down :
        /\ p.kind = "response" /\ p.addr = flow[f].addr /\ session[p.key].flow = f
        /\ flow' = [flow EXCEPT ![f].phase = "relay", ![f].key = p.key]
        /\ up' = up \cup {Datagram("hello", p.addr, p.key), Datagram("data", p.addr, p.key)}
    /\ UNCHANGED <<clientOnly, flows, nextFlow, down, replied>>

FlowSends(f) ==
    /\ flow[f].phase = "relay" /\ flow[f].inbox > 0
    /\ flow' = [flow EXCEPT ![f].inbox = @ - 1]
    /\ up' = up \cup {Datagram("data", flow[f].addr, flow[f].key)}
    /\ UNCHANGED <<clientOnly, flows, nextFlow, down, replied>>

\* Replies that reach the flow's socket and decrypt.
Replies(f) ==
    {p \in down : p.kind = "reply" /\ p.addr = flow[f].addr /\ p.key = flow[f].key}

FlowReceives(f) ==
    /\ talking /\ flow[f].phase = "relay"
    /\ \E p \in Replies(f) :
        replied' = replied \cup {<<flow[session[p.key].flow].app, flow[f].app>>}
    /\ UNCHANGED <<clientOnly, client, up, down>>

FlowReturns(f) ==
    /\ flow' = [flow EXCEPT ![f].phase = "closing", ![f].inbox = 0]
    /\ UNCHANGED <<clientOnly, flows, nextFlow, up, down, replied>>

\* An error before the relay, or HANDSHAKE_TIMEOUT.
FlowFails(f) == flow[f].phase \in {"start", "handshake"} /\ FlowReturns(f)

\* The tunnel socket reports an error, or a datagram does not decrypt.
FlowBreaks(f) == flow[f].phase = "relay" /\ FlowReturns(f)

\* FLOW_IDLE_TIMEOUT.  The timer restarts with every turn of the loop.
FlowIdles(f) == flow[f].phase = "relay" /\ flow[f].inbox = 0 /\ FlowReturns(f)

\* The spawned task removes its entry after run_flow has returned.
RemoveFlow(f) ==
    /\ flow[f].phase = "closing"
    /\ flow' = [flow EXCEPT ![f].phase = "gone"]
    /\ flows' = [flows EXCEPT ![flow[f].app] = 0]
    /\ UNCHANGED <<clientOnly, nextFlow, up, down, replied>>

-----------------------------------------------------------------------------
(* The server: the demultiplexing loop of run, and run_session *)

serverOnly == <<client, rebinds, talking, replied>>

\* Mutant: the loop queues without looking at the room in the channel.
RouteUnbounded(p) ==
    /\ talking /\ sessions[p.addr] # 0
    /\ LET s == sessions[p.addr] IN
        /\ session[s].phase # "closing" /\ Len(session[s].inbox) <= Cap
        /\ session' = [session EXCEPT ![s].inbox = Append(@, p)]
    /\ UNCHANGED <<serverOnly, sessions, nextSession, up, down, delivered>>

\* A datagram of a known address goes to its session's channel, by try_send:
\* one that finds the channel full or closed is dropped.
RouteToSession(p) ==
    /\ talking /\ sessions[p.addr] # 0
    /\ LET s == sessions[p.addr] IN
        /\ session[s].phase # "closing" /\ Len(session[s].inbox) < Cap
        /\ session' = [session EXCEPT ![s].inbox = Append(@, p)]
    /\ UNCHANGED <<serverOnly, sessions, nextSession, up, down, delivered>>

\* Mutant: an entry whose channel is closed counts as no entry.
ReopenClosed(p) ==
    /\ talking /\ p.kind = "init" /\ nextSession \in Sessions
    /\ \A s \in Sessions : sessions[p.addr] = s => session[s].phase = "closing"
    /\ sessions' = [sessions EXCEPT ![p.addr] = nextSession]
    /\ session' = [session EXCEPT ![nextSession] =
                    [NoSession EXCEPT !.phase = "start", !.addr = p.addr, !.flow = p.key]]
    /\ nextSession' = nextSession + 1
    /\ UNCHANGED <<serverOnly, up, down, delivered>>

\* An initiation of an unknown address opens a session, once the limiter has
\* let it pass and a peer's key has matched.  Anything else from an unknown
\* address, and what the limiter refuses, is dropped.
OpenSession(p) ==
    /\ talking /\ p.kind = "init" /\ sessions[p.addr] = 0 /\ nextSession \in Sessions
    /\ sessions' = [sessions EXCEPT ![p.addr] = nextSession]
    /\ session' = [session EXCEPT ![nextSession] =
                    [NoSession EXCEPT !.phase = "start", !.addr = p.addr, !.flow = p.key]]
    /\ nextSession' = nextSession + 1
    /\ UNCHANGED <<serverOnly, up, down, delivered>>

\* The session's task sends handshake message 2.
Respond(s) ==
    /\ session[s].phase = "start"
    /\ session' = [session EXCEPT ![s].phase = "hello"]
    /\ down' = down \cup {Datagram("response", session[s].addr, s)}
    /\ UNCHANGED <<serverOnly, sessions, nextSession, up, delivered>>

\* The next datagram in the channel of s is encrypted with its key.
Decrypts(s) ==
    /\ session[s].inbox # <<>>
    /\ Head(session[s].inbox).kind # "init" /\ Head(session[s].inbox).key = s

\* The links that the next datagram of s may name as a StreamHello: a hello
\* that of its flow's listener, payload what it happens to parse as.
Named(s) ==
    LET a == flow[session[s].flow].app IN
        IF Head(session[s].inbox).kind = "hello" THEN {LinkOf[a]} ELSE ParsesAs[a]

\* The first datagram that decrypts is the hello if it parses as one, be it the
\* client's or a payload that overtook it.
HelloIsNext(s) == session[s].phase = "hello" /\ Decrypts(s) /\ Named(s) # {}

\* Mutant: the peer's list of links is not looked at.
AcceptAnyHello(s) ==
    /\ HelloIsNext(s)
    /\ \E link \in Named(s) :
        session' = [session EXCEPT ![s].phase = "relay", ![s].link = link,
                                   ![s].inbox = Tail(@)]
    /\ UNCHANGED <<serverOnly, sessions, nextSession, up, down, delivered>>

\* The link the hello names must be in the peer's list.
AcceptHello(s) ==
    /\ HelloIsNext(s)
    /\ \E link \in Named(s) \cap Authorised :
        session' = [session EXCEPT ![s].phase = "relay", ![s].link = link,
                                   ![s].inbox = Tail(@)]
    /\ UNCHANGED <<serverOnly, sessions, nextSession, up, down, delivered>>

\* What decrypts in the relay goes to the target, a second hello too.
SessionForwards(s) ==
    /\ session[s].phase = "relay" /\ Decrypts(s)
    /\ session' = [session EXCEPT ![s].inbox = Tail(@)]
    /\ delivered' = delivered \cup {<<flow[session[s].flow].app, session[s].link>>}
    /\ UNCHANGED <<serverOnly, sessions, nextSession, up, down>>

TargetReplies(s) ==
    /\ talking /\ session[s].phase = "relay"
    /\ down' = down \cup {Datagram("reply", session[s].addr, s)}
    /\ UNCHANGED <<serverOnly, server, up, delivered>>

SessionReturns(s) ==
    /\ session' = [session EXCEPT ![s].phase = "closing", ![s].inbox = <<>>]
    /\ UNCHANGED <<serverOnly, sessions, nextSession, up, down, delivered>>

\* The handshake fails, a datagram does not decrypt, or payload that does not
\* parse comes where the hello should (it was lost or overtaken).
SessionFails(s) ==
    /\ \/ session[s].phase = "start"
       \/ session[s].phase \in {"hello", "relay"} /\ session[s].inbox # <<>> /\ ~Decrypts(s)
       \/ /\ session[s].phase = "hello" /\ session[s].inbox # <<>>
          /\ Head(session[s].inbox).kind = "data"
    /\ SessionReturns(s)

\* The link is not the peer's, or the target's socket cannot be opened.
RefuseHello(s) == HelloIsNext(s) /\ SessionReturns(s)

\* Mutant: the wait for the hello has no limit.
HelloAwaited(s) == HelloIsNext(s) /\ SessionReturns(s)

\* STREAM_HELLO_TIMEOUT.
HelloTimesOut(s) == session[s].phase = "hello" /\ SessionReturns(s)

\* The target's socket reports an error.
SessionBreaks(s) == session[s].phase = "relay" /\ SessionReturns(s)

\* SESSION_IDLE_TIMEOUT.
SessionIdles(s) ==
    session[s].phase = "relay" /\ session[s].inbox = <<>> /\ SessionReturns(s)

\* The spawned task removes its entry after run_session has returned.
RemoveSession(s) ==
    /\ session[s].phase = "closing"
    /\ session' = [session EXCEPT ![s].phase = "gone"]
    /\ sessions' = [sessions EXCEPT ![session[s].addr] = 0]
    /\ UNCHANGED <<serverOnly, nextSession, up, down, delivered>>

-----------------------------------------------------------------------------

UdpNext ==
    \/ Quiet
    \/ \E a \in Apps : OpenFlow(a) \/ QueueLocal(a)
    \/ \E f \in Flows :
        \/ Rebind(f) \/ Dial(f) \/ FinishHandshake(f) \/ FlowSends(f) \/ FlowReceives(f)
        \/ FlowFails(f) \/ FlowBreaks(f) \/ FlowIdles(f) \/ RemoveFlow(f)
    \/ \E p \in up : RouteToSession(p) \/ OpenSession(p)
    \/ \E s \in Sessions :
        \/ Respond(s) \/ AcceptHello(s) \/ SessionForwards(s) \/ TargetReplies(s)
        \/ SessionFails(s) \/ RefuseHello(s) \/ HelloTimesOut(s)
        \/ SessionBreaks(s) \/ SessionIdles(s) \/ RemoveSession(s)

\* Tasks run, handshakes and hellos time out.  An idle timer is owed an end
\* only while nothing can restart it: for a flow, a datagram in its channel or a
\* reply that may arrive; for a session, any datagram.
UdpFairness ==
    /\ \A f \in Flows :
        /\ WF_udp(Dial(f)) /\ WF_udp(FlowFails(f)) /\ WF_udp(FlowSends(f))
        /\ WF_udp((~talking \/ Replies(f) = {}) /\ FlowIdles(f)) /\ WF_udp(RemoveFlow(f))
    /\ \A s \in Sessions :
        /\ WF_udp(Respond(s)) /\ WF_udp(SessionForwards(s)) /\ WF_udp(SessionFails(s))
        /\ WF_udp(HelloTimesOut(s)) /\ WF_udp(~talking /\ SessionIdles(s))
        /\ WF_udp(RemoveSession(s))

UdpSpec == UdpInit /\ [][UdpNext]_udp /\ UdpFairness

-----------------------------------------------------------------------------
(* Properties *)

FlowTasks ==
    [phase : {"start", "handshake", "relay", "closing", "gone"}, app : Apps,
     addr : Addrs, key : Sessions \cup {0}, inbox : 0..Cap]
SessionTasks ==
    [phase : {"start", "hello", "relay", "closing", "gone"}, addr : Addrs,
     flow : Flows, link : Links \cup {0}, inbox : Seq(Uplink)]

\* Every variable has its type; the channel of a flow or session holds at most
\* Cap datagrams (mpsc::channel(16), try_send).
UdpTypeOK ==
    /\ flows \in [Apps -> Flows \cup {0}]
    /\ flow \in [Flows -> {NoFlow} \cup FlowTasks]
    /\ sessions \in [Addrs -> Sessions \cup {0}]
    /\ session \in [Sessions -> {NoSession} \cup SessionTasks]
    /\ \A s \in Sessions : Len(session[s].inbox) <= Cap
    /\ up \subseteq Uplink /\ down \subseteq Downlink
    /\ nextFlow \in 1..(MaxFlows + 1) /\ nextSession \in 1..(MaxSessions + 1)
    /\ rebinds \in 0..MaxRebinds /\ talking \in BOOLEAN
    /\ delivered \subseteq Apps \X Links /\ replied \subseteq Apps \X Apps

FlowRuns(f) == flow[f].phase \notin {"none", "gone"}
SessionRuns(s) == session[s].phase \notin {"none", "gone"}

\* Both maps and their tasks agree at every moment: a source has an entry
\* exactly while one task serves it, and a task that removes "its" entry by
\* address never removes that of a successor.
OneTaskPerSource ==
    /\ \A a \in Apps, f \in Flows : flows[a] = f <=> FlowRuns(f) /\ flow[f].app = a
    /\ \A addr \in Addrs, s \in Sessions :
        sessions[addr] = s <=> SessionRuns(s) /\ session[s].addr = addr

\* The links a session of application a can end up on: that of a's listener,
\* or one that a payload of a spells out.
LinksOf(a) == {LinkOf[a]} \cup ParsesAs[a]

\* However datagrams are lost, doubled, reordered or re-addressed, a target
\* only gets datagrams of applications of its own link, or of one whose own
\* payload named that link and overtook the hello; always a link the peer may
\* use; and an application only gets the replies to its own flow.
OwnTraffic ==
    /\ \A d \in delivered : d[2] \in LinksOf(d[1]) /\ d[2] \in Authorised
    /\ \A r \in replied : r[1] = r[2]

\* Once nothing arrives any more, every flow and session ends and its entry is
\* removed: neither map leaks, wherever the silence catches its tasks.
AllReclaimed ==
    ~talking ~> (\A f \in Flows : ~FlowRuns(f)) /\ (\A s \in Sessions : ~SessionRuns(s))

\* SECURITY.md on a client whose address changes mid-session: the old session
\* times out "and a fresh handshake starts".  That takes a new flow, so the
\* one with the new address would have to end.
RebindStartsAnew ==
    \A f \in Flows : (flow[f].phase = "relay" /\ flow[f].addr > MaxFlows) ~> ~FlowRuns(f)

=============================================================================
