-------------------------- MODULE UdpTunnelProofs --------------------------
(***************************************************************************)
(* Theorems about UdpTunnel: types, the agreement of both maps with their  *)
(* tasks, and that traffic stays with its own flow and link.               *)
(***************************************************************************)
EXTENDS UdpTunnel, TLAPS

\* Flows and sessions are numbered in the order in which they are opened.
FreshIds ==
    /\ \A f \in Flows : flow[f].phase = "none" <=> f >= nextFlow
    /\ \A s \in Sessions : session[s].phase = "none" <=> s >= nextSession

\* What a datagram or a task names has been opened.
Known ==
    /\ \A s \in Sessions : session[s].phase # "none" => flow[session[s].flow].phase # "none"
    /\ \A p \in up : p.kind = "init" => flow[p.key].phase # "none"
    /\ \A p \in down : session[p.key].phase # "none"

\* A relaying flow has the key of a session opened by its own initiation, and a
\* relaying session a link that the application behind it named.
Paired ==
    /\ \A f \in Flows : flow[f].phase = "relay" =>
        flow[f].key \in Sessions /\ session[flow[f].key].flow = f
    /\ \A s \in Sessions : session[s].phase = "relay" =>
        /\ session[s].link \in LinksOf(flow[session[s].flow].app)
        /\ session[s].link \in Authorised

UdpInv == UdpTypeOK /\ FreshIds /\ OneTaskPerSource /\ Known /\ Paired /\ OwnTraffic

-----------------------------------------------------------------------------
(* What types give the steps below *)

\* A fresh channel is empty, and numbering starts at 1.
LEMMA EmptyChannel == 0 \in 0..Cap /\ 1 \in 1..(MaxFlows + 1) /\ 1 \in 1..(MaxSessions + 1)
  BY UdpAssumption

\* A task that was started has the fields of one.
LEMMA TaskFields ==
    UdpTypeOK =>
      /\ \A f \in Flows : flow[f].phase # "none" => flow[f] \in FlowTasks
      /\ \A s \in Sessions : session[s].phase # "none" => session[s] \in SessionTasks
  BY DEF UdpTypeOK, NoFlow, NoSession

\* A datagram names an address, and the flow or session it belongs to.
LEMMA DatagramFields ==
    UdpTypeOK =>
      /\ \A p \in up : p.addr \in Addrs
      /\ \A p \in up : p.kind = "init" => p.key \in Flows
      /\ \A p \in down : p.addr \in Addrs /\ p.key \in Sessions
  BY DEF UdpTypeOK, Uplink, Downlink, Initiation

-----------------------------------------------------------------------------
(* The effect of a step on the client's and on the server's tasks *)

\* Flow task f goes on as r: it still runs, for the same application, and when
\* it relays it does so with the key of a session of its own.
FlowChanges(f, r) ==
    /\ FlowRuns(f)
    /\ r \in FlowTasks /\ r.phase # "gone" /\ r.app = flow[f].app
    /\ r.phase = "relay" => r.key \in Sessions /\ session[r.key].flow = f
    /\ flow' = [flow EXCEPT ![f] = r]
    /\ UNCHANGED <<flows, nextFlow>>

\* Session task s goes on as r: it still runs, for the same address and flow,
\* and when it relays it does so to the target of an authorised link.
SessionChanges(s, r) ==
    /\ SessionRuns(s)
    /\ r \in SessionTasks /\ r.phase # "gone" /\ Len(r.inbox) <= Cap
    /\ r.addr = session[s].addr /\ r.flow = session[s].flow
    /\ r.phase = "relay" =>
        r.link \in LinksOf(flow[r.flow].app) /\ r.link \in Authorised
    /\ session' = [session EXCEPT ![s] = r]
    /\ UNCHANGED <<sessions, nextSession>>

\* A step leaves the client's tasks alone, starts one, moves one on, or
\* removes the entry of one that has returned.
LEMMA ClientSteps ==
    ASSUME UdpInv, UdpNext
    PROVE  \/ UNCHANGED client
           \/ \E a \in Apps : OpenFlow(a)
           \/ \E f \in Flows, r \in FlowTasks : FlowChanges(f, r)
           \/ \E f \in Flows : RemoveFlow(f)
<1>. DEFINE Changes == \E f \in Flows, r \in FlowTasks : FlowChanges(f, r)
<1>0. UdpTypeOK /\ OneTaskPerSource /\ Paired
  BY DEF UdpInv
<1>1. ASSUME NEW a \in Apps, QueueLocal(a)
      PROVE  Changes
  <2>0. PICK f \in Flows : f = flows[a]
    BY <1>0, <1>1 DEF QueueLocal, UdpTypeOK
  <2>1. FlowRuns(f) /\ flow' = [flow EXCEPT ![f].inbox = @ + 1] /\ flow[f].inbox < Cap
    <3>1. FlowRuns(f)
      BY <1>0, <2>0 DEF OneTaskPerSource
    <3>. QED
      BY <1>1, <2>0, <3>1 DEF QueueLocal
  <2>. DEFINE r == [flow[f] EXCEPT !.inbox = @ + 1]
  <2>2. flow[f] \in FlowTasks
    BY <1>0, <2>1, TaskFields DEF FlowRuns
  <2>3. flow[f].inbox + 1 \in 0..Cap
    BY <2>1, <2>2, UdpAssumption DEF FlowTasks
  <2>4. r \in FlowTasks /\ r.phase = flow[f].phase /\ r.app = flow[f].app /\ r.key = flow[f].key
    BY <2>2, <2>3 DEF FlowTasks
  <2>5. flow' = [flow EXCEPT ![f] = r]
    BY <1>0, <2>1 DEF UdpTypeOK
  <2>6. UNCHANGED <<flows, nextFlow>>
    BY <1>1 DEF QueueLocal
  <2>7. r.phase # "gone" /\ (r.phase = "relay" => r.key \in Sessions /\ session[r.key].flow = f)
    BY <1>0, <2>1, <2>4 DEF FlowRuns, Paired
  <2>. HIDE DEF r
  <2>8. FlowChanges(f, r)
    BY <2>1, <2>4, <2>5, <2>6, <2>7 DEF FlowChanges
  <2>. QED
    BY <2>4, <2>8
<1>2a. ASSUME NEW f \in Flows, Rebind(f)
      PROVE  Changes
  <2>. DEFINE r == [flow[f] EXCEPT !.addr = MaxFlows + rebinds + 1]
  <2>1. flow[f] \in FlowTasks /\ FlowRuns(f) /\ UNCHANGED <<flows, nextFlow>>
    BY <1>0, <1>2a, TaskFields DEF Rebind, FlowRuns
  <2>2. MaxFlows + rebinds + 1 \in Addrs
    BY <1>0, <1>2a, UdpAssumption DEF Rebind, UdpTypeOK, Addrs
  <2>3. r \in FlowTasks /\ r.phase = flow[f].phase /\ r.app = flow[f].app /\ r.key = flow[f].key
    BY <2>1, <2>2 DEF FlowTasks
  <2>4. flow' = [flow EXCEPT ![f] = r]
    BY <1>0, <1>2a DEF UdpTypeOK, Rebind
  <2>5. r.phase # "gone" /\ (r.phase = "relay" => r.key \in Sessions /\ session[r.key].flow = f)
    BY <1>0, <2>1, <2>3 DEF FlowRuns, Paired
  <2>. HIDE DEF r
  <2>6. FlowChanges(f, r)
    BY <2>1, <2>3, <2>4, <2>5 DEF FlowChanges
  <2>. QED
    BY <2>3, <2>6
<1>2b. ASSUME NEW f \in Flows, Dial(f)
      PROVE  Changes
  <2>. DEFINE r == [flow[f] EXCEPT !.phase = "handshake"]
  <2>1. flow[f] \in FlowTasks /\ FlowRuns(f) /\ UNCHANGED <<flows, nextFlow>>
    BY <1>0, <1>2b, TaskFields DEF Dial, FlowRuns
  <2>3. r \in FlowTasks /\ r.phase = "handshake" /\ r.app = flow[f].app /\ r.key = flow[f].key
    BY <2>1 DEF FlowTasks
  <2>4. flow' = [flow EXCEPT ![f] = r]
    BY <1>0, <1>2b DEF UdpTypeOK, Dial
  <2>5. r.phase # "gone" /\ (r.phase = "relay" => r.key \in Sessions /\ session[r.key].flow = f)
    BY <1>0, <2>1, <2>3 DEF FlowRuns, Paired
  <2>. HIDE DEF r
  <2>6. FlowChanges(f, r)
    BY <2>1, <2>3, <2>4, <2>5 DEF FlowChanges
  <2>. QED
    BY <2>3, <2>6
<1>2c. ASSUME NEW f \in Flows, FlowSends(f)
      PROVE  Changes
  <2>. DEFINE r == [flow[f] EXCEPT !.inbox = @ - 1]
  <2>1. flow[f] \in FlowTasks /\ FlowRuns(f) /\ UNCHANGED <<flows, nextFlow>>
    BY <1>0, <1>2c, TaskFields DEF FlowSends, FlowRuns
  <2>2. flow[f].inbox - 1 \in 0..Cap
    BY <1>2c, <2>1, UdpAssumption DEF FlowSends, FlowTasks
  <2>3. r \in FlowTasks /\ r.phase = flow[f].phase /\ r.app = flow[f].app /\ r.key = flow[f].key
    BY <2>1, <2>2 DEF FlowTasks
  <2>4. flow' = [flow EXCEPT ![f] = r]
    BY <1>0, <1>2c DEF UdpTypeOK, FlowSends
  <2>5. r.phase # "gone" /\ (r.phase = "relay" => r.key \in Sessions /\ session[r.key].flow = f)
    BY <1>0, <2>1, <2>3 DEF FlowRuns, Paired
  <2>. HIDE DEF r
  <2>6. FlowChanges(f, r)
    BY <2>1, <2>3, <2>4, <2>5 DEF FlowChanges
  <2>. QED
    BY <2>3, <2>6
<1>3. ASSUME NEW f \in Flows, FinishHandshake(f)
      PROVE  Changes
  <2>1. PICK p \in down :
          /\ session[p.key].flow = f
          /\ flow' = [flow EXCEPT ![f].phase = "relay", ![f].key = p.key]
    BY <1>3 DEF FinishHandshake
  <2>2. p.key \in Sessions
    BY <1>0, DatagramFields
  <2>3. flow[f] \in FlowTasks /\ FlowRuns(f) /\ UNCHANGED <<flows, nextFlow>>
    BY <1>0, <1>3, TaskFields DEF FinishHandshake, FlowRuns
  <2>. DEFINE r == [flow[f] EXCEPT !.phase = "relay", !.key = p.key]
  <2>4. r \in FlowTasks /\ r.app = flow[f].app /\ r.key = p.key /\ r.phase = "relay"
    BY <2>2, <2>3 DEF FlowTasks
  <2>5. flow' = [flow EXCEPT ![f] = r]
    BY <1>0, <2>1, <2>3 DEF UdpTypeOK
  <2>. QED
    BY <2>1, <2>2, <2>3, <2>4, <2>5 DEF FlowChanges
<1>4. ASSUME NEW f \in Flows, FlowFails(f) \/ FlowBreaks(f) \/ FlowIdles(f)
      PROVE  Changes
  <2>1. FlowRuns(f) /\ FlowReturns(f)
    BY <1>4 DEF FlowFails, FlowBreaks, FlowIdles, FlowRuns
  <2>2. flow[f] \in FlowTasks
    BY <1>0, <2>1, TaskFields DEF FlowRuns
  <2>. DEFINE r == [flow[f] EXCEPT !.phase = "closing", !.inbox = 0]
  <2>3. r \in FlowTasks /\ r.app = flow[f].app /\ r.phase = "closing"
    BY <2>2, EmptyChannel DEF FlowTasks
  <2>4. flow' = [flow EXCEPT ![f] = r] /\ UNCHANGED <<flows, nextFlow>>
    BY <1>0, <2>1, <2>2 DEF UdpTypeOK, FlowReturns
  <2>. QED
    BY <2>1, <2>3, <2>4 DEF FlowChanges
<1>5. CASE \/ Quiet
           \/ \E f \in Flows : FlowReceives(f)
           \/ \E p \in up : RouteToSession(p) \/ OpenSession(p)
           \/ \E s \in Sessions :
               \/ Respond(s) \/ AcceptHello(s) \/ SessionForwards(s) \/ TargetReplies(s)
               \/ SessionFails(s) \/ RefuseHello(s) \/ HelloTimesOut(s)
               \/ SessionBreaks(s) \/ SessionIdles(s) \/ RemoveSession(s)
  BY <1>5 DEF Quiet, FlowReceives, RouteToSession, OpenSession, Respond, AcceptHello,
              SessionForwards, TargetReplies, SessionFails, RefuseHello, HelloTimesOut,
              SessionBreaks, SessionIdles, RemoveSession, SessionReturns, serverOnly
<1>. QED
  BY <1>1, <1>2a, <1>2b, <1>2c, <1>3, <1>4, <1>5 DEF UdpNext

\* The same for the server's tasks.
LEMMA ServerSteps ==
    ASSUME UdpInv, UdpNext
    PROVE  \/ UNCHANGED server
           \/ \E p \in up : OpenSession(p)
           \/ \E s \in Sessions, r \in SessionTasks : SessionChanges(s, r)
           \/ \E s \in Sessions : RemoveSession(s)
<1>. DEFINE Changes == \E s \in Sessions, r \in SessionTasks : SessionChanges(s, r)
<1>0. UdpTypeOK /\ OneTaskPerSource /\ Paired
  BY DEF UdpInv
<1>1. ASSUME NEW p \in up, RouteToSession(p)
      PROVE  Changes
  <2>0. PICK s \in Sessions : s = sessions[p.addr]
    BY <1>0, <1>1, DatagramFields DEF RouteToSession, UdpTypeOK
  <2>1. SessionRuns(s)
    BY <1>0, <2>0, DatagramFields DEF OneTaskPerSource
  <2>2. /\ Len(session[s].inbox) < Cap
        /\ session' = [session EXCEPT ![s].inbox = Append(@, p)]
        /\ UNCHANGED <<sessions, nextSession>>
    BY <1>1, <2>0 DEF RouteToSession
  <2>3. session[s] \in SessionTasks /\ p \in Uplink
    BY <1>0, <2>1, TaskFields DEF SessionRuns, UdpTypeOK
  <2>. DEFINE q == Append(session[s].inbox, p)  r == [session[s] EXCEPT !.inbox = q]
  <2>4. q \in Seq(Uplink) /\ Len(q) <= Cap
    BY <2>2, <2>3, UdpAssumption DEF SessionTasks
  <2>. HIDE DEF q
  <2>5. /\ r \in SessionTasks /\ r.phase = session[s].phase /\ r.inbox = q
        /\ r.addr = session[s].addr /\ r.flow = session[s].flow /\ r.link = session[s].link
    BY <2>3, <2>4 DEF SessionTasks
  <2>6. session' = [session EXCEPT ![s] = r]
    BY <1>0, <2>2 DEF UdpTypeOK, q
  <2>7. r.phase # "gone" /\ Len(r.inbox) <= Cap
    BY <2>1, <2>4, <2>5 DEF SessionRuns
  <2>8. r.phase = "relay" => r.link \in LinksOf(flow[r.flow].app) /\ r.link \in Authorised
    BY <1>0, <2>5 DEF Paired
  <2>. HIDE DEF r
  <2>. QED
    BY <2>1, <2>2, <2>5, <2>6, <2>7, <2>8 DEF SessionChanges
<1>2. ASSUME NEW s \in Sessions, Respond(s)
      PROVE  Changes
  <2>. DEFINE r == [session[s] EXCEPT !.phase = "hello"]
  <2>1. session[s] \in SessionTasks /\ SessionRuns(s) /\ UNCHANGED <<sessions, nextSession>>
    BY <1>0, <1>2, TaskFields DEF Respond, SessionRuns
  <2>2. /\ r \in SessionTasks /\ r.phase = "hello" /\ r.inbox = session[s].inbox
        /\ r.addr = session[s].addr /\ r.flow = session[s].flow
    BY <2>1 DEF SessionTasks
  <2>3. session' = [session EXCEPT ![s] = r]
    BY <1>0, <1>2 DEF UdpTypeOK, Respond
  <2>. QED
    BY <1>0, <2>1, <2>2, <2>3 DEF SessionChanges, UdpTypeOK
<1>3. ASSUME NEW s \in Sessions, AcceptHello(s)
      PROVE  Changes
  <2>0. PICK link \in Named(s) \cap Authorised :
          session' = [session EXCEPT ![s].phase = "relay", ![s].link = link,
                                     ![s].inbox = Tail(@)]
    BY <1>3 DEF AcceptHello
  <2>. DEFINE q == Tail(session[s].inbox)
              r == [session[s] EXCEPT !.phase = "relay", !.link = link, !.inbox = q]
  <2>1. /\ session[s] \in SessionTasks /\ SessionRuns(s) /\ UNCHANGED <<sessions, nextSession>>
        /\ session[s].inbox # <<>> /\ link \in Authorised
        /\ link \in LinksOf(flow[session[s].flow].app)
    BY <1>0, <1>3, <2>0, TaskFields
       DEF AcceptHello, HelloIsNext, Decrypts, SessionRuns, Named, LinksOf
  <2>2. q \in Seq(Uplink) /\ Len(q) <= Cap
    BY <1>0, <2>1, UdpAssumption DEF SessionTasks, UdpTypeOK
  <2>3. session' = [session EXCEPT ![s] = r]
    BY <1>0, <2>0 DEF UdpTypeOK
  <2>4. link \in Links
    BY <2>1, UdpAssumption
  <2>. HIDE DEF q
  <2>5. /\ r \in SessionTasks /\ r.phase = "relay" /\ r.inbox = q /\ r.link = link
        /\ r.addr = session[s].addr /\ r.flow = session[s].flow
    BY <2>1, <2>2, <2>4 DEF SessionTasks
  <2>. QED
    BY <2>1, <2>2, <2>3, <2>5 DEF SessionChanges
<1>4. ASSUME NEW s \in Sessions, SessionForwards(s)
      PROVE  Changes
  <2>. DEFINE q == Tail(session[s].inbox)  r == [session[s] EXCEPT !.inbox = q]
  <2>1. /\ session[s] \in SessionTasks /\ SessionRuns(s) /\ UNCHANGED <<sessions, nextSession>>
        /\ session[s].inbox # <<>> /\ session[s].phase = "relay"
    BY <1>0, <1>4, TaskFields DEF SessionForwards, Decrypts, SessionRuns
  <2>2. q \in Seq(Uplink) /\ Len(q) <= Cap
    BY <1>0, <2>1, UdpAssumption DEF SessionTasks, UdpTypeOK
  <2>3. session' = [session EXCEPT ![s] = r]
    BY <1>0, <1>4 DEF UdpTypeOK, SessionForwards
  <2>. HIDE DEF q
  <2>4. /\ r \in SessionTasks /\ r.phase = "relay" /\ r.inbox = q /\ r.link = session[s].link
        /\ r.addr = session[s].addr /\ r.flow = session[s].flow
    BY <2>1, <2>2 DEF SessionTasks
  <2>. QED
    BY <1>0, <2>1, <2>2, <2>3, <2>4 DEF SessionChanges, Paired
<1>5. ASSUME NEW s \in Sessions,
             \/ SessionFails(s) \/ RefuseHello(s) \/ HelloTimesOut(s)
             \/ SessionBreaks(s) \/ SessionIdles(s)
      PROVE  Changes
  <2>. DEFINE q == <<>>  r == [session[s] EXCEPT !.phase = "closing", !.inbox = q]
  <2>1. SessionRuns(s) /\ SessionReturns(s)
    BY <1>5 DEF SessionFails, RefuseHello, HelloTimesOut, SessionBreaks, SessionIdles,
                HelloIsNext, SessionRuns
  <2>2. session[s] \in SessionTasks
    BY <1>0, <2>1, TaskFields DEF SessionRuns
  <2>a. q \in Seq(Uplink) /\ Len(q) <= Cap
    BY UdpAssumption
  <2>b. session' = [session EXCEPT ![s] = r]
    BY <1>0, <2>1, <2>2 DEF UdpTypeOK, SessionReturns
  <2>. HIDE DEF q
  <2>3. /\ r \in SessionTasks /\ r.phase = "closing" /\ r.inbox = q
        /\ r.addr = session[s].addr /\ r.flow = session[s].flow
    BY <2>2, <2>a DEF SessionTasks
  <2>4. UNCHANGED <<sessions, nextSession>>
    BY <2>1 DEF SessionReturns
  <2>. QED
    BY <2>1, <2>3, <2>4, <2>a, <2>b DEF SessionChanges
<1>6. CASE \/ Quiet
           \/ \E a \in Apps : OpenFlow(a) \/ QueueLocal(a)
           \/ \E f \in Flows :
               \/ Rebind(f) \/ Dial(f) \/ FinishHandshake(f) \/ FlowSends(f) \/ FlowReceives(f)
               \/ FlowFails(f) \/ FlowBreaks(f) \/ FlowIdles(f) \/ RemoveFlow(f)
           \/ \E s \in Sessions : TargetReplies(s)
  BY <1>6 DEF Quiet, OpenFlow, QueueLocal, Rebind, Dial, FinishHandshake, FlowSends,
              FlowReceives, FlowFails, FlowBreaks, FlowIdles, RemoveFlow, FlowReturns,
              TargetReplies, clientOnly
<1>. QED
  BY <1>1, <1>2, <1>3, <1>4, <1>5, <1>6 DEF UdpNext

-----------------------------------------------------------------------------
(* The invariant is preserved *)

\* The client's half: types, numbering, and the agreement of the flow map with
\* the flow tasks.  What was started stays started, for the same application.
LEMMA ClientHalf ==
    ASSUME UdpInv, UdpNext
    PROVE  /\ flows' \in [Apps -> Flows \cup {0}]
           /\ flow' \in [Flows -> {NoFlow} \cup FlowTasks]
           /\ nextFlow' \in 1..(MaxFlows + 1)
           /\ \A f \in Flows : flow'[f].phase = "none" <=> f >= nextFlow'
           /\ \A a \in Apps, f \in Flows : flows'[a] = f <=> FlowRuns(f)' /\ flow'[f].app = a
           /\ \A f \in Flows : flow[f].phase # "none" =>
                flow'[f].phase # "none" /\ flow'[f].app = flow[f].app
<1>. DEFINE Goal ==
       /\ flows' \in [Apps -> Flows \cup {0}]
       /\ flow' \in [Flows -> {NoFlow} \cup FlowTasks]
       /\ nextFlow' \in 1..(MaxFlows + 1)
       /\ \A f \in Flows : flow'[f].phase = "none" <=> f >= nextFlow'
       /\ \A a \in Apps, f \in Flows : flows'[a] = f <=> FlowRuns(f)' /\ flow'[f].app = a
       /\ \A f \in Flows : flow[f].phase # "none" =>
            flow'[f].phase # "none" /\ flow'[f].app = flow[f].app
<1>0. /\ flows \in [Apps -> Flows \cup {0}] /\ flow \in [Flows -> {NoFlow} \cup FlowTasks]
      /\ nextFlow \in 1..(MaxFlows + 1)
      /\ \A f \in Flows : flow[f].phase = "none" <=> f >= nextFlow
      /\ \A a \in Apps, f \in Flows : flows[a] = f <=> FlowRuns(f) /\ flow[f].app = a
  BY DEF UdpInv, UdpTypeOK, FreshIds, OneTaskPerSource
<1>1. CASE UNCHANGED client
  BY <1>0, <1>1 DEF client, FlowRuns
<1>2. ASSUME NEW a \in Apps, OpenFlow(a)
      PROVE  Goal
  <2>. DEFINE r == [NoFlow EXCEPT !.phase = "start", !.app = a, !.addr = nextFlow]
  <2>1. /\ nextFlow \in Flows /\ flows[a] = 0 /\ nextFlow' = nextFlow + 1
        /\ flows' = [flows EXCEPT ![a] = nextFlow] /\ flow' = [flow EXCEPT ![nextFlow] = r]
    BY <1>2 DEF OpenFlow
  <2>2. nextFlow \in Addrs
    BY <2>1, UdpAssumption DEF Flows, Addrs
  <2>3. r \in FlowTasks /\ r.phase = "start" /\ r.app = a
    BY <2>2, EmptyChannel DEF NoFlow, FlowTasks
  <2>. HIDE DEF r
  <2>4. /\ flows' \in [Apps -> Flows \cup {0}] /\ flow' \in [Flows -> {NoFlow} \cup FlowTasks]
        /\ nextFlow' \in 1..(MaxFlows + 1)
    BY <1>0, <2>1, <2>3, UdpAssumption DEF Flows
  <2>5. flow[nextFlow].phase = "none" /\ 0 \notin Flows
    BY <1>0, <2>1 DEF Flows
  <2>6. \A f \in Flows : flow'[f].phase = "none" <=> f >= nextFlow'
    BY <1>0, <2>1, <2>3, UdpAssumption DEF Flows
  <2>7. \A b \in Apps, f \in Flows : flows'[b] = f <=> FlowRuns(f)' /\ flow'[f].app = b
    BY <1>0, <2>1, <2>3, <2>5 DEF FlowRuns
  <2>8. \A f \in Flows : flow[f].phase # "none" =>
          flow'[f].phase # "none" /\ flow'[f].app = flow[f].app
    BY <1>0, <2>1, <2>5
  <2>. QED
    BY <2>4, <2>6, <2>7, <2>8
<1>3. ASSUME NEW f \in Flows, NEW r \in FlowTasks, FlowChanges(f, r)
      PROVE  Goal
  <2>1. r.phase # "none"
    BY DEF FlowTasks
  <2>. QED
    BY <1>0, <1>3, <2>1 DEF FlowChanges, FlowRuns
<1>4. ASSUME NEW f \in Flows, RemoveFlow(f)
      PROVE  Goal
  <2>. DEFINE r == [flow[f] EXCEPT !.phase = "gone"]
  <2>1. /\ flow[f].phase = "closing" /\ UNCHANGED nextFlow
        /\ flows' = [flows EXCEPT ![flow[f].app] = 0]
        /\ flow' = [flow EXCEPT ![f].phase = "gone"]
    BY <1>4 DEF RemoveFlow
  <2>2. flow[f] \in FlowTasks
    BY <2>1, TaskFields DEF UdpInv
  <2>3. r \in FlowTasks /\ r.phase = "gone" /\ r.app = flow[f].app /\ r.app \in Apps
    BY <2>2 DEF FlowTasks
  <2>4. flow' = [flow EXCEPT ![f] = r]
    BY <1>0, <2>1
  <2>5. FlowRuns(f) /\ flows[flow[f].app] = f /\ 0 \notin Flows
    BY <1>0, <2>1, <2>3 DEF FlowRuns, Flows
  <2>. HIDE DEF r
  <2>6. \A b \in Apps, g \in Flows : flows'[b] = g <=> FlowRuns(g)' /\ flow'[g].app = b
    BY <1>0, <2>1, <2>3, <2>4, <2>5 DEF FlowRuns
  <2>. QED
    BY <1>0, <2>1, <2>3, <2>4, <2>6
<1>. QED
  BY <1>1, <1>2, <1>3, <1>4, ClientSteps

\* The server's half.
LEMMA ServerHalf ==
    ASSUME UdpInv, UdpNext
    PROVE  /\ sessions' \in [Addrs -> Sessions \cup {0}]
           /\ session' \in [Sessions -> {NoSession} \cup SessionTasks]
           /\ \A s \in Sessions : Len(session'[s].inbox) <= Cap
           /\ nextSession' \in 1..(MaxSessions + 1)
           /\ \A s \in Sessions : session'[s].phase = "none" <=> s >= nextSession'
           /\ \A addr \in Addrs, s \in Sessions :
                sessions'[addr] = s <=> SessionRuns(s)' /\ session'[s].addr = addr
           /\ \A s \in Sessions : session[s].phase # "none" =>
                session'[s].phase # "none" /\ session'[s].flow = session[s].flow
<1>. DEFINE Goal ==
       /\ sessions' \in [Addrs -> Sessions \cup {0}]
       /\ session' \in [Sessions -> {NoSession} \cup SessionTasks]
       /\ \A s \in Sessions : Len(session'[s].inbox) <= Cap
       /\ nextSession' \in 1..(MaxSessions + 1)
       /\ \A s \in Sessions : session'[s].phase = "none" <=> s >= nextSession'
       /\ \A addr \in Addrs, s \in Sessions :
            sessions'[addr] = s <=> SessionRuns(s)' /\ session'[s].addr = addr
       /\ \A s \in Sessions : session[s].phase # "none" =>
            session'[s].phase # "none" /\ session'[s].flow = session[s].flow
<1>0. /\ sessions \in [Addrs -> Sessions \cup {0}]
      /\ session \in [Sessions -> {NoSession} \cup SessionTasks]
      /\ \A s \in Sessions : Len(session[s].inbox) <= Cap
      /\ nextSession \in 1..(MaxSessions + 1)
      /\ \A s \in Sessions : session[s].phase = "none" <=> s >= nextSession
      /\ \A addr \in Addrs, s \in Sessions :
           sessions[addr] = s <=> SessionRuns(s) /\ session[s].addr = addr
  BY DEF UdpInv, UdpTypeOK, FreshIds, OneTaskPerSource
<1>1. CASE UNCHANGED server
  BY <1>0, <1>1 DEF server, SessionRuns
<1>2. ASSUME NEW p \in up, OpenSession(p)
      PROVE  Goal
  <2>. DEFINE r == [NoSession EXCEPT !.phase = "start", !.addr = p.addr, !.flow = p.key]
  <2>1. /\ nextSession \in Sessions /\ sessions[p.addr] = 0 /\ nextSession' = nextSession + 1
        /\ sessions' = [sessions EXCEPT ![p.addr] = nextSession]
        /\ session' = [session EXCEPT ![nextSession] = r]
    BY <1>2 DEF OpenSession
  <2>2. p.addr \in Addrs /\ p.key \in Flows
    BY <1>2, DatagramFields DEF OpenSession, UdpInv
  <2>3. r \in SessionTasks /\ r.phase = "start" /\ r.addr = p.addr /\ r.inbox = <<>>
    <3>1. <<>> \in Seq(Uplink)
      OBVIOUS
    <3>. QED
      BY <2>2, <3>1 DEF NoSession, SessionTasks
  <2>4. Len(r.inbox) <= Cap
    BY <2>3, UdpAssumption
  <2>. HIDE DEF r
  <2>5. /\ sessions' \in [Addrs -> Sessions \cup {0}]
        /\ session' \in [Sessions -> {NoSession} \cup SessionTasks]
        /\ \A s \in Sessions : Len(session'[s].inbox) <= Cap
        /\ nextSession' \in 1..(MaxSessions + 1)
    BY <1>0, <2>1, <2>2, <2>3, <2>4, UdpAssumption DEF Sessions
  <2>6. session[nextSession].phase = "none" /\ 0 \notin Sessions
    BY <1>0, <2>1 DEF Sessions
  <2>7. \A s \in Sessions : session'[s].phase = "none" <=> s >= nextSession'
    BY <1>0, <2>1, <2>3, UdpAssumption DEF Sessions
  <2>8. \A addr \in Addrs, s \in Sessions :
          sessions'[addr] = s <=> SessionRuns(s)' /\ session'[s].addr = addr
    BY <1>0, <2>1, <2>2, <2>3, <2>6 DEF SessionRuns
  <2>9. \A s \in Sessions : session[s].phase # "none" =>
          session'[s].phase # "none" /\ session'[s].flow = session[s].flow
    BY <1>0, <2>1, <2>6
  <2>. QED
    BY <2>5, <2>7, <2>8, <2>9
<1>3. ASSUME NEW s \in Sessions, NEW r \in SessionTasks, SessionChanges(s, r)
      PROVE  Goal
  <2>1. r.phase # "none"
    BY DEF SessionTasks
  <2>. QED
    BY <1>0, <1>3, <2>1 DEF SessionChanges, SessionRuns
<1>4. ASSUME NEW s \in Sessions, RemoveSession(s)
      PROVE  Goal
  <2>. DEFINE r == [session[s] EXCEPT !.phase = "gone"]
  <2>1. /\ session[s].phase = "closing" /\ UNCHANGED nextSession
        /\ sessions' = [sessions EXCEPT ![session[s].addr] = 0]
        /\ session' = [session EXCEPT ![s].phase = "gone"]
    BY <1>4 DEF RemoveSession
  <2>2. session[s] \in SessionTasks
    BY <2>1, TaskFields DEF UdpInv
  <2>3. /\ r \in SessionTasks /\ r.phase = "gone" /\ r.addr = session[s].addr /\ r.addr \in Addrs
        /\ r.flow = session[s].flow /\ r.inbox = session[s].inbox
    BY <2>2 DEF SessionTasks
  <2>4. session' = [session EXCEPT ![s] = r]
    BY <1>0, <2>1
  <2>5. SessionRuns(s) /\ sessions[session[s].addr] = s /\ 0 \notin Sessions
    BY <1>0, <2>1, <2>3 DEF SessionRuns, Sessions
  <2>. HIDE DEF r
  <2>6. \A addr \in Addrs, t \in Sessions :
          sessions'[addr] = t <=> SessionRuns(t)' /\ session'[t].addr = addr
    BY <1>0, <2>1, <2>3, <2>4, <2>5 DEF SessionRuns
  <2>. QED
    BY <1>0, <2>1, <2>3, <2>4, <2>6
<1>. QED
  BY <1>1, <1>2, <1>3, <1>4, ServerSteps

\* What is sent has its type and names a flow or session that was opened.
LEMMA NetworkSteps ==
    ASSUME UdpInv, UdpNext
    PROVE  /\ up' \subseteq Uplink /\ down' \subseteq Downlink
           /\ \A p \in up' : p.kind = "init" => p.key \in Flows /\ flow[p.key].phase # "none"
           /\ \A p \in down' : p.key \in Sessions /\ session[p.key].phase # "none"
<1>0. UdpTypeOK /\ Known /\ Paired
  BY DEF UdpInv
<1>1. /\ up \subseteq Uplink /\ down \subseteq Downlink
      /\ \A p \in up : p.kind = "init" => p.key \in Flows /\ flow[p.key].phase # "none"
      /\ \A p \in down : p.key \in Sessions /\ session[p.key].phase # "none"
  BY <1>0, DatagramFields DEF UdpTypeOK, Known
<1>2. ASSUME NEW f \in Flows, Dial(f)
      PROVE  /\ up' = up \cup {Initiation(f, flow[f].addr)} /\ UNCHANGED down
             /\ flow[f].phase # "none" /\ flow[f].addr \in Addrs
  BY <1>0, <1>2, TaskFields DEF Dial, FlowTasks
<1>3. ASSUME NEW f \in Flows, FinishHandshake(f)
      PROVE  /\ \E addr \in Addrs, s \in Sessions :
                  up' = up \cup {Datagram("hello", addr, s), Datagram("data", addr, s)}
             /\ UNCHANGED down
  BY <1>0, <1>3, DatagramFields DEF FinishHandshake
<1>4. ASSUME NEW f \in Flows, FlowSends(f)
      PROVE  /\ \E addr \in Addrs, s \in Sessions : up' = up \cup {Datagram("data", addr, s)}
             /\ UNCHANGED down
  <2>1. flow[f] \in FlowTasks /\ flow[f].key \in Sessions
    BY <1>0, <1>4, TaskFields DEF FlowSends, Paired
  <2>. QED
    BY <1>4, <2>1 DEF FlowSends, FlowTasks
<1>5. ASSUME NEW s \in Sessions, Respond(s) \/ TargetReplies(s)
      PROVE  /\ \E kind \in {"response", "reply"}, addr \in Addrs :
                  down' = down \cup {Datagram(kind, addr, s)}
             /\ UNCHANGED up /\ session[s].phase # "none"
  <2>1. session[s].phase # "none" /\ session[s].addr \in Addrs
    BY <1>0, <1>5, TaskFields DEF Respond, TargetReplies, SessionTasks
  <2>. QED
    BY <1>5, <2>1 DEF Respond, TargetReplies
<1>6. CASE \E f \in Flows : Dial(f)
  BY <1>1, <1>2, <1>6 DEF Initiation, Uplink
<1>7. CASE \E f \in Flows : FinishHandshake(f) \/ FlowSends(f)
  BY <1>1, <1>3, <1>4, <1>7 DEF Datagram, Uplink
<1>8. CASE \E s \in Sessions : Respond(s) \/ TargetReplies(s)
  BY <1>1, <1>5, <1>8 DEF Datagram, Downlink
<1>9. CASE UNCHANGED <<up, down>>
  BY <1>1, <1>9
<1>. QED
  BY <1>6, <1>7, <1>8, <1>9
     DEF UdpNext, Quiet, OpenFlow, QueueLocal, Rebind, FlowReceives, FlowFails, FlowBreaks,
         FlowIdles, FlowReturns, RemoveFlow, RouteToSession, OpenSession, AcceptHello,
         SessionForwards, SessionFails, RefuseHello, HelloTimesOut, SessionBreaks, SessionIdles,
         SessionReturns, RemoveSession

\* What datagrams and sessions name stays opened, and what new ones name is.
LEMMA KnownPreserved ==
    ASSUME UdpInv, UdpNext
    PROVE  Known'
<1>0. UdpTypeOK /\ Known /\ FreshIds
  BY DEF UdpInv
<1>1. \A f \in Flows : flow[f].phase # "none" => flow'[f].phase # "none"
  BY ClientHalf
<1>2. ASSUME NEW s \in Sessions, session'[s].phase # "none"
      PROVE  flow'[session'[s].flow].phase # "none"
  <2>1. CASE session[s].phase # "none"
    <3>1. session[s].flow \in Flows /\ flow[session[s].flow].phase # "none"
      BY <1>0, <2>1, TaskFields DEF Known, SessionTasks
    <3>. QED
      BY <1>1, <2>1, <3>1, ServerHalf
  <2>2. CASE session[s].phase = "none"
    <3>1. PICK p \in up : OpenSession(p)
      <4>1. CASE UNCHANGED server
        BY <1>2, <2>2, <4>1 DEF server
      <4>2. ASSUME NEW t \in Sessions, NEW r \in SessionTasks, SessionChanges(t, r)
            PROVE  FALSE
        BY <1>0, <1>2, <2>2, <4>2 DEF SessionChanges, SessionRuns, UdpTypeOK
      <4>3. ASSUME NEW t \in Sessions, RemoveSession(t)
            PROVE  FALSE
        BY <1>0, <1>2, <2>2, <4>3 DEF RemoveSession, UdpTypeOK
      <4>. QED
        BY <4>1, <4>2, <4>3, ServerSteps
    <3>2. p.key \in Flows /\ flow[p.key].phase # "none"
      BY <1>0, <3>1, DatagramFields DEF OpenSession, Known
    <3>3. session'[s].flow = p.key
      BY <1>0, <1>2, <2>2, <3>1 DEF OpenSession, UdpTypeOK, NoSession
    <3>. QED
      BY <1>1, <3>2, <3>3
  <2>. QED
    BY <2>1, <2>2
<1>3. \A p \in up' : p.kind = "init" => flow'[p.key].phase # "none"
  BY <1>1, NetworkSteps
<1>4. \A p \in down' : session'[p.key].phase # "none"
  BY NetworkSteps, ServerHalf
<1>. QED
  BY <1>2, <1>3, <1>4 DEF Known

\* A relaying flow or session stays paired with its other end and its link.
LEMMA PairedPreserved ==
    ASSUME UdpInv, UdpNext
    PROVE  Paired'
<1>0. UdpTypeOK /\ Known /\ Paired
  BY DEF UdpInv
<1>1. ASSUME NEW f \in Flows, flow'[f].phase = "relay"
      PROVE  flow'[f].key \in Sessions /\ session'[flow'[f].key].flow = f
  <2>1. flow'[f].key \in Sessions /\ session[flow'[f].key].flow = f
    <3>1. CASE UNCHANGED client
      BY <1>0, <1>1, <3>1 DEF client, Paired
    <3>2. ASSUME NEW a \in Apps, OpenFlow(a)
          PROVE  flow[f] = flow'[f]
      BY <1>0, <1>1, <3>2 DEF OpenFlow, NoFlow, UdpTypeOK
    <3>3. ASSUME NEW g \in Flows, NEW r \in FlowTasks, FlowChanges(g, r)
          PROVE  \/ flow'[f] = flow[f]
                 \/ flow'[f].key \in Sessions /\ session[flow'[f].key].flow = f
      <4>1. flow' = [flow EXCEPT ![g] = r] /\ flow \in [Flows -> {NoFlow} \cup FlowTasks]
        BY <1>0, <3>3 DEF FlowChanges, UdpTypeOK
      <4>2. CASE g = f
        <5>1. flow'[f] = r
          BY <4>1, <4>2
        <5>. QED
          BY <1>1, <3>3, <4>2, <5>1 DEF FlowChanges
      <4>3. CASE g # f
        BY <4>1, <4>3
      <4>. QED
        BY <4>2, <4>3
    <3>4. ASSUME NEW g \in Flows, RemoveFlow(g)
          PROVE  flow'[f] = flow[f]
      BY <1>0, <1>1, <3>4, TaskFields DEF RemoveFlow, UdpTypeOK, FlowTasks
    <3>. QED
      BY <1>0, <1>1, <3>1, <3>2, <3>3, <3>4, ClientSteps DEF Paired
  <2>2. session[flow'[f].key].phase # "none"
    BY <1>0, <2>1 DEF UdpTypeOK, NoSession, SessionTasks, Flows
  <2>. QED
    BY <2>1, <2>2, ServerHalf
<1>2. ASSUME NEW s \in Sessions, session'[s].phase = "relay"
      PROVE  /\ session'[s].link \in LinksOf(flow'[session'[s].flow].app)
             /\ session'[s].link \in Authorised
  <2>1. /\ session[s].phase # "none" /\ session'[s].flow = session[s].flow
        /\ session'[s].link \in LinksOf(flow[session[s].flow].app)
        /\ session'[s].link \in Authorised
    <3>1. CASE UNCHANGED server
      BY <1>0, <1>2, <3>1 DEF server, Paired
    <3>2. ASSUME NEW p \in up, OpenSession(p)
          PROVE  session[s] = session'[s]
      BY <1>0, <1>2, <3>2 DEF OpenSession, NoSession, UdpTypeOK
    <3>3. ASSUME NEW t \in Sessions, NEW r \in SessionTasks, SessionChanges(t, r), t = s
          PROVE  /\ session[s].phase # "none" /\ session'[s].flow = session[s].flow
                 /\ session'[s].link \in LinksOf(flow[session[s].flow].app)
                 /\ session'[s].link \in Authorised
      BY <1>0, <1>2, <3>3 DEF SessionChanges, SessionRuns, UdpTypeOK
    <3>4. ASSUME NEW t \in Sessions, NEW r \in SessionTasks, SessionChanges(t, r), t # s
          PROVE  session[s] = session'[s]
      BY <1>0, <3>4 DEF SessionChanges, UdpTypeOK
    <3>5. ASSUME NEW t \in Sessions, RemoveSession(t)
          PROVE  session'[s] = session[s]
      BY <1>0, <1>2, <3>5, TaskFields DEF RemoveSession, UdpTypeOK, SessionTasks
    <3>. QED
      BY <1>0, <1>2, <3>1, <3>2, <3>3, <3>4, <3>5, ServerSteps DEF Paired
  <2>2. session[s].flow \in Flows /\ flow[session[s].flow].phase # "none"
    BY <1>0, <2>1, TaskFields DEF Known, SessionTasks
  <2>. QED
    BY <2>1, <2>2, ClientHalf
<1>. QED
  BY <1>1, <1>2 DEF Paired

\* The histories, and the counters and flags that only carry a type.
LEMMA TrafficPreserved ==
    ASSUME UdpInv, UdpNext
    PROVE  /\ OwnTraffic' /\ delivered' \subseteq Apps \X Links /\ replied' \subseteq Apps \X Apps
           /\ rebinds' \in 0..MaxRebinds /\ talking' \in BOOLEAN
<1>0. UdpTypeOK /\ Known /\ Paired /\ OwnTraffic
  BY DEF UdpInv
<1>1. \A s \in Sessions : session[s].phase # "none" =>
        session[s].flow \in Flows /\ flow[session[s].flow].app \in Apps
  BY <1>0, TaskFields DEF Known, SessionTasks, FlowTasks
<1>2. CASE \E s \in Sessions : SessionForwards(s)
  <2>1. PICK s \in Sessions : SessionForwards(s)
    BY <1>2
  <2>. DEFINE a == flow[session[s].flow].app  l == session[s].link
  <2>2. a \in Apps /\ l \in LinksOf(a) /\ l \in Authorised
    BY <1>0, <1>1, <2>1 DEF SessionForwards, Paired
  <2>3. l \in Links
    BY <2>2, UdpAssumption
  <2>4. delivered' = delivered \cup {<<a, l>>} /\ UNCHANGED <<replied, rebinds, talking>>
    BY <2>1 DEF SessionForwards, serverOnly
  <2>. HIDE DEF a, l
  <2>. QED
    BY <1>0, <2>2, <2>3, <2>4 DEF OwnTraffic, UdpTypeOK
<1>3. CASE \E f \in Flows : FlowReceives(f)
  <2>1. PICK f \in Flows : FlowReceives(f)
    BY <1>3
  <2>2. PICK p \in Replies(f) :
          replied' = replied \cup {<<flow[session[p.key].flow].app, flow[f].app>>}
    BY <2>1 DEF FlowReceives
  <2>3. session[p.key].flow = f /\ flow[f].app \in Apps
    BY <1>0, <2>1, TaskFields DEF FlowReceives, Replies, Paired, FlowTasks
  <2>4. UNCHANGED <<delivered, rebinds, talking>>
    BY <2>1 DEF FlowReceives, clientOnly
  <2>. QED
    BY <1>0, <2>2, <2>3, <2>4 DEF OwnTraffic, UdpTypeOK
<1>4. CASE \E f \in Flows : Rebind(f)
  BY <1>0, <1>4, UdpAssumption DEF Rebind, OwnTraffic, UdpTypeOK
<1>5. CASE Quiet
  BY <1>0, <1>5 DEF Quiet, OwnTraffic, UdpTypeOK
<1>6. CASE UNCHANGED <<delivered, replied, rebinds, talking>>
  BY <1>0, <1>6 DEF OwnTraffic, UdpTypeOK
<1>. QED
  BY <1>2, <1>3, <1>4, <1>5, <1>6
     DEF UdpNext, OpenFlow, QueueLocal, Dial, FinishHandshake, FlowSends, FlowFails, FlowBreaks,
         FlowIdles, FlowReturns, RemoveFlow, RouteToSession, OpenSession, Respond, AcceptHello,
         TargetReplies, SessionFails, RefuseHello, HelloTimesOut, SessionBreaks, SessionIdles,
         SessionReturns, RemoveSession, clientOnly, serverOnly

-----------------------------------------------------------------------------
(* Theorems *)

\* The invariant holds at the start.
LEMMA UdpInvInit == UdpInit => UdpInv
<1>. SUFFICES ASSUME UdpInit PROVE UdpInv
  OBVIOUS
<1>1. UdpTypeOK
  BY UdpAssumption, EmptyChannel DEF UdpInit, UdpTypeOK, NoSession
<1>2. FreshIds
  BY DEF UdpInit, FreshIds, NoFlow, NoSession, Flows, Sessions
<1>3. OneTaskPerSource
  BY DEF UdpInit, OneTaskPerSource, FlowRuns, SessionRuns, NoFlow, NoSession, Flows, Sessions
<1>4. Known /\ Paired /\ OwnTraffic
  BY DEF UdpInit, Known, Paired, OwnTraffic, NoFlow, NoSession
<1>. QED
  BY <1>1, <1>2, <1>3, <1>4 DEF UdpInv

\* Every step preserves the invariant.
LEMMA UdpInvNext == UdpInv /\ [UdpNext]_udp => UdpInv'
<1>. SUFFICES ASSUME UdpInv, [UdpNext]_udp PROVE UdpInv'
  OBVIOUS
<1>1. CASE UdpNext
  <2>1. UdpTypeOK'
    BY <1>1, ClientHalf, ServerHalf, NetworkSteps, TrafficPreserved DEF UdpTypeOK
  <2>2. FreshIds' /\ OneTaskPerSource'
    BY <1>1, ClientHalf, ServerHalf DEF FreshIds, OneTaskPerSource
  <2>. QED
    BY <1>1, <2>1, <2>2, KnownPreserved, PairedPreserved, TrafficPreserved DEF UdpInv
<1>2. CASE UNCHANGED udp
  BY <1>2 DEF UdpInv, udp, client, server, UdpTypeOK, FreshIds, OneTaskPerSource, FlowRuns,
              SessionRuns, Known, Paired, OwnTraffic
<1>. QED
  BY <1>1, <1>2

\* The invariant holds at every moment.
LEMMA UdpInvAlways == UdpSpec => []UdpInv
  BY UdpInvInit, UdpInvNext, PTL DEF UdpSpec

\* Every variable keeps its type and no channel exceeds its capacity, for any
\* number of applications, flows, sessions and rebinds.
THEOREM UdpTypeCorrect == UdpSpec => []UdpTypeOK
<1>1. UdpInv => UdpTypeOK
  BY DEF UdpInv
<1>. QED
  BY <1>1, UdpInvAlways, PTL

\* The flow map of the client and the session map of the server agree with the
\* running tasks at every moment: one task per source, and a task that removes
\* its entry by address removes no other's.
THEOREM OneTaskPerSourceAlways == UdpSpec => []OneTaskPerSource
<1>1. UdpInv => OneTaskPerSource
  BY DEF UdpInv
<1>. QED
  BY <1>1, UdpInvAlways, PTL

\* Targets get only datagrams of applications of their own link, or of one
\* whose payload named it, always of an authorised link, and applications only
\* replies to their own flow, whatever the network does.
THEOREM OwnTrafficAlways == UdpSpec => []OwnTraffic
<1>1. UdpInv => OwnTraffic
  BY DEF UdpInv
<1>. QED
  BY <1>1, UdpInvAlways, PTL

=============================================================================
