---------------------------- MODULE ControlProofs ----------------------------
(***************************************************************************)
(* Theorems about the control connection: its life (ControlChannel), what  *)
(* one session reads and writes (ControlFraming) and what is stored about  *)
(* it (ControlStatus).  The modules share no variable; they are proved     *)
(* side by side.                                                           *)
(***************************************************************************)
EXTENDS ControlChannel, ControlFraming, ControlStatus, SequenceTheorems, TLAPS

(***************************************************************************)
(* ControlChannel.                                                         *)
(***************************************************************************)
\* A client that is in a handshake or a session holds a connection of its own
\* whose end does the same, and says "connected" exactly during a session.
ClientsHold ==
  /\ \A c \in Clients : client[c].at \in {"handshake", "session"} =>
       /\ client[c].conn \in Conns
       /\ owner[client[c].conn] = c
       /\ clientEnd[client[c].conn] = client[c].at
  /\ \A c \in Clients : c \in online <=> client[c].at = "session"

\* The server's end of a connection says where the session loop has it, and
\* none is queued twice.
ServerHolds ==
  /\ \A i \in Conns : owner[i] = None => serverEnd[i] = "none"
  /\ \A i \in Conns : serverEnd[i] = "backlog" <=> \E n \in 1..Len(backlog) : backlog[n] = i
  /\ \A m, n \in 1..Len(backlog) : backlog[m] = backlog[n] => m = n
  /\ \A i \in Conns : serverEnd[i] = "session" <=> serving = i

\* The connection of a client that says "connected" is on the server's side
\* queued or served, unless it was cut.
OnlineIsHeld ==
  \A c \in online : \/ client[c].conn \in broken
                    \/ serverEnd[client[c].conn] \in {"backlog", "session"}

ClientStates == [at : {"dial", "handshake", "session", "sleep"},
                 conn : Conns \cup {None}, backoff : Backoffs]

ControlInv == ControlTypeOK /\ ClientsHold /\ ServerHolds /\ OnlineIsHeld

\* Nothing is dialed, queued or served at the start.
LEMMA ControlInitInv == ControlInit => ControlInv
<1> SUFFICES ASSUME ControlInit PROVE ControlInv
  OBVIOUS
<1>1. ControlTypeOK
  BY ControlAssumption DEF ControlInit, ControlTypeOK, Backoffs
<1>2. ClientsHold /\ OnlineIsHeld
  BY DEF ControlInit, ClientsHold, OnlineIsHeld
<1>3. ServerHolds
  BY NoneAssumption DEF ControlInit, ServerHolds
<1> QED BY <1>1, <1>2, <1>3 DEF ControlInv

\* A client's own steps: the connection it takes up is new, the one it leaves
\* was its own, and nobody else's.
LEMMA ClientStepInv ==
  ASSUME ControlInv, NEW c \in Clients, ClientStep(c)
  PROVE  ControlInv'
<1> USE DEF ControlInv
<1>1. CASE Dial(c)
  <2>1. PICK i \in Conns :
          /\ owner[i] = None
          /\ owner' = [owner EXCEPT ![i] = c]
          /\ client' = [client EXCEPT ![c] = [@ EXCEPT !.at = "handshake", !.conn = i]]
          /\ clientEnd' = [clientEnd EXCEPT ![i] = "handshake"]
          /\ serverEnd' = [serverEnd EXCEPT ![i] = "handshake"]
    BY <1>1 DEF Dial
  <2>2. /\ client[c].at = "dial"
        /\ UNCHANGED <<broken, silent, backlog, serving, online, faults>>
    BY <1>1 DEF Dial
  <2>3. ControlTypeOK'
    BY <2>1, <2>2 DEF ControlTypeOK
  <2>4. ClientsHold'
    BY <2>1, <2>2, NoneAssumption DEF ControlTypeOK, ClientsHold
  <2>5. ServerHolds'
    BY <2>1, <2>2, NoneAssumption DEF ControlTypeOK, ServerHolds
  <2>6. OnlineIsHeld'
    BY <2>1, <2>2, NoneAssumption DEF ControlTypeOK, ClientsHold, OnlineIsHeld
  <2> QED BY <2>3, <2>4, <2>5, <2>6
<1>2. CASE ConnectFails(c) \/ Wake(c)
  <2>1. /\ client[c].at \in {"dial", "sleep"}
        /\ UNCHANGED <<owner, clientEnd, serverEnd, broken, silent, backlog, serving,
                       online, faults>>
    BY <1>2 DEF ConnectFails, Wake
  <2>2. PICK r \in ClientStates : client' = [client EXCEPT ![c] = r] /\ r.at \in {"dial", "sleep"}
    <3>1. client[c] \in ClientStates
      BY DEF ControlTypeOK, ClientStates
    <3>2. [client[c] EXCEPT !.at = "sleep"] \in ClientStates
      BY <3>1 DEF ClientStates
    <3>3. Doubled(client[c].backoff) \in Backoffs
      BY <3>1, ControlAssumption DEF ClientStates, Backoffs, Doubled
    <3>4. [client[c] EXCEPT !.at = "dial", !.backoff = Doubled(client[c].backoff)] \in ClientStates
      BY <3>1, <3>3 DEF ClientStates
    <3>5. /\ [client[c] EXCEPT !.at = "sleep"].at = "sleep"
          /\ [client[c] EXCEPT !.at = "dial", !.backoff = Doubled(client[c].backoff)].at = "dial"
      BY <3>1 DEF ClientStates
    <3>6. CASE ConnectFails(c)
      BY <3>2, <3>5, <3>6 DEF ConnectFails
    <3>7. CASE Wake(c)
      BY <3>4, <3>5, <3>7 DEF Wake
    <3> QED BY <1>2, <3>6, <3>7
  <2>3. ControlTypeOK'
    BY <2>1, <2>2 DEF ControlTypeOK, ClientStates
  <2>4. ClientsHold' /\ OnlineIsHeld'
    BY <2>1, <2>2 DEF ControlTypeOK, ClientsHold, OnlineIsHeld
  <2>5. ServerHolds'
    BY <2>1 DEF ServerHolds
  <2> QED BY <2>3, <2>4, <2>5
<1>3. CASE HandshakeCompletes(c)
  <2> DEFINE i == client[c].conn
  <2>1. /\ client[c].at = "handshake" /\ i \in Conns /\ owner[i] = c
        /\ serverEnd[i] \in {"backlog", "session"}
        /\ client' = [client EXCEPT ![c] = [@ EXCEPT !.at = "session", !.backoff = 1]]
        /\ clientEnd' = [clientEnd EXCEPT ![i] = "session"]
        /\ online' = online \cup {c}
        /\ UNCHANGED <<owner, serverEnd, broken, silent, backlog, serving, faults>>
    BY <1>3 DEF HandshakeCompletes, ClientsHold
  <2>2. ControlTypeOK'
    <3>1. client[c] \in ClientStates
      BY DEF ControlTypeOK, ClientStates
    <3>2. [client[c] EXCEPT !.at = "session", !.backoff = 1] \in ClientStates
      <4>1. 1 \in Backoffs
        BY ControlAssumption DEF Backoffs
      <4> QED BY <3>1, <4>1 DEF ClientStates
    <3> QED BY <2>1, <3>2 DEF ControlTypeOK, ClientStates
  <2>3. ClientsHold' /\ OnlineIsHeld'
    BY <2>1 DEF ControlTypeOK, ClientsHold, OnlineIsHeld
  <2>4. ServerHolds'
    BY <2>1 DEF ServerHolds
  <2> QED BY <2>2, <2>3, <2>4
<1>4. CASE ClientNotices(c) \/ ClientTimesOut(c)
  <2> DEFINE i == client[c].conn
  <2>1. client[c].at \in {"handshake", "session"} /\ ClientLeaves(c)
    BY <1>4 DEF ClientNotices, ClientTimesOut
  <2>2. faults' \in 0..MaxFaults
    BY <1>4, ControlAssumption DEF ClientNotices, ClientTimesOut, Fault, ControlTypeOK
  <2>3. /\ i \in Conns /\ owner[i] = c
        /\ client' = [client EXCEPT ![c] = [@ EXCEPT !.at = "sleep", !.conn = None]]
        /\ clientEnd' = [clientEnd EXCEPT ![i] = "closed"]
        /\ online' = online \ {c}
        /\ UNCHANGED <<owner, serverEnd, broken, silent, backlog, serving>>
    BY <2>1 DEF ClientLeaves, ClientsHold
  <2>4. ControlTypeOK'
    <3>1. client[c] \in ClientStates
      BY DEF ControlTypeOK, ClientStates
    <3>2. [client[c] EXCEPT !.at = "sleep", !.conn = None] \in ClientStates
      BY <3>1 DEF ClientStates
    <3> QED BY <2>2, <2>3, <3>2 DEF ControlTypeOK, ClientStates
  <2>5. ClientsHold' /\ OnlineIsHeld'
    BY <2>3 DEF ControlTypeOK, ClientsHold, OnlineIsHeld
  <2>6. ServerHolds'
    BY <2>3 DEF ServerHolds
  <2> QED BY <2>4, <2>5, <2>6
<1> QED BY <1>1, <1>2, <1>3, <1>4 DEF ClientStep

\* The handshake tasks: one that succeeds queues a connection that was not
\* queued before, one that fails closes a connection no client says it has.
LEMMA HandshakeTaskInv ==
  ASSUME ControlInv, NEW i \in Conns,
         Authenticate(i) \/ HandshakeBreaks(i) \/ ServerTimesOut(i)
  PROVE  ControlInv'
<1> USE DEF ControlInv
<1>1. CASE Authenticate(i)
  <2>1. /\ serverEnd[i] = "handshake" /\ backlog \in Seq(Conns)
        /\ serverEnd' = [serverEnd EXCEPT ![i] = "backlog"]
        /\ backlog' = Append(backlog, i)
        /\ UNCHANGED <<client, owner, clientEnd, broken, silent, serving, online, faults>>
    BY <1>1 DEF Authenticate, ControlTypeOK
  <2>2. /\ backlog' \in Seq(Conns) /\ Len(backlog') = Len(backlog) + 1
        /\ \A n \in 1..Len(backlog) : backlog'[n] = backlog[n]
        /\ backlog'[Len(backlog) + 1] = i
    BY <2>1
  <2>3. ControlTypeOK'
    BY <2>1, <2>2 DEF ControlTypeOK
  <2>4. ClientsHold' /\ OnlineIsHeld'
    BY <2>1 DEF ControlTypeOK, ClientsHold, OnlineIsHeld
  <2>5. \A k \in Conns : serverEnd'[k] = "backlog" <=> \E n \in 1..Len(backlog') : backlog'[n] = k
    <3> SUFFICES ASSUME NEW k \in Conns
                 PROVE serverEnd'[k] = "backlog" <=> \E n \in 1..Len(backlog') : backlog'[n] = k
      OBVIOUS
    <3>1. Len(backlog) \in Nat /\ Len(backlog) + 1 \in 1..Len(backlog')
      BY <2>1, <2>2
    <3>2. CASE k = i
      BY <2>1, <2>2, <3>1, <3>2 DEF ControlTypeOK
    <3>3. CASE k # i
      <4>1. serverEnd'[k] = serverEnd[k]
        BY <2>1, <3>3 DEF ControlTypeOK
      <4>2. (\E n \in 1..Len(backlog') : backlog'[n] = k) <=> \E n \in 1..Len(backlog) : backlog[n] = k
        BY <2>2, <3>1, <3>3
      <4> QED BY <4>1, <4>2 DEF ServerHolds
    <3> QED BY <3>2, <3>3
  <2>6. \A m, n \in 1..Len(backlog') : backlog'[m] = backlog'[n] => m = n
    <3>1. \A n \in 1..Len(backlog) : backlog[n] # i
      BY <2>1 DEF ServerHolds
    <3> QED BY <2>1, <2>2, <3>1 DEF ServerHolds
  <2>7. ServerHolds'
    BY <2>1, <2>5, <2>6 DEF ServerHolds, ControlTypeOK
  <2> QED BY <2>3, <2>4, <2>7
<1>2. CASE HandshakeBreaks(i) \/ ServerTimesOut(i)
  <2>1. serverEnd[i] = "handshake" /\ Rejected(i) /\ faults' \in 0..MaxFaults
    BY <1>2, ControlAssumption DEF HandshakeBreaks, ServerTimesOut, Fault, ControlTypeOK
  <2>2. /\ serverEnd' = [serverEnd EXCEPT ![i] = "closed"]
        /\ UNCHANGED <<client, owner, clientEnd, broken, silent, backlog, serving, online>>
    BY <2>1 DEF Rejected
  <2>3. ControlTypeOK'
    BY <2>1, <2>2 DEF ControlTypeOK
  <2>4. ClientsHold' /\ OnlineIsHeld'
    BY <2>1, <2>2 DEF ControlTypeOK, ClientsHold, OnlineIsHeld
  <2>5. ServerHolds'
    BY <2>1, <2>2 DEF ServerHolds, ControlTypeOK
  <2> QED BY <2>3, <2>4, <2>5
<1> QED BY <1>1, <1>2

\* The session loop takes the oldest connection of the queue and leaves the
\* one it served; the network cuts any.
LEMMA SessionLoopInv ==
  ASSUME ControlInv, ServeNext \/ SessionEnds \/ \E i \in Conns : Break(i)
  PROVE  ControlInv'
<1> USE DEF ControlInv
<1>1. CASE ServeNext
  <2> DEFINE i == backlog[1]
  <2>1. /\ backlog \in Seq(Conns) /\ backlog # <<>> /\ i \in Conns /\ Head(backlog) = i
        /\ Len(backlog) \in Nat \ {0}
    BY <1>1 DEF ServeNext, ControlTypeOK
  <2>2. /\ serving = None /\ serving' = i /\ backlog' = Tail(backlog)
        /\ serverEnd' = [serverEnd EXCEPT ![i] = "session"]
        /\ UNCHANGED <<client, owner, clientEnd, broken, silent, online, faults>>
    BY <1>1, <2>1 DEF ServeNext
  <2>3. /\ backlog' \in Seq(Conns) /\ Len(backlog') = Len(backlog) - 1
        /\ \A n \in 1..Len(backlog') : backlog'[n] = backlog[n + 1]
    BY <2>1, <2>2
  <2>4. serverEnd[i] = "backlog"
    BY <2>1 DEF ServerHolds
  <2>5. ControlTypeOK'
    BY <2>1, <2>2, <2>3 DEF ControlTypeOK
  <2>6. ClientsHold' /\ OnlineIsHeld'
    BY <2>1, <2>2 DEF ControlTypeOK, ClientsHold, OnlineIsHeld
  <2>8. \A k \in Conns : serverEnd'[k] = "backlog" <=> \E n \in 1..Len(backlog') : backlog'[n] = k
    <3> SUFFICES ASSUME NEW k \in Conns
                 PROVE serverEnd'[k] = "backlog" <=> \E n \in 1..Len(backlog') : backlog'[n] = k
      OBVIOUS
    <3>1. CASE k = i
      <4>1. \A n \in 1..Len(backlog') : backlog'[n] # i
        BY <2>1, <2>3 DEF ServerHolds
      <4> QED BY <2>1, <2>2, <3>1, <4>1 DEF ControlTypeOK
    <3>2. CASE k # i
      <4>1. serverEnd'[k] = serverEnd[k]
        BY <2>1, <2>2, <3>2 DEF ControlTypeOK
      <4>2. ASSUME NEW n \in 1..Len(backlog), backlog[n] = k
            PROVE  n - 1 \in 1..Len(backlog') /\ backlog'[n - 1] = k
        BY <2>1, <2>3, <3>2, <4>2
      <4>3. ASSUME NEW n \in 1..Len(backlog'), backlog'[n] = k
            PROVE  n + 1 \in 1..Len(backlog) /\ backlog[n + 1] = k
        BY <2>1, <2>3, <4>3
      <4> QED BY <4>1, <4>2, <4>3 DEF ServerHolds
    <3> QED BY <3>1, <3>2
  <2>9. \A m, n \in 1..Len(backlog') : backlog'[m] = backlog'[n] => m = n
    <3> SUFFICES ASSUME NEW m \in 1..Len(backlog'), NEW n \in 1..Len(backlog'),
                        backlog'[m] = backlog'[n]
                 PROVE  m = n
      OBVIOUS
    <3>1. m + 1 \in 1..Len(backlog) /\ n + 1 \in 1..Len(backlog)
      BY <2>1, <2>3
    <3>2. m + 1 = n + 1
      <4>1. \A a, b \in 1..Len(backlog) : backlog[a] = backlog[b] => a = b
        BY DEF ServerHolds
      <4>2. backlog[m + 1] = backlog[n + 1]
        BY ONLY <2>3, backlog'[m] = backlog'[n], m \in 1..Len(backlog'), n \in 1..Len(backlog')
      <4> QED BY ONLY <3>1, <4>1, <4>2
    <3> QED BY <2>1, <2>3, <3>2
  <2>10. ServerHolds'
    BY <2>1, <2>2, <2>4, <2>8, <2>9, NoneAssumption DEF ServerHolds, ControlTypeOK
  <2> QED BY <2>5, <2>6, <2>10
<1>2. CASE SessionEnds
  <2>1. /\ serving \in Conns /\ serving' = None
        /\ serving \in broken \/ clientEnd[serving] = "closed"
        /\ serverEnd' = [serverEnd EXCEPT ![serving] = "closed"]
        /\ UNCHANGED <<client, owner, clientEnd, broken, silent, backlog, online, faults>>
    BY <1>2 DEF SessionEnds, ControlTypeOK
  <2>2. serverEnd[serving] = "session"
    BY <2>1 DEF ServerHolds
  <2>3. ControlTypeOK'
    BY <2>1 DEF ControlTypeOK
  <2>4. ClientsHold'
    BY <2>1 DEF ControlTypeOK, ClientsHold
  <2>5. OnlineIsHeld'
    BY <2>1, <2>2 DEF ControlTypeOK, ClientsHold, OnlineIsHeld
  <2>6. ServerHolds'
    BY <2>1, <2>2, NoneAssumption DEF ServerHolds, ControlTypeOK
  <2> QED BY <2>3, <2>4, <2>5, <2>6
<1>3. CASE \E i \in Conns : Break(i)
  <2>1. PICK i \in Conns : Break(i)
    BY <1>3
  <2>2. /\ broken' = broken \cup {i} /\ silent' \in {silent, silent \cup {i}}
        /\ faults' \in 0..MaxFaults
        /\ UNCHANGED <<client, owner, clientEnd, serverEnd, backlog, serving, online>>
    BY <2>1, ControlAssumption DEF Break, Fault, ControlTypeOK
  <2>3. ControlTypeOK'
    BY <2>2 DEF ControlTypeOK
  <2>4. ClientsHold' /\ ServerHolds' /\ OnlineIsHeld'
    BY <2>2 DEF ClientsHold, ServerHolds, OnlineIsHeld
  <2> QED BY <2>3, <2>4
<1> QED BY <1>1, <1>2, <1>3

\* The invariant is inductive, for any number of clients and faults.
LEMMA ControlStepInv == ControlInv /\ [ControlNext]_controlVars => ControlInv'
<1> SUFFICES ASSUME ControlInv, [ControlNext]_controlVars PROVE ControlInv'
  OBVIOUS
<1>1. CASE \E c \in Clients : ClientStep(c)
  BY <1>1, ClientStepInv
<1>2. CASE \E i \in Conns : Authenticate(i) \/ HandshakeBreaks(i) \/ ServerTimesOut(i)
  BY <1>2, HandshakeTaskInv
<1>3. CASE ServeNext \/ SessionEnds \/ \E i \in Conns : Break(i)
  BY <1>3, SessionLoopInv
<1>4. CASE UNCHANGED controlVars
  BY <1>4 DEF controlVars, ControlInv, ControlTypeOK, ClientsHold, ServerHolds,
     OnlineIsHeld
<1> QED BY <1>1, <1>2, <1>3, <1>4 DEF ControlNext

LEMMA ControlInvAlways == ControlSpec => []ControlInv
BY ControlInitInv, ControlStepInv, PTL DEF ControlSpec

\* What is queued by the server's end is in the channel.
LEMMA OnlineIsKnownFromInv == ControlInv => OnlineIsKnown
<1> SUFFICES ASSUME ControlInv, NEW c \in online
             PROVE  LET i == client[c].conn IN i \in broken \/ i = serving \/ i \in Range(backlog)
  BY DEF OnlineIsKnown
<1> DEFINE i == client[c].conn
<1>1. i \in Conns /\ backlog \in Seq(Conns)
  BY DEF ControlInv, ControlTypeOK, ClientsHold
<1>2. CASE serverEnd[i] = "backlog"
  <2>1. PICK n \in 1..Len(backlog) : backlog[n] = i
    BY <1>1, <1>2 DEF ControlInv, ServerHolds
  <2> QED BY <1>1, <2>1 DEF Range
<1>3. CASE serverEnd[i] = "session"
  BY <1>1, <1>3 DEF ControlInv, ServerHolds
<1> QED BY <1>2, <1>3 DEF ControlInv, OnlineIsHeld

\* Every variable of the control connections keeps its type: a backoff never
\* leaves 1..MAX_BACKOFF.
THEOREM ControlTypeCorrect == ControlSpec => []ControlTypeOK
<1>1. ControlInv => ControlTypeOK
  BY DEF ControlInv
<1> QED BY <1>1, ControlInvAlways, PTL

\* For any number of clients, one that says "connected" is queued or served at
\* the server, unless its connection was cut.
THEOREM OnlineIsKnownAlways == ControlSpec => []OnlineIsKnown
BY OnlineIsKnownFromInv, ControlInvAlways, PTL
-----------------------------------------------------------------------------
(***************************************************************************)
(* ControlFraming.  A direction of the connection is described by what is  *)
(* unread (w), what its sender has yet to write (x) and has started to     *)
(* send (s), what its reader has received (r), whether it has taken (h) or *)
(* lost (t) a length, and whether its sender is in the session (open).     *)
(***************************************************************************)
LengthOf(m) == [part |-> "length", msg |-> m]
BodyOf(m) == [part |-> "body", msg |-> m]

\* The pieces of w are those of the messages s, in order, after the first b.
Aligned(w, s, b) ==
  \A p \in 1..Len(w), k \in 1..Len(s) :
    /\ b + p = 2 * k - 1 => w[p] = LengthOf(s[k])
    /\ b + p = 2 * k => w[p] = BodyOf(s[k])

\* The pieces the reader has taken from the stream.
Taken(r, h, t) == 2 * Len(r) + (IF h \/ t THEN 1 ELSE 0)

Last1(s) == s[Len(s)]

Direction(w, x, s, r, h, t, op) ==
  /\ Aligned(w, s, Taken(r, h, t))
  /\ Taken(r, h, t) + Len(w) + Len(x) <= 2 * Len(s)
  /\ op => Taken(r, h, t) + Len(w) + Len(x) = 2 * Len(s)
  /\ x # <<>> => op /\ s # <<>> /\ x \in {Frame(Last1(s)), <<BodyOf(Last1(s))>>}
  /\ ~(h /\ t)
  /\ Len(r) <= Len(s) /\ \A i \in 1..Len(r) : r[i] = s[i]

\* send_json starts at a sender that has nothing else to write.
LEMMA DirectionSend ==
  ASSUME NEW w \in Seq(Pieces), NEW s \in Seq(ControlMessages), NEW r \in Seq(ControlMessages),
         NEW h \in BOOLEAN, NEW t \in BOOLEAN, NEW m \in ControlMessages,
         Direction(w, <<>>, s, r, h, t, TRUE)
  PROVE  Direction(w, Frame(m), Append(s, m), r, h, t, TRUE)
<1>0. PICK b : b = Taken(r, h, t)
  OBVIOUS
<1>1. b \in Nat /\ b + Len(w) = 2 * Len(s) /\ Aligned(w, s, b)
  BY <1>0 DEF Direction, Taken
<1>2. /\ Append(s, m) \in Seq(ControlMessages) /\ Len(Append(s, m)) = Len(s) + 1
      /\ Append(s, m)[Len(s) + 1] = m
      /\ \A i \in 1..Len(s) : Append(s, m)[i] = s[i]
  OBVIOUS
<1>3. Len(Frame(m)) = 2
  BY DEF Frame
<1>4. Aligned(w, Append(s, m), b)
  <2> QED BY <1>1, <1>2 DEF Aligned
<1>5. Frame(m) \in {Frame(Last1(Append(s, m))), <<BodyOf(Last1(Append(s, m)))>>}
  BY <1>2 DEF Last1
<1>6. Append(s, m) # <<>>
  BY <1>2
<1>7. b + Len(w) + Len(Frame(m)) = 2 * Len(Append(s, m))
  <2>1. /\ Len(w) \in Nat /\ Len(s) \in Nat /\ b \in Nat /\ b + Len(w) = 2 * Len(s)
        /\ Len(Append(s, m)) = Len(s) + 1
    BY <1>1, <1>2
  <2> QED BY ONLY <1>3, <2>1
<1>8. ~(h /\ t) /\ Len(r) <= Len(s) /\ \A i \in 1..Len(r) : r[i] = s[i]
  BY <1>0 DEF Direction
<1>9. Len(r) <= Len(Append(s, m)) /\ \A i \in 1..Len(r) : r[i] = Append(s, m)[i]
  <2>1. Len(r) \in Nat /\ Len(s) \in Nat
    OBVIOUS
  <2> QED BY <1>2, <1>8, <2>1
<1>10. 2 * Len(Append(s, m)) <= 2 * Len(Append(s, m))
  BY <1>2
<1> QED BY <1>0, <1>4, <1>5, <1>6, <1>7, <1>8, <1>9, <1>10 DEF Direction

\* The read is dropped: a taken length becomes a lost one.
LEMMA DirectionDrop ==
  ASSUME NEW w, NEW x, NEW s, NEW r, NEW h \in BOOLEAN, NEW t \in BOOLEAN, NEW op,
         Direction(w, x, s, r, h, t, op)
  PROVE  Direction(w, x, s, r, FALSE, t \/ h, op)
<1>1. Taken(r, FALSE, t \/ h) = Taken(r, h, t)
  BY DEF Taken
<1> QED BY <1>1 DEF Direction

\* One piece of send_json goes into the stream.
LEMMA DirectionWrite ==
  ASSUME NEW w \in Seq(Pieces), NEW x \in Seq(Pieces), NEW s \in Seq(ControlMessages),
         NEW r \in Seq(ControlMessages), NEW h \in BOOLEAN, NEW t \in BOOLEAN,
         x # <<>>, Direction(w, x, s, r, h, t, TRUE)
  PROVE  Direction(Append(w, Head(x)), Tail(x), s, r, h, t, TRUE)
<1>0. PICK b : b = Taken(r, h, t)
  OBVIOUS
<1> DEFINE n == Len(s)
<1>1. /\ b \in Nat /\ b + Len(w) + Len(x) = 2 * n /\ Aligned(w, s, b)
      /\ n \in Nat \ {0} /\ x \in {Frame(s[n]), <<BodyOf(s[n])>>}
  BY <1>0 DEF Direction, Taken, Last1
<1>2. \/ Len(x) = 2 /\ Head(x) = LengthOf(s[n]) /\ Tail(x) = <<BodyOf(s[n])>>
      \/ Len(x) = 1 /\ Head(x) = BodyOf(s[n]) /\ Tail(x) = <<>>
  <2>1. CASE x = Frame(s[n])
    BY <2>1 DEF Frame, LengthOf, BodyOf
  <2>2. CASE x = <<BodyOf(s[n])>>
    BY <2>2
  <2> QED BY <1>1, <2>1, <2>2
<1>3. /\ Len(Append(w, Head(x))) = Len(w) + 1
      /\ Append(w, Head(x))[Len(w) + 1] = Head(x)
      /\ \A p \in 1..Len(w) : Append(w, Head(x))[p] = w[p]
  OBVIOUS
<1>4. Aligned(Append(w, Head(x)), s, b)
  <2> SUFFICES ASSUME NEW p \in 1..(Len(w) + 1), NEW k \in 1..n
               PROVE  /\ b + p = 2 * k - 1 => Append(w, Head(x))[p] = LengthOf(s[k])
                      /\ b + p = 2 * k => Append(w, Head(x))[p] = BodyOf(s[k])
    BY <1>3 DEF Aligned
  <2>1. CASE p \in 1..Len(w)
    BY <1>1, <1>3, <2>1 DEF Aligned
  <2>2. CASE p = Len(w) + 1
    <3>1. Len(w) \in Nat /\ b \in Nat /\ n \in Nat /\ b + Len(w) + Len(x) = 2 * n
      BY <1>1
    <3>2. CASE Len(x) = 2
      <4>1. b + (Len(w) + 1) = 2 * n - 1
        BY ONLY <3>1, <3>2
      <4> QED BY <1>1, <1>2, <1>3, <2>2, <3>2, <4>1
    <3>3. CASE Len(x) = 1
      <4>1. b + (Len(w) + 1) = 2 * n
        BY ONLY <3>1, <3>3
      <4> QED BY <1>1, <1>2, <1>3, <2>2, <3>3, <4>1
    <3> QED BY <1>2, <3>2, <3>3
  <2> QED BY <2>1, <2>2
<1>5. b + Len(Append(w, Head(x))) + Len(Tail(x)) = 2 * n
  <2>1. Len(Tail(x)) = Len(x) - 1 /\ Len(x) \in Nat /\ Len(w) \in Nat
    BY <1>2
  <2>2. Len(Append(w, Head(x))) = Len(w) + 1
    BY <1>3
  <2> HIDE DEF n
  <2> QED BY <1>1, <2>1, <2>2
<1>6. Tail(x) # <<>> => Tail(x) \in {Frame(s[n]), <<BodyOf(s[n])>>}
  BY <1>2
<1> QED BY <1>0, <1>1, <1>4, <1>5, <1>6 DEF Direction, Last1

\* What a reader finds next is what it expects, unless it lost a length.
LEMMA DirectionHead ==
  ASSUME NEW w \in Seq(Pieces), NEW x \in Seq(Pieces), NEW s \in Seq(ControlMessages),
         NEW r \in Seq(ControlMessages), NEW h \in BOOLEAN, NEW t \in BOOLEAN, NEW op,
         w # <<>>, Direction(w, x, s, r, h, t, op)
  PROVE  /\ Len(r) + 1 \in 1..Len(s)
         /\ h \/ t => Head(w) = BodyOf(s[Len(r) + 1])
         /\ ~(h \/ t) => Head(w) = LengthOf(s[Len(r) + 1])
<1>0. PICK b : b = Taken(r, h, t)
  OBVIOUS
<1> DEFINE k == Len(r) + 1
<1>1. /\ Len(w) \in Nat \ {0} /\ Head(w) = w[1] /\ Len(r) \in Nat /\ Len(s) \in Nat
      /\ Len(x) \in Nat
  OBVIOUS
<1>2. b + Len(w) + Len(x) <= 2 * Len(s) /\ Aligned(w, s, b)
  BY <1>0 DEF Direction
<1>3. h \/ t => b + 1 = 2 * k
  BY <1>0, <1>1 DEF Taken
<1>4. ~(h \/ t) => b + 1 = 2 * k - 1
  BY <1>0, <1>1 DEF Taken
<1>5. b \in Nat /\ (b + 1 = 2 * k \/ b + 1 = 2 * k - 1)
  <2>1. b \in Nat
    BY <1>0, <1>1 DEF Taken
  <2> QED BY <1>3, <1>4, <2>1
<1>6. k \in 1..Len(s)
  <2> QED BY <1>1, <1>2, <1>5
<1>7. 1 \in 1..Len(w)
  BY <1>1
<1>8. /\ b + 1 = 2 * k => w[1] = BodyOf(s[k])
      /\ b + 1 = 2 * k - 1 => w[1] = LengthOf(s[k])
  <2> QED BY <1>2, <1>6, <1>7 DEF Aligned
<1> QED BY <1>1, <1>3, <1>4, <1>6, <1>8

\* The stream after its first piece.
LEMMA AlignedTail ==
  ASSUME NEW w \in Seq(Pieces), NEW s \in Seq(ControlMessages), NEW b \in Nat,
         w # <<>>, Aligned(w, s, b)
  PROVE  Aligned(Tail(w), s, b + 1) /\ Len(Tail(w)) = Len(w) - 1
<1>1. /\ Len(Tail(w)) = Len(w) - 1 /\ Len(w) \in Nat \ {0}
      /\ \A p \in 1..Len(Tail(w)) : Tail(w)[p] = w[p + 1]
  OBVIOUS
<1>2. ASSUME NEW p \in 1..Len(Tail(w)), NEW k \in 1..Len(s)
      PROVE  /\ (b + 1) + p = 2 * k - 1 => Tail(w)[p] = LengthOf(s[k])
             /\ (b + 1) + p = 2 * k => Tail(w)[p] = BodyOf(s[k])
  <2>1. p + 1 \in 1..Len(w) /\ (b + 1) + p = b + (p + 1)
    BY <1>1
  <2> QED BY <1>1, <2>1 DEF Aligned
<1> QED BY <1>1, <1>2 DEF Aligned

\* recv_json takes a length: the reader cannot have lost one before.
LEMMA DirectionLength ==
  ASSUME NEW w \in Seq(Pieces), NEW x \in Seq(Pieces), NEW s \in Seq(ControlMessages),
         NEW r \in Seq(ControlMessages), NEW h \in BOOLEAN, NEW t \in BOOLEAN, NEW op \in BOOLEAN,
         w # <<>>, Head(w).part = "length", ~h, Direction(w, x, s, r, h, t, op)
  PROVE  Direction(Tail(w), x, s, r, TRUE, t, op)
<1>0. PICK b, d : b = Taken(r, h, t) /\ d = Taken(r, TRUE, t)
  OBVIOUS
<1>1. ~t
  <2>1. h \/ t => Head(w) = BodyOf(s[Len(r) + 1])
    BY DirectionHead
  <2> QED BY <2>1 DEF BodyOf
<1>2. b \in Nat /\ d = b + 1
  BY <1>0, <1>1 DEF Taken
<1>3. Aligned(w, s, b)
  BY <1>0 DEF Direction
<1>4. Aligned(Tail(w), s, d) /\ Len(Tail(w)) = Len(w) - 1
  BY <1>2, <1>3, AlignedTail
<1>5. d + Len(Tail(w)) + Len(x) = b + Len(w) + Len(x)
  <2>1. Len(w) \in Nat /\ Len(x) \in Nat
    OBVIOUS
  <2> QED BY <1>2, <1>4, <2>1
<1> QED BY <1>0, <1>1, <1>4, <1>5 DEF Direction

\* recv_json returns a message: the next one that was sent.
LEMMA DirectionBody ==
  ASSUME NEW w \in Seq(Pieces), NEW x \in Seq(Pieces), NEW s \in Seq(ControlMessages),
         NEW r \in Seq(ControlMessages), NEW h \in BOOLEAN, NEW t \in BOOLEAN, NEW op \in BOOLEAN,
         w # <<>>, Head(w).part = "body", ~t, Direction(w, x, s, r, h, t, op)
  PROVE  Direction(Tail(w), x, s, Append(r, Head(w).msg), FALSE, t, op)
<1>0. PICK b, d, q : /\ q = Append(r, Head(w).msg)
                     /\ b = Taken(r, h, t) /\ d = Taken(q, FALSE, t)
  OBVIOUS
<1>1. h /\ Len(r) + 1 \in 1..Len(s) /\ Head(w).msg = s[Len(r) + 1]
  <2>1. /\ Len(r) + 1 \in 1..Len(s)
        /\ h \/ t => Head(w) = BodyOf(s[Len(r) + 1])
        /\ ~(h \/ t) => Head(w) = LengthOf(s[Len(r) + 1])
    BY DirectionHead
  <2> QED BY <2>1 DEF BodyOf, LengthOf
<1>2. /\ Len(q) = Len(r) + 1 /\ q[Len(r) + 1] = s[Len(r) + 1]
      /\ \A i \in 1..Len(r) : q[i] = r[i]
  BY <1>0, <1>1
<1>3. b \in Nat /\ d = b + 1
  BY <1>0, <1>1, <1>2 DEF Taken
<1>4. Aligned(w, s, b)
  BY <1>0 DEF Direction
<1>5. Aligned(Tail(w), s, d) /\ Len(Tail(w)) = Len(w) - 1
  BY <1>3, <1>4, AlignedTail
<1>6. d + Len(Tail(w)) + Len(x) = b + Len(w) + Len(x)
  <2>1. Len(w) \in Nat /\ Len(x) \in Nat
    OBVIOUS
  <2> QED BY <1>3, <1>5, <2>1
<1>7. Len(q) <= Len(s) /\ \A i \in 1..Len(q) : q[i] = s[i]
  <2>1. \A i \in 1..Len(r) : r[i] = s[i]
    BY DEF Direction
  <2>2. Len(r) \in Nat /\ Len(s) \in Nat /\ Len(r) + 1 \in 1..Len(s)
    BY <1>1
  <2>3. ASSUME NEW i \in 1..Len(q) PROVE q[i] = s[i]
    <3>1. i \in 1..Len(r) \/ i = Len(r) + 1
      BY <1>2, <2>2
    <3> QED BY <1>2, <2>1, <3>1
  <2> QED BY <1>2, <2>2, <2>3
<1>8. Direction(Tail(w), x, s, q, FALSE, t, op)
  BY <1>0, <1>5, <1>6, <1>7 DEF Direction
<1> QED BY <1>0, <1>8

\* The sender leaves; what it had yet to write is never written.
LEMMA DirectionEnd ==
  ASSUME NEW w \in Seq(Pieces), NEW x \in Seq(Pieces), NEW s \in Seq(ControlMessages),
         NEW r \in Seq(ControlMessages), NEW h \in BOOLEAN, NEW t \in BOOLEAN, NEW op \in BOOLEAN,
         NEW z \in BOOLEAN, ~z, Direction(w, x, s, r, h, t, op)
  PROVE  Direction(w, <<>>, s, r, h, t, z)
<1>0. PICK b : b = Taken(r, h, t)
  OBVIOUS
<1>1. b \in Nat /\ Len(w) \in Nat /\ Len(x) \in Nat /\ Len(s) \in Nat
  BY <1>0 DEF Taken
<1>2. b + Len(w) + Len(x) <= 2 * Len(s)
  BY <1>0 DEF Direction
<1>3. b + Len(w) + Len(<<>>) <= 2 * Len(s)
  <2>1. Len(<<>>) = 0
    OBVIOUS
  <2> QED BY <1>1, <1>2, <2>1
<1> QED BY <1>0, <1>3 DEF Direction

\* The stream that e reads.
DirectionOf(e) == Direction(wire[e], writing[Other(e)], sent[Other(e)], received[e],
                            half[e], torn[e], open[Other(e)])

FramingInv == FramingTypeOK /\ (\A e \in Ends : DirectionOf(e)) /\ EndsOnlyWhenTorn

LEMMA TwoEnds ==
  \A e \in Ends : /\ Other(e) \in Ends /\ Other(e) # e /\ Other(Other(e)) = e
                  /\ \A d \in Ends : d = e \/ d = Other(e)
BY DEF Ends, Other

LEMMA FrameType ==
  ASSUME NEW m \in ControlMessages
  PROVE  Frame(m) \in Seq(Pieces) /\ Len(Frame(m)) = 2
BY DEF Frame, Pieces

LEMMA MessageTypes == Ping \in ControlMessages /\ Pong \in ControlMessages
BY DEF ControlMessages

LEMMA EndTypes ==
  ASSUME FramingInv, NEW e \in Ends
  PROVE  /\ wire[e] \in Seq(Pieces) /\ writing[e] \in Seq(Pieces) /\ Len(writing[e]) <= 2
         /\ sent[e] \in Seq(ControlMessages) /\ received[e] \in Seq(ControlMessages)
         /\ half[e] \in BOOLEAN /\ open[e] \in BOOLEAN /\ torn[e] \in BOOLEAN
BY DEF FramingInv, FramingTypeOK

\* Nothing is sent at the start.
LEMMA FramingInitInv == FramingInit => FramingInv
<1> SUFFICES ASSUME FramingInit PROVE FramingInv
  OBVIOUS
<1>1. FramingTypeOK
  BY FramingAssumption DEF FramingInit, FramingTypeOK
<1>2. ASSUME NEW e \in Ends PROVE DirectionOf(e)
  <2>1. /\ wire[e] = <<>> /\ writing[Other(e)] = <<>> /\ sent[Other(e)] = <<>>
        /\ received[e] = <<>> /\ half[e] = FALSE /\ torn[e] = FALSE
    BY TwoEnds DEF FramingInit
  <2>2. Taken(<<>>, FALSE, FALSE) = 0
    BY DEF Taken
  <2>3. Direction(<<>>, <<>>, <<>>, <<>>, FALSE, FALSE, open[Other(e)])
    <3>1. Len(<<>>) = 0 /\ 1..0 = {}
      OBVIOUS
    <3>2. Aligned(<<>>, <<>>, 0)
      BY <3>1 DEF Aligned
    <3>3. /\ 0 + Len(<<>>) + Len(<<>>) = 2 * Len(<<>>)
          /\ 0 + Len(<<>>) + Len(<<>>) <= 2 * Len(<<>>)
          /\ Len(<<>>) <= Len(<<>>)
      BY <3>1
    <3> QED BY <2>2, <3>1, <3>2, <3>3 DEF Direction
  <2> QED BY <2>1, <2>3 DEF DirectionOf
<1>3. EndsOnlyWhenTorn
  BY DEF FramingInit, EndsOnlyWhenTorn
<1> QED BY <1>1, <1>2, <1>3 DEF FramingInv

\* send_json adds a message to the stream its end writes, and nothing to the
\* other one.
LEMMA JsonSent ==
  ASSUME FramingInv, NEW e \in Ends, NEW m \in ControlMessages, AtSelect(e), SendJson(e, m)
  PROVE  /\ writing' \in [Ends -> Seq(Pieces)] /\ (\A f \in Ends : Len(writing'[f]) <= 2)
         /\ sent' \in [Ends -> Seq(ControlMessages)]
         /\ writing'[Other(e)] = writing[Other(e)] /\ sent'[Other(e)] = sent[Other(e)]
         /\ Direction(wire[Other(e)], writing'[e], sent'[e], received[Other(e)],
                      half[Other(e)], torn[Other(e)], open[e])
<1> DEFINE d == Other(e)
<1>1. d \in Ends /\ d # e /\ Other(d) = e
  BY TwoEnds
<1>2. /\ open[e] = TRUE /\ writing[e] = <<>>
      /\ writing' = [writing EXCEPT ![e] = Frame(m)]
      /\ sent' = [sent EXCEPT ![e] = Append(@, m)]
  BY DEF AtSelect, SendJson, FramingInv, FramingTypeOK
<1>3. Frame(m) \in Seq(Pieces) /\ Len(Frame(m)) = 2
  BY FrameType
<1> HIDE DEF d
<1>4. writing' \in [Ends -> Seq(Pieces)] /\ sent' \in [Ends -> Seq(ControlMessages)]
  BY <1>2, <1>3 DEF FramingInv, FramingTypeOK
<1>5. /\ writing'[e] = Frame(m) /\ sent'[e] = Append(sent[e], m)
      /\ writing'[d] = writing[d] /\ sent'[d] = sent[d]
  BY <1>1, <1>2 DEF FramingInv, FramingTypeOK
<1>6. Len(writing'[e]) <= 2 /\ Len(writing'[d]) <= 2
  <2>1. Len(writing[d]) <= 2
    BY <1>1, EndTypes
  <2>2. Len(writing'[e]) = 2
    BY <1>3, <1>5
  <2> QED BY <1>5, <2>1, <2>2
<1>7. Direction(wire[d], writing'[e], sent'[e], received[d], half[d], torn[d], open[e])
  <2>1. /\ wire[d] \in Seq(Pieces)
        /\ sent[e] \in Seq(ControlMessages) /\ received[d] \in Seq(ControlMessages)
        /\ half[d] \in BOOLEAN /\ torn[d] \in BOOLEAN
    BY <1>1, EndTypes
  <2>2. Direction(wire[d], <<>>, sent[e], received[d], half[d], torn[d], TRUE)
    BY <1>1, <1>2 DEF FramingInv, DirectionOf
  <2>3. Direction(wire[d], Frame(m), Append(sent[e], m), received[d], half[d], torn[d], TRUE)
    BY ONLY <2>1, <2>2, m \in ControlMessages, DirectionSend
  <2> QED BY <1>2, <1>5, <2>3
<1> QED BY <1>4, <1>5, <1>6, <1>7, TwoEnds DEF d

\* The branch of a select! that sends: the tick of the client's timer, an
\* OpenStream at the server.
LEMMA SelectSends ==
  ASSUME FramingInv, NEW e \in Ends, NEW m \in ControlMessages,
         AtSelect(e), SendJson(e, m), DropRead(e), UNCHANGED <<wire, open, received>>,
         pings' \in 0..MaxPings, streams' \in 0..MaxStreams
  PROVE  FramingInv'
<1> DEFINE d == Other(e)
<1>1. d \in Ends /\ d # e /\ Other(d) = e
  BY TwoEnds
<1>2. half' = [half EXCEPT ![e] = FALSE] /\ torn' = [torn EXCEPT ![e] = @ \/ half[e]]
  BY DEF DropRead
<1>3. /\ writing' \in [Ends -> Seq(Pieces)] /\ (\A f \in Ends : Len(writing'[f]) <= 2)
      /\ sent' \in [Ends -> Seq(ControlMessages)]
      /\ writing'[d] = writing[d] /\ sent'[d] = sent[d]
      /\ Direction(wire[d], writing'[e], sent'[e], received[d], half[d], torn[d], open[e])
  BY JsonSent
<1> HIDE DEF d
<1>4. FramingTypeOK'
  <2>1. half' \in [Ends -> BOOLEAN] /\ torn' \in [Ends -> BOOLEAN]
    BY <1>2 DEF FramingInv, FramingTypeOK
  <2> QED BY <1>3, <2>1 DEF FramingInv, FramingTypeOK
<1>5. DirectionOf(e)'
  <2>1. Direction(wire[e], writing[d], sent[d], received[e], FALSE, torn[e] \/ half[e], open[d])
    BY DirectionDrop DEF FramingInv, FramingTypeOK, DirectionOf, d
  <2>2. half'[e] = FALSE /\ torn'[e] = (torn[e] \/ half[e])
    BY <1>2 DEF FramingInv, FramingTypeOK
  <2> QED BY <1>3, <2>1, <2>2 DEF DirectionOf, d
<1>6. DirectionOf(d)'
  <2>1. half'[d] = half[d] /\ torn'[d] = torn[d]
    BY <1>1, <1>2 DEF FramingInv, FramingTypeOK
  <2> QED BY <1>1, <1>3, <2>1 DEF DirectionOf
<1>7. EndsOnlyWhenTorn'
  BY <1>2 DEF FramingInv, FramingTypeOK, EndsOnlyWhenTorn
<1> QED BY <1>4, <1>5, <1>6, <1>7, TwoEnds DEF FramingInv, d

\* An end leaves only when some length was lost.
LEMMA SessionLeft ==
  ASSUME FramingInv, NEW e \in Ends, EndSession(e), \E d \in Ends : torn[d]
  PROVE  FramingInv'
<1>1. /\ open' = [open EXCEPT ![e] = FALSE]
      /\ writing' = [writing EXCEPT ![e] = <<>>]
      /\ UNCHANGED <<wire, half, sent, received, torn, pings, streams>>
  BY DEF EndSession
<1>2. FramingTypeOK'
  BY <1>1 DEF FramingInv, FramingTypeOK
<1>3. DirectionOf(e)'
  <2>1. writing'[Other(e)] = writing[Other(e)] /\ open'[Other(e)] = open[Other(e)]
    BY <1>1, TwoEnds DEF FramingInv, FramingTypeOK
  <2> QED BY <1>1, <2>1 DEF DirectionOf, FramingInv
<1>4. DirectionOf(Other(e))'
  <2> DEFINE d == Other(e)
  <2>1. d \in Ends /\ d # e /\ Other(d) = e
    BY TwoEnds
  <2>2. Direction(wire[d], writing[e], sent[e], received[d], half[d], torn[d], open[e])
    BY <2>1 DEF FramingInv, DirectionOf
  <2>3. Direction(wire[d], <<>>, sent[e], received[d], half[d], torn[d], open'[e])
    <3>1. /\ wire[d] \in Seq(Pieces) /\ writing[e] \in Seq(Pieces)
          /\ sent[e] \in Seq(ControlMessages) /\ received[d] \in Seq(ControlMessages)
          /\ half[d] \in BOOLEAN /\ torn[d] \in BOOLEAN /\ open[e] \in BOOLEAN
      BY <2>1, EndTypes
    <3>2. open'[e] \in BOOLEAN /\ ~open'[e]
      BY <1>1 DEF FramingInv, FramingTypeOK
    <3> HIDE DEF d
    <3> QED BY ONLY <2>2, <3>1, <3>2, DirectionEnd
  <2>4. writing'[e] = <<>>
    BY <1>1 DEF FramingInv, FramingTypeOK
  <2> HIDE DEF d
  <2> QED BY <1>1, <2>1, <2>3, <2>4 DEF DirectionOf, d
<1>5. EndsOnlyWhenTorn'
  BY <1>1 DEF EndsOnlyWhenTorn
<1> QED BY <1>2, <1>3, <1>4, <1>5, TwoEnds DEF FramingInv

\* A piece goes from the sender's hand into the stream.
LEMMA PieceWritten ==
  ASSUME FramingInv, NEW e \in Ends, WritePiece(e)
  PROVE  FramingInv'
<1> DEFINE d == Other(e)
<1>1. d \in Ends /\ d # e /\ Other(d) = e
  BY TwoEnds
<1>2. /\ open[e] = TRUE /\ writing[e] # <<>>
      /\ wire' = [wire EXCEPT ![d] = Append(@, Head(writing[e]))]
      /\ writing' = [writing EXCEPT ![e] = Tail(@)]
      /\ UNCHANGED <<half, open, sent, received, torn, pings, streams>>
  BY DEF WritePiece, FramingInv, FramingTypeOK
<1> HIDE DEF d
<1>3. FramingTypeOK'
  <2>1. writing[e] \in Seq(Pieces) /\ Len(writing[e]) \in Nat \ {0}
    BY <1>2 DEF FramingInv, FramingTypeOK
  <2>2. /\ Head(writing[e]) \in Pieces /\ Tail(writing[e]) \in Seq(Pieces)
        /\ Len(Tail(writing[e])) = Len(writing[e]) - 1
    BY <1>2, <2>1
  <2>3. wire' \in [Ends -> Seq(Pieces)]
    BY <1>1, <1>2, <2>2 DEF FramingInv, FramingTypeOK
  <2>4. writing' \in [Ends -> Seq(Pieces)] /\ \A f \in Ends : Len(writing'[f]) <= 2
    BY <1>2, <2>1, <2>2 DEF FramingInv, FramingTypeOK
  <2> QED BY <1>2, <2>3, <2>4 DEF FramingInv, FramingTypeOK
<1>4. DirectionOf(e)'
  <2>1. wire'[e] = wire[e] /\ writing'[d] = writing[d]
    BY <1>1, <1>2 DEF FramingInv, FramingTypeOK
  <2> QED BY <1>2, <2>1 DEF DirectionOf, FramingInv, d
<1>5. DirectionOf(d)'
  <2>1. Direction(wire[d], writing[e], sent[e], received[d], half[d], torn[d], TRUE)
    BY <1>1, <1>2 DEF FramingInv, DirectionOf
  <2>2. Direction(Append(wire[d], Head(writing[e])), Tail(writing[e]), sent[e],
                  received[d], half[d], torn[d], TRUE)
    <3>1. /\ wire[d] \in Seq(Pieces) /\ writing[e] \in Seq(Pieces)
          /\ sent[e] \in Seq(ControlMessages) /\ received[d] \in Seq(ControlMessages)
          /\ half[d] \in BOOLEAN /\ torn[d] \in BOOLEAN /\ open[e] \in BOOLEAN
      BY <1>1, EndTypes
    <3> HIDE DEF d
    <3> QED BY ONLY <1>2, <2>1, <3>1, DirectionWrite
  <2>3. wire'[d] = Append(wire[d], Head(writing[e])) /\ writing'[e] = Tail(writing[e])
    BY <1>1, <1>2 DEF FramingInv, FramingTypeOK
  <2> QED BY <1>1, <1>2, <2>2, <2>3 DEF DirectionOf
<1>6. EndsOnlyWhenTorn'
  BY <1>2 DEF FramingInv, EndsOnlyWhenTorn
<1> QED BY <1>3, <1>4, <1>5, <1>6, TwoEnds DEF FramingInv, d

\* recv_json takes a length.
LEMMA LengthRead ==
  ASSUME FramingInv, NEW e \in Ends, ReadLength(e)
  PROVE  FramingInv'
<1> DEFINE d == Other(e)
<1>1. d \in Ends /\ d # e /\ Other(d) = e
  BY TwoEnds
<1>2. /\ wire[e] # <<>> /\ Head(wire[e]).part = "length" /\ ~half[e]
      /\ half' = [half EXCEPT ![e] = TRUE]
      /\ wire' = [wire EXCEPT ![e] = Tail(@)]
      /\ UNCHANGED <<writing, open, sent, received, torn, pings, streams>>
  BY DEF ReadLength, NextPiece
<1> HIDE DEF d
<1>3. FramingTypeOK'
  BY <1>2 DEF FramingInv, FramingTypeOK
<1>4. DirectionOf(e)'
  <2>1. /\ wire[e] \in Seq(Pieces) /\ writing[d] \in Seq(Pieces)
        /\ sent[d] \in Seq(ControlMessages) /\ received[e] \in Seq(ControlMessages)
        /\ half[e] \in BOOLEAN /\ torn[e] \in BOOLEAN /\ open[d] \in BOOLEAN
    BY <1>1, EndTypes
  <2>2. Direction(wire[e], writing[d], sent[d], received[e], half[e], torn[e], open[d])
    BY DEF FramingInv, DirectionOf, d
  <2>3. Direction(Tail(wire[e]), writing[d], sent[d], received[e], TRUE, torn[e], open[d])
    BY ONLY <1>2, <2>1, <2>2, DirectionLength
  <2>4. wire'[e] = Tail(wire[e]) /\ half'[e] = TRUE
    BY <1>2 DEF FramingInv, FramingTypeOK
  <2> QED BY <1>2, <2>3, <2>4 DEF DirectionOf, d
<1>5. DirectionOf(d)'
  <2>1. wire'[d] = wire[d] /\ half'[d] = half[d]
    BY <1>1, <1>2 DEF FramingInv, FramingTypeOK
  <2> QED BY <1>1, <1>2, <2>1 DEF DirectionOf, FramingInv
<1>6. EndsOnlyWhenTorn'
  BY <1>2 DEF FramingInv, EndsOnlyWhenTorn
<1> QED BY <1>3, <1>4, <1>5, <1>6, TwoEnds DEF FramingInv, d

\* recv_json returns a message and the session handles it.
LEMMA BodyRead ==
  ASSUME FramingInv, NEW e \in Ends, ReadBody(e)
  PROVE  FramingInv'
<1> DEFINE d == Other(e)
           m == Head(wire[e]).msg
<1>1. d \in Ends /\ d # e /\ Other(d) = e
  BY TwoEnds
<1>2. /\ open[e] /\ writing[e] = <<>>
      /\ wire[e] # <<>> /\ Head(wire[e]).part = "body" /\ half[e]
      /\ half' = [half EXCEPT ![e] = FALSE]
      /\ wire' = [wire EXCEPT ![e] = Tail(@)]
      /\ received' = [received EXCEPT ![e] = Append(@, m)]
      /\ Handle(e, m)
      /\ UNCHANGED <<open, torn, pings, streams>>
  BY DEF ReadBody, NextPiece, AtSelect
<1> HIDE DEF d
<1>3. m \in ControlMessages
  <2>1. Head(wire[e]) \in Pieces
    BY <1>2 DEF FramingInv, FramingTypeOK
  <2> QED BY <2>1 DEF Pieces
<1> HIDE DEF m
<1>4. /\ writing' \in [Ends -> Seq(Pieces)] /\ (\A f \in Ends : Len(writing'[f]) <= 2)
      /\ sent' \in [Ends -> Seq(ControlMessages)]
      /\ writing'[d] = writing[d] /\ sent'[d] = sent[d]
      /\ Direction(wire[d], writing'[e], sent'[e], received[d], half[d], torn[d], open[e])
  <2>1. CASE SendJson(e, Pong)
    BY <1>2, <2>1, MessageTypes, JsonSent DEF AtSelect, d
  <2>2. CASE UNCHANGED <<writing, sent>>
    <3>1. Direction(wire[d], writing[e], sent[e], received[d], half[d], torn[d], open[e])
      BY <1>1 DEF FramingInv, DirectionOf
    <3> QED BY <2>2, <3>1 DEF FramingInv, FramingTypeOK
  <2> QED BY <1>2, <2>1, <2>2 DEF Handle
<1>5. FramingTypeOK'
  <2>1. wire' \in [Ends -> Seq(Pieces)] /\ half' \in [Ends -> BOOLEAN]
    BY <1>2 DEF FramingInv, FramingTypeOK
  <2>2. received' \in [Ends -> Seq(ControlMessages)]
    BY <1>2, <1>3 DEF FramingInv, FramingTypeOK
  <2> QED BY <1>2, <1>4, <2>1, <2>2 DEF FramingInv, FramingTypeOK
<1>6. DirectionOf(e)'
  <2>1. /\ wire[e] \in Seq(Pieces) /\ writing[d] \in Seq(Pieces)
        /\ sent[d] \in Seq(ControlMessages) /\ received[e] \in Seq(ControlMessages)
        /\ half[e] \in BOOLEAN /\ torn[e] \in BOOLEAN /\ open[d] \in BOOLEAN
    BY <1>1, EndTypes
  <2>2. Direction(wire[e], writing[d], sent[d], received[e], half[e], torn[e], open[d])
    BY DEF FramingInv, DirectionOf, d
  <2>3. ~torn[e] /\ wire[e] # <<>> /\ Head(wire[e]).part = "body"
    BY <1>2, <2>2 DEF Direction
  <2>4. Direction(Tail(wire[e]), writing[d], sent[d], Append(received[e], m), FALSE, torn[e], open[d])
    BY ONLY <2>1, <2>2, <2>3, DirectionBody DEF m
  <2>5. /\ wire'[e] = Tail(wire[e]) /\ half'[e] = FALSE
        /\ received'[e] = Append(received[e], m)
    BY <1>2 DEF FramingInv, FramingTypeOK
  <2> QED BY <1>2, <1>4, <2>4, <2>5 DEF DirectionOf, d
<1>7. DirectionOf(d)'
  <2>1. wire'[d] = wire[d] /\ half'[d] = half[d] /\ received'[d] = received[d]
    BY <1>1, <1>2 DEF FramingInv, FramingTypeOK
  <2> QED BY <1>1, <1>2, <1>4, <2>1 DEF DirectionOf
<1>8. EndsOnlyWhenTorn'
  BY <1>2 DEF FramingInv, EndsOnlyWhenTorn
<1> QED BY <1>5, <1>6, <1>7, <1>8, TwoEnds DEF FramingInv, d

\* A body where a length is due: the length was lost before.
LEMMA StrayBody ==
  ASSUME FramingInv, NEW e \in Ends, ReadBodyAsLength(e)
  PROVE  torn[e]
<1> DEFINE d == Other(e)
<1>1. /\ wire[e] \in Seq(Pieces) /\ writing[d] \in Seq(Pieces)
      /\ sent[d] \in Seq(ControlMessages) /\ received[e] \in Seq(ControlMessages)
      /\ half[e] \in BOOLEAN /\ torn[e] \in BOOLEAN
  BY TwoEnds, EndTypes
<1>2. Direction(wire[e], writing[d], sent[d], received[e], half[e], torn[e], open[d])
  BY DEF FramingInv, DirectionOf
<1>3. wire[e] # <<>> /\ Head(wire[e]).part = "body" /\ ~half[e]
  BY DEF ReadBodyAsLength, NextPiece
<1> HIDE DEF d
<1>4. ~(half[e] \/ torn[e]) => Head(wire[e]) = LengthOf(sent[d][Len(received[e]) + 1])
  BY ONLY <1>1, <1>2, <1>3, DirectionHead
<1> QED BY <1>1, <1>3, <1>4 DEF LengthOf

\* The invariant is inductive, for any number of ticks and streams.
LEMMA FramingStepInv == FramingInv /\ [FramingNext]_framing => FramingInv'
<1> SUFFICES ASSUME FramingInv, [FramingNext]_framing PROVE FramingInv'
  OBVIOUS
<1>1. pings \in 0..MaxPings /\ streams \in 0..MaxStreams
  BY DEF FramingInv, FramingTypeOK
<1>2. CASE PingTick
  <2>1. /\ AtSelect("client") /\ SendJson("client", Ping) /\ DropRead("client")
        /\ UNCHANGED <<wire, open, received>>
        /\ pings' \in 0..MaxPings /\ streams' \in 0..MaxStreams
    BY <1>1, <1>2, FramingAssumption DEF PingTick
  <2>2. "client" \in Ends
    BY DEF Ends
  <2> QED BY <2>1, <2>2, MessageTypes, SelectSends
<1>3. CASE TakeOpenStream
  <2> DEFINE m == OpenStream(streams + 1)
  <2>1. streams + 1 \in 1..MaxStreams
    BY <1>1, <1>3, FramingAssumption DEF TakeOpenStream
  <2>2. m \in ControlMessages
    BY <2>1 DEF ControlMessages
  <2>3. /\ AtSelect("server") /\ SendJson("server", m) /\ DropRead("server")
        /\ UNCHANGED <<wire, open, received>>
        /\ pings' \in 0..MaxPings /\ streams' \in 0..MaxStreams
    BY <1>1, <1>3, <2>1, FramingAssumption DEF TakeOpenStream
  <2>4. "server" \in Ends
    BY DEF Ends
  <2> HIDE DEF m
  <2> QED BY <2>2, <2>3, <2>4, SelectSends
<1>4. ASSUME NEW e \in Ends, WriteFails(e) \/ ReadEnd(e)
      PROVE  FramingInv'
  <2>1. EndSession(e) /\ ~open[Other(e)]
    BY <1>4 DEF WriteFails, ReadEnd
  <2>2. \E d \in Ends : torn[d]
    BY <2>1, TwoEnds DEF FramingInv, EndsOnlyWhenTorn
  <2> QED BY <2>1, <2>2, SessionLeft
<1>5. ASSUME NEW e \in Ends, ReadBodyAsLength(e)
      PROVE  FramingInv'
  BY <1>5, StrayBody, SessionLeft DEF ReadBodyAsLength
<1>6. CASE UNCHANGED framing
  BY <1>6 DEF framing, FramingInv, FramingTypeOK, DirectionOf, EndsOnlyWhenTorn
<1> QED BY <1>2, <1>3, <1>4, <1>5, <1>6, PieceWritten, LengthRead, BodyRead DEF FramingNext

LEMMA FramingInvAlways == FramingSpec => []FramingInv
BY FramingInitInv, FramingStepInv, PTL DEF FramingSpec

\* What was received is what was sent, position by position.
LEMMA ReceivedPrefixFromInv == FramingInv => ReceivedPrefix
<1> SUFFICES ASSUME FramingInv, NEW e \in Ends
             PROVE  IsPrefix(received[e], sent[Other(e)])
  BY DEF ReceivedPrefix
<1> DEFINE r == received[e]
           s == sent[Other(e)]
<1>1. r \in Seq(ControlMessages) /\ s \in Seq(ControlMessages)
  BY TwoEnds, EndTypes
<1>2. Len(r) <= Len(s) /\ \A i \in 1..Len(r) : r[i] = s[i]
  BY DEF FramingInv, DirectionOf, Direction
<1> HIDE DEF r, s
<1>3. SubSeq(r, 1, Len(r)) = SubSeq(s, 1, Len(r))
  <2>1. Len(r) \in Nat /\ Len(s) \in Nat
    BY <1>1
  <2> DEFINE a == SubSeq(r, 1, Len(r))
             b == SubSeq(s, 1, Len(r))
  <2>2. /\ a \in Seq(ControlMessages) /\ Len(a) = Len(r)
        /\ \A i \in 1..Len(r) : a[i] = r[i]
    BY <1>1, <2>1
  <2>3. /\ b \in Seq(ControlMessages) /\ Len(b) = Len(r)
        /\ \A i \in 1..Len(r) : b[i] = s[i]
    BY <1>1, <1>2, <2>1
  <2> HIDE DEF a, b
  <2>4. a = b
    BY <1>2, <2>2, <2>3, SeqEqual
  <2> QED BY <2>4 DEF a, b
<1> QED BY <1>2, <1>3 DEF IsPrefix, r, s

\* Every variable of a control session keeps its type, and an end never has
\* more than one message in its hand.
THEOREM FramingTypeCorrect == FramingSpec => []FramingTypeOK
<1>1. FramingInv => FramingTypeOK
  BY DEF FramingInv
<1> QED BY <1>1, FramingInvAlways, PTL

\* For any number of pings and streams, however reads are dropped by the two
\* select! loops, an end receives a prefix of what the other sent.
THEOREM ReceivedPrefixAlways == FramingSpec => []ReceivedPrefix
BY ReceivedPrefixFromInv, FramingInvAlways, PTL

\* On a connection that does not fail only a read that was dropped between a
\* length and its body ends a session.
THEOREM EndsOnlyWhenTornAlways == FramingSpec => []EndsOnlyWhenTorn
<1>1. FramingInv => EndsOnlyWhenTorn
  BY DEF FramingInv
<1> QED BY <1>1, FramingInvAlways, PTL
-----------------------------------------------------------------------------
(***************************************************************************)
(* ControlStatus.                                                          *)
(***************************************************************************)
\* The values stored so far are those of the session that was begun last, the
\* ones set_connected has yet to store those of the session before.
Stored ==
  /\ stage # "idle" => count > 0
  /\ status.connected <=> stage # "idle"
  /\ status.since = (IF stage = "since" THEN count - 1 ELSE count)
  /\ status.addr = (IF stage \in {"since", "addr"} THEN count - 1 ELSE count)
  /\ status.name = (IF stage \in {"since", "addr", "name"} THEN count - 1 ELSE count)

\* What a snapshot has loaded, and what it has yet to load, is no older than
\* the oldest session it may tell of.
Loaded ==
  view.at # "none" =>
    /\ view.from <= count
    /\ ~view.settled => view.from > 0
    /\ status.since >= Oldest /\ status.addr >= Oldest /\ status.name >= Oldest
    /\ view.at # "since" /\ view.connected => view.since >= Oldest
    /\ view.at \in {"name", "done"} => view.addr >= Oldest
    /\ view.at = "done" => view.name >= Oldest

StatusInv == StatusTypeOK /\ Stored /\ Loaded

LEMMA StatusInitInv == StatusInit => StatusInv
BY StatusAssumption
   DEF StatusInit, StatusInv, StatusTypeOK, Statuses, Views, Numbers, Stored, Loaded

\* The session loop stores numbers that only grow.
LEMMA StoreInv ==
  ASSUME StatusInv,
         \/ StoreConnected \/ StoreSince \/ StoreAddr \/ StoreName
         \/ StoreDisconnected
  PROVE  StatusInv'
<1> USE StatusAssumption DEF StatusInv
<1>1. view' = view
  BY DEF StoreConnected, StoreSince, StoreAddr, StoreName, StoreDisconnected
<1>2. /\ count \in Numbers /\ status \in Statuses /\ view.from \in Numbers
      /\ count \in Nat /\ view.from \in Nat
  BY DEF StatusTypeOK, Views, Numbers
<1>3. count' \in Numbers
  BY <1>2 DEF StoreConnected, StoreSince, StoreAddr, StoreName, StoreDisconnected, Numbers
<1>4. /\ stage' \in {"idle", "since", "addr", "name", "serving"}
      /\ status' \in Statuses
  BY <1>2 DEF StoreConnected, StoreSince, StoreAddr, StoreName, StoreDisconnected, Statuses
<1>5. StatusTypeOK'
  BY <1>1, <1>3, <1>4 DEF StatusTypeOK
<1>6. Stored'
  BY <1>2 DEF StoreConnected, StoreSince, StoreAddr, StoreName, StoreDisconnected, Stored,
              Statuses
<1>7. Loaded'
  <2>1. /\ count' >= count /\ Oldest' = Oldest
        /\ status'.since >= status.since /\ status'.addr >= status.addr
        /\ status'.name >= status.name
    BY <1>1, <1>2 DEF StoreConnected, StoreSince, StoreAddr, StoreName, StoreDisconnected,
                      Stored, Statuses, Oldest
  <2> QED BY <1>1, <1>2, <1>4, <2>1
          DEF StoreConnected, StoreSince, StoreAddr, StoreName, StoreDisconnected, Loaded,
              Statuses, Numbers, Oldest
<1> QED BY <1>5, <1>6, <1>7

\* A snapshot loads what is stored.
LEMMA LoadInv ==
  ASSUME StatusInv, LoadConnected \/ LoadSince \/ LoadAddr \/ LoadName
  PROVE  StatusInv'
<1> USE StatusAssumption DEF StatusInv
<1>1. UNCHANGED <<stage, count, status>>
  BY DEF LoadConnected, LoadSince, LoadAddr, LoadName
<1>2. /\ count \in Numbers /\ status \in Statuses /\ view \in Views
      /\ count \in Nat /\ 0 \in Numbers
  BY DEF StatusTypeOK, Numbers
<1>3. view' \in Views
  <2>1. CASE LoadConnected
    <3> DEFINE b == stage \in {"idle", "serving"}
    <3>1. b \in BOOLEAN
      OBVIOUS
    <3>2. PICK d \in BOOLEAN : d = status.connected
      BY <1>2 DEF Statuses
    <3>3. [at |-> "since", connected |-> d, since |-> 0, addr |-> 0, name |-> 0,
           from |-> count, settled |-> b] \in Views
      <4> HIDE DEF b
      <4> QED BY <1>2, <3>1 DEF Views
    <3>4. view' = [at |-> "since", connected |-> d, since |-> 0, addr |-> 0, name |-> 0,
                   from |-> count, settled |-> b]
      BY <2>1, <3>2 DEF LoadConnected
    <3> QED BY <3>3, <3>4
  <2>2. CASE LoadSince
    <3>1. PICK n \in Numbers : n = (IF view.connected THEN status.since ELSE 0)
      BY <1>2 DEF Statuses
    <3> QED BY <1>2, <2>2, <3>1 DEF LoadSince, Views
  <2>3. CASE LoadAddr \/ LoadName
    <3>1. PICK n \in Numbers, m \in Numbers : n = status.addr /\ m = status.name
      BY <1>2 DEF Statuses
    <3> QED BY <1>2, <2>3, <3>1 DEF LoadAddr, LoadName, Views
  <2> QED BY <2>1, <2>2, <2>3
<1>4. StatusTypeOK' /\ Stored'
  BY <1>1, <1>3 DEF StatusTypeOK, Stored
<1>5. Loaded'
  <2>1. CASE LoadConnected
    <3>1. /\ view'.from = count /\ (view'.settled <=> stage \in {"idle", "serving"})
          /\ view'.at = "since"
      BY <2>1 DEF LoadConnected
    <3>2. stage \in {"idle", "since", "addr", "name", "serving"}
      BY DEF StatusTypeOK
    <3> QED BY <1>1, <1>2, <3>1, <3>2 DEF Loaded, Stored, Oldest
  <2>2. CASE LoadSince \/ LoadAddr \/ LoadName
    <3>1. /\ view'.from = view.from /\ view'.settled = view.settled
          /\ view'.connected = view.connected /\ view.at # "none"
      BY <1>2, <2>2 DEF LoadSince, LoadAddr, LoadName, Views
    <3>2. Oldest' = Oldest
      BY <3>1 DEF Oldest
    <3>3. CASE LoadSince
      <4>1. view'.at = "addr" /\ (view.connected => view'.since = status.since)
        BY <1>2, <3>3 DEF LoadSince, Views
      <4> QED BY <1>1, <3>1, <3>2, <4>1 DEF Loaded
    <3>4. CASE LoadAddr
      <4>1. /\ view.at = "addr" /\ view'.at = "name"
            /\ view'.addr = status.addr /\ view'.since = view.since
        BY <1>2, <3>4 DEF LoadAddr, Views
      <4> QED BY <1>1, <3>1, <3>2, <4>1 DEF Loaded
    <3>5. CASE LoadName
      <4>1. /\ view.at = "name" /\ view'.at = "done" /\ view'.name = status.name
            /\ view'.addr = view.addr /\ view'.since = view.since
        BY <1>2, <3>5 DEF LoadName, Views
      <4> QED BY <1>1, <3>1, <3>2, <4>1 DEF Loaded
    <3> QED BY <2>2, <3>3, <3>4, <3>5
  <2> QED BY <2>1, <2>2
<1> QED BY <1>4, <1>5

LEMMA StatusStepInv == StatusInv /\ [StatusNext]_statusVars => StatusInv'
<1> SUFFICES ASSUME StatusInv, [StatusNext]_statusVars PROVE StatusInv'
  OBVIOUS
<1>1. CASE StatusNext
  BY <1>1, StoreInv, LoadInv DEF StatusNext
<1>2. CASE UNCHANGED statusVars
  BY <1>2 DEF statusVars, StatusInv, StatusTypeOK, Stored, Loaded, Oldest
<1> QED BY <1>1, <1>2

\* For any number of sessions, however they come and go while a snapshot is
\* taken, it tells of none older than the last one begun when it was started,
\* or the one before if it falls into set_connected.
THEOREM SnapshotIsRecentAlways == StatusSpec => []SnapshotIsRecent
<1>1. StatusInv => SnapshotIsRecent
  BY DEF StatusInv, Loaded, SnapshotIsRecent
<1> QED BY StatusInitInv, StatusStepInv, <1>1, PTL DEF StatusSpec
=============================================================================
