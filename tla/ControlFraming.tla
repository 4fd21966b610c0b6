--------------------------- MODULE ControlFraming ---------------------------
(***************************************************************************)
(* One control session over a connection that loses nothing: the client    *)
(* and the server each run a select! loop in which a read of a framed      *)
(* message competes with a timer (client) or with the open-stream channel  *)
(* (server).  send_json writes a message in two pieces, its length and its *)
(* body, and each becomes a Noise message of its own, so the reader may    *)
(* see the first without the second.  When the other branch of the select! *)
(* wins, the read is dropped and the length it had taken is gone.          *)
(*                                                                         *)
(* A piece counts as unread until recv_json takes it, whether it is still  *)
(* in flight or already in the reader's buffer: a reader that has taken a  *)
(* length may always be waiting for a body that was written but has not    *)
(* arrived.  What the client does with an OpenStream is ReverseStreams.    *)
(***************************************************************************)
EXTENDS Naturals, Sequences, SequencesExt

CONSTANTS
    MaxPings,      \* bound: ticks of the ping timer in the session
    MaxStreams     \* bound: OpenStream messages queued by reverse listeners

ASSUME FramingAssumption == MaxPings \in Nat /\ MaxStreams \in Nat

Ends == {"client", "server"}
Other(e) == IF e = "client" THEN "server" ELSE "client"

Ping == [kind |-> "Ping", id |-> 0]
Pong == [kind |-> "Pong", id |-> 0]
OpenStream(n) == [kind |-> "OpenStream", id |-> n]
ControlMessages == {Ping, Pong} \cup {OpenStream(n) : n \in 1..MaxStreams}

Pieces == [part : {"length", "body"}, msg : ControlMessages]

VARIABLES
    wire,        \* wire[e]: pieces written to e that recv_json has not taken
    writing,     \* writing[e]: pieces the send_json running at e has yet to write
    half,        \* half[e]: the recv_json running at e has taken a length
    open,        \* open[e]: run_control_session has not returned at e
    sent,        \* sent[e]: messages e has started to send (history)
    received,    \* received[e]: messages recv_json has returned at e (history)
    torn,        \* torn[e]: a read of e was dropped after a length (history)
    pings,       \* ticks of the ping timer so far
    streams      \* OpenStream messages taken from the channel so far

framing == <<wire, writing, half, open, sent, received, torn, pings, streams>>

FramingInit ==
    /\ wire = [e \in Ends |-> <<>>]
    /\ writing = [e \in Ends |-> <<>>]
    /\ half = [e \in Ends |-> FALSE]
    /\ open = [e \in Ends |-> TRUE]
    /\ sent = [e \in Ends |-> <<>>]
    /\ received = [e \in Ends |-> <<>>]
    /\ torn = [e \in Ends |-> FALSE]
    /\ pings = 0
    /\ streams = 0

\* e waits in its select!: every branch has run to its end.
AtSelect(e) == open[e] /\ writing[e] = <<>>

Frame(m) == <<[part |-> "length", msg |-> m], [part |-> "body", msg |-> m]>>

\* send_json starts; the session does nothing else until it has written both.
SendJson(e, m) ==
    /\ writing' = [writing EXCEPT ![e] = Frame(m)]
    /\ sent' = [sent EXCEPT ![e] = Append(@, m)]

\* The branch that wins drops the read of e, with the length it had taken.
DropRead(e) ==
    /\ half' = [half EXCEPT ![e] = FALSE]
    /\ torn' = [torn EXCEPT ![e] = @ \/ half[e]]

\* Mutant of PingTick: the timer runs beside the session and queues its Ping
\* behind a send in progress.
PingTickAnyTime ==
    /\ open["client"] /\ pings < MaxPings
    /\ pings' = pings + 1
    /\ writing' = [writing EXCEPT !["client"] = @ \o Frame(Ping)]
    /\ sent' = [sent EXCEPT !["client"] = Append(@, Ping)]
    /\ UNCHANGED <<wire, half, open, received, torn, streams>>

PingTick ==
    /\ AtSelect("client") /\ pings < MaxPings
    /\ pings' = pings + 1
    /\ SendJson("client", Ping)
    /\ DropRead("client")
    /\ UNCHANGED <<wire, open, received, streams>>

TakeOpenStream ==
    /\ AtSelect("server") /\ streams < MaxStreams
    /\ streams' = streams + 1
    /\ SendJson("server", OpenStream(streams + 1))
    /\ DropRead("server")
    /\ UNCHANGED <<wire, open, received, pings>>

\* One write of send_json; the kernel also takes it when the other end is gone.
WritePiece(e) ==
    /\ open[e] /\ writing[e] # <<>>
    /\ wire' = [wire EXCEPT ![Other(e)] = Append(@, Head(writing[e]))]
    /\ writing' = [writing EXCEPT ![e] = Tail(@)]
    /\ UNCHANGED <<half, open, sent, received, torn, pings, streams>>

EndSession(e) ==
    /\ open' = [open EXCEPT ![e] = FALSE]
    /\ writing' = [writing EXCEPT ![e] = <<>>]
    /\ UNCHANGED <<wire, half, sent, received, torn, pings, streams>>

\* A write fails: only a connection whose other end is gone does that here.
WriteFails(e) ==
    /\ open[e] /\ writing[e] # <<>> /\ ~open[Other(e)]
    /\ EndSession(e)

NextPiece(e, part) ==
    /\ AtSelect(e) /\ wire[e] # <<>> /\ Head(wire[e]).part = part

ReadLength(e) ==
    /\ NextPiece(e, "length") /\ ~half[e]
    /\ half' = [half EXCEPT ![e] = TRUE]
    /\ wire' = [wire EXCEPT ![e] = Tail(@)]
    /\ UNCHANGED <<writing, open, sent, received, torn, pings, streams>>

\* A Ping is answered before the loop goes on; a Pong, and at the server an
\* OpenStream, is ignored; the client starts a task for an OpenStream.
Handle(e, m) ==
    \/ m = Ping /\ SendJson(e, Pong)
    \/ m # Ping /\ UNCHANGED <<writing, sent>>

\* Mutant of ReadBody: a message that is not a Ping is an error.
ReadBodyStrict(e) ==
    /\ NextPiece(e, "body") /\ half[e]
    /\ Head(wire[e]).msg # Ping
    /\ EndSession(e)

ReadBody(e) ==
    /\ NextPiece(e, "body") /\ half[e]
    /\ half' = [half EXCEPT ![e] = FALSE]
    /\ wire' = [wire EXCEPT ![e] = Tail(@)]
    /\ received' = [received EXCEPT ![e] = Append(@, Head(wire[e]).msg)]
    /\ Handle(e, Head(wire[e]).msg)
    /\ UNCHANGED <<open, torn, pings, streams>>

\* Mutant of ReadBodyAsLength: the session skips what it cannot read.
SkipBody(e) ==
    /\ NextPiece(e, "body") /\ ~half[e]
    /\ wire' = [wire EXCEPT ![e] = Tail(@)]
    /\ UNCHANGED <<writing, half, open, sent, received, torn, pings, streams>>

\* The first four bytes of a body are JSON text: as a length they exceed
\* MAX_MESSAGE_LEN, and recv_json returns an error that ends the session.
ReadBodyAsLength(e) ==
    /\ NextPiece(e, "body") /\ ~half[e]
    /\ EndSession(e)

\* Mutant of ReadEnd: the loop goes on after the end of the stream.
IgnoreEnd(e) ==
    /\ AtSelect(e) /\ ~open[Other(e)]
    /\ UNCHANGED framing

\* The other end dropped its stream.  What it left unread makes the
\* connection reset, so pieces still unread here may be lost as well.
ReadEnd(e) ==
    /\ AtSelect(e) /\ ~open[Other(e)]
    /\ EndSession(e)

FramingNext ==
    \/ PingTick
    \/ TakeOpenStream
    \/ \E e \in Ends :
        \/ WritePiece(e) \/ WriteFails(e)
        \/ ReadLength(e) \/ ReadBody(e)
        \/ ReadBodyAsLength(e) \/ ReadEnd(e)

\* The runtime polls a task that has something to read or room to write; it
\* owes the session neither a tick nor an OpenStream.
FramingFairness ==
    \A e \in Ends :
        /\ WF_framing(WritePiece(e))
        /\ WF_framing(ReadLength(e) \/ ReadBody(e) \/ ReadBodyAsLength(e) \/ ReadEnd(e))

FramingSpec == FramingInit /\ [][FramingNext]_framing /\ FramingFairness

-----------------------------------------------------------------------------
(* Properties *)

\* Every variable has its type; a session has at most the two pieces of one
\* message to write (send_json, framing.rs).
FramingTypeOK ==
    /\ wire \in [Ends -> Seq(Pieces)]
    /\ writing \in [Ends -> Seq(Pieces)]
    /\ \A e \in Ends : Len(writing[e]) <= 2
    /\ half \in [Ends -> BOOLEAN]
    /\ open \in [Ends -> BOOLEAN]
    /\ sent \in [Ends -> Seq(ControlMessages)]
    /\ received \in [Ends -> Seq(ControlMessages)]
    /\ torn \in [Ends -> BOOLEAN]
    /\ pings \in 0..MaxPings
    /\ streams \in 0..MaxStreams

\* However reads are dropped by the two select! loops, what recv_json returns
\* at one end is a prefix of what the other end sent: no message is skipped,
\* repeated, made up or put together from two.
ReceivedPrefix ==
    \A e \in Ends : IsPrefix(received[e], sent[Other(e)])

\* On a connection that does not fail, the only reason for a session to end is
\* a read dropped between a length and its body, at one end or the other.
EndsOnlyWhenTorn ==
    (\E e \in Ends : ~open[e]) => \E e \in Ends : torn[e]

\* An OpenStream that the server started to send reaches the client, or both
\* ends leave the session: neither is left waiting on a stream without framing.
OpenStreamDelivered ==
    \A n \in 1..MaxStreams :
        streams >= n ~>
            \/ \E i \in 1..Len(received["client"]) : received["client"][i] = OpenStream(n)
            \/ \A e \in Ends : ~open[e]
=============================================================================
