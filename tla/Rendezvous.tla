----------------------------- MODULE Rendezvous -----------------------------
(***************************************************************************)
(* What the reverse mode of GhostPort promises about one external          *)
(* connection, whatever the control channel, the queues and the timers do: *)
(* it waits, it is joined to at most one tunnel, and once it is closed it  *)
(* stays closed.  The peer of the tunnel is granted a link; that it is the *)
(* link the connection arrived on is promised only of a tunnel the server  *)
(* asked for.  ReverseStreams implements this module.                      *)
(***************************************************************************)
CONSTANTS Conns,       \* external connections
          Links,       \* reverse links of the server
          Peers,       \* configured peers
          Authorised   \* Authorised[p]: the links peer p may use

VARIABLES arrived,   \* <<c, l>>: connection c was accepted on link l
          waiting,   \* connections the server holds and has not joined
          joined,    \* <<c, p, asked>>: connection c is relayed through a
                     \* tunnel of peer p, asked for by the server or not
          closed     \* connections the server has dropped

absVars == <<arrived, waiting, joined, closed>>

Init == /\ arrived = {}
        /\ waiting = {}
        /\ joined = {}
        /\ closed = {}

\* A connection is accepted on a link, once.
Arrive(c, l) == /\ \A k \in Links : <<c, k>> \notin arrived
                /\ arrived' = arrived \cup {<<c, l>>}
                /\ waiting' = waiting \cup {c}
                /\ UNCHANGED <<joined, closed>>

\* A waiting connection is joined to a tunnel of a peer that may use the link
\* the connection arrived on, or, when the server did not ask for the tunnel,
\* some link.
Join(c, p, asked) ==
  /\ c \in waiting
  /\ \E l \in Authorised[p] : asked => <<c, l>> \in arrived
  /\ waiting' = waiting \ {c}
  /\ joined' = joined \cup {<<c, p, asked>>}
  /\ UNCHANGED <<arrived, closed>>

\* The server gives up on a connection nobody claimed.
GiveUp(c) == /\ c \in waiting
             /\ waiting' = waiting \ {c}
             /\ closed' = closed \cup {c}
             /\ UNCHANGED <<arrived, joined>>

\* A relay ends.
Finish(c, p, asked) == /\ <<c, p, asked>> \in joined
                       /\ joined' = joined \ {<<c, p, asked>>}
                       /\ closed' = closed \cup {c}
                       /\ UNCHANGED <<arrived, waiting>>

\* The server restarts: every connection it held is closed.
Restart == /\ closed' = closed \cup waiting \cup {j[1] : j \in joined}
           /\ waiting' = {}
           /\ joined' = {}
           /\ UNCHANGED arrived

Next == \/ \E c \in Conns :
             \/ \E l \in Links : Arrive(c, l)
             \/ \E p \in Peers, asked \in BOOLEAN :
                  Join(c, p, asked) \/ Finish(c, p, asked)
             \/ GiveUp(c)
        \/ Restart

Spec == Init /\ [][Next]_absVars
=============================================================================
