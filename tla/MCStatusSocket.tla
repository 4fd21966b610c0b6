--------------------------- MODULE MCStatusSocket ---------------------------
(***************************************************************************)
(* Two streams, a forward and a reverse link, a UDP link, an id that is    *)
(* granted and not configured, two peers that may use a part of them each, *)
(* and two processes, together or one after the other.                     *)
(***************************************************************************)
EXTENDS StatusSocket

CONSTANTS s1, s2

MCLink == [web |-> [transport |-> "tcp", mode |-> "forward"],
           cam |-> [transport |-> "tcp", mode |-> "reverse"],
           dns |-> [transport |-> "udp", mode |-> "forward"]]
MCGrants == [alice |-> {"web", "dns"}, bob |-> {"cam", "old"}]
MCSizes == [a |-> {1}, b |-> {2}]
=============================================================================
