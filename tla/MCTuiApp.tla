------------------------------ MODULE MCTuiApp ------------------------------
(***************************************************************************)
(* Hand-written files of both roles: a server with a TCP and a UDP link    *)
(* and a peer, a client with one link of each transport, and files that    *)
(* each go wrong in one way: no UDP address, one that does not parse, one  *)
(* key under two texts.  The second key text stands for the first key with *)
(* a blank, which decodes alike.  The file written by hand later is the    *)
(* one with a key used twice.                                              *)
(***************************************************************************)
EXTENDS TuiApp, TLC

MCDecodedKey == ("kA" :> "A") @@ ("kA " :> "A") @@ ("junk" :> None)

Link(id, m, transport, listen, target) ==
  [id |-> id, mode |-> m, transport |-> transport, listen |-> listen, target |-> target]
Peer(name, key, links) == [name |-> name, public_key |-> key, links |-> links]

Server == [role |-> "server", peer_public_key |-> None,
           peers |-> <<Peer("alice", "kA", <<"web", "dns">>)>>,
           listen_control |-> "addr", listen_data |-> "addr", listen_udp |-> "addr",
           server_control_addr |-> None, server_data_addr |-> None, server_udp_addr |-> None,
           links |-> <<Link("web", "forward", "tcp", None, "addr"),
                       Link("dns", "forward", "udp", None, "addr")>>]
Client == [role |-> "client", peer_public_key |-> "kA", peers |-> <<>>,
           listen_control |-> None, listen_data |-> None, listen_udp |-> None,
           server_control_addr |-> "addr", server_data_addr |-> "addr", server_udp_addr |-> "addr",
           links |-> <<Link("web", "reverse", "tcp", None, "addr"),
                       Link("dns", "forward", "udp", "addr", None)>>]

\* A mistyped address of the UDP channel, which validation lets pass.
Mistyped == [Server EXCEPT !.listen_udp = "typo"]

Reused == [Server EXCEPT !.peers = Append(@, Peer("bob", "kA ", <<"web">>))]
MCRewrites == {Reused}

MCFiles == {Server, Client, Mistyped, Reused, [Client EXCEPT !.server_udp_addr = None]}
=============================================================================
