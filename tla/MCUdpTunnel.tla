----------------------------- MODULE MCUdpTunnel -----------------------------
(***************************************************************************)
(* Two applications: game on a link the peer may use, with a payload that  *)
(* reads as a hello for another one it may use, and dns on a link that the *)
(* client's peer entry does not list.                                      *)
(***************************************************************************)
EXTENDS UdpTunnel, TLC

CONSTANTS game, dns, open, other, hidden

MCLinkOf == game :> open @@ dns :> hidden
MCParsesAs == game :> {other} @@ dns :> {}
MCGame == game :> open
MCPlain == game :> {}
=============================================================================
