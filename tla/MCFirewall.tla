----------------------------- MODULE MCFirewall -----------------------------
(***************************************************************************)
(* One ordinary address, one on the LAN and one allowlisted; a streak is   *)
(* two failures within one tick.                                           *)
(***************************************************************************)
EXTENDS Firewall

CONSTANTS remote, lan, office
=============================================================================
