-------------------------- MODULE MCControlChannel --------------------------
(***************************************************************************)
(* Two clients and two faults: a client's connection can break and its     *)
(* next one time out while both still wait for the session loop.           *)
(***************************************************************************)
EXTENDS ControlChannel

CONSTANTS home, phone
=============================================================================
