-------------------------- MODULE MCGuardedServer --------------------------
(***************************************************************************)
(* A key holder and a stranger, one attempt per window and address, one    *)
(* permit; a streak is two failures within one tick.                       *)
(***************************************************************************)
EXTENDS GuardedServer

CONSTANTS roamer, stranger
=============================================================================
