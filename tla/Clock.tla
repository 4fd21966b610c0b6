-------------------------------- MODULE Clock --------------------------------
(***************************************************************************)
(* What the rate limiter and the firewall have in common: the addresses    *)
(* they keep count of, and time.                                           *)
(***************************************************************************)
CONSTANTS IPs,      \* source addresses
          MaxTime   \* bound: the last tick of the clock

VARIABLE now        \* Instant::now()
=============================================================================
