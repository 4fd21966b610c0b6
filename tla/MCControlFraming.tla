-------------------------- MODULE MCControlFraming --------------------------
(***************************************************************************)
(* A session of a few pings and a few streams, and the status of a few     *)
(* sessions.  The two share no variable and no property speaks of both, so *)
(* each is explored while the other rests in its first state.              *)
(***************************************************************************)
EXTENDS ControlFraming, ControlStatus

MCInit == FramingInit /\ StatusInit

MCNext == \/ FramingNext /\ StatusInit /\ UNCHANGED statusVars
          \/ StatusNext /\ FramingInit /\ UNCHANGED framing

MCSpec == MCInit /\ [][MCNext]_<<framing, statusVars>> /\ FramingFairness
=============================================================================
