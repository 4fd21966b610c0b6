-------------------------- MODULE MCReverseStreams --------------------------
(***************************************************************************)
(* Small instances of ReverseStreams: two links and two peers, each        *)
(* granted one link; bob also offers the link he is not granted, alice     *)
(* only her own.                                                           *)
(***************************************************************************)
EXTENDS ReverseStreams, TLC

CONSTANTS c1, c2, pub, priv, alice, bob

MCAuthorised == alice :> {pub} @@ bob :> {priv}
MCOffers == alice :> {pub} @@ bob :> {pub, priv}
=============================================================================
