------------------------------ MODULE MCChannels ------------------------------
(***************************************************************************)
(* Instances of Channels for TLC.                                          *)
(***************************************************************************)
EXTENDS Channels, TLC

CONSTANTS s1, s2, u1, p1, p2

TwoOfOneUser == s1 :> u1 @@ s2 :> u1

\* Together on a replica, and apart.
TwoHomes == {s1 :> p1 @@ s2 :> p1, s1 :> p1 @@ s2 :> p2}
=============================================================================
