--------------------------- MODULE MCControlPlane ---------------------------
(* Two requests at a time, one path for the kill switch.  The documents: the *)
(* empty one, two that differ (one with a path the daemon refuses) and one   *)
(* that does not parse.                                                      *)
EXTENDS ControlPlane, TLC

CONSTANTS empty, edited, odd, torn, marker, nopath

MCKillPath == (empty :> marker) @@ (edited :> marker) @@ (odd :> nopath)
Symmetry == Permutations(Calls)
=============================================================================
