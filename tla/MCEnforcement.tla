--------------------------- MODULE MCEnforcement ---------------------------
(***************************************************************************)
(* alice has a limit, bob has no entry and falls under default_policy,     *)
(* carol has a limit and an account getpwnam does not resolve.             *)
(***************************************************************************)
EXTENDS Enforcement

CONSTANTS alice, bob, carol

LimitOf == [u \in Configured |-> 2]
=============================================================================
