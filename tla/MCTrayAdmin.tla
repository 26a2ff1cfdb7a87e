----------------------------- MODULE MCTrayAdmin -----------------------------
(* Two kill-switch paths and one request that has timed out.               *)
EXTENDS TrayAdmin
=============================================================================
