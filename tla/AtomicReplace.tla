--------------------------- MODULE AtomicReplace ---------------------------
(***************************************************************************)
(* What `State::save_atomic` promises (crates/daemon/src/state.rs, module  *)
(* header: "Updates are atomic"): the state file is at every instant       *)
(* either missing or one whole serialized state, and it changes only by    *)
(* taking, in one step, the body of the call in progress.  `pending` is    *)
(* the body of that call; a call may also be abandoned (an I/O error, the  *)
(* process killed) and the file may be removed by an administrator.        *)
(***************************************************************************)
CONSTANTS Bodies,  \* the serialized states
          Absent   \* no file; also: no call in progress

VARIABLES cell,    \* the content of the state file
          pending  \* the body of the call in progress, or Absent

vars == <<cell, pending>>

Init == cell = Absent /\ pending = Absent

Call(b) == pending = Absent /\ pending' = b /\ UNCHANGED cell

Commit == pending # Absent /\ cell' = pending /\ pending' = Absent

Abandon == pending # Absent /\ pending' = Absent /\ UNCHANGED cell

Remove == cell' = Absent /\ UNCHANGED pending

Next == (\E b \in Bodies : Call(b)) \/ Commit \/ Abandon \/ Remove

Spec == Init /\ [][Next]_vars
=============================================================================
