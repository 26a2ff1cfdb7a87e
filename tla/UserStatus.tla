----------------------------- MODULE UserStatus -----------------------------
(***************************************************************************)
(* The counters of the user a tray belongs to, and what compute_status     *)
(* (crates/daemon/src/ipc.rs) says of them.  The unit of time is the tick. *)
(***************************************************************************)
EXTENDS Integers

CONSTANTS Limit,    \* daily_limit_minutes.saturating_mul(60) of a configured user
          MaxUsed   \* bound: the counter stays there

ASSUME StatusAssumption == Limit \in Nat \ {0} /\ MaxUsed \in Nat /\ Limit <= MaxUsed

Used == 0 .. MaxUsed

\* The day of the counters, the user's counter, and active_now.
Memories == [day : Nat, used : Used, active : BOOLEAN]

SessionStates == {"active", "limit_reached", "offline"}

SessionState(m) ==
  CASE m.used >= Limit -> "limit_reached"
    [] m.used < Limit /\ m.active -> "active"
    [] OTHER -> "offline"

\* State::reset_if_new_day.
ResetIfNewDay(m, today) ==
  IF m.day = today THEN m ELSE [m EXCEPT !.day = today, !.used = 0]

\* State::tick.
Tick(m, console) ==
  [m EXCEPT !.used = IF console /\ @ < MaxUsed THEN @ + 1 ELSE @, !.active = console]

\* What a restart may find: everything, all but the last tick or, in a damaged
\* file, nothing (module Screentimed).
Reloaded(m) == {[m EXCEPT !.used = n] : n \in {m.used, m.used - 1, 0} \cap Nat}
=============================================================================
