---------------------------- MODULE DayCounters ----------------------------
(***************************************************************************)
(* The in-memory counter state of the daemon and the operations on it      *)
(* (`State` in crates/daemon/src/state.rs).  A state is a record of the    *)
(* local day the counters belong to, the seconds counted for each user and *)
(* the users with a console session at the last tick.  The HashMap of the  *)
(* code treats a missing user as 0, so `counters` is a total function.     *)
(***************************************************************************)
EXTENDS Integers

CONSTANTS Users,           \* account names
          NoDay,           \* `day: None`, before the first rollover
          TickSeconds,     \* Config::tick_seconds
          CounterModulus   \* counters are u32: 2^32 in the code

ASSUME CounterAssumption ==
  /\ NoDay \notin Nat
  /\ CounterModulus \in Nat
  /\ TickSeconds \in 1 .. CounterModulus - 1

Seconds == 0 .. CounterModulus - 1
Counters == [Users -> Seconds]
Zero == [u \in Users |-> 0]

\* The console has no user or one (sessions::console_users).
ActiveSets == {{}} \cup {{u} : u \in Users}

States == [day : Nat \cup {NoDay}, counters : Counters, active : ActiveSets]

\* State::default()
FreshState == [day |-> NoDay, counters |-> Zero, active |-> {}]

\* Whether State::reset_if_new_day returns true: any other day, earlier ones
\* and None included.
Rolls(s, today) == s.day # today

\* Mutated form: the rollover is forgotten.
NeverResets(s, today) == s

\* State::reset_if_new_day, the state it leaves.
ResetIfNewDay(s, today) ==
  IF Rolls(s, today) THEN [s EXCEPT !.day = today, !.counters = Zero] ELSE s

\* Mutated form: a counter wider than u32.
PlusWide(c) == c + TickSeconds

\* `+=` on u32 in a release build.
Plus(c) == (c + TickSeconds) % CounterModulus

\* State::tick with delta_seconds = tick_seconds.
Tick(s, users) ==
  [s EXCEPT !.counters = [u \in Users |-> IF u \in users THEN Plus(@[u]) ELSE @[u]],
            !.active = users]

\* The fields serde writes (`active_now` is skipped) and reads back.
Snapshots == [day : Nat \cup {NoDay}, counters : Counters]
Persisted(s) == [day |-> s.day, counters |-> s.counters]

\* State::load: a file that is missing or does not parse gives a fresh state.
Load(file) ==
  IF file \in Snapshots
    THEN [day |-> file.day, counters |-> file.counters, active |-> {}]
    ELSE FreshState
=============================================================================
