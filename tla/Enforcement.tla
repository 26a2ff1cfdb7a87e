---------------------------- MODULE Enforcement ----------------------------
(***************************************************************************)
(* The enforcement pass of the daemon (crates/daemon/src/enforcement.rs):  *)
(* decide, act_on and the force_logout escalation, run by the ticker after *)
(* every tick, against a console whose user comes and goes, an operator    *)
(* who touches and removes the kill-switch file, a midnight that zeroes    *)
(* the counters, and commands that may fail, hang or act late.             *)
(*                                                                         *)
(* Every `.await` of the escalation is a point between two actions.  Time  *)
(* is kept as the age of each backoff stamp: decide only asks whether it   *)
(* has reached BOOTOUT_BACKOFF, so ages beyond it are one value.           *)
(***************************************************************************)
EXTENDS Integers

CONSTANTS Users,       \* account names
          Configured,  \* those with a [users.*] entry
          NoAccount,   \* those getpwnam does not resolve
          Limit,       \* daily_limit_minutes.saturating_mul(60), in ticks
          Backoff,     \* BOOTOUT_BACKOFF, in units of Elapse
          MaxUsed,     \* bound: a counter at MaxUsed stays there; above every limit
          Nobody       \* no user is being acted on

ASSUME EnforcementAssumption ==
  /\ Configured \subseteq Users /\ NoAccount \subseteq Users
  /\ Backoff \in Nat \ {0} /\ MaxUsed \in Nat
  /\ Limit \in [Configured -> 1 .. MaxUsed]
  /\ Nobody \notin Users

VARIABLES
  config,   \* enforcement and default_policy, fixed while the daemon runs
  console,  \* users on the console, at most one
  kill,     \* the kill-switch file exists
  used,     \* the counters
  age,      \* age[u]: time since last_kicked[u]; Backoff when none or older
  session,  \* session[u]: what the commands run so far do to u's session
  pc,       \* where the enforcement pass is
  active,   \* the tick's console snapshot
  snap,     \* the tick's counter snapshot
  victim,   \* the user act_on works on
  midnight  \* history: the counters were zeroed since the tick's snapshot

vars == <<config, console, kill, used, age, session, pc, active, snap, victim, midnight>>

ActiveSets == {{}} \cup {{u} : u \in Users}
Counters == [Users -> 0 .. MaxUsed]
Zero == [u \in Users |-> 0]

\* The commands of force_logout, in order, and the two console checks.
Escalation == {"gui_bootout", "user_bootout", "settle", "recheck", "pkill", "after_pkill"}

TypeOK ==
  /\ config \in [enforcement : {"log", "logout"}, default_policy : {"unrestricted", "block"}]
  /\ console \in ActiveSets
  /\ kill \in BOOLEAN
  /\ used \in Counters
  /\ age \in [Users -> 0 .. Backoff]
  /\ session \in [Users -> {"stays", "may_end", "ends"}]
  /\ pc \in {"idle", "pass"} \cup Escalation
  /\ active \in ActiveSets
  /\ snap \in Counters
  /\ victim \in (Users \ NoAccount) \cup {Nobody}
  /\ midnight \in BOOLEAN

Init ==
  /\ config \in [enforcement : {"log", "logout"}, default_policy : {"unrestricted", "block"}]
  /\ console = {} /\ kill = FALSE
  /\ used = Zero /\ snap = Zero
  /\ age = [u \in Users |-> Backoff]
  /\ session = [u \in Users |-> "stays"]
  /\ pc = "idle" /\ active = {} /\ victim = Nobody
  /\ midnight = FALSE

-----------------------------------------------------------------------------
(* decide.                                                                 *)

\* The reason to kick u at counter value c, backoff aside.
Due(u, c) ==
  IF u \in Configured THEN c >= Limit[u] ELSE config.default_policy = "block"

\* Mutated forms: the backoff is ignored; the limit test is inverted.
DecideWithoutBackoff(u, c) == Due(u, c)
DecideUnderLimit(u, c) == age[u] >= Backoff /\ (u \in Configured => c < Limit[u])

\* decide(..) = Kick(_).
Kick(u, c) == age[u] >= Backoff /\ Due(u, c)

-----------------------------------------------------------------------------
(* The environment.                                                        *)

\* Login, logout, fast user switching.  Whoever comes back has a new session.
ConsoleChange ==
  /\ console' \in ActiveSets \ {console}
  /\ session' = [u \in Users |-> IF u \in console THEN "stays" ELSE session[u]]
  /\ UNCHANGED <<config, kill, used, age, pc, active, snap, victim, midnight>>

\* The session of a user that was booted out or killed goes away, at once or a
\* while later.
SessionEnds(u, how) ==
  /\ u \in console /\ session[u] = how
  /\ console' = {}
  /\ session' = [session EXCEPT ![u] = "stays"]
  /\ UNCHANGED <<config, kill, used, age, pc, active, snap, victim, midnight>>

\* The operator touches or removes the kill-switch file.
TouchKillSwitch ==
  /\ kill' = ~kill
  /\ UNCHANGED <<config, console, used, age, session, pc, active, snap, victim, midnight>>

\* The resetter zeroes the counters.
Midnight ==
  /\ used' = Zero
  /\ midnight' = TRUE
  /\ UNCHANGED <<config, console, kill, age, session, pc, active, snap, victim>>

Elapse ==
  /\ \E u \in Users : age[u] < Backoff
  /\ age' = [u \in Users |-> IF age[u] < Backoff THEN age[u] + 1 ELSE age[u]]
  /\ UNCHANGED <<config, console, kill, used, session, pc, active, snap, victim, midnight>>

-----------------------------------------------------------------------------
(* The ticker: console read, counters advanced and cloned.                 *)

Tick ==
  /\ pc = "idle"
  /\ active' = console
  /\ used' = [u \in Users |-> IF u \in console /\ used[u] < MaxUsed THEN used[u] + 1
                                                                    ELSE used[u]]
  /\ snap' = used'
  /\ midnight' = FALSE
  /\ pc' = "pass"
  /\ UNCHANGED <<config, console, kill, age, session, victim>>

-----------------------------------------------------------------------------
(* Enforcer::step and act_on.                                              *)

\* The pass is over; its locals are gone.
Finish(ages) ==
  /\ pc' = "idle" /\ victim' = Nobody
  /\ active' = {} /\ snap' = Zero
  /\ age' = ages
  /\ UNCHANGED <<config, console, kill, used, midnight>>

\* `last_kicked.insert(uid, Instant::now())`.
Stamped(u) == [age EXCEPT ![u] = 0]

\* Mutated form: the name is not resolved to a uid.
DecidedByName(u) == u \in active /\ Kick(u, snap[u])

\* The user the pass decides to kick, resolved to a uid.
Decided(u) == u \in active \ NoAccount /\ Kick(u, snap[u])

NothingToDo ==
  /\ pc = "pass" /\ \A u \in Users : ~Decided(u)
  /\ Finish(age) /\ UNCHANGED session

\* The kill switch is checked once, before the mode is looked at; no stamp.
Refused ==
  /\ pc = "pass" /\ kill /\ \E u \in Users : Decided(u)
  /\ Finish(age) /\ UNCHANGED session

WouldHaveKicked(u) ==
  /\ pc = "pass" /\ Decided(u) /\ ~kill /\ config.enforcement = "log"
  /\ Finish(Stamped(u)) /\ UNCHANGED session

\* Mutated form: the mode is not looked at.
EscalateInAnyMode == TRUE

Enforces == config.enforcement = "logout"

\* A command that is running on u: it may end u's session from now on, whether
\* or not the daemon still waits for it.
Spawn(u, step) ==
  /\ pc' = step
  /\ session' = [session EXCEPT ![u] = IF @ = "stays" THEN "may_end" ELSE @]

\* `launchctl bootout gui/<uid>` is spawned.
ForceLogout(u) ==
  /\ pc = "pass" /\ Decided(u) /\ ~kill /\ Enforces
  /\ victim' = u
  /\ Spawn(u, "gui_bootout")
  /\ UNCHANGED <<config, console, kill, used, age, active, snap, midnight>>

-----------------------------------------------------------------------------
(* force_logout.  A command returns when it does; the daemon waits for it  *)
(* at most BOOTOUT_TIMEOUT.                                                *)

\* After either outcome of a bootout, errors included, the next step follows.
AfterBootout ==
  /\ \/ pc = "gui_bootout" /\ Spawn(victim, "user_bootout")
     \/ pc = "user_bootout" /\ pc' = "settle" /\ UNCHANGED session
  /\ UNCHANGED <<config, console, kill, used, age, active, snap, victim, midnight>>

\* pkill timed out or could not be spawned: Err, no stamp.
PkillError == pc = "pkill" /\ Finish(age) /\ UNCHANGED session

BootoutReturns == AfterBootout

\* Mutated form: a command is awaited for as long as it takes.
NoTimeout == FALSE

\* tokio::time::timeout around every command.
CommandTimesOut == AfterBootout \/ PkillError

\* One second later.
Settled ==
  /\ pc = "settle" /\ pc' = "recheck"
  /\ UNCHANGED <<config, console, kill, used, age, session, active, snap, victim, midnight>>

BootoutSucceeded ==
  /\ pc = "recheck" /\ victim \notin console
  /\ Finish(Stamped(victim)) /\ UNCHANGED session

\* Mutated form: no escalation beyond the bootouts.
StillThereGivesUp ==
  pc = "recheck" /\ victim \in console /\ Finish(age) /\ UNCHANGED session

StillThere ==
  /\ pc = "recheck" /\ victim \in console
  /\ Spawn(victim, "pkill")
  /\ UNCHANGED <<config, console, kill, used, age, active, snap, victim, midnight>>

\* pkill matched processes: Ok, without another look at the console.
PkillMatched ==
  /\ pc = "pkill"
  /\ session' = [session EXCEPT ![victim] = "ends"]
  /\ Finish(Stamped(victim))

PkillMatchedNothing ==
  /\ pc = "pkill" /\ pc' = "after_pkill"
  /\ UNCHANGED <<config, console, kill, used, age, session, active, snap, victim, midnight>>

GoneAnyway ==
  /\ pc = "after_pkill" /\ victim \notin console
  /\ Finish(Stamped(victim)) /\ UNCHANGED session

\* Err: no stamp, the next tick tries again.
GaveUp ==
  /\ pc = "after_pkill" /\ victim \in console
  /\ Finish(age) /\ UNCHANGED session

-----------------------------------------------------------------------------
\* What the daemon does of itself: everything but what the commands return.
Daemon ==
  \/ Tick
  \/ NothingToDo \/ Refused
  \/ \E u \in Users : WouldHaveKicked(u) \/ ForceLogout(u)
  \/ CommandTimesOut
  \/ Settled \/ BootoutSucceeded \/ StillThere
  \/ GoneAnyway \/ GaveUp

Environment ==
  \/ ConsoleChange
  \/ \E u \in Users, how \in {"may_end", "ends"} : SessionEnds(u, how)
  \/ TouchKillSwitch
  \/ Midnight
  \/ Elapse
  \/ BootoutReturns \/ PkillMatched \/ PkillMatchedNothing

Next == Daemon \/ Environment

Spec == Init /\ [][Next]_vars

\* The ticker keeps running and time passes.  Of macOS it is assumed that a
\* `pkill -KILL` tried again and again once matches the user's processes within
\* the timeout, and that a session whose processes were killed ends.
Fairness ==
  /\ WF_vars(Daemon) /\ WF_vars(Elapse)
  /\ SF_vars(PkillMatched)
  /\ \A u \in Users : WF_vars(SessionEnds(u, "ends"))

FairSpec == Spec /\ Fairness

-----------------------------------------------------------------------------
(* Properties.                                                             *)

\* Log mode only logs: no launchctl, no pkill, no session touched, whatever the
\* default policy (enforcement.rs, "Safety-critical paths").
LogModeSpawnsNothing ==
  config.enforcement = "log" =>
    pc \notin Escalation /\ \A u \in Users : session[u] = "stays"

\* A user being forced out is over limit (or blocked) by the live counters too,
\* not only by the snapshot decide looked at; the one exception is a midnight
\* that came while the escalation was under way.
KicksOnlyOverLimit ==
  pc \in Escalation /\ ~midnight => Due(victim, used[victim])

\* Two completed kicks of one user are BOOTOUT_BACKOFF apart, counted between
\* their stamps although decide compares the stamp with the start of its pass.
BackoffHolds == [][\A u \in Users : age'[u] = 0 => age[u] \in {0, Backoff}]_vars

\* A hung command does not wedge the ticker: every pass ends.
PassEnds == pc = "pass" ~> pc = "idle"

\* A user over limit does not keep the console: again and again they are off
\* it, enforcement is paused, or the counters are below the limit.
OverLimitUserLeaves ==
  config.enforcement = "logout" =>
    \A u \in Users \ NoAccount :
      []<>(u \notin console \/ kill \/ ~Due(u, used[u]))

\* No command is run while the kill-switch file exists.
NoCommandWhilePaused ==
  [][pc' # pc /\ pc' \in {"gui_bootout", "user_bootout", "pkill"} => ~kill]_vars
=============================================================================
