---------------------------- MODULE Screentimed ----------------------------
(***************************************************************************)
(* The counting core of the daemon (crates/daemon/src/main.rs): the ticker *)
(* and the midnight resetter, two tasks of a multi-threaded runtime that   *)
(* share the counter state under a mutex and each persist it outside the   *)
(* mutex; the wall clock, the console session and crashes around them.     *)
(*                                                                         *)
(* One action is one stretch of code between two points where the other    *)
(* task, the clock or the console can change: reading the console, reading *)
(* the clock, the critical section, each system call of save_atomic, the   *)
(* broadcast and the enforcement pass.  Enforcement appears here by its    *)
(* effect on the console; module Enforcement has its steps.                *)
(***************************************************************************)
EXTENDS DayCounters, LocalTime

CONSTANTS MaxDay,       \* bound: the clock runs over days 0 .. MaxDay
          MaxCrashes,   \* bound: how often the process may die
          Limit,        \* seconds after which a user is kicked
          Absent, Empty, Torn, SaveMayFail   \* of StateFile

ASSUME DaemonAssumption ==
  /\ MaxDay \in Nat /\ MaxCrashes \in Nat
  /\ Limit \in [Users -> Nat]

ASSUME FileAssumption ==
  /\ {Absent, Empty, Torn} \cap Snapshots = {}
  /\ Absent # Empty /\ Absent # Torn /\ Empty # Torn
  /\ SaveMayFail \in BOOLEAN

VARIABLES
  wallDay,   \* the local calendar day
  console,   \* users with a console session, at most one
  up,        \* the process runs
  crashes,   \* how often it died
  mem,       \* Arc<Mutex<State>>
  pc,        \* where each task is
  today,     \* each task's local `today`, NoDay when not in use
  active,    \* the ticker's local `active`
  snap,      \* the ticker's local `snapshot.counters`
  rolled,    \* the resetter's local `rolled`
  target,    \* the day whose midnight the resetter sleeps to
  unsent,    \* mem changed and no broadcast was sent since
  dir, disk, tmp, fd, stage, body,   \* of StateFile
  \* History, read by properties only:
  solo,      \* solo[t]: t's current save has met no other
  clean      \* no save failed or met another one since disk was last read
             \* or wholly written

Tasks == {"ticker", "resetter"}

INSTANCE StateFile WITH Writers <- Tasks, Bodies <- Snapshots

clock == <<wallDay, console>>
files == <<dir, disk, tmp, fd, stage, body>>
local == <<today, active, snap, rolled, target>>
history == <<solo, clean>>
vars == <<clock, up, crashes, mem, pc, local, unsent, files, history>>

Days == 0 .. MaxDay

TypeOK ==
  /\ wallDay \in Days
  /\ console \in ActiveSets
  /\ up \in BOOLEAN
  /\ crashes \in 0 .. MaxCrashes
  /\ mem \in States
  /\ pc \in [Tasks -> {"idle", "read", "lock", "save", "enforce"}]
  /\ today \in [Tasks -> Days \cup {NoDay}]
  /\ active \in ActiveSets
  /\ snap \in Counters
  /\ rolled \in BOOLEAN
  /\ target \in Nat
  /\ unsent \in BOOLEAN
  /\ FileTypeOK
  /\ solo \in [Tasks -> BOOLEAN]
  /\ clean \in BOOLEAN

Other(t) == IF t = "ticker" THEN "resetter" ELSE "ticker"

-----------------------------------------------------------------------------
(* main(): everything before the tasks are spawned.                        *)

\* The locals of the two tasks before their first step.  "read" is where the
\* resetter computes its target.
TasksFresh ==
  /\ pc' = [t \in Tasks |-> IF t = "ticker" THEN "idle" ELSE "read"]
  /\ today' = [t \in Tasks |-> NoDay]
  /\ active' = {} /\ snap' = Zero /\ rolled' = FALSE /\ target' = 0

\* The file is loaded, the day rolled over, active_now filled in.
StartState(file) ==
  [ResetIfNewDay(Load(file), wallDay) EXCEPT !.active = console]

Init ==
  /\ wallDay = 0 /\ console = {} /\ up = FALSE /\ crashes = 0
  /\ mem = FreshState
  /\ pc = [t \in Tasks |-> IF t = "ticker" THEN "idle" ELSE "read"]
  /\ today = [t \in Tasks |-> NoDay]
  /\ active = {} /\ snap = Zero /\ rolled = FALSE /\ target = 0
  /\ unsent = FALSE
  /\ FileInit
  /\ solo = [t \in Tasks |-> FALSE] /\ clean = TRUE

Start ==
  /\ ~up
  /\ up' = TRUE
  /\ mem' = StartState(disk)
  /\ clean' = TRUE
  /\ UNCHANGED <<clock, crashes, pc, local, unsent, files, solo>>

\* The process dies at any point: SIGTERM, `launchctl kickstart -k`, a panic.
\* launchd starts it again (KeepAlive).
Crash ==
  /\ up /\ crashes < MaxCrashes
  /\ up' = FALSE
  /\ crashes' = crashes + 1
  /\ mem' = FreshState
  /\ TasksFresh
  /\ unsent' = FALSE
  /\ FileCrash
  /\ solo' = [t \in Tasks |-> FALSE]
  /\ UNCHANGED <<clock, clean>>

-----------------------------------------------------------------------------
(* The environment.                                                        *)

Midnight ==
  /\ wallDay < MaxDay
  /\ wallDay' = wallDay + 1
  /\ UNCHANGED <<console, up, crashes, mem, pc, local, unsent, files, history>>

\* Login, logout, fast user switching.
ConsoleChange ==
  /\ console' \in ActiveSets \ {console}
  /\ UNCHANGED <<wallDay, up, crashes, mem, pc, local, unsent, files, history>>

-----------------------------------------------------------------------------
(* save_atomic, called by a task after it released the mutex.              *)

\* Mutated form: the state is cloned before it is changed.
BeginSaveStale(t, s) ==
  /\ SaveBegin(t, Persisted(mem))
  /\ solo' = [solo EXCEPT ![t] = ~Saving(Other(t)), ![Other(t)] = FALSE]
  /\ clean' = (clean /\ ~Saving(Other(t)))

\* The other task's save, if one is in progress, is no longer alone.
BeginSave(t, s) ==
  /\ SaveBegin(t, Persisted(s))
  /\ solo' = [solo EXCEPT ![t] = ~Saving(Other(t)), ![Other(t)] = FALSE]
  /\ clean' = (clean /\ ~Saving(Other(t)))

SaveProgress(t) ==
  /\ SaveOpen(t) \/ SaveWrite(t)
  /\ UNCHANGED <<clock, up, crashes, mem, pc, local, unsent, history>>

SaveDone(t) ==
  /\ SaveRename(t)
  /\ solo' = [solo EXCEPT ![t] = FALSE]
  /\ clean' = (clean \/ solo[t])
  /\ UNCHANGED <<clock, up, crashes, mem, pc, local, unsent>>

\* The error is logged and the task goes on.
SaveFailed(t) ==
  /\ SaveError(t)
  /\ solo' = [solo EXCEPT ![t] = FALSE]
  /\ clean' = FALSE
  /\ UNCHANGED <<clock, up, crashes, mem, pc, local, unsent>>

-----------------------------------------------------------------------------
(* run_ticker.                                                             *)

\* iv.tick() fires; console_users() is read.
TickWake ==
  /\ up /\ pc["ticker"] = "idle"
  /\ active' = console
  /\ pc' = [pc EXCEPT !["ticker"] = "read"]
  /\ UNCHANGED <<clock, up, crashes, mem, today, snap, rolled, target, unsent,
                 files, history>>

\* `today` is read, before the mutex is taken.
TickRead ==
  /\ pc["ticker"] = "read"
  /\ today' = [today EXCEPT !["ticker"] = wallDay]
  /\ pc' = [pc EXCEPT !["ticker"] = "lock"]
  /\ UNCHANGED <<clock, up, crashes, mem, active, snap, rolled, target, unsent,
                 files, history>>

\* The state the critical section leaves.
Ticked(s, day, users) == Tick(ResetIfNewDay(s, day), users)

TickLock ==
  /\ pc["ticker"] = "lock"
  /\ LET s == Ticked(mem, today["ticker"], active)
     IN  /\ mem' = s
         /\ snap' = s.counters
         /\ BeginSave("ticker", s)
  /\ today' = [today EXCEPT !["ticker"] = NoDay]
  /\ pc' = [pc EXCEPT !["ticker"] = "save"]
  /\ unsent' = TRUE
  /\ UNCHANGED <<clock, up, crashes, active, rolled, target>>

\* Mutated form: the broadcast is forgotten.
NotSent(t) == unsent

\* tick_tx.send(()), the resetter's only if it rolled.
Sent(t) == IF t = "ticker" \/ rolled THEN FALSE ELSE unsent

TickSend ==
  /\ pc["ticker"] = "save" /\ ~Saving("ticker")
  /\ unsent' = Sent("ticker")
  /\ pc' = [pc EXCEPT !["ticker"] = "enforce"]
  /\ UNCHANGED <<clock, up, crashes, mem, local, files, history>>

\* enforcer.step: it sees the console of TickWake and the snapshot of TickLock,
\* however old they are by now, and may end the session of a user over limit.
TickEnforce ==
  /\ pc["ticker"] = "enforce"
  /\ \/ UNCHANGED console
     \/ /\ \E u \in active \cap console : snap[u] >= Limit[u]
        /\ console' = {}
  /\ pc' = [pc EXCEPT !["ticker"] = "idle"]
  /\ active' = {} /\ snap' = Zero
  /\ UNCHANGED <<wallDay, up, crashes, mem, today, rolled, target, unsent,
                 files, history>>

TickerStep ==
  \/ TickWake \/ TickRead \/ TickLock \/ TickSend \/ TickEnforce
  \/ SaveProgress("ticker") \/ SaveDone("ticker") \/ SaveFailed("ticker")

-----------------------------------------------------------------------------
(* run_midnight_resetter.                                                  *)

\* target = next_local_midnight(), at whatever hour it is.
ResetPlan ==
  /\ up /\ pc["resetter"] = "read"
  /\ target' \in NextMidnights(wallDay)
  /\ pc' = [pc EXCEPT !["resetter"] = "idle"]
  /\ UNCHANGED <<clock, up, crashes, mem, today, active, snap, rolled, unsent,
                 files, history>>

\* The sleep ends, at the target or any time later (the machine may have been
\* asleep), and `today` is read.  A target that is past is slept to for 60 s.
ResetWake ==
  /\ pc["resetter"] = "idle" /\ wallDay >= target
  /\ today' = [today EXCEPT !["resetter"] = wallDay]
  /\ pc' = [pc EXCEPT !["resetter"] = "lock"]
  /\ UNCHANGED <<clock, up, crashes, mem, active, snap, rolled, target, unsent,
                 files, history>>

\* The save follows even when nothing was rolled.
ResetLock ==
  /\ pc["resetter"] = "lock"
  /\ LET s == ResetIfNewDay(mem, today["resetter"])
     IN  /\ mem' = s
         /\ BeginSave("resetter", s)
  /\ rolled' = Rolls(mem, today["resetter"])
  /\ unsent' = (unsent \/ rolled')
  /\ today' = [today EXCEPT !["resetter"] = NoDay]
  /\ pc' = [pc EXCEPT !["resetter"] = "save"]
  /\ UNCHANGED <<clock, up, crashes, active, snap, target>>

\* Broadcast if rolled, then loop.
ResetSend ==
  /\ pc["resetter"] = "save" /\ ~Saving("resetter")
  /\ unsent' = Sent("resetter")
  /\ rolled' = FALSE
  /\ target' = 0
  /\ pc' = [pc EXCEPT !["resetter"] = "read"]
  /\ UNCHANGED <<clock, up, crashes, mem, today, active, snap, files, history>>

ResetterStep ==
  \/ ResetPlan \/ ResetWake \/ ResetLock \/ ResetSend
  \/ SaveProgress("resetter") \/ SaveDone("resetter") \/ SaveFailed("resetter")

-----------------------------------------------------------------------------
Next ==
  \/ Start \/ Crash \/ Midnight \/ ConsoleChange
  \/ TickerStep
  \/ ResetterStep

Spec == Init /\ [][Next]_vars

\* tokio polls both tasks, the interval and the sleep fire, launchd restarts
\* the process; the first hour of a long day, in which the resetter's target is
\* past, ends.  Nothing else is assumed of the clock, the user or crashes.
Fairness ==
  /\ WF_vars(Start) /\ WF_vars(TickerStep) /\ WF_vars(ResetterStep)
  /\ SF_vars(ResetPlan /\ target' > wallDay)

FairSpec == Spec /\ Fairness

-----------------------------------------------------------------------------
(* Properties.                                                             *)

\* What a restart on the day of `mem` would start from.
Recovered == ResetIfNewDay(Load(disk), mem.day).counters

\* A daemon killed at any instant loses at most the tick whose save is in
\* progress, provided the saves since the last restart, or since the last one
\* that ran alone, neither failed nor met each other.  (Persist on every tick
\* and in the midnight task, outside the mutex: main.rs.)
CrashLosesAtMostOneTick ==
  up /\ clean =>
    \A u \in Users :
      \/ mem.counters[u] = Recovered[u]
      \/ Saving("ticker") /\ mem.counters[u] = Plus(Recovered[u])

\* A change of the counters that subscribers have not been woken for has a task
\* that is about to wake them: no path through either task, with a failing save
\* or without, forgets the broadcast.
ChangesAreBroadcast ==
  unsent => pc["ticker"] = "save" \/ (pc["resetter"] = "save" /\ rolled)

-----------------------------------------------------------------------------
(* Why CrashLosesAtMostOneTick holds: SaveInv, an inductive invariant.     *)

\* Only a running process has tasks past their first step, and a task is in
\* save_atomic only between its critical section and its broadcast.
TasksAgree ==
  /\ ~up => pc = [t \in Tasks |-> IF t = "ticker" THEN "idle" ELSE "read"]
  /\ \A t \in Tasks : Saving(t) => pc[t] = "save"

\* Nothing the daemon holds or wrote is dated after today.
DatedUpTo(c, d) == c \in Snapshots => c.day \in 0 .. d

NotAhead ==
  /\ up => mem.day \in 0 .. wallDay
  /\ DatedUpTo(disk, wallDay) /\ DatedUpTo(tmp, wallDay)
  /\ \A t \in Tasks :
       /\ DatedUpTo(body[t], wallDay)
       /\ pc[t] = "lock" => today[t] \in 0 .. wallDay

\* A save that has met no other carries the current state, in a temporary file
\* that is its own; as long as `clean`, every save is of this kind.
SoloIsWhole ==
  \A t \in Tasks :
    /\ fd[t] # "none" => stage[t] = "write"
    /\ clean /\ Saving(t) => solo[t]
    /\ solo[t] =>
         /\ Saving(t) /\ ~Saving(Other(t))
         /\ body[t] = Persisted(mem)
         /\ stage[t] = "write" => fd[t] = "tmp" /\ tmp = Empty
         /\ stage[t] = "rename" => tmp = body[t]

\* A file of an earlier day is not one of a day that a task is about to switch
\* to: rolling over to that day and restarting on it then both start from zero.
UpcomingDays == {wallDay} \cup {today[t] : t \in {x \in Tasks : pc[x] = "lock"}}

DiskNotUpcoming ==
  up /\ clean /\ (\A t \in Tasks : ~Saving(t)) =>
    \A d \in UpcomingDays : Load(disk).day = d => mem.day = d

SaveInv ==
  TasksAgree /\ NotAhead /\ SoloIsWhole /\ DiskNotUpcoming /\ CrashLosesAtMostOneTick

-----------------------------------------------------------------------------
\* Whatever order the tasks, midnights and restarts come in, the daemon keeps
\* returning to counters of the current day.
DayCatchesUp == []<>(up /\ mem.day = wallDay)

\* Overlapping saves damage the file only until a later tick: again and again
\* a restart would lose nothing, unless saves go on failing.
DiskCatchesUp ==
  \/ []<>(up /\ mem.counters = Recovered)
  \/ []<><<\E t \in Tasks : SaveFailed(t)>>_vars
=============================================================================
