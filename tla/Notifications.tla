--------------------------- MODULE Notifications ---------------------------
(***************************************************************************)
(* The warnings of the tray: NotifTracker (crates/tray/src/notifications.  *)
(* rs) fed with the statuses of a subscription.  compute_status reads the  *)
(* counters under the mutex and `resets_at` from the clock after it, so a  *)
(* status may join the counters of one day to the reset time of another;   *)
(* it then waits in the socket.  The daemon may die and restart, the       *)
(* subscription with it; the tracker lives across reconnects.              *)
(*                                                                         *)
(* When a status is computed is left open: a wake-up, a late one or the    *)
(* initial status of a connection (module StatusStream).                   *)
(***************************************************************************)
EXTENDS UserStatus, LocalTime, Sequences

CONSTANTS Thresholds,  \* warn_thresholds_minutes, in ticks
          SocketCap,   \* statuses the socket buffers
          MaxDay,      \* bound: the clock runs over days 0 .. MaxDay
          MaxCrashes,  \* bound: how often the daemon may die
          None

ASSUME NotificationAssumption ==
  /\ Thresholds \subseteq Nat \ {0}
  /\ SocketCap \in Nat \ {0}
  /\ MaxDay \in Nat /\ MaxCrashes \in Nat
  /\ None \notin Nat

VARIABLES
  wallDay, hour,  \* the local time
  console,        \* the user is on the console
  up, crashes,    \* the daemon runs; how often it died
  mem,            \* the counters
  reply,          \* the status being computed or written
  wire,           \* statuses in the socket
  tracker,        \* NotifTracker: last_resets_at, fired_at_or_below
  announced,      \* history: the announcements so far, cycle and threshold
  repeated        \* history: one of them was made before

clock == <<wallDay, hour>>
daemon == <<up, crashes, mem>>
history == <<announced, repeated>>
vars == <<clock, console, daemon, reply, wire, tracker, history>>

\* The parts of UserStatus the tracker reads; `resets` is a day, None until the
\* clock is read, and `day`, the day of the counters, is not sent by the code.
StatusesWith(R) == [state : SessionStates, used : Used, day : Nat, resets : R]
Statuses == StatusesWith(Nat)

TypeOK ==
  /\ wallDay \in 0 .. MaxDay /\ hour \in Hours(wallDay)
  /\ console \in BOOLEAN
  /\ up \in BOOLEAN /\ crashes \in 0 .. MaxCrashes
  /\ mem \in Memories
  /\ reply \in Statuses \cup StatusesWith({None}) \cup {None}
  /\ wire \in Seq(Statuses)
  /\ tracker \in [resets : Nat \cup {None}, fired : Thresholds \cup {None}]
  /\ announced \subseteq Nat \X Thresholds
  /\ repeated \in BOOLEAN

Init ==
  /\ wallDay = 0 /\ hour = 0 /\ console = FALSE
  /\ up = FALSE /\ crashes = 0
  /\ mem = [day |-> 0, used |-> 0, active |-> FALSE]
  /\ reply = None
  /\ wire = <<>>
  /\ tracker = [resets |-> None, fired |-> None]
  /\ announced = {} /\ repeated = FALSE

-----------------------------------------------------------------------------
(* The clock, the user and the daemon's own steps.                         *)

TimePasses ==
  /\ \/ /\ hour + 1 \in Hours(wallDay)
        /\ hour' = hour + 1 /\ UNCHANGED wallDay
     \/ /\ hour + 1 \notin Hours(wallDay) /\ wallDay < MaxDay
        /\ hour' = 0 /\ wallDay' = wallDay + 1
  /\ UNCHANGED <<console, daemon, reply, wire, tracker, history>>

ConsoleChange ==
  /\ console' = ~console
  /\ UNCHANGED <<clock, daemon, reply, wire, tracker, history>>

Start ==
  /\ ~up
  /\ up' = TRUE
  /\ \E m \in Reloaded(mem) :
       mem' = [ResetIfNewDay(m, wallDay) EXCEPT !.active = console]
  /\ UNCHANGED <<clock, console, crashes, reply, wire, tracker, history>>

\* The connection ends; what it wrote can still be read.
Crash ==
  /\ up /\ crashes < MaxCrashes
  /\ up' = FALSE /\ crashes' = crashes + 1
  /\ reply' = None
  /\ UNCHANGED <<clock, console, mem, wire, tracker, history>>

\* The ticker's critical section.
TickLock ==
  /\ up
  /\ mem' = Tick(ResetIfNewDay(mem, wallDay), console)
  /\ UNCHANGED <<clock, console, up, crashes, reply, wire, tracker, history>>

\* The resetter's.
ResetLock ==
  /\ up
  /\ mem' = ResetIfNewDay(mem, wallDay)
  /\ UNCHANGED <<clock, console, up, crashes, reply, wire, tracker, history>>

-----------------------------------------------------------------------------
(* The Subscribe connection.                                               *)

\* compute_status: the counters under the mutex ...
ReadCounters ==
  /\ up /\ reply = None
  /\ reply' = [state |-> SessionState(mem), used |-> mem.used, day |-> mem.day,
               resets |-> None]
  /\ UNCHANGED <<clock, console, daemon, wire, tracker, history>>

\* ... and next_local_midnight() after it.
ReadClock ==
  /\ reply # None /\ reply.resets = None
  /\ reply' = [reply EXCEPT !.resets = NextMidnight(wallDay, hour)]
  /\ UNCHANGED <<clock, console, daemon, wire, tracker, history>>

\* write_frame, once there is room.
WriteStatus ==
  /\ reply # None /\ reply.resets # None
  /\ Len(wire) < SocketCap
  /\ wire' = Append(wire, reply)
  /\ reply' = None
  /\ UNCHANGED <<clock, console, daemon, tracker, history>>

-----------------------------------------------------------------------------
(* NotifTracker::evaluate.                                                 *)

\* Rule 1: another resets_at re-arms.
Rearmed(t, s) ==
  IF t.resets = s.resets THEN t ELSE [resets |-> s.resets, fired |-> None]

Crossed(s) == {t \in Thresholds : Limit - s.used <= t}

\* Mutated form: the time left instead of the threshold it crossed.
TimeLeft(s) == IF s.state # "active" \/ Crossed(s) = {} THEN None ELSE Limit - s.used

\* Rules 2 and 3: while active, the smallest threshold the time left is within.
Candidate(s) ==
  IF s.state # "active" \/ Crossed(s) = {} THEN None
  ELSE CHOOSE t \in Crossed(s) : \A u \in Crossed(s) : t <= u

\* Mutated form: not strictly smaller.
FiresAgain(t, c) == c # None /\ (t.fired = None \/ c <= t.fired)

\* Rule 4.
Fires(t, c) == c # None /\ (t.fired = None \/ c < t.fired)

\* The subscriber thread takes a status from the socket.
Evaluate ==
  /\ wire # <<>>
  /\ LET s == Head(wire)
         t == Rearmed(tracker, s)
         c == Candidate(s)
     IN  IF Fires(t, c)
           THEN /\ tracker' = [t EXCEPT !.fired = c]
                /\ announced' = announced \cup {<<s.resets, c>>}
                /\ repeated' = (repeated \/ <<s.resets, c>> \in announced)
           ELSE tracker' = t /\ UNCHANGED history
  /\ wire' = Tail(wire)
  /\ UNCHANGED <<clock, console, daemon, reply>>

-----------------------------------------------------------------------------
Next ==
  \/ TimePasses \/ ConsoleChange
  \/ Start \/ Crash \/ TickLock \/ ResetLock
  \/ ReadCounters \/ ReadClock \/ WriteStatus
  \/ Evaluate

Spec == Init /\ [][Next]_vars

-----------------------------------------------------------------------------
(* Properties.                                                             *)

\* Within one reset cycle a threshold is announced at most once, whatever the
\* order of ticks, midnights, clock changes, restarts and the counters they lose.
OncePerCycle == ~repeated

\* When the reset time changes from one status to the next and the tracker
\* re-arms, the counters of the status are those of the day that ends at the
\* new time: they have been zeroed.
RearmsWhenZeroed ==
  [][tracker.resets # None /\ tracker'.resets # tracker.resets =>
       Head(wire).day + 1 = Head(wire).resets]_vars

\* The next midnight is in the future.
MidnightAhead == NextMidnight(wallDay, hour) > wallDay
=============================================================================
