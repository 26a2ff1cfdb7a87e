------------------------ MODULE Screentimed_proofs ------------------------
(***************************************************************************)
(* Theorems about the counting core, for any set of users, any tick length *)
(* and counter width, any number of days and crashes.                      *)
(***************************************************************************)
EXTENDS Screentimed, LocalTime_proofs, TLAPS

(***************************************************************************)
(* Lemmas about the operations of DayCounters.                             *)
(***************************************************************************)

\* A counter stays a u32.
LEMMA PlusType == ASSUME NEW c \in Seconds PROVE Plus(c) \in Seconds
BY CounterAssumption DEF Seconds, Plus

LEMMA ZeroType == Zero \in Counters
BY CounterAssumption DEF Zero, Counters, Seconds

\* State::default() is a state.
LEMMA FreshType == FreshState \in States
BY ZeroType DEF FreshState, States, ActiveSets

\* reset_if_new_day keeps the type and leaves the state on `d`.
LEMMA ResetType ==
  ASSUME NEW s \in States, NEW d \in Nat
  PROVE  /\ ResetIfNewDay(s, d) \in States
         /\ ResetIfNewDay(s, d).day = d
BY ZeroType DEF ResetIfNewDay, Rolls, States

LEMMA TickType ==
  ASSUME NEW s \in States, NEW a \in ActiveSets
  PROVE  /\ Tick(s, a) \in States
         /\ Tick(s, a).day = s.day
<1> DEFINE c == [u \in Users |-> IF u \in a THEN Plus(s.counters[u]) ELSE s.counters[u]]
<1>1. c \in Counters
  BY PlusType DEF Counters, States
<1> QED BY <1>1 DEF Tick, States

\* What is saved is a snapshot, and loading a snapshot gives it back.
LEMMA PersistType ==
  ASSUME NEW s \in States
  PROVE  /\ Persisted(s) \in Snapshots
         /\ Load(Persisted(s)).day = s.day
         /\ Load(Persisted(s)).counters = s.counters
BY DEF Persisted, Snapshots, States, Load

LEMMA LoadType == ASSUME NEW f PROVE Load(f) \in States
BY FreshType DEF Load, Snapshots, States, ActiveSets

(***************************************************************************)
(* Type correctness.                                                       *)
(***************************************************************************)

LEMMA WrittenType ==
  ASSUME NEW old \in Contents, NEW b \in Snapshots
  PROVE  Written(old, b) \subseteq Contents
BY DEF Written, Contents

\* Whatever save_atomic does, the files keep their shape.
LEMMA SaveStepType ==
  ASSUME FileTypeOK, NEW t \in Tasks, body[t] \in Snapshots, SaveStep(t)
  PROVE  FileTypeOK'
<1>1. CASE SaveOpen(t)
  BY <1>1 DEF SaveOpen, FileTypeOK, Contents
<1>2. CASE SaveWrite(t)
  <2>1. tmp' \in Contents /\ disk' \in Contents
    BY <1>2, WrittenType DEF SaveWrite, FileTypeOK
  <2> QED BY <1>2, <2>1 DEF SaveWrite, FileTypeOK
<1>3. CASE SaveRename(t)
  BY <1>3 DEF SaveRename, Return, FileTypeOK, Contents
<1>4. CASE SaveError(t)
  <2>1. tmp' \in Contents /\ disk' \in Contents
    BY <1>4 DEF SaveError, Partly, FileTypeOK, Contents
  <2> QED BY <1>4, <2>1 DEF SaveError, Return, FileTypeOK
<1> QED BY <1>1, <1>2, <1>3, <1>4 DEF SaveStep

LEMMA SaveBeginType ==
  ASSUME FileTypeOK, NEW t \in Tasks, NEW b \in Snapshots, SaveBegin(t, b)
  PROVE  FileTypeOK'
BY DEF SaveBegin, FileTypeOK

LEMMA InitType == Init => TypeOK
<1> SUFFICES ASSUME Init PROVE TypeOK
  OBVIOUS
<1>1. FileTypeOK
  BY DEF Init, FileInit, NoCalls, FileTypeOK, Contents
<1>2. wallDay \in Days /\ crashes \in 0 .. MaxCrashes /\ target \in Nat
  BY DaemonAssumption DEF Init, Days
<1>3. /\ up \in BOOLEAN /\ rolled \in BOOLEAN /\ unsent \in BOOLEAN
      /\ clean \in BOOLEAN /\ solo \in [Tasks -> BOOLEAN]
  BY DEF Init
<1>4. /\ console \in ActiveSets /\ active \in ActiveSets
      /\ mem \in States /\ snap \in Counters
  BY FreshType, ZeroType DEF Init, ActiveSets
<1>5. /\ pc \in [Tasks -> {"idle", "read", "lock", "save", "enforce"}]
      /\ today \in [Tasks -> Days \cup {NoDay}]
  BY DEF Init
<1> QED BY <1>1, <1>2, <1>3, <1>4, <1>5 DEF TypeOK

\* TypeOK is not inductive by itself: a save in progress has a body, and a task
\* about to lock has read the clock.
FramesOK ==
  \A t \in Tasks :
    /\ Saving(t) => body[t] \in Snapshots
    /\ pc[t] = "lock" => today[t] \in Days

LEMMA NextType == TypeOK /\ FramesOK /\ [Next]_vars => TypeOK' /\ FramesOK'
<1> SUFFICES ASSUME TypeOK, FramesOK, [Next]_vars PROVE TypeOK' /\ FramesOK'
  OBVIOUS
<1> USE DEF clock, files, local, history
<1>1. CASE Start
  <2>1. mem' \in States
    <3> DEFINE s == ResetIfNewDay(Load(disk), wallDay)
    <3>1. s \in States
      BY LoadType, ResetType DEF TypeOK, Days
    <3> QED BY <1>1, <3>1 DEF Start, StartState, TypeOK, States
  <2> QED BY <1>1, <2>1 DEF Start, TypeOK, FileTypeOK, FramesOK, Saving
<1>2. CASE Crash
  <2>1. FileTypeOK' /\ FramesOK'
    BY <1>2 DEF Crash, FileCrash, TasksFresh, TypeOK, FileTypeOK, FramesOK, Saving
  <2>2. crashes' \in 0 .. MaxCrashes
    BY <1>2, DaemonAssumption DEF Crash, TypeOK
  <2>3. /\ pc' \in [Tasks -> {"idle", "read", "lock", "save", "enforce"}]
        /\ today' \in [Tasks -> Days \cup {NoDay}]
        /\ active' \in ActiveSets /\ snap' \in Counters /\ target' \in Nat
    BY <1>2, ZeroType DEF Crash, TasksFresh, ActiveSets
  <2>4. /\ up' \in BOOLEAN /\ rolled' \in BOOLEAN /\ unsent' \in BOOLEAN
        /\ solo' \in [Tasks -> BOOLEAN]
    BY <1>2 DEF Crash, TasksFresh
  <2> QED BY <1>2, <2>1, <2>2, <2>3, <2>4, FreshType DEF Crash, TypeOK
<1>3. CASE Midnight
  <2>1. wallDay' \in Days
    BY <1>3, DaemonAssumption DEF Midnight, TypeOK, Days
  <2> QED BY <1>3, <2>1 DEF Midnight, TypeOK, FileTypeOK, FramesOK, Saving
<1>4. CASE ConsoleChange
  BY <1>4 DEF ConsoleChange, TypeOK, FileTypeOK, FramesOK, Saving
<1>5. ASSUME NEW t \in Tasks, SaveProgress(t) \/ SaveDone(t) \/ SaveFailed(t)
      PROVE  TypeOK' /\ FramesOK'
  <2>1. SaveStep(t) /\ Saving(t)
    BY <1>5 DEF SaveProgress, SaveDone, SaveFailed, SaveStep, Saving,
                SaveOpen, SaveWrite, SaveRename, SaveError
  <2>2. FileTypeOK'
    <3>1. body[t] \in Snapshots
      BY <2>1 DEF FramesOK
    <3> QED BY <2>1, <3>1, SaveStepType DEF TypeOK
  <2>3. FramesOK'
    <3>1. UNCHANGED <<pc, today>>
      BY <1>5 DEF SaveProgress, SaveDone, SaveFailed
    <3>2. /\ SaveOpen(t) \/ SaveWrite(t) => UNCHANGED body
          /\ SaveRename(t) \/ SaveError(t) => Return(t)
      BY DEF SaveOpen, SaveWrite, SaveRename, SaveError
    <3>3. \A u \in Tasks : stage'[u] # "idle" => body'[u] = body[u] /\ Saving(u)
      <4>1. CASE Return(t)
        BY <4>1 DEF Return, Saving, TypeOK, FileTypeOK
      <4>2. CASE SaveOpen(t) \/ SaveWrite(t)
        <5>1. \A u \in Tasks \ {t} : stage'[u] = stage[u]
          BY <4>2 DEF SaveOpen, SaveWrite, TypeOK, FileTypeOK
        <5> QED BY <2>1, <3>2, <4>2, <5>1 DEF Saving
      <4> QED BY <2>1, <3>2, <4>1, <4>2 DEF SaveStep
    <3> QED BY <3>1, <3>3 DEF FramesOK, Saving
  <2> QED BY <1>5, <2>2, <2>3
          DEF SaveProgress, SaveDone, SaveFailed, TypeOK
<1>6. CASE TickWake
  BY <1>6 DEF TickWake, TypeOK, FileTypeOK, FramesOK, Saving
<1>7. CASE TickRead
  BY <1>7 DEF TickRead, TypeOK, FileTypeOK, FramesOK, Saving, Tasks
<1>8. CASE TickLock
  <2> DEFINE s == Ticked(mem, today["ticker"], active)
  <2>1. s \in States
    <3>1. today["ticker"] \in Nat
      BY <1>8, DaemonAssumption DEF TickLock, FramesOK, Days, Tasks
    <3> QED BY <3>1, TickType, ResetType DEF Ticked, TypeOK
  <2>2. mem' = s /\ snap' = s.counters /\ BeginSave("ticker", s)
    BY <1>8 DEF TickLock
  <2>3. FileTypeOK'
    BY <2>1, <2>2, PersistType, SaveBeginType DEF BeginSave, TypeOK, Tasks
  <2>5. FramesOK'
    BY <1>8, <2>1, <2>2, PersistType
       DEF TickLock, BeginSave, SaveBegin, FramesOK, Saving, TypeOK, FileTypeOK, Tasks
  <2>4. solo' \in [Tasks -> BOOLEAN] /\ clean' \in BOOLEAN
    BY <2>2 DEF BeginSave, Saving, TypeOK
  <2> QED BY <1>8, <2>1, <2>2, <2>3, <2>4, <2>5 DEF TickLock, TypeOK, States
<1>9. CASE TickSend
  BY <1>9 DEF TickSend, Sent, TypeOK, FileTypeOK, FramesOK, Saving
<1>10. CASE TickEnforce
  BY <1>10, ZeroType DEF TickEnforce, TypeOK, FileTypeOK, FramesOK, Saving, ActiveSets
<1>11. CASE ResetPlan
  <2>1. target' \in Nat
    BY <1>11, NextMidnightAhead, DaemonAssumption
    DEF ResetPlan, NextMidnights, TypeOK, Days
  <2> QED BY <1>11, <2>1 DEF ResetPlan, TypeOK, FileTypeOK, FramesOK, Saving
<1>12. CASE ResetWake
  BY <1>12 DEF ResetWake, TypeOK, FileTypeOK, FramesOK, Saving
<1>13. CASE ResetLock
  <2> DEFINE s == ResetIfNewDay(mem, today["resetter"])
  <2>1. s \in States
    <3>1. today["resetter"] \in Nat
      BY <1>13, DaemonAssumption DEF ResetLock, FramesOK, Days, Tasks
    <3> QED BY <3>1, ResetType DEF TypeOK
  <2>2. mem' = s /\ BeginSave("resetter", s)
    BY <1>13 DEF ResetLock
  <2>3. FileTypeOK'
    BY <2>1, <2>2, PersistType, SaveBeginType DEF BeginSave, TypeOK, Tasks
  <2>4. FramesOK'
    BY <1>13, <2>1, <2>2, PersistType
       DEF ResetLock, BeginSave, SaveBegin, FramesOK, Saving, TypeOK, FileTypeOK, Tasks
  <2>5. solo' \in [Tasks -> BOOLEAN] /\ clean' \in BOOLEAN
    BY <2>2 DEF BeginSave, Saving, TypeOK
  <2>6. rolled' \in BOOLEAN
    BY <1>13 DEF ResetLock, Rolls
  <2> QED BY <1>13, <2>1, <2>2, <2>3, <2>4, <2>5, <2>6 DEF ResetLock, TypeOK
<1>14. CASE ResetSend
  BY <1>14 DEF ResetSend, Sent, TypeOK, FileTypeOK, FramesOK, Saving
<1>15. CASE UNCHANGED vars
  BY <1>15 DEF vars, TypeOK, FileTypeOK, FramesOK, Saving
<1> QED
  BY <1>1, <1>2, <1>3, <1>4, <1>5, <1>6, <1>7, <1>8, <1>9, <1>10, <1>11,
     <1>12, <1>13, <1>14, <1>15 DEF Next, TickerStep, ResetterStep, Tasks

\* The counting core is type correct: in particular every counter stays a u32
\* and every saved body is a state.
THEOREM TypeCorrect == Spec => [](TypeOK /\ FramesOK)
<1>1. Init => TypeOK /\ FramesOK
  BY InitType DEF Init, FileInit, NoCalls, FramesOK, Saving
<1> QED BY <1>1, NextType, PTL DEF Spec

(***************************************************************************)
(* No change of the counters goes without a broadcast.                     *)
(***************************************************************************)

\* Spec => []ChangesAreBroadcast: inductive by itself, given the types.
THEOREM BroadcastFollows == Spec => []ChangesAreBroadcast
<1>1. Init => ChangesAreBroadcast
  BY DEF Init, ChangesAreBroadcast
<1>2. TypeOK /\ ChangesAreBroadcast /\ [Next]_vars => ChangesAreBroadcast'
  <2> SUFFICES ASSUME TypeOK, ChangesAreBroadcast, [Next]_vars
               PROVE  ChangesAreBroadcast'
    OBVIOUS
  <2> USE DEF local, ChangesAreBroadcast
  <2>1. CASE Start \/ Crash \/ Midnight \/ ConsoleChange \/ UNCHANGED vars
    BY <2>1 DEF Start, Crash, Midnight, ConsoleChange, vars
  <2>2. ASSUME NEW t \in Tasks, SaveProgress(t) \/ SaveDone(t) \/ SaveFailed(t)
        PROVE  ChangesAreBroadcast'
    BY <2>2 DEF SaveProgress, SaveDone, SaveFailed
  <2>3. CASE TickWake \/ TickRead
    BY <2>3 DEF TickWake, TickRead, TypeOK, Tasks
  <2>4. CASE TickLock
    BY <2>4 DEF TickLock, TypeOK, Tasks
  <2>5. CASE TickSend
    BY <2>5 DEF TickSend, Sent, TypeOK, Tasks
  <2>6. CASE TickEnforce
    BY <2>6 DEF TickEnforce, TypeOK, Tasks
  <2>7. CASE ResetPlan \/ ResetWake
    BY <2>7 DEF ResetPlan, ResetWake, TypeOK, Tasks
  <2>8. CASE ResetLock
    BY <2>8 DEF ResetLock, TypeOK, Tasks
  <2>9. CASE ResetSend
    BY <2>9 DEF ResetSend, Sent, TypeOK, Tasks
  <2> QED
    BY <2>1, <2>2, <2>3, <2>4, <2>5, <2>6, <2>7, <2>8, <2>9
    DEF Next, TickerStep, ResetterStep, Tasks
<1> QED BY <1>1, <1>2, TypeCorrect, PTL DEF Spec

(***************************************************************************)
(* The save invariant.                                                     *)
(***************************************************************************)

LEMMA TasksAgreeNext ==
  TypeOK /\ SaveInv /\ [Next]_vars => TasksAgree'
<1> SUFFICES ASSUME TypeOK, SaveInv, [Next]_vars PROVE TasksAgree'
  OBVIOUS
<1> USE DEF SaveInv, TasksAgree, Saving, files, local
<1>1. CASE Start \/ Midnight \/ ConsoleChange \/ UNCHANGED vars
  BY <1>1 DEF Start, Midnight, ConsoleChange, vars
<1>2. CASE Crash
  BY <1>2 DEF Crash, TasksFresh, FileCrash
<1>3. ASSUME NEW t \in Tasks, SaveProgress(t) \/ SaveDone(t) \/ SaveFailed(t)
      PROVE  TasksAgree'
  BY <1>3 DEF SaveProgress, SaveDone, SaveFailed, SaveOpen, SaveWrite, SaveRename,
              SaveError, Return, TypeOK, FileTypeOK
<1>4. CASE TickWake \/ TickRead \/ TickSend \/ TickEnforce
  BY <1>4 DEF TickWake, TickRead, TickSend, TickEnforce, TypeOK, Tasks
<1>5. CASE TickLock
  BY <1>5 DEF TickLock, BeginSave, SaveBegin, TypeOK, FileTypeOK, Tasks
<1>6. CASE ResetPlan \/ ResetWake \/ ResetSend
  BY <1>6 DEF ResetPlan, ResetWake, ResetSend, TypeOK, Tasks
<1>7. CASE ResetLock
  BY <1>7 DEF ResetLock, BeginSave, SaveBegin, TypeOK, FileTypeOK, Tasks
<1> QED
  BY <1>1, <1>2, <1>3, <1>4, <1>5, <1>6, <1>7
  DEF Next, TickerStep, ResetterStep, Tasks

\* The state a critical section leaves is dated with the task's `today`, and so
\* is the body it saves.
LEMMA LockDates ==
  ASSUME NEW s \in States, NEW d \in Nat, NEW a \in ActiveSets
  PROVE  /\ Ticked(s, d, a) \in States /\ Ticked(s, d, a).day = d
         /\ Persisted(Ticked(s, d, a)) \in Snapshots
         /\ Persisted(Ticked(s, d, a)).day = d
         /\ Persisted(ResetIfNewDay(s, d)) \in Snapshots
         /\ Persisted(ResetIfNewDay(s, d)).day = d
<1>1. ResetIfNewDay(s, d) \in States /\ ResetIfNewDay(s, d).day = d
  BY ResetType
<1>2. Ticked(s, d, a) \in States /\ Ticked(s, d, a).day = d
  BY <1>1, TickType DEF Ticked
<1> QED BY <1>1, <1>2, PersistType DEF Persisted

LEMMA NotAheadNext ==
  TypeOK /\ FramesOK /\ SaveInv /\ [Next]_vars => NotAhead'
<1> SUFFICES ASSUME TypeOK, FramesOK, SaveInv, [Next]_vars PROVE NotAhead'
  OBVIOUS
<1> USE DEF SaveInv, NotAhead, DatedUpTo, clock, files, local
<1>0. wallDay \in Nat /\ MaxDay \in Nat
  BY DaemonAssumption DEF TypeOK, Days
<1>1. CASE Start
  <2>1. mem'.day = wallDay
    BY <1>0, <1>1, LoadType, ResetType DEF Start, StartState, States
  <2> QED BY <1>0, <1>1, <2>1 DEF Start
<1>2. CASE Crash
  BY <1>2, FileAssumption DEF Crash, TasksFresh, FileCrash, Tasks
<1>3. CASE Midnight
  <2>1. \A d : d \in 0 .. wallDay => d \in 0 .. wallDay'
    BY <1>0, <1>3 DEF Midnight
  <2> QED BY <1>3, <2>1 DEF Midnight
<1>4. CASE ConsoleChange \/ UNCHANGED vars
  BY <1>4 DEF ConsoleChange, vars
<1>5. ASSUME NEW t \in Tasks, SaveProgress(t) \/ SaveDone(t) \/ SaveFailed(t)
      PROVE  NotAhead'
  <2>1. UNCHANGED <<up, mem, wallDay, pc, today>>
    BY <1>5 DEF SaveProgress, SaveDone, SaveFailed
  <2>2. CASE SaveOpen(t)
    BY <2>1, <2>2, FileAssumption DEF SaveOpen
  <2>3. CASE SaveWrite(t)
    <3>1. tmp' \in {tmp, body[t], Torn} /\ disk' \in {disk, body[t], Torn}
      BY <2>3 DEF SaveWrite, Written
    <3>2. UNCHANGED body
      BY <2>3 DEF SaveWrite
    <3> QED BY <2>1, <3>1, <3>2, FileAssumption
  <2>4. CASE SaveRename(t)
    BY <2>1, <2>4, FileAssumption DEF SaveRename, Return, TypeOK, FileTypeOK
  <2>5. CASE SaveError(t)
    <3>1. tmp' \in {tmp, Torn} /\ disk' \in {disk, Torn}
      BY <2>5 DEF SaveError, Partly
    <3>2. body' = [body EXCEPT ![t] = Absent]
      BY <2>5 DEF SaveError, Return
    <3> QED BY <2>1, <3>1, <3>2, FileAssumption DEF TypeOK, FileTypeOK
  <2> QED BY <1>5, <2>2, <2>3, <2>4, <2>5 DEF SaveProgress, SaveDone, SaveFailed
<1>6. CASE TickWake \/ TickSend \/ TickEnforce
  BY <1>6 DEF TickWake, TickSend, TickEnforce, TypeOK, Tasks
<1>7. CASE TickRead
  BY <1>0, <1>7 DEF TickRead, TypeOK, Tasks
<1>8. CASE TickLock
  <2> DEFINE d == today["ticker"]
             s == Ticked(mem, d, active)
  <2>1. d \in 0 .. wallDay /\ d \in Nat
    BY <1>0, <1>8 DEF TickLock, Tasks
  <2>2. s.day = d /\ Persisted(s).day = d
    BY <2>1, LockDates DEF TypeOK
  <2>3. mem' = s /\ body' = [body EXCEPT !["ticker"] = Persisted(s)]
        /\ UNCHANGED <<disk, tmp, wallDay, up>>
    BY <1>8 DEF TickLock, BeginSave, SaveBegin
  <2> QED BY <1>8, <2>1, <2>2, <2>3 DEF TickLock, TypeOK, FileTypeOK, Tasks
<1>9. CASE ResetPlan \/ ResetSend
  BY <1>9 DEF ResetPlan, ResetSend, TypeOK, Tasks
<1>10. CASE ResetWake
  BY <1>0, <1>10 DEF ResetWake, TypeOK, Tasks
<1>11. CASE ResetLock
  <2> DEFINE d == today["resetter"]
             s == ResetIfNewDay(mem, d)
  <2>1. d \in 0 .. wallDay /\ d \in Nat
    BY <1>0, <1>11 DEF ResetLock, Tasks
  <2>2. s.day = d /\ Persisted(s).day = d
    BY <2>1, LockDates, ResetType DEF TypeOK
  <2>3. mem' = s /\ body' = [body EXCEPT !["resetter"] = Persisted(s)]
        /\ UNCHANGED <<disk, tmp, wallDay, up>>
    BY <1>11 DEF ResetLock, BeginSave, SaveBegin
  <2> QED BY <1>11, <2>1, <2>2, <2>3 DEF ResetLock, TypeOK, FileTypeOK, Tasks
<1> QED
  BY <1>1, <1>2, <1>3, <1>4, <1>5, <1>6, <1>7, <1>8, <1>9, <1>10, <1>11
  DEF Next, TickerStep, ResetterStep, Tasks

\* Entering save_atomic from a critical section that left state s.
LEMMA BeginSolo ==
  ASSUME TypeOK, SoloIsWhole, NEW t \in Tasks, NEW s, mem' = s, BeginSave(t, s)
  PROVE  SoloIsWhole'
<1>1. /\ stage[t] = "idle" /\ stage' = [stage EXCEPT ![t] = "open"]
      /\ body' = [body EXCEPT ![t] = Persisted(s)]
      /\ UNCHANGED <<fd, tmp>>
  BY DEF BeginSave, SaveBegin
<1>2. Other(t) \in Tasks /\ Other(t) # t /\ \A v \in Tasks : v = t \/ v = Other(t)
  BY DEF Tasks, Other
<1>3. /\ solo'[t] = ~Saving(Other(t)) /\ solo'[Other(t)] = FALSE
      /\ clean' = (clean /\ ~Saving(Other(t)))
  BY <1>2 DEF BeginSave, TypeOK
<1>4. stage'[t] = "open" /\ stage'[Other(t)] = stage[Other(t)]
      /\ body'[t] = Persisted(s)
  BY <1>1, <1>2 DEF TypeOK, FileTypeOK
<1> QED BY <1>1, <1>2, <1>3, <1>4 DEF SoloIsWhole, Saving

LEMMA SoloNext ==
  TypeOK /\ SaveInv /\ [Next]_vars => SoloIsWhole'
<1> SUFFICES ASSUME TypeOK, SaveInv, [Next]_vars PROVE SoloIsWhole'
  OBVIOUS
<1> USE DEF SaveInv, files, local, history
<1>1. CASE Start
  <2>1. \A t \in Tasks : ~Saving(t)
    BY <1>1 DEF Start, TasksAgree
  <2> QED BY <1>1, <2>1 DEF Start, SoloIsWhole, Saving
<1>2. CASE Crash
  BY <1>2 DEF Crash, FileCrash, SoloIsWhole, Saving
<1>3. CASE Midnight \/ ConsoleChange \/ UNCHANGED vars
  BY <1>3 DEF Midnight, ConsoleChange, vars, SoloIsWhole, Saving
<1>4. CASE TickWake \/ TickRead \/ TickSend \/ TickEnforce
  BY <1>4 DEF TickWake, TickRead, TickSend, TickEnforce, SoloIsWhole, Saving
<1>5. CASE ResetPlan \/ ResetWake \/ ResetSend
  BY <1>5 DEF ResetPlan, ResetWake, ResetSend, SoloIsWhole, Saving
<1>6. CASE TickLock
  BY <1>6, BeginSolo DEF TickLock, Tasks
<1>7. CASE ResetLock
  BY <1>7, BeginSolo DEF ResetLock, Tasks
<1>8. ASSUME NEW t \in Tasks, SaveProgress(t) \/ SaveDone(t) \/ SaveFailed(t)
      PROVE  SoloIsWhole'
  <2>1. Other(t) \in Tasks /\ Other(t) # t /\ Other(Other(t)) = t
        /\ \A v \in Tasks : v = t \/ v = Other(t)
    BY DEF Tasks, Other
  <2>2. mem' = mem
    BY <1>8 DEF SaveProgress, SaveDone, SaveFailed
  <2>3. CASE SaveProgress(t)
    <3>1. Saving(t) /\ ~solo[Other(t)]
      BY <2>1, <2>3 DEF SaveProgress, SaveOpen, SaveWrite, Saving, SoloIsWhole
    <3>2. CASE SaveOpen(t)
      BY <2>1, <2>2, <2>3, <3>1, <3>2
      DEF SaveProgress, SaveOpen, SoloIsWhole, Saving, TypeOK, FileTypeOK
    <3>3. CASE SaveWrite(t)
      <4>1. solo[t] => tmp' = body[t]
        BY <3>3 DEF SaveWrite, SoloIsWhole, Written
      <4> QED BY <2>1, <2>2, <2>3, <3>1, <3>3, <4>1
          DEF SaveProgress, SaveWrite, SoloIsWhole, Saving, TypeOK, FileTypeOK
    <3> QED BY <2>3, <3>2, <3>3 DEF SaveProgress
  <2>4. CASE SaveDone(t)
    <3>1. Saving(t) /\ fd[t] = "none"
      BY <2>4 DEF SaveDone, SaveRename, Saving, SoloIsWhole
    <3>2. ~solo[Other(t)] /\ ((clean \/ solo[t]) => ~Saving(Other(t)))
      BY <2>1, <3>1 DEF SoloIsWhole
    <3>3. /\ stage'[t] = "idle" /\ stage'[Other(t)] = stage[Other(t)]
          /\ fd'[t] = "none" /\ (fd'[Other(t)] # "none" => fd[Other(t)] # "none")
      BY <2>1, <2>4, <3>1 DEF SaveDone, SaveRename, Return, TypeOK, FileTypeOK
    <3>4. ~solo'[t] /\ ~solo'[Other(t)] /\ (clean' => clean \/ solo[t])
      BY <2>1, <2>4, <3>2 DEF SaveDone, TypeOK
    <3> QED BY <2>1, <3>2, <3>3, <3>4 DEF SoloIsWhole, Saving
  <2>5. CASE SaveFailed(t)
    <3>1. ~solo'[t] /\ ~solo'[Other(t)] /\ ~clean'
      BY <2>1, <2>5 DEF SaveFailed, SaveError, SoloIsWhole, TypeOK
    <3>2. /\ stage'[Other(t)] = stage[Other(t)]
          /\ fd'[t] = "none" /\ fd'[Other(t)] = fd[Other(t)]
      BY <2>1, <2>5 DEF SaveFailed, SaveError, Return, TypeOK, FileTypeOK
    <3> QED BY <2>1, <3>1, <3>2 DEF SoloIsWhole
  <2> QED BY <1>8, <2>3, <2>4, <2>5
<1> QED
  BY <1>1, <1>2, <1>3, <1>4, <1>5, <1>6, <1>7, <1>8
  DEF Next, TickerStep, ResetterStep, Tasks

\* A save that met no other leaves exactly the current state in the file; one
\* that did leaves `clean` false.
LEMMA SoloSaved ==
  ASSUME TypeOK, SaveInv, NEW t \in Tasks, SaveDone(t), clean'
  PROVE  disk' = Persisted(mem) /\ mem' = mem /\ up' = up
<1>1. Saving(t) /\ stage[t] = "rename" /\ disk' = tmp /\ mem' = mem /\ up' = up
  BY DEF SaveDone, SaveRename, Saving
<1>2. solo[t]
  BY <1>1 DEF SaveDone, SaveInv, SoloIsWhole
<1> QED BY <1>1, <1>2 DEF SaveInv, SoloIsWhole

LEMMA DiskNotUpcomingNext ==
  TypeOK /\ SaveInv /\ [Next]_vars => DiskNotUpcoming'
<1> SUFFICES ASSUME TypeOK, SaveInv, [Next]_vars PROVE DiskNotUpcoming'
  OBVIOUS
<1> USE DEF clock, files, local, history
<1>0. wallDay \in Nat
  BY DaemonAssumption DEF TypeOK, Days
<1>d. DiskNotUpcoming
  BY DEF SaveInv
<1>1. CASE Start
  <2>1. mem'.day = wallDay' /\ UNCHANGED <<wallDay, disk, pc>>
    BY <1>0, <1>1, LoadType, ResetType DEF Start, StartState, States
  <2>2. \A t \in Tasks : pc'[t] # "lock"
    BY <1>1 DEF Start, SaveInv, TasksAgree
  <2> QED BY <2>1, <2>2 DEF DiskNotUpcoming, UpcomingDays
<1>2. CASE Crash
  BY <1>2 DEF Crash, DiskNotUpcoming
<1>3. CASE Midnight
  <2>1. Load(disk).day # wallDay'
    <3>1. disk \in Snapshots => disk.day \in 0 .. wallDay
      BY DEF SaveInv, NotAhead, DatedUpTo
    <3>2. wallDay' = wallDay + 1 /\ wallDay' \in Nat
      BY <1>0, <1>3 DEF Midnight
    <3> QED BY <1>0, <3>1, <3>2, CounterAssumption DEF Load, FreshState
  <2>2. UpcomingDays' \subseteq UpcomingDays \cup {wallDay'}
    BY <1>3 DEF Midnight, UpcomingDays
  <2>3. UNCHANGED <<up, clean, stage, disk, mem>>
    BY <1>3 DEF Midnight
  <2> QED BY <1>d, <2>1, <2>2, <2>3 DEF DiskNotUpcoming, Saving
<1>4. CASE ConsoleChange \/ UNCHANGED vars
  BY <1>d, <1>4 DEF ConsoleChange, vars, DiskNotUpcoming, UpcomingDays, Saving
<1>5. ASSUME NEW t \in Tasks, SaveProgress(t) \/ SaveDone(t) \/ SaveFailed(t)
      PROVE  DiskNotUpcoming'
  <2>1. CASE SaveProgress(t)
    BY <2>1 DEF SaveProgress, SaveOpen, SaveWrite, DiskNotUpcoming, Saving, TypeOK, FileTypeOK
  <2>2. CASE SaveDone(t)
    <3>1. clean' => Load(disk').day = mem'.day
      BY <2>2, SoloSaved, PersistType DEF TypeOK
    <3> QED BY <3>1 DEF DiskNotUpcoming
  <2>3. CASE SaveFailed(t)
    BY <2>3 DEF SaveFailed, DiskNotUpcoming
  <2> QED BY <1>5, <2>1, <2>2, <2>3
<1>6. CASE TickWake \/ TickSend \/ TickEnforce \/ ResetPlan \/ ResetSend
  <2>1. UpcomingDays' \subseteq UpcomingDays
    BY <1>6 DEF TickWake, TickSend, TickEnforce, ResetPlan, ResetSend, UpcomingDays,
                TypeOK, Tasks
  <2>2. UNCHANGED <<up, clean, stage, disk, mem>>
    BY <1>6 DEF TickWake, TickSend, TickEnforce, ResetPlan, ResetSend
  <2> QED BY <1>d, <2>1, <2>2 DEF DiskNotUpcoming, Saving
<1>7. CASE TickRead \/ ResetWake
  <2>1. UpcomingDays' \subseteq UpcomingDays
    BY <1>7 DEF TickRead, ResetWake, UpcomingDays, TypeOK, Tasks
  <2>2. UNCHANGED <<up, clean, stage, disk, mem>>
    BY <1>7 DEF TickRead, ResetWake
  <2> QED BY <1>d, <2>1, <2>2 DEF DiskNotUpcoming, Saving
<1>8. CASE TickLock \/ ResetLock
  <2>1. \E t \in Tasks : stage'[t] = "open"
    BY <1>8 DEF TickLock, ResetLock, BeginSave, SaveBegin, TypeOK, FileTypeOK, Tasks
  <2> QED BY <2>1 DEF DiskNotUpcoming, Saving
<1> QED
  BY <1>1, <1>2, <1>3, <1>4, <1>5, <1>6, <1>7, <1>8
  DEF Next, TickerStep, ResetterStep, Tasks

\* Rolling over to day d and restarting on day d agree, if the file is of day d
\* only when the counters are.
LEMMA LockRecovers ==
  ASSUME TypeOK, NEW d \in Nat, mem.counters = Recovered,
         Load(disk).day = d => mem.day = d
  PROVE  ResetIfNewDay(mem, d).counters = ResetIfNewDay(Load(disk), d).counters
<1>1. mem \in States /\ Load(disk) \in States
  BY LoadType DEF TypeOK
<1>2. CASE mem.day = d
  BY <1>1, <1>2 DEF Recovered, ResetIfNewDay, Rolls
<1>3. CASE mem.day # d
  <2>1. /\ ResetIfNewDay(mem, d) = [mem EXCEPT !.day = d, !.counters = Zero]
        /\ ResetIfNewDay(Load(disk), d) = [Load(disk) EXCEPT !.day = d, !.counters = Zero]
    BY <1>3 DEF ResetIfNewDay, Rolls
  <2> QED BY <1>1, <2>1 DEF States
<1> QED BY <1>2, <1>3

LEMMA LossNext ==
  TypeOK /\ FramesOK /\ SaveInv /\ [Next]_vars => CrashLosesAtMostOneTick'
<1> SUFFICES ASSUME TypeOK, FramesOK, SaveInv, [Next]_vars
             PROVE  CrashLosesAtMostOneTick'
  OBVIOUS
<1> USE DEF clock, files, local, history
<1>0. wallDay \in Nat /\ MaxDay \in Nat /\ CrashLosesAtMostOneTick
  BY DaemonAssumption DEF TypeOK, Days, SaveInv
<1>1. CASE Start
  <2> DEFINE s == ResetIfNewDay(Load(disk), wallDay)
  <2>1. s \in States /\ s.day = wallDay
    BY <1>0, LoadType, ResetType
  <2>2. mem'.day = wallDay /\ mem'.counters = s.counters /\ disk' = disk
    BY <1>1, <2>1 DEF Start, StartState, States
  <2> QED BY <2>2 DEF CrashLosesAtMostOneTick, Recovered
<1>2. CASE Crash
  BY <1>2 DEF Crash, CrashLosesAtMostOneTick
<1>3. CASE \/ Midnight \/ ConsoleChange \/ UNCHANGED vars
           \/ TickWake \/ TickRead \/ TickSend \/ TickEnforce
           \/ ResetPlan \/ ResetWake \/ ResetSend
  <2>1. UNCHANGED <<up, clean, stage, disk, mem>>
    BY <1>3 DEF Midnight, ConsoleChange, vars, TickWake, TickRead, TickSend, TickEnforce,
                ResetPlan, ResetWake, ResetSend
  <2> QED BY <1>0, <2>1 DEF CrashLosesAtMostOneTick, Recovered, Saving
<1>4. ASSUME NEW t \in Tasks, SaveProgress(t) \/ SaveDone(t) \/ SaveFailed(t)
      PROVE  CrashLosesAtMostOneTick'
  <2>1. CASE SaveProgress(t)
    <3>1. clean => disk' = disk
      BY <2>1 DEF SaveProgress, SaveOpen, SaveWrite, SaveInv, SoloIsWhole, Saving
    <3>2. Saving("ticker") => Saving("ticker")'
      BY <2>1 DEF SaveProgress, SaveOpen, SaveWrite, Saving, TypeOK, FileTypeOK, Tasks
    <3>3. UNCHANGED <<up, clean, mem>>
      BY <2>1 DEF SaveProgress
    <3> QED BY <1>0, <3>1, <3>2, <3>3 DEF CrashLosesAtMostOneTick, Recovered
  <2>2. CASE SaveDone(t)
    <3>1. clean' => mem'.counters = Recovered'
      BY <2>2, SoloSaved, PersistType DEF TypeOK, Recovered, ResetIfNewDay, Rolls
    <3> QED BY <3>1 DEF CrashLosesAtMostOneTick
  <2>3. CASE SaveFailed(t)
    BY <2>3 DEF SaveFailed, CrashLosesAtMostOneTick
  <2> QED BY <1>4, <2>1, <2>2, <2>3
<1>5. ASSUME NEW t \in Tasks, pc[t] = "lock", up, clean, stage[t] = "idle",
             ~Saving(Other(t))
      PROVE  /\ today[t] \in Nat
             /\ ResetIfNewDay(mem, today[t]).counters
                  = ResetIfNewDay(Load(disk), today[t]).counters
  <2>1. \A v \in Tasks : ~Saving(v)
    BY <1>5 DEF Tasks, Other, Saving
  <2>2. mem.counters = Recovered
    <3>1. \A u \in Users : mem.counters[u] = Recovered[u]
      BY <1>0, <1>5, <2>1 DEF CrashLosesAtMostOneTick, Tasks
    <3>2. mem.day \in Nat
      BY <1>0, <1>5 DEF SaveInv, NotAhead
    <3>3. Recovered \in Counters /\ mem.counters \in Counters
      BY <3>2, LoadType, ResetType DEF Recovered, TypeOK, States
    <3> QED BY <3>1, <3>3 DEF Counters
  <2>3. today[t] \in Nat /\ today[t] \in UpcomingDays
    BY <1>0, <1>5 DEF FramesOK, Days, UpcomingDays
  <2>4. Load(disk).day = today[t] => mem.day = today[t]
    BY <1>5, <2>1, <2>3 DEF SaveInv, DiskNotUpcoming
  <2> QED BY <2>2, <2>3, <2>4, LockRecovers
<1>6. CASE TickLock
  <2> DEFINE d == today["ticker"]
             r == ResetIfNewDay(mem, d)
  <2>1. SUFFICES ASSUME up', clean', NEW u \in Users
        PROVE  \/ mem'.counters[u] = Recovered'[u]
               \/ Saving("ticker")' /\ mem'.counters[u] = Plus(Recovered'[u])
    BY DEF CrashLosesAtMostOneTick
  <2>2. up /\ clean /\ stage["ticker"] = "idle" /\ ~Saving(Other("ticker"))
    BY <1>6, <2>1 DEF TickLock, BeginSave, SaveBegin
  <2>3. d \in Nat /\ r.counters = ResetIfNewDay(Load(disk), d).counters
    BY <1>5, <1>6, <2>2 DEF TickLock, Tasks
  <2>4. r \in States /\ mem' = Tick(r, active) /\ mem'.day = d
    <3>1. r \in States /\ r.day = d /\ active \in ActiveSets
      BY <2>3, ResetType DEF TypeOK
    <3>2. mem' = Tick(r, active)
      BY <1>6 DEF TickLock, Ticked
    <3> QED BY <3>1, <3>2, TickType
  <2>5. Recovered' = r.counters
    BY <1>6, <2>3, <2>4 DEF TickLock, BeginSave, SaveBegin, Recovered
  <2>6. mem'.counters[u] \in {r.counters[u], Plus(r.counters[u])}
    BY <2>1, <2>4 DEF Tick, States
  <2>7. Saving("ticker")'
    BY <1>6 DEF TickLock, BeginSave, SaveBegin, Saving, TypeOK, FileTypeOK, Tasks
  <2> QED BY <2>5, <2>6, <2>7
<1>7. CASE ResetLock
  <2> DEFINE d == today["resetter"]
             r == ResetIfNewDay(mem, d)
  <2>1. SUFFICES ASSUME up', clean' PROVE mem'.counters = Recovered'
    BY DEF CrashLosesAtMostOneTick
  <2>2. up /\ clean /\ stage["resetter"] = "idle" /\ ~Saving(Other("resetter"))
    BY <1>7, <2>1 DEF ResetLock, BeginSave, SaveBegin
  <2>3. d \in Nat /\ r.counters = ResetIfNewDay(Load(disk), d).counters
    BY <1>5, <1>7, <2>2 DEF ResetLock, Tasks
  <2>4. mem' = r /\ mem'.day = d /\ disk' = disk
    BY <1>7, <2>3, ResetType DEF ResetLock, BeginSave, SaveBegin, TypeOK
  <2> QED BY <2>3, <2>4 DEF Recovered
<1> QED
  BY <1>1, <1>2, <1>3, <1>4, <1>6, <1>7
  DEF Next, TickerStep, ResetterStep, Tasks

\* The save invariant holds of every execution, whatever the interleaving of
\* the two tasks, the clock, crashes and failing saves.
THEOREM SaveInvariant == Spec => []SaveInv
<1>1. Init => SaveInv
  BY FileAssumption
  DEF Init, SaveInv, TasksAgree, NotAhead, DatedUpTo, SoloIsWhole, DiskNotUpcoming,
      CrashLosesAtMostOneTick, FileInit, NoCalls, Saving
<1>2. TypeOK /\ FramesOK /\ SaveInv /\ [Next]_vars => SaveInv'
  BY TasksAgreeNext, NotAheadNext, SoloNext, DiskNotUpcomingNext, LossNext DEF SaveInv
<1> QED BY <1>1, <1>2, TypeCorrect, PTL DEF Spec

\* A daemon killed at any instant loses at most the tick being saved, unless
\* saves failed or overlapped.
THEOREM CrashLoss == Spec => []CrashLosesAtMostOneTick
<1>1. SaveInv => CrashLosesAtMostOneTick
  BY DEF SaveInv
<1> QED BY <1>1, SaveInvariant, PTL
=============================================================================
