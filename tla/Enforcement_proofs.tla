------------------------ MODULE Enforcement_proofs ------------------------
(***************************************************************************)
(* Theorems about the enforcement pass, for any users, limits, policy and  *)
(* backoff length.                                                         *)
(***************************************************************************)
EXTENDS Enforcement, TLAPS

\* During a pass the live counters are the snapshot's unless midnight came; an
\* escalation works on a user decide chose from that snapshot, in logout mode,
\* whose backoff had run out and stays so until the stamp.
PassInv ==
  /\ TypeOK
  /\ pc # "idle" /\ ~midnight => used = snap
  /\ pc \in Escalation =>
       /\ victim \in Users
       /\ Due(victim, snap[victim])
       /\ age[victim] = Backoff
       /\ config.enforcement = "logout"
  /\ LogModeSpawnsNothing

LEMMA PassInit == Init => PassInv
<1> SUFFICES ASSUME Init PROVE PassInv
  OBVIOUS
<1> USE EnforcementAssumption DEF Init
<1>1. /\ used \in Counters /\ snap \in Counters
      /\ age \in [Users -> 0 .. Backoff]
  BY DEF Zero, Counters
<1>2. /\ console \in ActiveSets /\ active \in ActiveSets
      /\ session \in [Users -> {"stays", "may_end", "ends"}]
      /\ victim \in Users \cup {Nobody}
  BY DEF ActiveSets
<1>3. kill \in BOOLEAN /\ midnight \in BOOLEAN
  OBVIOUS
<1>4. TypeOK
  BY <1>1, <1>2, <1>3 DEF TypeOK
<1> QED BY <1>4 DEF PassInv, LogModeSpawnsNothing, Escalation

\* Ending a pass, with or without a stamp, keeps the invariant: the locals are
\* cleared and there is no escalation.
LEMMA FinishKeeps ==
  ASSUME PassInv, NEW ages \in [Users -> 0 .. Backoff], Finish(ages),
         \/ UNCHANGED session
         \/ /\ session' \in [Users -> {"stays", "may_end", "ends"}]
            /\ config.enforcement = "logout"
  PROVE  PassInv'
<1> USE DEF Finish, PassInv
<1>1. snap' \in Counters /\ active' \in ActiveSets /\ victim' \in Users \cup {Nobody}
  BY EnforcementAssumption DEF Zero, Counters, ActiveSets
<1>2. TypeOK'
  BY <1>1 DEF TypeOK
<1>3. pc' = "idle" /\ pc' \notin Escalation
  BY DEF Escalation
<1> QED BY <1>2, <1>3 DEF LogModeSpawnsNothing

LEMMA StampType ==
  ASSUME PassInv, NEW u \in Users PROVE Stamped(u) \in [Users -> 0 .. Backoff]
BY EnforcementAssumption DEF PassInv, TypeOK, Stamped

LEMMA PassNext == PassInv /\ [Next]_vars => PassInv'
<1> SUFFICES ASSUME PassInv, [Next]_vars PROVE PassInv'
  OBVIOUS
<1> USE EnforcementAssumption
<1>t. TypeOK /\ LogModeSpawnsNothing
  BY DEF PassInv
<1>a. age \in [Users -> 0 .. Backoff]
  BY <1>t DEF TypeOK
<1>v. pc \in Escalation => victim \in Users /\ config.enforcement = "logout"
  BY DEF PassInv
<1>1. CASE ConsoleChange
  <2>1. session' \in [Users -> {"stays", "may_end", "ends"}] /\ console' \in ActiveSets
    BY <1>t, <1>1 DEF ConsoleChange, TypeOK
  <2>2. (\A u \in Users : session[u] = "stays") => \A u \in Users : session'[u] = "stays"
    BY <1>1 DEF ConsoleChange
  <2> QED BY <1>1, <2>1, <2>2 DEF ConsoleChange, PassInv, TypeOK, LogModeSpawnsNothing, Due
<1>2. ASSUME NEW u \in Users, NEW how \in {"may_end", "ends"}, SessionEnds(u, how)
      PROVE  PassInv'
  BY <1>t, <1>2 DEF SessionEnds, PassInv, TypeOK, ActiveSets, LogModeSpawnsNothing, Due
<1>3. CASE TouchKillSwitch
  BY <1>3 DEF TouchKillSwitch, PassInv, TypeOK, LogModeSpawnsNothing, Due
<1>4. CASE Midnight
  <2>1. used' \in Counters
    BY <1>4 DEF Midnight, Zero, Counters
  <2> QED BY <1>4, <2>1 DEF Midnight, PassInv, TypeOK, LogModeSpawnsNothing, Due
<1>5. CASE Elapse
  <2>1. age' \in [Users -> 0 .. Backoff]
    BY <1>t, <1>5 DEF Elapse, TypeOK
  <2>2. \A u \in Users : age[u] = Backoff => age'[u] = Backoff
    BY <1>5 DEF Elapse
  <2> QED BY <1>5, <2>1, <2>2 DEF Elapse, PassInv, TypeOK, LogModeSpawnsNothing, Due
<1>6. CASE Tick
  <2>1. used' \in Counters
    BY <1>t, <1>6 DEF Tick, TypeOK, Counters
  <2>2. pc' = "pass" /\ pc' \notin Escalation /\ snap' = used'
    BY <1>6 DEF Tick, Escalation
  <2> QED BY <1>6, <2>1, <2>2 DEF Tick, PassInv, TypeOK, LogModeSpawnsNothing
<1>7. CASE NothingToDo \/ Refused
  BY <1>a, <1>7, FinishKeeps DEF NothingToDo, Refused
<1>8. ASSUME NEW u \in Users, WouldHaveKicked(u) PROVE PassInv'
  BY <1>8, StampType, FinishKeeps DEF WouldHaveKicked
<1>9. ASSUME NEW u \in Users, NEW step \in Escalation, Spawn(u, step),
             config.enforcement = "logout", config' = config
      PROVE  /\ pc' \in Escalation /\ LogModeSpawnsNothing'
             /\ session' \in [Users -> {"stays", "may_end", "ends"}]
  BY <1>t, <1>9 DEF Spawn, TypeOK, LogModeSpawnsNothing
<1>10. ASSUME NEW u \in Users, ForceLogout(u) PROVE PassInv'
  <2>1. "gui_bootout" \in Escalation /\ config.enforcement = "logout" /\ config' = config
    BY <1>10 DEF ForceLogout, Enforces, Escalation
  <2>2. /\ pc' \in Escalation /\ LogModeSpawnsNothing'
        /\ session' \in [Users -> {"stays", "may_end", "ends"}]
    BY <1>9, <1>10, <2>1 DEF ForceLogout
  <2>3. Due(u, snap[u]) /\ age[u] = Backoff
    BY <1>a, <1>10 DEF ForceLogout, Decided, Kick
  <2>4. ~midnight => used = snap
    BY <1>10 DEF ForceLogout, PassInv
  <2>u. u \in Users \ NoAccount
    BY <1>10 DEF ForceLogout, Decided
  <2>5. TypeOK'
    BY <1>10, <2>2, <2>u DEF ForceLogout, PassInv, TypeOK
  <2>6. victim' = u /\ UNCHANGED <<config, used, snap, age, midnight>>
    BY <1>10 DEF ForceLogout
  <2>7. Due(u, snap[u])'
    BY <2>3, <2>6 DEF Due
  <2> QED BY <2>1, <2>2, <2>3, <2>4, <2>5, <2>6, <2>7 DEF PassInv
<1>11. CASE AfterBootout
  <2>1. pc \in Escalation /\ victim \in Users /\ config.enforcement = "logout"
    BY <1>11, <1>v DEF AfterBootout, Escalation
  <2>2. /\ pc' \in Escalation /\ LogModeSpawnsNothing'
        /\ session' \in [Users -> {"stays", "may_end", "ends"}]
    <3>1. CASE Spawn(victim, "user_bootout")
      BY <1>9, <1>11, <2>1, <3>1 DEF AfterBootout, Escalation
    <3>2. CASE pc' = "settle" /\ UNCHANGED session
      BY <1>t, <1>11, <2>1, <3>2
      DEF AfterBootout, Escalation, TypeOK, LogModeSpawnsNothing
    <3> QED BY <1>11, <3>1, <3>2 DEF AfterBootout
  <2> QED BY <1>11, <2>1, <2>2 DEF AfterBootout, PassInv, TypeOK, Due, Escalation
<1>12. CASE PkillError
  BY <1>a, <1>12, FinishKeeps DEF PkillError
<1>13. CASE Settled \/ PkillMatchedNothing
  BY <1>13 DEF Settled, PkillMatchedNothing, PassInv, TypeOK, LogModeSpawnsNothing, Due,
               Escalation
<1>14. CASE BootoutSucceeded \/ GoneAnyway
  BY <1>14, <1>v, StampType, FinishKeeps DEF BootoutSucceeded, GoneAnyway, Escalation
<1>15. CASE StillThere
  <2>1. pc \in Escalation /\ victim \in Users /\ config.enforcement = "logout"
    BY <1>15, <1>v DEF StillThere, Escalation
  <2>2. /\ pc' \in Escalation /\ LogModeSpawnsNothing'
        /\ session' \in [Users -> {"stays", "may_end", "ends"}]
    BY <1>9, <1>15, <2>1 DEF StillThere, Escalation
  <2> QED BY <1>15, <2>1, <2>2 DEF StillThere, PassInv, TypeOK, Due, Escalation
<1>16. CASE PkillMatched
  <2>1. session' \in [Users -> {"stays", "may_end", "ends"}]
    BY <1>t, <1>16 DEF PkillMatched, TypeOK
  <2> QED BY <1>16, <1>v, <2>1, StampType, FinishKeeps DEF PkillMatched, Escalation
<1>17. CASE GaveUp
  BY <1>a, <1>17, FinishKeeps DEF GaveUp
<1>18. CASE UNCHANGED vars
  BY <1>18 DEF vars, PassInv, TypeOK, LogModeSpawnsNothing, Due
<1> QED
  BY <1>1, <1>2, <1>3, <1>4, <1>5, <1>6, <1>7, <1>8, <1>10, <1>11, <1>12, <1>13,
     <1>14, <1>15, <1>16, <1>17, <1>18
  DEF Next, Daemon, Environment, CommandTimesOut, BootoutReturns

THEOREM PassInvariant == Spec => []PassInv
BY PassInit, PassNext, PTL DEF Spec

\* Whatever the interleaving, log mode never runs a command.
THEOREM LogModeIsSafe == Spec => []LogModeSpawnsNothing
<1>1. PassInv => LogModeSpawnsNothing
  BY DEF PassInv
<1> QED BY <1>1, PassInvariant, PTL

\* No user below the limit is being forced out, but for a midnight during the
\* escalation.
THEOREM KicksAreDue == Spec => []KicksOnlyOverLimit
<1>1. PassInv => KicksOnlyOverLimit
  BY DEF PassInv, KicksOnlyOverLimit, Escalation
<1> QED BY <1>1, PassInvariant, PTL

\* Completed kicks of one user are at least the backoff apart.
THEOREM BackoffIsKept == Spec => BackoffHolds
<1>1. ASSUME PassInv, [Next]_vars, NEW u \in Users, age'[u] = 0
      PROVE  age[u] \in {0, Backoff}
  <2> USE EnforcementAssumption
  <2>1. age \in [Users -> 0 .. Backoff]
    BY <1>1 DEF PassInv, TypeOK
  <2>2. CASE UNCHANGED age
    BY <1>1, <2>2
  <2>3. CASE Elapse
    BY <1>1, <2>1, <2>3 DEF Elapse
  <2>4. ASSUME NEW v \in Users, age' = Stamped(v), age[v] = Backoff
        PROVE  age[u] \in {0, Backoff}
    BY <1>1, <2>1, <2>4 DEF Stamped
  <2>5. ASSUME NEW v \in Users, WouldHaveKicked(v) PROVE age[u] \in {0, Backoff}
    BY <2>1, <2>4, <2>5 DEF WouldHaveKicked, Finish, Decided, Kick
  <2>6. CASE BootoutSucceeded \/ GoneAnyway \/ PkillMatched
    <3>1. victim \in Users /\ age[victim] = Backoff
      BY <1>1, <2>6 DEF BootoutSucceeded, GoneAnyway, PkillMatched, PassInv, Escalation
    <3> QED BY <2>4, <2>6, <3>1 DEF BootoutSucceeded, GoneAnyway, PkillMatched, Finish
  <2> QED
    BY <1>1, <2>2, <2>3, <2>5, <2>6
    DEF Next, Daemon, Environment, vars, ConsoleChange, SessionEnds, TouchKillSwitch,
        Midnight, Tick, NothingToDo, Refused, ForceLogout, BootoutReturns,
        CommandTimesOut, AfterBootout, PkillError, Settled, StillThere,
        PkillMatchedNothing, GaveUp, Finish
<1>2. PassInv /\ [Next]_vars => [\A u \in Users : age'[u] = 0 => age[u] \in {0, Backoff}]_vars
  BY <1>1
<1> QED BY <1>2, PassInvariant, PTL DEF Spec, BackoffHolds

\* Types, for every set of users and any bounds: the pass works on users,
\* sessions and stamps throughout.
THEOREM PassTypes == Spec => []TypeOK
<1>1. PassInv => TypeOK
  BY DEF PassInv
<1> QED BY <1>1, PassInvariant, PTL
=============================================================================
