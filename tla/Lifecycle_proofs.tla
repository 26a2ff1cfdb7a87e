-------------------------- MODULE Lifecycle_proofs --------------------------
(***************************************************************************)
(* Theorems of module Lifecycle, for any number of bundles, any grace      *)
(* period and deadline, and any tasks and bodies that are saved:           *)
(*                                                                         *)
(*   LifecycleTypes    types;                                              *)
(*   LossIsTold        a tray that runs without a registration has told    *)
(*                     of it, or another process removed it;               *)
(*   VersionsAreOne    tray and reachable daemon are of one bundle;        *)
(*   OnlyRemovals      the uninstaller acts on removals alone;             *)
(*   SoleWriterAtomic  with one task saving, save_atomic implements        *)
(*                     AtomicReplace, whatever the bodies, the failures,   *)
(*                     the crashes and the removals of the directory;      *)
(*   WipedAtomically   with one task saving, the state file stays an       *)
(*                     atomic cell while the daemon removes its directory. *)
(*                                                                         *)
(* The tray's properties are proved of the services and the tray alone     *)
(* (LaunchInv), the uninstaller's of its own variables and the bundle      *)
(* (WatchInv), the file's of its own (SoleInv).                            *)
(***************************************************************************)
EXTENDS Lifecycle, TLAPS

\* Nothing is of a bundle that was not there yet.
Known == tray.from <= bundle.id /\ daemon.from <= bundle.id

\* Stages behind a look at the registration that found it enabled.
BehindStatus == {"socket", "admin", "version", "repair", "confirm", "unregister",
                 "verify", "login", "run"}

\* LostRegistrationIsTold, from that look on.
Told == tray.at \in BehindStatus /\ reg = "none" => taken \/ tray.note = "told"

\* VersionsAgree, from the end of the checks on.
Agree ==
  tray.at \in {"login", "run"} /\ tray.note = "none" /\ tray.from = bundle.id =>
    daemon.from \in {0, bundle.id} \/ ~daemon.socket

\* A note is made where the checks end.
Noted == tray.at \notin {"login", "run"} => tray.note = "none"

LaunchInv == ServicesTypeOK /\ TrayTypeOK /\ Known /\ Noted /\ Told /\ Agree

\* What the uninstaller has counted is how long the path has been empty.
Counted ==
  /\ un.at # "wait" => ~fresh /\ un.away = None
  /\ bundle.there => gone = 0
  /\ un.at = "wait" /\ bundle.there /\ ~fresh => un.away = None
  /\ un.at = "wait" /\ ~bundle.there =>
       ~fresh /\ gone = IF un.away = None THEN 0 ELSE un.away

WatchInv == UninstallTypeOK /\ Counted

-----------------------------------------------------------------------------
(* The tray's launch.                                                      *)

LEMMA LaunchInit == Init => LaunchInv
<1> SUFFICES ASSUME Init PROVE LaunchInv
  OBVIOUS
<1> USE BundlesAssumption DEF Init, ServicesInit, Down, Closed
<1>1. ServicesTypeOK
  <2>1. bundle \in [id : 1..Bundles, there : BOOLEAN]
    OBVIOUS
  <2>2. daemon \in [from : 0..Bundles, socket : BOOLEAN, admin : BOOLEAN]
    OBVIOUS
  <2>3. agent \in BOOLEAN /\ late \in BOOLEAN /\ taken \in BOOLEAN
    OBVIOUS
  <2> QED BY <2>1, <2>2, <2>3 DEF ServicesTypeOK
<1>2. TrayTypeOK
  BY DEF TrayTypeOK, Stages
<1>3. Known /\ Noted /\ Told /\ Agree
  BY DEF Known, Noted, Told, Agree, BehindStatus
<1> QED BY <1>1, <1>2, <1>3 DEF LaunchInv

\* A step of the services, with the tray where it was: the version of a daemon
\* changes only to that of the bundle, a registration goes only as `taken`.
LEMMA ServiceStepKeeps ==
  ASSUME LaunchInv, UNCHANGED tray, ServicesTypeOK',
         bundle'.id >= bundle.id,
         \/ daemon' = daemon
         \/ daemon'.from \in {0, bundle'.id}
         \/ daemon'.from = daemon.from /\ ~daemon'.socket,
         reg' = "none" => (reg = "none" /\ taken' = taken) \/ taken'
  PROVE  LaunchInv'
<1> USE DEF LaunchInv, ServicesTypeOK, TrayTypeOK
<1>1. Known'
  BY DEF Known
<1>2. Told'
  BY DEF Told
<1>3. Agree'
  <2>1. tray.from = bundle'.id => bundle'.id = bundle.id
    BY DEF Known
  <2> QED BY <2>1 DEF Agree
<1> QED BY <1>1, <1>2, <1>3 DEF Noted

\* A step of the tray that only looks.
LEMMA GoesKeeps ==
  ASSUME LaunchInv, NEW step \in Stages \ {"login", "run"}, Goes(step),
         tray.at \notin {"login", "run"},
         step \in BehindStatus => tray.at \in BehindStatus \/ reg # "none"
  PROVE  LaunchInv'
<1>1. tray \in [at : Stages, from : 0..Bundles, setup : BOOLEAN,
                note : {"none", "told", "skipped"}]
  BY DEF LaunchInv, TrayTypeOK
<1>2. /\ tray'.at = step /\ tray'.from = tray.from /\ tray'.note = tray.note
      /\ TrayTypeOK' /\ UNCHANGED serviceVars
  BY <1>1 DEF Goes, TrayTypeOK
<1>3. ServicesTypeOK' /\ Known' /\ Noted' /\ Agree'
  BY <1>2 DEF serviceVars, LaunchInv, ServicesTypeOK, Known, Noted, Agree
<1>4. Told'
  BY <1>2 DEF serviceVars, LaunchInv, Told
<1> QED BY <1>2, <1>3, <1>4 DEF LaunchInv

\* The end of the checks.
LEMMA GoesOnKeeps ==
  ASSUME LaunchInv, NEW note \in {"none", "told", "skipped"}, GoesOn(note),
         tray.at \in BehindStatus \ {"login", "run"},
         note = "none" /\ tray.from = bundle.id =>
           daemon.from \in {0, bundle.id} \/ ~daemon.socket
  PROVE  LaunchInv'
<1>1. tray \in [at : Stages, from : 0..Bundles, setup : BOOLEAN,
                note : {"none", "told", "skipped"}]
  BY DEF LaunchInv, TrayTypeOK
<1>2. /\ tray'.at = "login" /\ tray'.from = tray.from /\ tray'.note = note
      /\ TrayTypeOK' /\ UNCHANGED serviceVars
  BY <1>1 DEF GoesOn, TrayTypeOK, Stages
<1>3. ServicesTypeOK' /\ Known' /\ Noted' /\ Agree'
  BY <1>2 DEF serviceVars, LaunchInv, ServicesTypeOK, Known, Noted, Agree
<1>4. Told'
  BY <1>2 DEF serviceVars, LaunchInv, Told, Noted
<1> QED BY <1>2, <1>3, <1>4 DEF LaunchInv

\* The tray is closed.
LEMMA QuitsKeeps ==
  ASSUME LaunchInv, tray' = Closed, UNCHANGED <<bundle, daemon>>, ServicesTypeOK'
  PROVE  LaunchInv'
<1>1. TrayTypeOK'
  BY BundlesAssumption DEF LaunchInv, ServicesTypeOK, TrayTypeOK, Closed, Stages
<1>2. Known' /\ Noted' /\ Told' /\ Agree'
  BY BundlesAssumption
  DEF LaunchInv, ServicesTypeOK, Known, Noted, Told, Agree, Closed, BehindStatus
<1> QED BY <1>1, <1>2 DEF LaunchInv

\* A failure closes a first launch, and is told of after a repair.
LEMMA FailureKeeps ==
  ASSUME LaunchInv, FailureTold, UNCHANGED <<bundle, reg, agent, daemon, taken>>,
         late' \in BOOLEAN
  PROVE  LaunchInv'
<1>1. ServicesTypeOK'
  BY DEF LaunchInv, ServicesTypeOK
<1>2. CASE tray.setup
  BY <1>1, <1>2, QuitsKeeps DEF FailureTold
<1>3. CASE ~tray.setup
  <2>1. tray \in [at : Stages, from : 0..Bundles, setup : BOOLEAN,
                  note : {"none", "told", "skipped"}]
    BY DEF LaunchInv, TrayTypeOK
  <2>2. /\ tray'.at = "login" /\ tray'.from = tray.from /\ tray'.note = "told"
        /\ TrayTypeOK'
    BY <1>3, <2>1 DEF FailureTold, TrayTypeOK, Stages
  <2> QED BY <1>1, <2>2 DEF LaunchInv, Known, Noted, Told, Agree
<1> QED BY <1>2, <1>3

\* What the tray looks at, and the answers it gets.
LEMMA LookingKeeps ==
  ASSUME LaunchInv,
         \/ OpenTray \/ ReadStatus \/ ProbeSocket \/ ProbeAdmin
         \/ VersionUnknown \/ VersionMatches \/ VersionDiffers
         \/ ReadStatusAgain \/ AnswerRepair \/ AnswerSetup
         \/ Verified
  PROVE  LaunchInv'
<1> USE DEF Stages, BehindStatus
<1>1. CASE OpenTray
  <2>1. tray' = [at |-> "status", from |-> bundle.id, setup |-> FALSE, note |-> "none"]
    BY <1>1 DEF OpenTray, Closed
  <2>2. /\ tray'.at = "status" /\ tray'.from = bundle.id /\ tray'.note = "none"
        /\ TrayTypeOK' /\ UNCHANGED serviceVars
    <3>1. bundle.id \in 0..Bundles
      BY BundlesAssumption DEF LaunchInv, ServicesTypeOK
    <3>2. TrayTypeOK'
      BY <2>1, <3>1 DEF TrayTypeOK
    <3>3. tray'.at = "status" /\ tray'.from = bundle.id /\ tray'.note = "none"
      BY <2>1
    <3>4. UNCHANGED serviceVars
      BY <1>1 DEF OpenTray
    <3> QED BY <3>2, <3>3, <3>4
  <2>3. ServicesTypeOK' /\ Known'
    BY <2>2 DEF serviceVars, LaunchInv, ServicesTypeOK, Known
  <2> QED BY <2>2, <2>3 DEF LaunchInv, Noted, Told, Agree
<1>2. CASE ReadStatus
  BY <1>2, GoesKeeps DEF ReadStatus
<1>3. CASE ProbeSocket
  BY <1>3, GoesKeeps, GoesOnKeeps DEF ProbeSocket
<1>4. CASE ProbeAdmin
  BY <1>4, GoesKeeps DEF ProbeAdmin
<1>5. CASE VersionUnknown
  BY <1>5, GoesOnKeeps DEF VersionUnknown
<1>6. CASE VersionMatches \/ Verified
  BY <1>6, GoesOnKeeps DEF VersionMatches, Verified, SameVersion
<1>7. CASE VersionDiffers
  BY <1>7, GoesKeeps DEF VersionDiffers
<1>8. CASE ReadStatusAgain \/ AnswerRepair
  BY <1>8, GoesKeeps, GoesOnKeeps DEF ReadStatusAgain, AnswerRepair
<1>9. CASE AnswerSetup
  <2>1. UNCHANGED serviceVars /\ ServicesTypeOK'
    BY <1>9 DEF AnswerSetup, serviceVars, LaunchInv, ServicesTypeOK
  <2>2. CASE Quits
    BY <2>1, <2>2, QuitsKeeps DEF Quits, serviceVars
  <2>3. CASE tray' = [tray EXCEPT !.at = "register", !.setup = TRUE]
    <3>1. /\ tray'.at = "register" /\ tray'.from = tray.from /\ tray'.note = tray.note
          /\ TrayTypeOK'
      BY <2>3 DEF LaunchInv, TrayTypeOK
    <3>2. tray.at = "setup"
      BY <1>9 DEF AnswerSetup
    <3>3. Known' /\ Noted' /\ Agree'
      BY <2>1, <3>1, <3>2 DEF serviceVars, LaunchInv, Known, Noted, Agree
    <3>4. Told'
      BY <2>1, <3>1, <3>2 DEF serviceVars, LaunchInv, Told
    <3> QED BY <2>1, <3>1, <3>3, <3>4 DEF LaunchInv
  <2> QED BY <1>9, <2>2, <2>3 DEF AnswerSetup
<1> QED
  BY <1>1, <1>2, <1>3, <1>4, <1>5, <1>6, <1>7, <1>8, <1>9

\* The steps of a registration.
LEMMA RegisteringKeeps ==
  ASSUME LaunchInv, RefreshUnregisters \/ Register \/ VerifyTimesOut \/ EnsureAgent \/ CloseTray
  PROVE  LaunchInv'
<1> USE DEF Stages, BehindStatus
<1>t. /\ ServicesTypeOK
      /\ tray \in [at : Stages, from : 0..Bundles, setup : BOOLEAN,
                   note : {"none", "told", "skipped"}]
  BY DEF LaunchInv, TrayTypeOK
<1>1. ASSUME tray' = [tray EXCEPT !.at = "register"],
             tray.at \notin {"login", "run"}, ServicesTypeOK', bundle' = bundle,
             daemon' = Down
      PROVE  LaunchInv'
  <2>1. /\ tray'.at = "register" /\ tray'.from = tray.from /\ tray'.note = tray.note
        /\ TrayTypeOK'
    BY <1>1, <1>t DEF TrayTypeOK
  <2>2. daemon'.from = 0 /\ tray.from \in Nat /\ bundle.id \in Nat
    BY <1>1, <1>t DEF Down, ServicesTypeOK
  <2> QED BY <1>1, <2>1, <2>2 DEF LaunchInv, Known, Noted, Told, Agree
<1>2. ASSUME tray' = [tray EXCEPT !.at = "verify"],
             tray.at \notin {"login", "run"}, ServicesTypeOK', UNCHANGED <<bundle, daemon>>,
             reg' # "none"
      PROVE  LaunchInv'
  <2>1. /\ tray'.at = "verify" /\ tray'.from = tray.from /\ tray'.note = tray.note
        /\ TrayTypeOK'
    BY <1>2, <1>t DEF TrayTypeOK
  <2> QED BY <1>2, <2>1 DEF LaunchInv, Known, Noted, Told, Agree
<1>3. CASE RefreshUnregisters
  <2>1. CASE /\ Unregistered(FALSE) /\ UNCHANGED late
             /\ tray' = [tray EXCEPT !.at = "register"]
    <3>1. ServicesTypeOK'
      BY <1>t, <2>1, BundlesAssumption DEF Unregistered, Down, ServicesTypeOK
    <3> QED BY <1>1, <1>3, <2>1, <3>1 DEF RefreshUnregisters, Unregistered
  <2>2. CASE UNCHANGED serviceVars /\ FailureTold
    BY <2>2, <1>t, FailureKeeps DEF serviceVars, ServicesTypeOK
  <2>3. CASE UnregisterTimesOut /\ FailureTold
    BY <2>3, <1>t, FailureKeeps DEF UnregisterTimesOut
  <2> QED BY <1>3, <2>1, <2>2, <2>3 DEF RefreshUnregisters
<1>4. CASE Register
  <2>0. tray.at = "register"
    BY <1>4 DEF Register
  <2>1. CASE /\ Registered
             /\ IF reg' = "enabled" THEN tray' = [tray EXCEPT !.at = "verify"] ELSE FailureTold
    <3>1. ServicesTypeOK' /\ reg' # "none"
      BY <1>t, <2>1 DEF Registered, ServicesTypeOK
    <3>2. CASE reg' = "enabled"
      BY <1>2, <2>0, <2>1, <3>1, <3>2 DEF Registered
    <3>3. CASE reg' # "enabled"
      <4>1. CASE tray.setup
        BY <2>1, <3>1, <3>3, <4>1, QuitsKeeps DEF FailureTold, Registered
      <4>2. CASE ~tray.setup
        <5>1. /\ tray'.at = "login" /\ tray'.from = tray.from /\ tray'.note = "told"
              /\ TrayTypeOK'
          BY <2>1, <3>3, <4>2, <1>t DEF FailureTold, TrayTypeOK
        <5> QED BY <2>1, <3>1, <5>1 DEF Registered, LaunchInv, Known, Noted, Told, Agree
      <4> QED BY <4>1, <4>2
    <3> QED BY <3>2, <3>3
  <2>2. CASE UNCHANGED serviceVars /\ reg = "enabled" /\ tray' = [tray EXCEPT !.at = "verify"]
    BY <1>2, <1>t, <2>0, <2>2 DEF serviceVars, ServicesTypeOK
  <2>3. CASE UNCHANGED serviceVars /\ FailureTold
    BY <2>3, <1>t, FailureKeeps DEF serviceVars, ServicesTypeOK
  <2> QED BY <1>4, <2>1, <2>2, <2>3 DEF Register
<1>5. CASE VerifyTimesOut
  BY <1>5, <1>t, FailureKeeps DEF VerifyTimesOut, serviceVars, ServicesTypeOK
<1>6. CASE EnsureAgent
  <2>1. /\ tray.at = "login" /\ tray'.at = "run" /\ tray'.from = tray.from
        /\ tray'.note = tray.note /\ TrayTypeOK'
    BY <1>6, <1>t DEF EnsureAgent, TrayTypeOK
  <2>2. ServicesTypeOK'
    BY <1>6, <1>t DEF EnsureAgent, ServicesTypeOK
  <2> QED BY <1>6, <2>1, <2>2 DEF EnsureAgent, LaunchInv, Known, Noted, Told, Agree
<1>7. CASE CloseTray
  <2>1. ServicesTypeOK'
    BY <1>7, <1>t DEF CloseTray, ServicesTypeOK
  <2> QED BY <1>7, <2>1, QuitsKeeps DEF CloseTray, Quits
<1> QED BY <1>3, <1>4, <1>5, <1>6, <1>7

\* The steps of everybody else.
LEMMA OthersKeep ==
  ASSUME LaunchInv, UNCHANGED tray,
         \/ UNCHANGED serviceVars
         \/ ServicesNext \/ RemoveBundle \/ PutBack \/ InstallBundle
         \/ WipeSocket \/ UnregisterAgent \/ AgentStays \/ UnregisterDaemon \/ DaemonStays
  PROVE  LaunchInv'
<1> USE BundlesAssumption DEF ServicesTypeOK
<1>t. ServicesTypeOK
  BY DEF LaunchInv
<1>1. CASE UNCHANGED serviceVars
  BY <1>1, <1>t, ServiceStepKeeps DEF serviceVars
<1>2. CASE \E other \in {TRUE} : Unregistered(other) /\ late' \in BOOLEAN
  <2>0. Unregistered(TRUE)
    BY <1>2
  <2>1. UNCHANGED <<bundle, agent>> /\ daemon'.from = 0 /\ taken'
    <3>1. taken' = TRUE
      BY <2>0, Zenon DEF Unregistered
    <3> QED BY <2>0, <3>1 DEF Unregistered, Down
  <2>2. ServicesTypeOK'
    BY <1>2, <1>t, <2>1 DEF Unregistered, Down
  <2> QED BY <1>t, <2>1, <2>2, ServiceStepKeeps
<1>3. CASE UnregisterLate
  BY <1>2, <1>3 DEF UnregisterLate
<1>4. CASE UnregisterDaemon
  BY <1>1, <1>2, <1>4, <1>t DEF UnregisterDaemon
<1>5. CASE Approve \/ Disallow \/ Launch \/ Stop
  <2>1. daemon' = daemon \/ daemon' = Down
          \/ \E admin \in BOOLEAN :
               daemon' = [from |-> bundle.id, socket |-> TRUE, admin |-> admin]
    BY <1>5 DEF Approve, Disallow, Launch, Stop
  <2>2. /\ UNCHANGED <<bundle, agent, late, taken>> /\ (reg' = "none" => reg = "none")
        /\ reg' \in {"none", "enabled", "approval"}
    BY <1>5, <1>t DEF Approve, Disallow, Launch, Stop
  <2>3. daemon' = daemon \/ daemon'.from \in {0, bundle.id}
    BY <2>1 DEF Down
  <2>5. daemon' \in [from : 0..Bundles, socket : BOOLEAN, admin : BOOLEAN]
    <3>1. 0 \in 0..Bundles /\ bundle.id \in 0..Bundles
      BY <1>t
    <3>2. CASE daemon' = daemon
      BY <1>t, <3>2
    <3>3. CASE daemon' = Down
      BY <3>1, <3>3 DEF Down
    <3>4. CASE \E admin \in BOOLEAN :
                 daemon' = [from |-> bundle.id, socket |-> TRUE, admin |-> admin]
      BY <3>1, <3>4
    <3> QED BY <2>1, <3>2, <3>3, <3>4
  <2>4. ServicesTypeOK'
    BY <1>t, <2>2, <2>5
  <2> QED BY <1>t, <2>2, <2>3, <2>4, ServiceStepKeeps
<1>6. CASE RemoveBundle \/ PutBack \/ InstallBundle
  <2>1. bundle' \in [id : 1..Bundles, there : BOOLEAN] /\ bundle'.id >= bundle.id
    <3>1. CASE RemoveBundle \/ PutBack
      <4>1. PICK b \in BOOLEAN : bundle' = [bundle EXCEPT !.there = b]
        BY <3>1 DEF RemoveBundle, PutBack
      <4>2. /\ bundle \in [id : 1..Bundles, there : BOOLEAN]
            /\ bundle.id \in 1..Bundles
        BY <1>t
      <4>3. bundle'.id = bundle.id /\ bundle.id >= bundle.id
        BY <4>1, <4>2
      <4>4. bundle' \in [id : 1..Bundles, there : BOOLEAN]
        BY <4>1, <4>2
      <4> QED BY <4>3, <4>4
    <3>2. CASE InstallBundle
      <4>1. bundle' = [id |-> bundle.id + 1, there |-> TRUE] /\ bundle.id < Bundles
        BY <3>2 DEF InstallBundle
      <4>2. bundle.id + 1 \in 1..Bundles /\ bundle.id + 1 >= bundle.id
        BY <1>t, <4>1
      <4> QED BY <4>1, <4>2
    <3> QED BY <1>6, <3>1, <3>2
  <2>2. UNCHANGED <<reg, agent, daemon, late, taken>>
    BY <1>6 DEF RemoveBundle, PutBack, InstallBundle, Moved
  <2>3. ServicesTypeOK'
    BY <1>t, <2>1, <2>2
  <2> QED BY <2>1, <2>2, <2>3, ServiceStepKeeps
<1>7. CASE WipeSocket
  <2>1. /\ daemon' \in [from : 0..Bundles, socket : BOOLEAN, admin : BOOLEAN]
        /\ daemon'.from = daemon.from /\ daemon'.socket = FALSE
        /\ UNCHANGED <<bundle, reg, agent, late, taken>>
    BY <1>7, <1>t DEF WipeSocket
  <2>2. ServicesTypeOK'
    BY <1>t, <2>1
  <2> QED BY <1>t, <2>1, <2>2, ServiceStepKeeps
<1>8. CASE UnregisterAgent \/ AgentStays
  <2>1. agent' \in BOOLEAN /\ UNCHANGED <<bundle, reg, daemon, late, taken>>
    BY <1>8 DEF UnregisterAgent, AgentStays
  <2>2. ServicesTypeOK'
    BY <1>t, <2>1
  <2> QED BY <1>t, <2>1, <2>2, ServiceStepKeeps
<1>9. CASE DaemonStays
  <2>1. CASE UnregisterTimesOut
    <3>1. ServicesTypeOK' /\ UNCHANGED <<bundle, reg, daemon, taken>>
      BY <1>t, <2>1 DEF UnregisterTimesOut
    <3> QED BY <1>t, <3>1, ServiceStepKeeps
  <2> QED BY <1>1, <1>9, <2>1 DEF DaemonStays
<1> QED BY <1>1, <1>3, <1>4, <1>5, <1>6, <1>7, <1>8, <1>9 DEF ServicesNext

LEMMA LaunchNext == LaunchInv /\ [Next]_vars => LaunchInv'
<1> SUFFICES ASSUME LaunchInv, [Next]_vars PROVE LaunchInv'
  OBVIOUS
<1>1. CASE BundleMoves
  BY <1>1, OthersKeep DEF BundleMoves, Take, Bring
<1>2. CASE Tray
  BY <1>2, LookingKeeps, RegisteringKeeps DEF Tray, TrayNext, TrayStep
<1>3. CASE System
  BY <1>3, OthersKeep DEF System
<1>4. CASE Uninstaller
  BY <1>4, OthersKeep
  DEF Uninstaller, Hook, UninstallStep, UninstallerDies, Untouched, Ready, StartFails,
      SeesReplacement, SeesRemoval, Poll, WaitTimesOut, Prepared
<1>5. CASE Daemon
  BY <1>5, OthersKeep
  DEF Daemon, PrepareStep, PrepareRefused, WipeState, WipeStops, TickerSaves
<1>6. CASE UNCHANGED vars
  BY <1>6, OthersKeep DEF vars
<1> QED BY <1>1, <1>2, <1>3, <1>4, <1>5, <1>6 DEF Next

THEOREM LaunchInvariant == Spec => []LaunchInv
BY LaunchInit, LaunchNext, PTL DEF Spec

\* A tray that runs without a registration has shown an alert, unless another
\* process took the registration away.
THEOREM LossIsTold == Spec => []LostRegistrationIsTold
<1>1. LaunchInv => LostRegistrationIsTold
  BY DEF LaunchInv, Told, BehindStatus, LostRegistrationIsTold
<1> QED BY <1>1, LaunchInvariant, PTL

\* Tray and reachable daemon are of one bundle.
THEOREM VersionsAreOne == Spec => []VersionsAgree
<1>1. LaunchInv => VersionsAgree
  BY DEF LaunchInv, Agree, VersionsAgree
<1> QED BY <1>1, LaunchInvariant, PTL

-----------------------------------------------------------------------------
(* The deferred uninstaller's watch.                                       *)

LEMMA WatchInit == Init => WatchInv
<1> SUFFICES ASSUME Init PROVE WatchInv
  OBVIOUS
<1>1. /\ un = [at |-> "idle", inode |-> 0, age |-> 0, away |-> None]
      /\ prep = "none" /\ gone = 0 /\ fresh = FALSE
  BY DEF Init, UninstallInit, Idle
<1>2. 0 \in 0..Bundles /\ 0 \in 0..Deadline /\ 0 \in 0..Grace
  BY BundlesAssumption, TimesAssumption
<1>3. UninstallTypeOK
  BY <1>1, <1>2 DEF UninstallTypeOK
<1> QED BY <1>1, <1>3 DEF WatchInv, Counted

\* The record of a waiting uninstaller, by its fields.
LEMMA UnType ==
  ASSUME UninstallTypeOK
  PROVE  /\ un.inode \in 0..Bundles /\ un.age \in 0..Deadline
         /\ un.away \in {None} \cup 0..Grace
BY DEF UninstallTypeOK

\* A stage that counts nothing is entered.
LEMMA EntersKeeps ==
  ASSUME NEW step \in {"idle", "starting", "prepare", "agent", "daemon", "done"},
         Enters(step), prep' \in {"none", "sent", "wiping", "ok"}
  PROVE  WatchInv' /\ un'.at = step
<1>1. un' = [at |-> step, inode |-> 0, age |-> 0, away |-> None]
  BY DEF Enters, Idle
<1>2. gone' = 0 /\ fresh' = FALSE /\ un'.at = step /\ un'.at # "wait" /\ un'.away = None
  BY <1>1 DEF Enters
<1>3. 0 \in 0..Bundles /\ 0 \in 0..Deadline /\ 0 \in 0..Grace
  BY BundlesAssumption, TimesAssumption
<1>4. UninstallTypeOK'
  BY <1>1, <1>2, <1>3 DEF UninstallTypeOK
<1>5. Counted'
  BY <1>2 DEF Counted
<1> QED BY <1>2, <1>4, <1>5 DEF WatchInv

\* The uninstaller and the bundle are left alone.
LEMMA WatchStays ==
  ASSUME WatchInv, UNCHANGED <<un, gone, fresh, bundle>>,
         prep' \in {"none", "sent", "wiping", "ok"}
  PROVE  WatchInv'
BY DEF WatchInv, UninstallTypeOK, Counted

\* The bundle goes, or one comes.
LEMMA WatchedMoves ==
  ASSUME WatchInv, LaunchInv, BundleMoves
  PROVE  WatchInv'
<1>1. gone' = 0 /\ UNCHANGED <<un, prep>>
  BY DEF BundleMoves, Take, Bring
<1>2. CASE Take
  <2>1. bundle.there /\ ~fresh /\ fresh' = fresh /\ bundle' = [bundle EXCEPT !.there = FALSE]
    BY <1>2 DEF Take, RemoveBundle
  <2>2. ~bundle'.there
    BY <2>1 DEF LaunchInv, ServicesTypeOK
  <2> QED BY <1>1, <2>1, <2>2, TimesAssumption DEF WatchInv, UninstallTypeOK, Counted
<1>3. CASE Bring
  <2>1. fresh' = (un.at = "wait")
    BY <1>3 DEF Bring
  <2>2. bundle'.there
    BY <1>3 DEF Bring, PutBack, InstallBundle, LaunchInv, ServicesTypeOK
  <2>3. fresh' \in BOOLEAN
    BY <2>1, Zenon
  <2>4. UninstallTypeOK'
    BY <1>1, <2>3, TimesAssumption DEF WatchInv, UninstallTypeOK
  <2>5. fresh' <=> un.at = "wait"
    BY <2>1, Zenon
  <2> QED BY <1>1, <2>2, <2>4, <2>5 DEF WatchInv, Counted
<1> QED BY <1>2, <1>3 DEF BundleMoves

\* What a waiting uninstaller takes for the time since the bundle left is that
\* time.
LEMMA AwayIsGone ==
  ASSUME WatchInv, un.at = "wait"
  PROVE  /\ ~bundle.there => Away = gone
         /\ bundle.there => Away = None /\ gone = 0
         /\ gone \in 0..Grace
BY UnType DEF WatchInv, Counted, UninstallTypeOK, Away, None

LEMMA PollKeeps ==
  ASSUME WatchInv, LaunchInv, Poll
  PROVE  WatchInv'
<1>1. /\ un.at = "wait" /\ Away # Grace /\ un.age < Deadline
      /\ un' = [un EXCEPT !.age = @ + 1, !.away = Elapsed(Away)]
      /\ gone' = IF bundle.there \/ gone = Grace THEN gone ELSE gone + 1
      /\ fresh' = FALSE /\ bundle' = bundle /\ prep' = prep
  BY DEF Poll, NotYet, Untouched, serviceVars
<1>2. bundle.there => Elapsed(Away) = None /\ gone' = 0
  BY <1>1, AwayIsGone DEF Elapsed
<1>3. ~bundle.there =>
        Elapsed(Away) = gone + 1 /\ gone' = gone + 1 /\ gone + 1 \in 0..Grace
  BY <1>1, AwayIsGone, TimesAssumption DEF Elapsed, None
<1>4. UninstallTypeOK'
  <2>1. un.age + 1 \in 0..Deadline
    BY <1>1, UnType, TimesAssumption DEF WatchInv
  <2>2. Elapsed(Away) \in {None} \cup 0..Grace /\ gone' \in 0..Grace
    BY <1>2, <1>3, TimesAssumption
  <2> QED BY <1>1, <2>1, <2>2 DEF WatchInv, UninstallTypeOK
<1>5. un'.at = "wait" /\ un'.away = Elapsed(Away)
  BY <1>1 DEF WatchInv, UninstallTypeOK
<1>6. ~bundle.there => un'.away # None /\ gone' = un'.away
  BY <1>3, <1>5, TimesAssumption DEF None
<1> QED BY <1>1, <1>2, <1>4, <1>5, <1>6 DEF WatchInv, Counted

LEMMA WatchNext == WatchInv /\ LaunchInv /\ [Next]_vars => WatchInv'
<1> SUFFICES ASSUME WatchInv, LaunchInv, [Next]_vars PROVE WatchInv'
  OBVIOUS
<1>t. prep \in {"none", "sent", "wiping", "ok"}
  BY DEF WatchInv, UninstallTypeOK
<1>e. ASSUME EndsWithDaemon PROVE prep' \in {"none", "sent", "wiping", "ok"}
  BY <1>e, <1>t DEF EndsWithDaemon
<1>1. CASE BundleMoves
  BY <1>1, WatchedMoves
<1>2. CASE Tray \/ System
  <2>1. UNCHANGED bundle
    BY <1>2
    DEF Tray, System, TrayNext, TrayStep, OpenTray, CloseTray, ReadStatus, ProbeSocket,
        ProbeAdmin, VersionUnknown, VersionMatches, VersionDiffers, ReadStatusAgain,
        AnswerRepair, AnswerSetup, RefreshUnregisters, Register, Verified,
        VerifyTimesOut, EnsureAgent, Goes, GoesOn, Unregistered, UnregisterTimesOut,
        Registered, serviceVars, ServicesNext, UnregisterLate, Approve, Disallow,
        Launch, Stop
  <2> QED BY <1>2, <1>e, <2>1, WatchStays DEF Tray, System
<1>3. CASE Uninstaller
  <2>1. CASE Ready
    <3>1. /\ un' = [un EXCEPT !.at = "wait", !.inode = bundle.id] /\ un.at = "starting"
          /\ UNCHANGED <<gone, fresh, bundle, prep>> /\ bundle.there
      BY <2>1 DEF Ready, Untouched, serviceVars
    <3>2. bundle.id \in 0..Bundles
      BY BundlesAssumption DEF LaunchInv, ServicesTypeOK
    <3>3. UninstallTypeOK'
      BY <3>1, <3>2 DEF WatchInv, UninstallTypeOK
    <3>4. un'.away = un.away
      BY <3>1 DEF WatchInv, UninstallTypeOK
    <3> QED BY <3>1, <3>3, <3>4 DEF WatchInv, Counted
  <2>2. CASE Poll
    BY <2>2, PollKeeps
  <2>3. CASE \/ Hook \/ StartFails \/ SeesReplacement \/ SeesRemoval \/ WaitTimesOut
             \/ Prepared \/ UnregisterAgent \/ AgentStays \/ UnregisterDaemon
             \/ DaemonStays \/ UninstallerDies
    BY <2>3, <1>t, <1>e, EntersKeeps
    DEF Hook, StartFails, SeesReplacement, SeesRemoval, WaitTimesOut, Prepared,
        UnregisterAgent, AgentStays, UnregisterDaemon, DaemonStays, UninstallerDies,
        Untouched
  <2> QED BY <1>3, <2>1, <2>2, <2>3 DEF Uninstaller, UninstallStep
<1>4. CASE Daemon
  <2>1. UNCHANGED <<un, gone, fresh, bundle>> /\ prep' \in {prep, "none", "wiping", "ok"}
    BY <1>4
    DEF Daemon, PrepareStep, PrepareRefused, WipeSocket, WipeState, WipeStops,
        TickerSaves, serviceVars, uninstallVars
  <2> QED BY <1>t, <2>1, WatchStays
<1>5. CASE UNCHANGED vars
  BY <1>5, <1>t, WatchStays DEF vars, serviceVars, uninstallVars
<1> QED BY <1>1, <1>2, <1>3, <1>4, <1>5 DEF Next

THEOREM WatchInvariant == Spec => []WatchInv
BY WatchInit, WatchNext, LaunchInvariant, PTL DEF Spec

\* Only the sight of a removal takes the uninstaller from waiting to work.
LEMMA WorksOnSight ==
  ASSUME WatchInv, [Next]_vars, un.at = "wait", un'.at = "prepare"
  PROVE  SeesRemoval
<1>1. un' # un
  OBVIOUS
<1>2. Uninstaller
  BY <1>1 DEF Next, BundleMoves, Tray, System, Daemon, PrepareStep, PrepareRefused,
              WipeSocket, WipeState, WipeStops, TickerSaves, vars, uninstallVars
<1>3. CASE Poll
  <2>1. un'.at = un.at
    BY <1>3 DEF Poll, WatchInv, UninstallTypeOK
  <2> QED BY <2>1
<1>4. CASE SeesReplacement \/ WaitTimesOut \/ UninstallerDies
  BY <1>4 DEF SeesReplacement, WaitTimesOut, UninstallerDies, Enters, Idle
<1> QED BY <1>2, <1>3, <1>4
        DEF Uninstaller, UninstallStep, Hook, Ready, StartFails, Prepared,
            UnregisterAgent, AgentStays, UnregisterDaemon, DaemonStays

\* The uninstaller acts on a removal and on nothing else.
THEOREM OnlyRemovals == Spec => ActsOnRemoval
<1>1. ASSUME WatchInv, [Next]_vars, un.at = "wait", un'.at = "prepare"
      PROVE  ~bundle.there /\ gone = Grace
  <2>1. Away = Grace
    BY <1>1, WorksOnSight DEF SeesRemoval
  <2> QED BY <1>1, <2>1, AwayIsGone, TimesAssumption DEF None
<1>2. ASSUME WatchInv, WaitTimesOut PROVE gone < Grace
  <2>1. un.at = "wait" /\ Away # Grace
    BY <1>2 DEF WaitTimesOut
  <2> QED BY <1>2, <2>1, AwayIsGone, TimesAssumption
<1>3. WatchInv /\ [Next]_vars =>
        [ /\ un.at = "wait" /\ un'.at = "prepare" => ~bundle.there /\ gone = Grace
          /\ WaitTimesOut => gone < Grace ]_vars
  BY <1>1, <1>2
<1> QED BY <1>3, WatchInvariant, PTL DEF Spec, ActsOnRemoval

-----------------------------------------------------------------------------
(* The state file.                                                         *)

\* What a sole writer knows of its temporary file: empty until written, then
\* its body, unless the directory was removed under it.
SoleInv ==
  /\ FileTypeOK
  /\ \A w \in Writers :
       /\ stage[w] = "idle" <=> body[w] = Absent
       /\ stage[w] = "write" => \/ fd[w] = "tmp" /\ tmp = Empty
                                \/ fd[w] = "gone" /\ tmp = Absent
       /\ stage[w] # "write" => fd[w] = "none"
       /\ stage[w] = "rename" => tmp \in {body[w], Absent}

LEMMA SoleInvInit == FileInit => SoleInv
BY DEF FileInit, NoCalls, SoleInv, FileTypeOK, Contents

LEMMA SoleInvNext ==
  ASSUME NEW w0, Writers = {w0}, SoleInv, [FileNext]_fileVars
  PROVE  SoleInv'
<1> USE ContentAssumption DEF SoleInv, FileTypeOK, Contents
<1>1. ASSUME NEW w \in Writers, NEW b \in Bodies, SaveBegin(w, b) PROVE SoleInv'
  BY <1>1 DEF SaveBegin
<1>2. ASSUME NEW w \in Writers, SaveOpen(w) PROVE SoleInv'
  BY <1>2 DEF SaveOpen
<1>3. ASSUME NEW w \in Writers, SaveWrite(w) PROVE SoleInv'
  <2>1. disk' = disk /\ tmp' \in {body[w], Absent}
    BY <1>3 DEF SaveWrite, Written
  <2>2. tmp' \in Contents
    BY <2>1
  <2> QED BY <1>3, <2>1, <2>2 DEF SaveWrite
<1>4. ASSUME NEW w \in Writers, SaveRename(w) PROVE SoleInv'
  <2>1. fd' = [v \in Writers |-> "none"]
    BY <1>4 DEF SaveRename
  <2> QED BY <1>4, <2>1 DEF SaveRename, Return
<1>5. ASSUME NEW w \in Writers, SaveError(w) PROVE SoleInv'
  <2>1. tmp' \in Contents /\ disk' = disk
    BY <1>5 DEF SaveError, Partly
  <2>2. stage' = [v \in Writers |-> "idle"] /\ body' = [v \in Writers |-> Absent]
        /\ fd' = [v \in Writers |-> "none"] /\ dir' \in BOOLEAN
    BY <1>5 DEF SaveError, Return
  <2> QED BY <2>1, <2>2
<1>6. CASE FileCrash
  BY <1>6 DEF FileCrash
<1>7. CASE RemoveStateDir
  BY <1>7 DEF RemoveStateDir
<1>8. CASE UNCHANGED fileVars
  BY <1>8 DEF fileVars
<1> QED BY <1>1, <1>2, <1>3, <1>4, <1>5, <1>6, <1>7, <1>8 DEF FileNext, SaveStep

\* The call in progress, when there is one writer.
LEMMA SolePending ==
  ASSUME NEW w0, Writers = {w0}
  PROVE  Pending = IF stage[w0] # "idle" THEN body[w0] ELSE Absent
BY DEF Pending, Saving

LEMMA SolePendingNext ==
  ASSUME NEW w0, Writers = {w0}
  PROVE  Pending' = IF stage'[w0] # "idle" THEN body'[w0] ELSE Absent
BY DEF Pending, Saving

\* Every step of save_atomic is a step of AtomicReplace: the rename commits, an
\* error or a crash abandons, opening and writing the temporary file change
\* nothing that can be seen.
LEMMA SoleStep ==
  ASSUME NEW w0, Writers = {w0}, SoleInv, [FileNext]_fileVars
  PROVE  [Abstract!Next]_(Abstract!vars)
<1> USE DEF Abstract!Next, Abstract!vars
<1>1. CASE \E w \in Writers, b \in Bodies : SaveBegin(w, b)
  <2>1. PICK b \in Bodies : SaveBegin(w0, b)
    BY <1>1
  <2>2. Pending = Absent /\ Pending' = b /\ disk' = disk
    BY <2>1, SolePending, SolePendingNext DEF SaveBegin, SoleInv, FileTypeOK
  <2> QED BY <2>2 DEF Abstract!Call
<1>2. CASE \E w \in Writers : SaveOpen(w) \/ SaveWrite(w)
  <2>1. Pending' = Pending
    BY <1>2, SolePending, SolePendingNext DEF SaveOpen, SaveWrite, SoleInv, FileTypeOK
  <2>2. disk' = disk
    BY <1>2 DEF SaveOpen, SaveWrite, SoleInv
  <2> QED BY <2>1, <2>2
<1>3. CASE \E w \in Writers : SaveRename(w)
  <2>1. Pending = body[w0] /\ Pending' = Absent /\ disk' = body[w0]
    BY <1>3, SolePending, SolePendingNext DEF SaveRename, Return, SoleInv, FileTypeOK
  <2>2. body[w0] # Absent
    BY <1>3 DEF SaveRename, SoleInv
  <2> QED BY <2>1, <2>2 DEF Abstract!Commit
<1>4. CASE \E w \in Writers : SaveError(w)
  <2>1. Pending # Absent /\ Pending' = Absent /\ disk' = disk
    BY <1>4, SolePending, SolePendingNext
    DEF SaveError, Partly, Saving, Return, SoleInv, FileTypeOK
  <2> QED BY <2>1 DEF Abstract!Abandon
<1>5. CASE FileCrash
  <2>1. Pending' = Absent /\ disk' = disk
    BY <1>5, SolePendingNext DEF FileCrash
  <2> QED BY <2>1 DEF Abstract!Abandon
<1>6. CASE RemoveStateDir
  <2>1. Pending' = Pending /\ disk' = Absent
    BY <1>6, SolePending, SolePendingNext DEF RemoveStateDir
  <2> QED BY <2>1 DEF Abstract!Remove
<1>7. CASE UNCHANGED fileVars
  <2>1. Pending' = Pending /\ disk' = disk
    BY <1>7, SolePending, SolePendingNext DEF fileVars
  <2> QED BY <2>1
<1> QED BY <1>1, <1>2, <1>3, <1>4, <1>5, <1>6, <1>7 DEF FileNext, SaveStep

\* With one task saving, the state file is replaced atomically.
THEOREM SoleWriterAtomic ==
  ASSUME NEW CONSTANT w0, Writers = {w0}
  PROVE  FileSpec => AbstractSpec
<1>1. FileInit => Abstract!Init
  BY SolePending DEF FileInit, NoCalls, Abstract!Init
<1>2. SoleInv /\ [FileNext]_fileVars => SoleInv'
  BY SoleInvNext
<1>3. SoleInv /\ [FileNext]_fileVars => [Abstract!Next]_(Abstract!vars)
  BY SoleStep
<1> QED BY <1>1, <1>2, <1>3, SoleInvInit, PTL DEF FileSpec, AbstractSpec, Abstract!Spec

LEMMA WrittenContents ==
  ASSUME NEW old \in Contents, NEW b \in Bodies \cup {Absent}
  PROVE  Written(old, b) \subseteq Contents
BY DEF Written, Contents

LEMMA FileTypeInit == FileInit => FileTypeOK
BY DEF FileInit, NoCalls, FileTypeOK, Contents

LEMMA FileTypeNext ==
  ASSUME FileTypeOK, [FileNext]_fileVars \/ WipeStops
  PROVE  FileTypeOK'
<1>1. ASSUME NEW w \in Writers, NEW b \in Bodies, SaveBegin(w, b) PROVE FileTypeOK'
  BY <1>1 DEF SaveBegin, FileTypeOK
<1>2. ASSUME NEW w \in Writers, SaveOpen(w) PROVE FileTypeOK'
  BY <1>2 DEF SaveOpen, FileTypeOK, Contents
<1>3. ASSUME NEW w \in Writers, SaveWrite(w) PROVE FileTypeOK'
  <2>1. tmp' \in Contents /\ disk' \in Contents
    BY <1>3, WrittenContents DEF SaveWrite, FileTypeOK
  <2> QED BY <1>3, <2>1 DEF SaveWrite, FileTypeOK
<1>4. ASSUME NEW w \in Writers, SaveRename(w) PROVE FileTypeOK'
  BY <1>4 DEF SaveRename, Return, FileTypeOK, Contents
<1>5. ASSUME NEW w \in Writers, SaveError(w) PROVE FileTypeOK'
  <2>1. tmp' \in Contents /\ disk' \in Contents
    BY <1>5 DEF SaveError, Partly, FileTypeOK, Contents
  <2> QED BY <1>5, <2>1 DEF SaveError, Return, FileTypeOK
<1>6. CASE FileCrash
  BY <1>6 DEF FileCrash, FileTypeOK
<1>7. CASE RemoveStateDir
  BY <1>7 DEF RemoveStateDir, FileTypeOK, Contents
<1>8. CASE WipeStops
  <2>1. fd' \in [Writers -> {"none", "tmp", "state", "gone"}]
    BY <1>8 DEF WipeStops, FileTypeOK
  <2>2. tmp' \in Contents /\ disk' \in Contents /\ UNCHANGED <<dir, stage, body>>
    BY <1>8 DEF WipeStops, FileTypeOK, Contents
  <2> QED BY <2>1, <2>2 DEF FileTypeOK
<1>9. CASE UNCHANGED fileVars
  BY <1>9 DEF fileVars, FileTypeOK
<1> QED BY <1>1, <1>2, <1>3, <1>4, <1>5, <1>6, <1>7, <1>8, <1>9 DEF FileNext, SaveStep

\* Whoever steps, the file sees a step of its own module or a wipe cut short.
LEMMA FileMoves ==
  ASSUME [Next]_vars
  PROVE  [FileNext]_fileVars \/ WipeStops
<1>1. CASE BundleMoves \/ UNCHANGED vars
  BY <1>1 DEF BundleMoves, vars
<1>e. ASSUME EndsWithDaemon PROVE FileCrash \/ UNCHANGED fileVars
  BY <1>e DEF EndsWithDaemon
<1>2. CASE Tray \/ System
  BY <1>2, <1>e DEF Tray, System, FileNext
<1>3. CASE Uninstaller
  <2>1. UNCHANGED fileVars \/ EndsWithDaemon
    BY <1>3
    DEF Uninstaller, UninstallStep, UninstallerDies, Hook, Ready, StartFails,
        SeesReplacement, SeesRemoval, Poll, WaitTimesOut, Prepared, UnregisterAgent,
        AgentStays, UnregisterDaemon, DaemonStays, Untouched
  <2> QED BY <1>e, <2>1 DEF FileNext
<1>4. CASE Daemon
  BY <1>4 DEF Daemon, PrepareStep, PrepareRefused, WipeSocket, WipeState, TickerSaves,
              FileNext
<1> QED BY <1>1, <1>2, <1>3, <1>4 DEF Next

\* Types, whoever steps.
THEOREM LifecycleTypes == Spec => []TypeOK
<1>1. Init => FileTypeOK
  BY FileTypeInit DEF Init
<1>2. FileTypeOK /\ [Next]_vars => FileTypeOK'
  BY FileMoves, FileTypeNext
<1>3. Spec => []FileTypeOK
  BY <1>1, <1>2, PTL DEF Spec
<1>4. LaunchInv /\ WatchInv /\ FileTypeOK => TypeOK
  BY DEF LaunchInv, WatchInv, TypeOK
<1> QED BY <1>3, <1>4, LaunchInvariant, WatchInvariant, PTL

\* A wipe cut short takes the file, or it does not.
LEMMA SoleWipeStops ==
  ASSUME NEW w0, Writers = {w0}, SoleInv, WipeStops
  PROVE  SoleInv' /\ [Abstract!Next]_(Abstract!vars)
<1>1. /\ disk' \in {disk, Absent} /\ UNCHANGED <<dir, stage, body>>
      /\ \/ UNCHANGED <<tmp, fd>>
         \/ tmp' = Absent /\ fd' = [w \in Writers |-> IF fd[w] = "tmp" THEN "gone" ELSE fd[w]]
  BY DEF WipeStops
<1>2. SoleInv'
  <2>1. FileTypeOK'
    BY FileTypeNext DEF SoleInv
  <2> QED BY <1>1, <2>1, ContentAssumption DEF SoleInv, FileTypeOK
<1>3. Pending' = Pending
  BY <1>1, SolePending, SolePendingNext
<1> QED BY <1>1, <1>2, <1>3 DEF Abstract!Next, Abstract!vars, Abstract!Remove

\* With one task saving, the state file stays an atomic cell under the removal
\* of its directory, complete or cut short, and under every end of the daemon.
THEOREM WipedAtomically ==
  ASSUME NEW CONSTANT w0, Writers = {w0}
  PROVE  Spec => AbstractSpec
<1>1. Init => SoleInv /\ Abstract!Init
  <2>1. FileInit => Abstract!Init
    BY SolePending DEF FileInit, NoCalls, Abstract!Init
  <2> QED BY <2>1, SoleInvInit DEF Init
<1>2. SoleInv /\ [Next]_vars => SoleInv' /\ [Abstract!Next]_(Abstract!vars)
  BY FileMoves, SoleInvNext, SoleStep, SoleWipeStops
<1> QED BY <1>1, <1>2, PTL DEF Spec, AbstractSpec, Abstract!Spec
=============================================================================
