----------------------------- MODULE Lifecycle -----------------------------
(***************************************************************************)
(* The life of an installation: the tray's launch (TrayLaunch), the        *)
(* deferred uninstaller (DeferredUninstall), the daemon with its ticker,   *)
(* launchd and ServiceManagement (Services), and Homebrew or an operator   *)
(* who moves bundles, side by side.                                        *)
(***************************************************************************)
EXTENDS TrayLaunch, DeferredUninstall

vars == <<serviceVars, tray, uninstallVars, fileVars>>

Init == ServicesInit /\ tray = Closed /\ UninstallInit /\ FileInit

-----------------------------------------------------------------------------
\* A bundle that comes to the path stays there until the uninstaller has looked.
Take == RemoveBundle /\ ~fresh /\ gone' = 0 /\ UNCHANGED fresh

Bring == (PutBack \/ InstallBundle) /\ gone' = 0 /\ fresh' = (un.at = "wait")

BundleMoves == (Take \/ Bring) /\ UNCHANGED <<un, prep, tray, fileVars>>

Tray == TrayNext /\ EndsWithDaemon /\ UNCHANGED <<un, gone, fresh>>

System == ServicesNext /\ EndsWithDaemon /\ UNCHANGED <<tray, un, gone, fresh>>

Uninstaller == (Hook \/ UninstallStep \/ UninstallerDies) /\ UNCHANGED tray

Daemon == (PrepareStep \/ TickerSaves) /\ UNCHANGED tray

Next == BundleMoves \/ Tray \/ System \/ Uninstaller \/ Daemon

Spec == Init /\ [][Next]_vars

-----------------------------------------------------------------------------
(* Properties.                                                             *)

TypeOK == ServicesTypeOK /\ TrayTypeOK /\ UninstallTypeOK /\ FileTypeOK

\* The uninstaller acts on a removal and on nothing else: it goes to work only
\* when the path has been empty for the whole grace period since a bundle was
\* last there, and gives up waiting only when it has not (tray.rs:355).
ActsOnRemoval ==
  [][ /\ un.at = "wait" /\ un'.at = "prepare" => ~bundle.there /\ gone = Grace
      /\ WaitTimesOut => gone < Grace ]_vars

\* What README.md says of state.json: it "is wiped on uninstall".  Once the
\* daemon has answered that state is removed, the uninstaller has unregistered
\* the services and no daemon runs, no counters are left.
WipedOnUninstall ==
  un.at = "done" /\ prep = "ok" /\ reg = "none" /\ daemon = Down => disk = Absent
=============================================================================
