----------------------------- MODULE TrayLaunch -----------------------------
(***************************************************************************)
(* How the tray starts (crates/tray/src/bin/tray.rs, `main` and mod        *)
(* install): it classifies the daemon's lifecycle state with three looks   *)
(* at different moments, then sets the service up, repairs it, refreshes   *)
(* it when the daemon is of another version, or leaves it alone; it makes  *)
(* sure of the agent and runs.  acquire_instance_lock makes it the only    *)
(* tray.                                                                   *)
(*                                                                         *)
(* A dialog, a request over XPC or a wait is a stage of `tray.at`; what is *)
(* read before it may have changed after it.                               *)
(***************************************************************************)
EXTENDS Services

VARIABLE tray  \* at: stage; from: its bundle; setup: it installs, it does not
               \* repair; note: "told" if an alert reported a failure, "skipped"
               \* if a check or the repair was given up with a line in the log

Closed == [at |-> "closed", from |-> 0, setup |-> FALSE, note |-> "none"]

Stages == {"closed", "status", "socket", "admin", "version", "setup", "repair",
           "confirm", "unregister", "register", "verify", "login", "run"}

TrayTypeOK ==
  tray \in [at : Stages, from : 0..Bundles, setup : BOOLEAN,
            note : {"none", "told", "skipped"}]

\* The next stage; services are only looked at.
Goes(step) == tray' = [tray EXCEPT !.at = step] /\ UNCHANGED serviceVars

\* maybe_run_admin_control_repair and maybe_refresh_daemon_version return to
\* `main`, which goes on whatever came of them.
GoesOn(note) ==
  /\ tray' = [tray EXCEPT !.at = "login", !.setup = FALSE, !.note = note]
  /\ UNCHANGED serviceVars

Quits == tray' = Closed

\* Mutated form: a failed refresh is only logged.
FailureLogged ==
  tray' = IF tray.setup THEN Closed ELSE [tray EXCEPT !.at = "login", !.note = "skipped"]

\* An alert; then a first launch quits, and after a repair the launch goes on.
FailureTold ==
  tray' = IF tray.setup THEN Closed ELSE [tray EXCEPT !.at = "login", !.note = "told"]

-----------------------------------------------------------------------------
(* daemon_lifecycle_state.                                                 *)

OpenTray ==
  /\ tray = Closed /\ bundle.there
  /\ tray' = [Closed EXCEPT !.at = "status", !.from = bundle.id]
  /\ UNCHANGED serviceVars

\* An error of ServiceManagement counts as not registered.
ReadStatus ==
  /\ tray.at = "status"
  /\ \/ reg = "enabled" /\ Goes("socket")
     \/ Goes("setup")

\* EnabledMissingSocket: a warning in the log.
ProbeSocket ==
  /\ tray.at = "socket"
  /\ IF daemon.socket THEN Goes("admin") ELSE GoesOn("none")

\* admin_control_reachable: three attempts of a second each may all fail.
ProbeAdmin ==
  /\ tray.at = "admin"
  /\ \/ daemon.admin /\ Goes("version")
     \/ Goes("repair")

-----------------------------------------------------------------------------
(* maybe_refresh_daemon_version.                                           *)

\* Mutated form: any version will do.
AnyVersion == daemon.from # 0

SameVersion == daemon.from = tray.from

\* Unauthorized, an unexpected answer, none within 2 s, or the bundle is gone.
VersionUnknown == tray.at = "version" /\ GoesOn("skipped")

VersionMatches == tray.at = "version" /\ daemon.admin /\ SameVersion /\ GoesOn("none")

VersionDiffers ==
  tray.at = "version" /\ daemon.admin /\ ~SameVersion /\ bundle.there /\ Goes("unregister")

-----------------------------------------------------------------------------
(* maybe_run_admin_control_repair and run_admin_control_repair.            *)

\* The status is read again.  Only an administrator is asked.
ReadStatusAgain ==
  /\ tray.at = "repair"
  /\ \/ reg = "approval" /\ GoesOn("told")
     \/ reg = "enabled" /\ Goes("confirm")
     \/ GoesOn("skipped")

\* "Later", "Repair...", or the bundle cannot be found.
AnswerRepair ==
  /\ tray.at = "confirm"
  /\ \/ GoesOn("skipped")
     \/ bundle.there /\ Goes("unregister")
     \/ ~bundle.there /\ GoesOn("told")

\* run_first_launch_install: "Quit", "Set Up...", or the bundle cannot be found.
AnswerSetup ==
  /\ tray.at = "setup"
  /\ \/ Quits
     \/ bundle.there /\ tray' = [tray EXCEPT !.at = "register", !.setup = TRUE]
  /\ UNCHANGED serviceVars

-----------------------------------------------------------------------------
(* refresh_and_verify_daemon and register_and_verify_daemon.               *)

RefreshUnregisters ==
  /\ tray.at = "unregister"
  /\ \/ /\ Unregistered(FALSE) /\ UNCHANGED late
        /\ tray' = [tray EXCEPT !.at = "register"]
     \/ UNCHANGED serviceVars /\ FailureTold
     \/ UnregisterTimesOut /\ FailureTold

\* register_service reads the status once more: after an error it decides
\* whether there was one.
Register ==
  /\ tray.at = "register"
  /\ \/ /\ Registered
        /\ IF reg' = "enabled" THEN tray' = [tray EXCEPT !.at = "verify"] ELSE FailureTold
     \/ UNCHANGED serviceVars /\ reg = "enabled" /\ tray' = [tray EXCEPT !.at = "verify"]
     \/ UNCHANGED serviceVars /\ reg # "enabled" /\ FailureTold

\* Socket, admin endpoint and version are looked at until all are right...
Verified ==
  /\ tray.at = "verify" /\ daemon.socket /\ daemon.admin /\ SameVersion
  /\ GoesOn("none")

\* ... or 15 s have passed.
VerifyTimesOut == tray.at = "verify" /\ FailureTold /\ UNCHANGED serviceVars

-----------------------------------------------------------------------------
\* ensure_user_agent: whatever comes of it, the tray runs.
EnsureAgent ==
  /\ tray.at = "login"
  /\ tray' = [tray EXCEPT !.at = "run"]
  /\ agent' \in IF bundle.there THEN {agent, TRUE} ELSE {agent}
  /\ UNCHANGED <<bundle, reg, daemon, late, taken>>

\* Quit from the menu, or killed at any stage, with an unregistration under way
\* perhaps.
CloseTray ==
  /\ tray # Closed /\ Quits
  /\ late' \in IF tray.at = "unregister" THEN {late, TRUE} ELSE {late}
  /\ UNCHANGED <<bundle, reg, agent, daemon, taken>>

TrayStep ==
  \/ ReadStatus \/ ProbeSocket \/ ProbeAdmin
  \/ VersionUnknown \/ VersionMatches \/ VersionDiffers
  \/ ReadStatusAgain \/ AnswerRepair \/ AnswerSetup
  \/ RefreshUnregisters \/ Register \/ Verified \/ VerifyTimesOut \/ EnsureAgent

TrayNext == OpenTray \/ TrayStep \/ CloseTray

-----------------------------------------------------------------------------
(* Properties.                                                             *)

\* A refresh that loses the registration does not go unseen: a tray that runs
\* without one has shown an alert, unless somebody else took it away.  It is
\* about the launch that goes on after a repair that failed between its two
\* halves (tray.rs:1305, 1690).
LostRegistrationIsTold ==
  tray.at = "run" /\ reg = "none" => taken \/ tray.note = "told"

\* After an upgrade the daemon follows: where the tray of the bundle at the
\* path runs, showed no alert and gave up on no check, a daemon that can be
\* reached is of the same bundle, whatever was removed, replaced, restarted or
\* registered between the looks of its launch (tray.rs:1588).
VersionsAgree ==
  tray.at = "run" /\ tray.note = "none" /\ tray.from = bundle.id =>
    daemon.from \in {0, bundle.id} \/ ~daemon.socket
=============================================================================
