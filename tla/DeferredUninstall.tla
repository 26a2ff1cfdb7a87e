------------------------- MODULE DeferredUninstall -------------------------
(***************************************************************************)
(* The deferred uninstaller (crates/tray/src/bin/tray.rs): Homebrew runs   *)
(* its uninstall hook for upgrades too, so `--schedule-uninstall-services` *)
(* starts a process that watches the path of the bundle, takes services    *)
(* and state away when the bundle stays gone, and keeps them when another  *)
(* bundle appears.  It asks the daemon to remove the state                 *)
(* (PrepareUninstall, crates/daemon/src/control/mod.rs) while the ticker   *)
(* goes on saving it (StateFile, with the ticker for its only writer).     *)
(*                                                                         *)
(* Time is counted in polls: the process looks once every 250 ms.          *)
(***************************************************************************)
EXTENDS Services, StateFile

CONSTANTS Grace,    \* polls until a missing bundle counts as removed (20 s)
          Deadline  \* polls until it stops waiting (120 s)

ASSUME TimesAssumption ==
  Grace \in Nat \ {0} /\ Deadline \in Nat /\ Grace < Deadline

VARIABLES
  un,   \* the uninstaller: stage, inode it recorded, polls since it began to
        \* wait, polls since it found the bundle missing (None: it has not)
  prep, \* its PrepareUninstall request: none, sent, wiping; ok: carried out
        \* while the uninstaller waited for it
  gone, \* history: polls since the bundle left its path
  fresh \* history: a bundle came to the path since the last poll

None == -1
Idle == [at |-> "idle", inode |-> 0, age |-> 0, away |-> None]

uninstallVars == <<un, prep, gone, fresh>>

UninstallTypeOK ==
  /\ un \in [at : {"idle", "starting", "wait", "prepare", "agent", "daemon", "done"},
             inode : 0..Bundles, age : 0..Deadline, away : {None} \cup 0..Grace]
  /\ prep \in {"none", "sent", "wiping", "ok"}
  /\ gone \in 0..Grace /\ fresh \in BOOLEAN

UninstallInit == un = Idle /\ prep = "none" /\ gone = 0 /\ fresh = FALSE

\* The next stage; outside of `wait` nothing is counted.
Enters(step) == un' = [Idle EXCEPT !.at = step] /\ gone' = 0 /\ fresh' = FALSE
Untouched == UNCHANGED <<serviceVars, prep, fileVars>>

-----------------------------------------------------------------------------
(* schedule_uninstall_services and the start of its child.                 *)

Hook ==
  /\ un.at \in {"idle", "done"} /\ prep \in {"none", "ok"}
  /\ Enters("starting") /\ prep' = "none"
  /\ UNCHANGED <<serviceVars, fileVars>>

\* The inode is recorded before the hook is told: Homebrew waits for it.
Ready ==
  /\ un.at = "starting" /\ bundle.there
  /\ un' = [un EXCEPT !.at = "wait", !.inode = bundle.id]
  /\ UNCHANGED <<gone, fresh>> /\ Untouched

\* The bundle is not there, or 5 s have passed and the hook kills its child.
StartFails == un.at = "starting" /\ Enters("idle") /\ Untouched

-----------------------------------------------------------------------------
(* wait_for_bundle_removal.                                                *)

\* Mutated form: a bundle that comes back does not count.
AwayForGood == IF un.away # None THEN un.away ELSE IF bundle.there THEN None ELSE 0

\* missing_since, after observe_bundle.
Away == CASE bundle.there -> None
          [] ~bundle.there /\ un.away = None -> 0
          [] OTHER -> un.away

Elapsed(n) == IF n = None THEN None ELSE n + 1

Replaced == bundle.there /\ bundle.id # un.inode

SeesReplacement == un.at = "wait" /\ Replaced /\ Enters("idle") /\ Untouched

SeesRemoval ==
  /\ un.at = "wait" /\ ~Replaced /\ Away = Grace
  /\ Enters("prepare") /\ prep' = "sent"
  /\ UNCHANGED <<serviceVars, fileVars>>

\* Mutated form: it waits as long as it takes.
InTime == TRUE

NotYet == un.age < Deadline

\* Nothing to be done: it sleeps until the next poll.
Poll ==
  /\ un.at = "wait" /\ ~Replaced /\ Away # Grace /\ NotYet
  /\ un' = [un EXCEPT !.age = @ + 1, !.away = Elapsed(Away)]
  /\ gone' = IF bundle.there \/ gone = Grace THEN gone ELSE gone + 1
  /\ fresh' = FALSE
  /\ Untouched

WaitTimesOut ==
  un.at = "wait" /\ ~Replaced /\ Away # Grace /\ ~NotYet /\ Enters("idle") /\ Untouched

-----------------------------------------------------------------------------
(* PrepareUninstall: prepare_uninstall in the daemon.                      *)

\* Unauthorized, refused by a daemon that does not run the system's
\* configuration, or the socket cannot be removed.
PrepareRefused ==
  /\ prep = "sent" /\ daemon.admin /\ prep' = "none"
  /\ UNCHANGED <<serviceVars, un, gone, fresh, fileVars>>

WipeSocket ==
  /\ prep = "sent" /\ daemon.admin /\ prep' = "wiping"
  /\ daemon' = [daemon EXCEPT !.socket = FALSE]
  /\ UNCHANGED <<bundle, reg, agent, late, taken, un, gone, fresh, fileVars>>

WipeState ==
  /\ prep = "wiping" /\ prep' = IF un.at = "prepare" THEN "ok" ELSE "none"
  /\ RemoveStateDir
  /\ UNCHANGED <<serviceVars, un, gone, fresh>>

\* remove_dir_all fails half way, as it must when a file appears in the directory
\* that it has just emptied.
WipeStops ==
  /\ prep = "wiping" /\ prep' = "none"
  /\ disk' \in {disk, Absent}
  /\ \/ UNCHANGED <<tmp, fd>>
     \/ /\ tmp' = Absent
        /\ fd' = [w \in Writers |-> IF fd[w] = "tmp" THEN "gone" ELSE fd[w]]
  /\ UNCHANGED <<dir, stage, body, serviceVars, un, gone, fresh>>

\* The answer, whatever it says; or none within 10 s, and the request goes on.
Prepared == un.at = "prepare" /\ Enters("agent") /\ Untouched

-----------------------------------------------------------------------------
(* UnregisterHandles::unregister.                                          *)

\* Unregistered, or not registered.
UnregisterAgent ==
  /\ un.at = "agent" /\ agent' = FALSE /\ Enters("daemon")
  /\ UNCHANGED <<bundle, reg, daemon, late, taken, prep, fileVars>>

\* An error, or the time-out, after which it may still be done: `?` leaves the
\* daemon registered.
AgentStays ==
  /\ un.at = "agent" /\ agent /\ agent' \in BOOLEAN /\ Enters("idle")
  /\ UNCHANGED <<bundle, reg, daemon, late, taken, prep, fileVars>>

\* With the daemon end its requests and its saves; with the registration, a
\* request that waits for it.
EndsWithDaemon ==
  LET dies == daemon # Down /\ daemon' = Down
  IN /\ prep' = IF prep # "ok" /\ (dies \/ reg' = "none") THEN "none" ELSE prep
     /\ IF dies THEN FileCrash ELSE UNCHANGED fileVars

UnregisterDaemon ==
  /\ un.at = "daemon" /\ Enters("done")
  /\ IF reg = "none" THEN UNCHANGED serviceVars ELSE Unregistered(TRUE) /\ UNCHANGED late
  /\ EndsWithDaemon

DaemonStays ==
  /\ un.at = "daemon" /\ reg # "none" /\ Enters("idle")
  /\ UNCHANGED serviceVars \/ UnregisterTimesOut
  /\ UNCHANGED <<prep, fileVars>>

\* Killed, or an error of a look at the path: at any stage.
UninstallerDies == un.at \notin {"idle", "done"} /\ Enters("idle") /\ Untouched

UninstallStep ==
  \/ Ready \/ StartFails \/ SeesReplacement \/ SeesRemoval \/ Poll \/ WaitTimesOut
  \/ Prepared \/ UnregisterAgent \/ AgentStays \/ UnregisterDaemon \/ DaemonStays

PrepareStep == PrepareRefused \/ WipeSocket \/ WipeState \/ WipeStops

-----------------------------------------------------------------------------
(* The ticker saves while the daemon runs.                                 *)

TickerSaves ==
  /\ daemon # Down
  /\ \E w \in Writers : SaveStep(w) \/ \E b \in Bodies : SaveBegin(w, b)
  /\ UNCHANGED <<serviceVars, uninstallVars>>
=============================================================================
