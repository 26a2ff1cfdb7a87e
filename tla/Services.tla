------------------------------ MODULE Services ------------------------------
(***************************************************************************)
(* What the tray's launch (TrayLaunch) and the deferred uninstaller        *)
(* (DeferredUninstall) share: the app bundle at its path, the two services *)
(* that ServiceManagement registers for it (mod service_management of      *)
(* crates/tray/src/bin/tray.rs), and the daemon that launchd runs while    *)
(* its registration is enabled.                                            *)
(*                                                                         *)
(* The bundles that Homebrew puts at the path are numbered: the number of  *)
(* a bundle stands for its inode and for the version of its executables.   *)
(* Status::NotRegistered, NotFound and Unknown are one: nothing tells them *)
(* apart.                                                                  *)
(***************************************************************************)
EXTENDS Integers

CONSTANT Bundles  \* bound: how many bundles are ever put at the path

ASSUME BundlesAssumption == Bundles \in Nat \ {0}

VARIABLES
  bundle,  \* the last bundle put at the path, and whether it is still there
  reg,     \* registration of the daemon
  agent,   \* the tray agent is registered
  daemon,  \* the bundle the daemon was launched from (0: it is down), its
           \* socket's name exists, its admin listener works
  late,    \* an unregistration of the daemon timed out and is still under way
  taken    \* history: the registration was removed by another than a refresh
           \* that waited for it

serviceVars == <<bundle, reg, agent, daemon, late, taken>>

Down == [from |-> 0, socket |-> FALSE, admin |-> FALSE]

ServicesTypeOK ==
  /\ bundle \in [id : 1..Bundles, there : BOOLEAN]
  /\ reg \in {"none", "enabled", "approval"}
  /\ agent \in BOOLEAN
  /\ daemon \in [from : 0..Bundles, socket : BOOLEAN, admin : BOOLEAN]
  /\ late \in BOOLEAN /\ taken \in BOOLEAN

\* The first bundle was copied to its place; nothing is registered.
ServicesInit ==
  /\ bundle = [id |-> 1, there |-> TRUE]
  /\ reg = "none" /\ agent = FALSE /\ daemon = Down
  /\ late = FALSE /\ taken = FALSE

-----------------------------------------------------------------------------
(* ServiceManagement.                                                      *)

\* A registration succeeds from a bundle at its path.  macOS may want an
\* administrator's approval first, and keeps an answer it has.
Registered ==
  /\ bundle.there
  /\ reg' \in IF reg = "none" THEN {"enabled", "approval"} ELSE {reg}
  /\ taken' = FALSE
  /\ UNCHANGED <<bundle, agent, daemon, late>>

\* The registration goes, and with it the daemon.
Unregistered(other) ==
  /\ reg' = "none" /\ daemon' = Down
  /\ taken' = (other \/ (reg = "none" /\ taken))
  /\ UNCHANGED <<bundle, agent>>

\* UNREGISTER_TIMEOUT: the caller is told so and ServiceManagement goes on.
UnregisterTimesOut == late' = TRUE /\ UNCHANGED <<bundle, reg, agent, daemon, taken>>

UnregisterLate == late /\ late' = FALSE /\ Unregistered(TRUE)

\* System Settings > Login Items.
Approve ==
  /\ reg = "approval" /\ reg' = "enabled"
  /\ UNCHANGED <<bundle, agent, daemon, late, taken>>

Disallow ==
  /\ reg = "enabled" /\ reg' = "approval" /\ daemon' = Down
  /\ UNCHANGED <<bundle, agent, late, taken>>

-----------------------------------------------------------------------------
(* launchd and the daemon.                                                 *)

\* Server::bind, then ControlListener::start, whose failure is only logged.
Launch ==
  /\ reg = "enabled" /\ bundle.there /\ daemon = Down
  /\ \E admin \in BOOLEAN :
       daemon' = [from |-> bundle.id, socket |-> TRUE, admin |-> admin]
  /\ UNCHANGED <<bundle, reg, agent, late, taken>>

\* It crashes, or is told to end, and removes the socket or leaves a dead one.
Stop ==
  /\ daemon # Down /\ daemon' = Down
  /\ UNCHANGED <<bundle, reg, agent, late, taken>>

-----------------------------------------------------------------------------
(* Homebrew and the operator.                                              *)

Moved == UNCHANGED <<reg, agent, daemon, late, taken>>

RemoveBundle ==
  bundle.there /\ bundle' = [bundle EXCEPT !.there = FALSE] /\ Moved

\* Out of the Trash, or a step of Homebrew undone: the inode is the old one.
PutBack ==
  ~bundle.there /\ bundle' = [bundle EXCEPT !.there = TRUE] /\ Moved

\* An upgrade or a reinstall; a copy made by hand may replace in one step.
InstallBundle ==
  bundle.id < Bundles /\ bundle' = [id |-> bundle.id + 1, there |-> TRUE] /\ Moved

ServicesNext ==
  UnregisterLate \/ Approve \/ Disallow \/ Launch \/ Stop
=============================================================================
