------------------------------ MODULE TrayAdmin ------------------------------
(***************************************************************************)
(* The tray's admin actions (crates/tray/src/bin/tray.rs): the pause item  *)
(* with the refresh that a timer starts and the operator's toggle, the     *)
(* Configure window, and Reload; the requests behind them (admin_xpc.rs),  *)
(* which may time out in the tray while the daemon still carries them out; *)
(* and a subscription that forgets the pause state whenever it is opened   *)
(* again.                                                                  *)
(*                                                                         *)
(* A configuration is told apart by what Configure does not show: its      *)
(* kill-switch path, for all such keys.  A request is served in one step   *)
(* (ControlPlane has the steps).  At most one action runs at a time: its   *)
(* panel pumps the run loop, so the timer goes on, but no event of a menu  *)
(* or a window is dispatched.  An open menu and an alert run the loop in   *)
(* modes of their own, in which the timer does not fire.                   *)
(***************************************************************************)
CONSTANTS Paths,    \* the kill-switch paths a configuration may name
          Default,  \* the one it has by default
          Closed    \* no copy of the configuration

ASSUME PathsAssumption == Default \in Paths /\ Closed \notin Paths

VARIABLES
  file,       \* the configuration on disk
  kill,       \* the kill-switch files that exist
  daemon,     \* up or down
  late,       \* the request that timed out and will still be served: set or save
  sub,        \* the subscription: open, broken (not yet noticed), closed
  paused,     \* Latest::enforcement_paused
  due,        \* Latest::enforcement_last_refresh is None or 30 s ago
  refreshing, \* Latest::enforcement_refreshing
  ask,        \* the refresh thread: none, its request sent, the answer it got
  menu,       \* the pause item as drawn
  action,     \* the open menu, the action under its panel, or an alert; of a
              \* toggle, what it asks for; of its history, the title clicked and
              \* whether that title was right and nobody else has acted since
  window,     \* the copy the Configure window was filled from
  stale       \* history: the file changed by hand since a copy of it is around

remote == <<file, kill, daemon, late>>
latest == <<paused, due, refreshing>>
vars == <<remote, sub, latest, ask, menu, action, window, stale>>

\* Some(true), Some(false); an error for an answer, None for the label.
Some(b) == IF b THEN "paused" ELSE "running"
Paused == file \in kill

Idle == [at |-> "idle", asks |-> "none", copy |-> Closed, clicked |-> "none", clean |-> FALSE]
Alert == [Idle EXCEPT !.at = "alert"]
Nothing == [kind |-> "none", path |-> Closed]

TypeOK ==
  /\ file \in Paths /\ kill \subseteq Paths /\ daemon \in {"up", "down"}
  /\ late \in [kind : {"none", "pause", "unpause", "save"}, path : Paths \cup {Closed}]
  /\ sub \in {"open", "broken", "closed"}
  /\ paused \in {"paused", "running", "unknown"}
  /\ due \in BOOLEAN /\ refreshing \in BOOLEAN
  /\ ask \in {"none", "sent", "paused", "running", "error"}
  /\ menu \in [enabled : BOOLEAN, title : {"Pause", "Unpause"}]
  /\ action \in [at : {"idle", "menu", "query", "chosen", "set", "settled", "open", "save",
                       "reload", "alert"},
                 asks : {"none", "pause", "unpause"}, copy : Paths \cup {Closed},
                 clicked : {"none", "Pause", "Unpause"}, clean : BOOLEAN]
  /\ window \in Paths \cup {Closed} /\ stale \in BOOLEAN

Init ==
  /\ file \in Paths /\ kill \in SUBSET Paths /\ daemon = "down" /\ late = Nothing
  /\ sub = "closed" /\ paused = "unknown" /\ due = TRUE
  /\ refreshing = FALSE /\ ask = "none"
  /\ menu = [enabled |-> FALSE, title |-> "Pause"]
  /\ action = Idle /\ window = Closed /\ stale = FALSE

-----------------------------------------------------------------------------
(* The daemon, and those who change what it reads.                         *)

Die ==
  /\ daemon = "up" /\ daemon' = "down"
  /\ sub' = IF sub = "open" THEN "broken" ELSE sub
  /\ UNCHANGED <<file, kill, late, latest, ask, menu, action, window, stale>>

Start ==
  /\ daemon = "down" /\ daemon' = "up"
  /\ UNCHANGED <<file, kill, late, sub, latest, ask, menu, action, window, stale>>

\* SetEnforcementPaused: at the path the configuration on disk names.
Marked(request) == kill' = IF request = "pause" THEN kill \cup {file} ELSE kill \ {file}

\* A copy is around as long as a window or a request holds it.
Copies == window # Closed \/ action.at \in {"open", "save"} \/ late.kind = "save"
Acted == action' = [action EXCEPT !.clean = FALSE]

\* Another operator, at a shell or at another tray.
Touch(p) ==
  /\ kill' = IF p \in kill THEN kill \ {p} ELSE kill \cup {p}
  /\ Acted /\ UNCHANGED <<file, daemon, late, sub, latest, ask, menu, window, stale>>

EditByHand ==
  /\ file' \in Paths \ {file} /\ stale' = Copies
  /\ Acted /\ UNCHANGED <<kill, daemon, late, sub, latest, ask, menu, window>>

\* The request that the tray has given up on is carried out, or fails.
LateServed ==
  /\ daemon = "up" /\ late # Nothing /\ late' = Nothing
  /\ \/ late.kind = "save" /\ file' = late.path /\ UNCHANGED kill
     \/ late.kind # "save" /\ Marked(late.kind) /\ UNCHANGED file
     \/ UNCHANGED <<file, kill>>
  /\ Acted /\ UNCHANGED <<daemon, sub, latest, ask, menu, window, stale>>

-----------------------------------------------------------------------------
(* run_subscriber, as far as the pause item depends on it.                 *)

SubLost ==
  /\ sub = "broken" /\ sub' = "closed"
  /\ UNCHANGED <<remote, latest, ask, menu, action, window, stale>>

SubOpened ==
  /\ sub = "closed" /\ daemon = "up" /\ sub' = "open"
  /\ paused' = "unknown" /\ due' = TRUE
  /\ UNCHANGED <<remote, refreshing, ask, menu, action, window, stale>>

-----------------------------------------------------------------------------
(* The drain timer and maybe_refresh_enforcement_state.                    *)

Redraw == menu' = [enabled |-> sub # "closed",
                   title |-> IF paused = "paused" THEN "Unpause" ELSE "Pause"]

\* The timer is in the default mode of the run loop only.
Held == action.at \in {"menu", "alert"}

ShouldSpawn == sub # "closed" /\ ~refreshing /\ due

Drain ==
  /\ ~Held /\ ~ShouldSpawn /\ Redraw
  /\ UNCHANGED <<remote, sub, latest, ask, action, window, stale>>

DrainAndAsk ==
  /\ ~Held /\ ShouldSpawn /\ Redraw /\ ask' = "sent" /\ refreshing' = TRUE
  /\ UNCHANGED <<remote, sub, paused, due, action, window, stale>>

RefreshServed ==
  /\ daemon = "up" /\ ask = "sent" /\ ask' = Some(Paused)
  /\ UNCHANGED <<remote, sub, latest, menu, action, window, stale>>

\* Unauthorized, an error, a time-out, or a reply lost with the daemon.
RefreshFails ==
  /\ ask \in {"sent", "paused", "running"} /\ ask' = "error"
  /\ UNCHANGED <<remote, sub, latest, menu, action, window, stale>>

\* Mutated form: only a refresh that worked clears the flag.
ClearedIfAnswered(a) == refreshing' = (refreshing /\ a = "error")

Cleared(a) == refreshing' = FALSE

\* Mutated form: an error is taken for an answer.
StoredWithError(a) == paused' = a

Stored(a) == paused' = IF a = "error" THEN paused ELSE a

\* The refresh thread, under the lock of `Latest`.
Refreshed ==
  /\ ask \notin {"none", "sent"} /\ ask' = "none"
  /\ Cleared(ask) /\ due' = FALSE /\ Stored(ask)
  /\ UNCHANGED <<remote, sub, menu, action, window, stale>>

Elapse ==
  /\ ~due /\ ~refreshing /\ due' = TRUE
  /\ UNCHANGED <<remote, sub, paused, refreshing, ask, menu, action, window, stale>>

-----------------------------------------------------------------------------
(* The menu and the alerts.                                                *)

OpenMenu ==
  /\ action = Idle /\ action' = [Idle EXCEPT !.at = "menu"]
  /\ UNCHANGED <<remote, sub, latest, ask, menu, window, stale>>

\* The menu is closed, on Open Log or on no entry, or OK is pressed.
Dismiss ==
  /\ Held /\ action' = Idle
  /\ UNCHANGED <<remote, sub, latest, ask, menu, window, stale>>

\* What the tray has to say of itself: the way to uninstall, no users to list,
\* minutes that build_new_config_toml refuses.
Tells ==
  /\ action.at = "menu" \/ (action = Idle /\ window # Closed)
  /\ action' = Alert
  /\ UNCHANGED <<remote, sub, latest, ask, menu, window, stale>>

-----------------------------------------------------------------------------
(* toggle_enforcement: it asks for the state, then for the opposite.       *)

Click ==
  /\ action.at = "menu" /\ menu.enabled
  /\ action' = [Idle EXCEPT !.at = "query", !.clicked = menu.title,
                            !.clean = (menu.title = "Unpause" <=> Paused)]
  /\ UNCHANGED <<remote, sub, latest, ask, menu, window, stale>>

\* Mutated form: the state the tray remembers.
Remembered == paused = "paused"

Queried == Paused

QueryServed ==
  /\ action.at = "query" /\ daemon = "up"
  /\ action' = [action EXCEPT !.at = "chosen", !.asks = IF Queried THEN "unpause" ELSE "pause"]
  /\ UNCHANGED <<remote, sub, latest, ask, menu, window, stale>>

ToggleSends ==
  /\ action.at = "chosen" /\ action' = [action EXCEPT !.at = "set"]
  /\ UNCHANGED <<remote, sub, latest, ask, menu, window, stale>>

ToggleServed ==
  /\ action.at = "set" /\ daemon = "up" /\ Marked(action.asks)
  /\ action' = [action EXCEPT !.at = "settled"]
  /\ UNCHANGED <<file, daemon, late, sub, latest, ask, menu, window, stale>>

ToggleAnswered ==
  /\ action.at = "settled" /\ action' = Idle
  /\ paused' = Some(action.asks = "pause")
  /\ UNCHANGED <<remote, sub, due, refreshing, ask, menu, window, stale>>

-----------------------------------------------------------------------------
(* reload_configuration and config_ui.                                     *)

Begins(step, copy) ==
  /\ action' = [Idle EXCEPT !.at = step, !.copy = copy]
  /\ UNCHANGED <<remote, sub, latest, ask, menu, window>>

Reload == action.at = "menu" /\ menu.enabled /\ Begins("reload", Closed) /\ UNCHANGED stale

\* GetConfig, for a window that is not there yet.
OpenConfigure ==
  /\ action.at = "menu" /\ window = Closed
  /\ Begins("open", Closed) /\ stale' = (stale /\ Copies)

ReloadServed ==
  /\ action.at = "reload" /\ daemon = "up" /\ action' = Idle
  /\ UNCHANGED <<remote, sub, latest, ask, menu, window, stale>>

OpenServed ==
  /\ action.at = "open" /\ daemon = "up" /\ action' = Idle
  /\ window' = file /\ stale' = (stale /\ late.kind = "save")
  /\ UNCHANGED <<remote, sub, latest, ask, menu>>

\* Mutated form: the configuration is built from what the window shows.
BuiltAnew(copy) == Default

\* build_new_config_toml: the copy, with the thresholds and users of the window in
\* place of those it had.
BuildNewConfig(copy) == copy

\* "Save", with minutes that build_new_config_toml accepts.
SaveTapped ==
  /\ action = Idle /\ window # Closed
  /\ Begins("save", BuildNewConfig(window)) /\ UNCHANGED stale

Cancel ==
  /\ action = Idle /\ window # Closed /\ window' = Closed
  /\ UNCHANGED <<remote, sub, latest, ask, menu, action, stale>>

\* SetConfig.  The window closes, or an error keeps it: the daemon may answer
\* one after it has replaced the file.
SaveServed ==
  /\ action.at = "save" /\ daemon = "up" /\ file' = action.copy
  /\ \/ action' = Idle /\ window' = Closed
     \/ action' = Alert /\ UNCHANGED window
  /\ UNCHANGED <<kill, daemon, late, sub, latest, ask, menu, stale>>

\* An error for an answer, or a reply that is lost.
ActionFails ==
  /\ action.at \in {"query", "set", "settled", "open", "save", "reload"} /\ action' = Alert
  /\ UNCHANGED <<remote, sub, latest, ask, menu, window, stale>>

\* recv_timeout: the thread of the request goes on (bound: one such thread).
ActionTimesOut ==
  /\ action.at \in {"set", "save"} /\ late = Nothing /\ action' = Alert
  /\ late' = [kind |-> IF action.at = "set" THEN action.asks ELSE "save", path |-> action.copy]
  /\ UNCHANGED <<file, kill, daemon, sub, latest, ask, menu, window, stale>>

-----------------------------------------------------------------------------
Subscriber == SubLost \/ SubOpened

Served == QueryServed \/ ToggleServed \/ ReloadServed \/ OpenServed \/ SaveServed

Threads == RefreshServed \/ Refreshed \/ Served \/ ToggleSends \/ ToggleAnswered \/ LateServed

\* What the operators, the machine and a slow daemon do.
Disturbance ==
  \/ Click \/ Reload \/ OpenConfigure \/ SaveTapped \/ Cancel
  \/ (\E p \in Paths : Touch(p)) \/ EditByHand
  \/ Die \/ RefreshFails \/ ActionFails \/ ActionTimesOut

\* What the operator looks at and closes again.
Glances == OpenMenu \/ Dismiss \/ Tells

Next ==
  \/ Start \/ Subscriber \/ Drain \/ DrainAndAsk \/ Elapse \/ Threads \/ Glances
  \/ Disturbance

Spec == Init /\ [][Next]_vars

\* launchd restarts the daemon, each request is served, threads run.  A timer that
\* is overdue fires when the run loop is back in its default mode; nobody has to
\* close a menu or an alert.
Fairness ==
  /\ WF_vars(Start) /\ WF_vars(Subscriber) /\ SF_vars(Drain) /\ SF_vars(DrainAndAsk)
  /\ WF_vars(Elapse) /\ WF_vars(RefreshServed) /\ WF_vars(Refreshed) /\ WF_vars(Served)
  /\ WF_vars(ToggleSends) /\ WF_vars(ToggleAnswered) /\ WF_vars(LateServed)

FairSpec == Spec /\ Fairness

-----------------------------------------------------------------------------
(* Properties.                                                             *)

\* The pause item does not stay wrong: once nobody acts, nothing crashes and
\* requests are answered, it tells for ever whether enforcement is paused,
\* although refresh, toggle and reconnection write `enforcement_paused` in any
\* order, a request given up on is carried out later, and menus and alerts hold
\* the timer up; unless one of those stays open for ever (tray.rs:602, 1071).
MenuCatchesUp ==
  \/ []<><<Disturbance>>_vars \/ <>[]Held
  \/ <>[](menu = [enabled |-> TRUE, title |-> IF Paused THEN "Unpause" ELSE "Pause"])

\* A click does what the item says: if the title was right when it was clicked
\* and nobody else acted until the daemon answered, enforcement is paused exactly
\* if it said "Pause Enforcement", although the tray may have lost or changed its
\* own idea of the state in the meantime (tray.rs:968).
ClickObeyed ==
  action.at = "settled" /\ action.clean => (Paused <=> action.clicked = "Pause")

\* A save keeps the keys that Configure does not show: however late, it puts
\* another kill-switch path into the file only if the file was edited by hand
\* while a copy of it was around; then it takes the edit back (tray.rs:2553).
\* Thresholds and users are the window's and not part of this: it drops users it
\* has no row for and takes thresholds it cannot parse for none.
OnlyStaleSavesRevert ==
  [][file' # file /\ ~EditByHand => stale]_vars
=============================================================================
