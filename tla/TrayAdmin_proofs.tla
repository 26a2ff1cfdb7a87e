-------------------------- MODULE TrayAdmin_proofs --------------------------
(***************************************************************************)
(* A click does what the pause item said, and of the keys that Configure   *)
(* does not show a save takes back nothing but a hand edit made while a    *)
(* copy of the file was around, for any kill-switch paths and without      *)
(* fairness.                                                               *)
(***************************************************************************)
EXTENDS TrayAdmin, TLAPS

-----------------------------------------------------------------------------
(* Types.                                                                  *)

Kinds == {"none", "pause", "unpause", "save"}
Places == {"idle", "menu", "query", "chosen", "set", "settled", "open", "save", "reload",
           "alert"}
Actions ==
  [at : Places, asks : {"none", "pause", "unpause"}, copy : Paths \cup {Closed},
   clicked : {"none", "Pause", "Unpause"}, clean : BOOLEAN]

\* A save has a copy to send.
CopiesAreThere ==
  (action.at = "save" => action.copy # Closed) /\ (late.kind = "save" => late.path # Closed)

\* The fields of the records.
LEMMA Fields ==
  ASSUME TypeOK
  PROVE  /\ action \in Actions
         /\ action.at \in Places /\ action.asks \in {"none", "pause", "unpause"}
         /\ action.copy \in Paths \cup {Closed} /\ action.clean \in BOOLEAN
         /\ action.clicked \in {"none", "Pause", "Unpause"}
         /\ late \in [kind : Kinds, path : Paths \cup {Closed}]
         /\ late.kind \in Kinds /\ late.path \in Paths \cup {Closed}
BY DEF TypeOK, Actions, Places, Kinds

LEMMA ActionIdle == Idle \in Actions /\ Alert \in Actions
BY DEF Idle, Alert, Actions, Places

\* Updates of the action under its panel.
LEMMA ActionTypes ==
  ASSUME TypeOK, NEW step \in Places
  PROVE  /\ Idle \in Actions
         /\ [action EXCEPT !.at = step] \in Actions
         /\ [action EXCEPT !.clean = FALSE] \in Actions
         /\ \A copy \in Paths \cup {Closed} : [Idle EXCEPT !.at = step, !.copy = copy] \in Actions
         /\ \A asks \in {"none", "pause", "unpause"} :
              [action EXCEPT !.at = step, !.asks = asks] \in Actions
<1>2. Idle \in Actions
  BY ActionIdle
<1>3. /\ [action EXCEPT !.at = step] \in Actions
      /\ [action EXCEPT !.clean = FALSE] \in Actions
  BY Fields DEF Actions
<1>4. \A copy \in Paths \cup {Closed} : [Idle EXCEPT !.at = step, !.copy = copy] \in Actions
  BY <1>2 DEF Actions
<1>5. \A asks \in {"none", "pause", "unpause"} :
        [action EXCEPT !.at = step, !.asks = asks] \in Actions
  BY Fields DEF Actions
<1>. QED  BY <1>2, <1>3, <1>4, <1>5

LEMMA InitTypes == Init => TypeOK
<1>. SUFFICES ASSUME Init PROVE TypeOK
  OBVIOUS
<1>1. /\ action = [at |-> "idle", asks |-> "none", copy |-> Closed, clicked |-> "none",
                   clean |-> FALSE]
      /\ late = [kind |-> "none", path |-> Closed]
  BY DEF Init, Idle, Nothing
<1>2. action \in Actions
  BY ActionIdle DEF Init
<1>3. /\ late.kind \in Kinds /\ late \in [kind : Kinds, path : Paths \cup {Closed}]
      /\ menu \in [enabled : BOOLEAN, title : {"Pause", "Unpause"}]
  BY <1>1 DEF Init, Kinds
<1>4. /\ file \in Paths /\ kill \subseteq Paths /\ daemon = "down" /\ sub = "closed"
      /\ paused = "unknown" /\ due = TRUE /\ refreshing = FALSE /\ ask = "none"
      /\ window = Closed /\ stale = FALSE
  BY DEF Init
<1>. QED  BY <1>2, <1>3, <1>4 DEF TypeOK, Actions, Places, Kinds

\* A step that leaves the file, the copies and the action alone keeps their types.
LEMMA QuietTypes ==
  ASSUME TypeOK, UNCHANGED <<file, kill, late, action, window, stale>>,
         daemon' \in {"up", "down"}, sub' \in {"open", "broken", "closed"},
         paused' \in {"paused", "running", "unknown"},
         due' \in BOOLEAN, refreshing' \in BOOLEAN,
         ask' \in {"none", "sent", "paused", "running", "error"},
         menu' \in [enabled : BOOLEAN, title : {"Pause", "Unpause"}]
  PROVE  TypeOK'
BY DEF TypeOK

\* The subscription, the timer and the refresh thread.
LEMMA BackgroundTypes ==
  ASSUME TypeOK,
         \/ Die \/ Start \/ Subscriber \/ Drain \/ DrainAndAsk \/ Elapse
         \/ RefreshServed \/ Refreshed \/ RefreshFails
  PROVE  TypeOK'
<1>. USE DEF remote, latest
<1>t. /\ daemon \in {"up", "down"} /\ sub \in {"open", "broken", "closed"}
      /\ paused \in {"paused", "running", "unknown"}
      /\ due \in BOOLEAN /\ refreshing \in BOOLEAN
      /\ ask \in {"none", "sent", "paused", "running", "error"}
      /\ menu \in [enabled : BOOLEAN, title : {"Pause", "Unpause"}]
  BY DEF TypeOK
<1>1. CASE Die
  BY <1>1, <1>t, QuietTypes DEF Die
<1>2. CASE Start
  BY <1>2, <1>t, QuietTypes DEF Start
<1>3. CASE Subscriber
  BY <1>3, <1>t, QuietTypes DEF Subscriber, SubLost, SubOpened
<1>4. CASE Drain \/ DrainAndAsk
  <2>1. menu' \in [enabled : BOOLEAN, title : {"Pause", "Unpause"}]
    <3>1. PICK e \in BOOLEAN, t \in {"Pause", "Unpause"} : menu' = [enabled |-> e, title |-> t]
      BY <1>4, Zenon DEF Drain, DrainAndAsk, Redraw
    <3>. QED  BY <3>1
  <2>2. CASE Drain
    BY <1>t, <2>1, <2>2, QuietTypes DEF Drain
  <2>3. CASE DrainAndAsk
    BY <1>t, <2>1, <2>3, QuietTypes DEF DrainAndAsk
  <2>. QED  BY <1>4, <2>2, <2>3
<1>5. CASE Elapse
  BY <1>5, <1>t, QuietTypes DEF Elapse
<1>6. CASE RefreshFails
  BY <1>6, <1>t, QuietTypes DEF RefreshFails
<1>7. CASE RefreshServed
  <2>1. ask' \in {"paused", "running"}
    BY <1>7, Zenon DEF RefreshServed, Some
  <2>. QED  BY <1>7, <1>t, <2>1, QuietTypes DEF RefreshServed
<1>8. CASE Refreshed
  <2>1. paused' \in {"paused", "running", "unknown"}
    BY <1>8, <1>t DEF Refreshed, Stored
  <2>2. /\ UNCHANGED <<remote, sub, menu, action, window, stale>>
        /\ ask' = "none" /\ due' = FALSE /\ refreshing' = FALSE
    BY <1>8 DEF Refreshed, Cleared
  <2>3. due' \in BOOLEAN /\ refreshing' \in BOOLEAN
    BY <2>2
  <2>. QED  BY <1>t, <2>1, <2>2, <2>3, QuietTypes
<1>. QED  BY <1>1, <1>2, <1>3, <1>4, <1>5, <1>6, <1>7, <1>8

\* The other operators, and the request that was given up on.
LEMMA OthersTypes ==
  ASSUME TypeOK, CopiesAreThere, (\E p \in Paths : Touch(p)) \/ EditByHand \/ LateServed
  PROVE  TypeOK'
<1>. USE DEF remote, latest
<1>1. action' \in Actions
  <2>1. action' = [action EXCEPT !.clean = FALSE]
    BY DEF Touch, EditByHand, LateServed, Acted
  <2>. QED  BY <2>1, Fields DEF Actions
<1>2. CASE \E p \in Paths : Touch(p)
  BY <1>1, <1>2 DEF Touch, TypeOK, Actions, Places
<1>3. CASE EditByHand
  <2>1. stale' \in BOOLEAN
    BY <1>3, Zenon DEF EditByHand, Copies
  <2>. QED  BY <1>1, <1>3, <2>1 DEF EditByHand, TypeOK, Actions, Places
<1>4. CASE LateServed
  <2>1. late' = [kind |-> "none", path |-> Closed] /\ late'.kind = "none"
    BY <1>4 DEF LateServed, Nothing
  <2>2. file' \in Paths
    <3>1. CASE late.kind = "save" /\ file' = late.path
      BY <3>1, Fields DEF CopiesAreThere
    <3>. QED  BY <1>4, <3>1 DEF LateServed, TypeOK
  <2>3. kill' \subseteq Paths
    BY <1>4 DEF LateServed, Marked, TypeOK
  <2>. QED  BY <1>1, <1>4, <2>1, <2>2, <2>3 DEF LateServed, TypeOK, Actions, Places
<1>. QED  BY <1>2, <1>3, <1>4

\* The action under its panel, and the operator who starts it.
LEMMA OwnTypes ==
  ASSUME TypeOK, CopiesAreThere,
         \/ Glances \/ Click \/ Reload \/ OpenConfigure \/ SaveTapped \/ Cancel \/ Served
         \/ ToggleSends \/ ToggleAnswered \/ ActionFails \/ ActionTimesOut
  PROVE  TypeOK'
<1>. USE DEF remote, latest
<1>0. ASSUME action' \in Actions, UNCHANGED <<sub, ask, menu, due, refreshing, daemon>>,
             file' \in Paths, kill' \subseteq Paths, window' \in Paths \cup {Closed},
             stale' \in BOOLEAN, paused' \in {"paused", "running", "unknown"},
             late' \in [kind : Kinds, path : Paths \cup {Closed}]
      PROVE  TypeOK'
  BY <1>0 DEF TypeOK, Actions, Places, Kinds
<1>t. /\ file \in Paths /\ kill \subseteq Paths /\ window \in Paths \cup {Closed}
      /\ stale \in BOOLEAN /\ paused \in {"paused", "running", "unknown"}
      /\ late \in [kind : Kinds, path : Paths \cup {Closed}]
  BY Fields DEF TypeOK
<1>1. CASE Click
  <2>1. PICK b \in BOOLEAN :
          action' = [at |-> "query", asks |-> "none", copy |-> Closed,
                     clicked |-> menu.title, clean |-> b]
    <3>1. PICK b : /\ b = (menu.title = "Unpause" <=> Paused)
                   /\ action' = [Idle EXCEPT !.at = "query", !.clicked = menu.title, !.clean = b]
      BY <1>1, Zenon DEF Click
    <3>2. b \in BOOLEAN
      BY <3>1, Zenon
    <3>. QED  BY <3>1, <3>2 DEF Idle
  <2>2. menu.title \in {"Pause", "Unpause"}
    BY DEF TypeOK
  <2>3. action' \in Actions
    BY <2>1, <2>2 DEF Actions, Places
  <2>. QED  BY <1>0, <1>1, <1>t, <2>3 DEF Click
<1>2. CASE Reload \/ OpenConfigure
  <2>1. action' \in Actions
    <3>1. \E step \in {"reload", "open"} : action' = [Idle EXCEPT !.at = step, !.copy = Closed]
      BY <1>2, Zenon DEF Reload, OpenConfigure, Begins
    <3>2. \A step \in {"reload", "open"} : [Idle EXCEPT !.at = step, !.copy = Closed] \in Actions
      BY ActionIdle DEF Actions, Places
    <3>. QED  BY <3>1, <3>2
  <2>2. stale' \in BOOLEAN
    BY <1>2, <1>t, Zenon DEF Reload, OpenConfigure, Copies
  <2>. QED  BY <1>0, <1>2, <1>t, <2>1, <2>2 DEF Reload, OpenConfigure, Begins
<1>3. CASE SaveTapped
  <2>1. action' \in Actions
    BY <1>3, <1>t, ActionTypes DEF SaveTapped, Begins, BuildNewConfig, Places
  <2>. QED  BY <1>0, <1>3, <1>t, <2>1 DEF SaveTapped, Begins
<1>4. CASE Cancel
  BY <1>0, <1>4, <1>t, Fields DEF Cancel
<1>5. CASE QueryServed \/ ToggleSends
  <2>1. action' \in Actions
    BY <1>5, ActionTypes DEF QueryServed, ToggleSends, Places
  <2>. QED  BY <1>0, <1>5, <1>t, <2>1 DEF QueryServed, ToggleSends
<1>6. CASE ToggleServed
  <2>1. action' \in Actions
    BY <1>6, ActionTypes DEF ToggleServed, Places
  <2>2. kill' \subseteq Paths
    BY <1>6, <1>t DEF ToggleServed, Marked
  <2>. QED  BY <1>0, <1>6, <1>t, <2>1, <2>2 DEF ToggleServed
<1>7. CASE ToggleAnswered
  <2>1. paused' \in {"paused", "running", "unknown"}
    BY <1>7, Zenon DEF ToggleAnswered, Some
  <2>. QED  BY <1>0, <1>7, <1>t, <2>1, ActionIdle DEF ToggleAnswered
<1>8. CASE ReloadServed \/ ActionFails
  BY <1>0, <1>8, <1>t, ActionIdle DEF ReloadServed, ActionFails
<1>9. CASE OpenServed
  <2>1. stale' \in BOOLEAN
    BY <1>9, <1>t, Zenon DEF OpenServed
  <2>. QED  BY <1>0, <1>9, <1>t, <2>1, ActionIdle DEF OpenServed
<1>10. CASE SaveServed
  <2>1. file' \in Paths
    BY <1>10, Fields DEF SaveServed, CopiesAreThere
  <2>. QED  BY <1>0, <1>10, <1>t, <2>1, ActionIdle DEF SaveServed
<1>11. CASE ActionTimesOut
  <2>1. late' \in [kind : Kinds, path : Paths \cup {Closed}]
    BY <1>11, Fields DEF ActionTimesOut, Kinds
  <2>. QED  BY <1>0, <1>11, <1>t, <2>1, ActionIdle DEF ActionTimesOut
<1>12. CASE Glances
  <2>1. action' \in Actions
    <3>1. [Idle EXCEPT !.at = "menu"] \in Actions
      BY ActionIdle DEF Actions, Places
    <3>. QED  BY <1>12, <3>1, ActionIdle DEF Glances, OpenMenu, Dismiss, Tells
  <2>. QED  BY <1>0, <1>12, <1>t, <2>1 DEF Glances, OpenMenu, Dismiss, Tells
<1>. QED  BY <1>1, <1>2, <1>3, <1>4, <1>5, <1>6, <1>7, <1>8, <1>9, <1>10, <1>11, <1>12
          DEF Served

-----------------------------------------------------------------------------
(* The inductive invariant.                                                *)

\* As long as nobody else has acted, what is asked for is what was clicked.
Promised ==
  action.clean =>
    /\ action.at \in {"query", "chosen", "set"} =>
         action.clicked # "none" /\ (action.clicked = "Unpause" <=> Paused)
    /\ action.at \in {"chosen", "set"} =>
         action.asks # "none" /\ (action.asks = "unpause" <=> Paused)
    /\ action.at = "settled" => (Paused <=> action.clicked = "Pause")

\* As long as the file was not edited behind a copy, every copy is the file.
UpToDate ==
  ~stale =>
    /\ window # Closed => window = file
    /\ action.at = "save" => action.copy = file
    /\ late.kind = "save" => late.path = file

AdminInv == TypeOK /\ CopiesAreThere /\ Promised /\ UpToDate

LEMMA InitInv == Init => AdminInv
<1>. SUFFICES ASSUME Init PROVE AdminInv
  OBVIOUS
<1>1. /\ action.at = "idle" /\ action.clean = FALSE /\ late.kind = "none"
      /\ window = Closed
  BY DEF Init, Idle, Nothing
<1>. QED  BY <1>1, InitTypes DEF AdminInv, CopiesAreThere, Promised, UpToDate

LEMMA ClickFields ==
  ASSUME Click
  PROVE  /\ action'.at = "query" /\ action'.clicked = menu.title
         /\ action'.clean = (menu.title = "Unpause" <=> Paused)
<1>1. PICK b : /\ b = (menu.title = "Unpause" <=> Paused)
               /\ action' = [Idle EXCEPT !.at = "query", !.clicked = menu.title, !.clean = b]
  BY Zenon DEF Click
<1>2. action'.at = "query" /\ action'.clicked = menu.title /\ action'.clean = b
  BY <1>1 DEF Idle
<1>. QED  BY <1>1, <1>2, Zenon

\* Who leaves the files, the copies and the action alone leaves the rest of it.
LEMMA Bystanders ==
  ASSUME AdminInv, UNCHANGED <<file, kill, late, action, window, stale>>, TypeOK'
  PROVE  AdminInv'
BY DEF AdminInv, CopiesAreThere, Promised, UpToDate, Paused

\* The file or the kill switch changes behind the action's back.
LEMMA OthersKeep ==
  ASSUME AdminInv, (\E p \in Paths : Touch(p)) \/ EditByHand \/ LateServed
  PROVE  AdminInv'
<1>0. TypeOK'
  BY OthersTypes DEF AdminInv
<1>1. action' = [action EXCEPT !.clean = FALSE] /\ window' = window
  BY DEF Touch, EditByHand, LateServed, Acted
<1>2. /\ action'.at = action.at /\ action'.copy = action.copy /\ action'.clean = FALSE
  BY <1>1, Fields DEF AdminInv, Actions
<1>3. Promised'
  BY <1>2 DEF Promised
<1>4. CASE \E p \in Paths : Touch(p)
  BY <1>0, <1>1, <1>2, <1>3, <1>4 DEF Touch, AdminInv, CopiesAreThere, UpToDate
<1>5. CASE EditByHand
  <2>1. ~stale' => window = Closed /\ action.at # "save" /\ late.kind # "save"
    BY <1>5 DEF EditByHand, Copies
  <2>. QED  BY <1>0, <1>1, <1>2, <1>3, <1>5, <2>1
            DEF EditByHand, AdminInv, CopiesAreThere, UpToDate
<1>6. CASE LateServed
  <2>1. late'.kind = "none" /\ stale' = stale
    BY <1>6 DEF LateServed, Nothing
  <2>2. ~stale => file' = file
    BY <1>6 DEF LateServed, AdminInv, UpToDate
  <2>. QED  BY <1>0, <1>1, <1>2, <1>3, <2>1, <2>2 DEF AdminInv, CopiesAreThere, UpToDate
<1>. QED  BY <1>4, <1>5, <1>6

\* The action begins, goes on and ends.
LEMMA OwnKeep ==
  ASSUME AdminInv,
         \/ Glances \/ Click \/ Reload \/ OpenConfigure \/ SaveTapped \/ Cancel \/ Served
         \/ ToggleSends \/ ToggleAnswered \/ ActionFails \/ ActionTimesOut
  PROVE  AdminInv'
<1>. USE DEF remote, latest
<1>t. TypeOK' /\ TypeOK
  BY OwnTypes DEF AdminInv
<1>f. /\ action \in Actions /\ action.clicked \in {"none", "Pause", "Unpause"}
      /\ action.asks \in {"none", "pause", "unpause"}
  BY <1>t, Fields
<1>i. /\ Idle.at = "idle" /\ Idle.clean = FALSE
      /\ Alert.at = "alert" /\ Alert.clean = FALSE
  BY DEF Idle, Alert
<1>1. CASE Click
  <2>1. /\ action'.at = "query" /\ action'.clicked = menu.title
        /\ action'.clean = (menu.title = "Unpause" <=> Paused)
    BY <1>1, Zenon, ClickFields
  <2>2. menu.title # "none" /\ (action'.clean => (menu.title = "Unpause" <=> Paused))
    <3>1. menu.title # "none"
      BY <1>t DEF TypeOK
    <3>. QED  BY <2>1, <3>1, Zenon
  <2>3. UNCHANGED <<file, kill, late, window, stale>>
    BY <1>1 DEF Click
  <2>. QED  BY <1>t, <2>1, <2>2, <2>3
            DEF AdminInv, CopiesAreThere, Promised, UpToDate, Paused
<1>2. CASE Reload \/ OpenConfigure
  <2>1. action'.at \in {"reload", "open"} /\ action'.clean = FALSE
    BY <1>2 DEF Reload, OpenConfigure, Begins, Idle
  <2>2. UNCHANGED <<file, kill, late, window>>
    BY <1>2 DEF Reload, OpenConfigure, Begins
  <2>3. ~stale' => ~stale \/ (window = Closed /\ late.kind # "save")
    BY <1>2 DEF Reload, OpenConfigure, Copies
  <2>. QED  BY <1>t, <2>1, <2>2, <2>3 DEF AdminInv, CopiesAreThere, Promised, UpToDate
<1>3. CASE SaveTapped
  <2>1. action'.at = "save" /\ action'.clean = FALSE /\ action'.copy = window
    BY <1>3 DEF SaveTapped, Begins, BuildNewConfig, Idle
  <2>. QED  BY <1>3, <1>t, <2>1
            DEF SaveTapped, Begins, AdminInv, CopiesAreThere, Promised, UpToDate
<1>4. CASE Cancel
  BY <1>4, <1>t, <1>i DEF Cancel, AdminInv, CopiesAreThere, Promised, UpToDate
<1>5. CASE QueryServed
  <2>1. /\ action'.at = "chosen" /\ action'.clean = action.clean
        /\ action'.clicked = action.clicked
        /\ action'.asks = IF Paused THEN "unpause" ELSE "pause"
    BY <1>5, <1>f DEF QueryServed, Queried, Actions
  <2>2. UNCHANGED <<file, kill, late, window, stale>> /\ action.at = "query"
    BY <1>5 DEF QueryServed
  <2>. QED  BY <1>t, <2>1, <2>2 DEF AdminInv, CopiesAreThere, Promised, UpToDate, Paused
<1>6. CASE ToggleSends
  <2>1. /\ action'.at = "set" /\ action'.clean = action.clean
        /\ action'.clicked = action.clicked /\ action'.asks = action.asks
    BY <1>6, <1>f DEF ToggleSends, Actions
  <2>2. UNCHANGED <<file, kill, late, window, stale>> /\ action.at = "chosen"
    BY <1>6 DEF ToggleSends
  <2>. QED  BY <1>t, <2>1, <2>2 DEF AdminInv, CopiesAreThere, Promised, UpToDate, Paused
<1>7. CASE ToggleServed
  <2>1. /\ action'.at = "settled" /\ action'.clean = action.clean
        /\ action'.clicked = action.clicked
    BY <1>7, <1>f DEF ToggleServed, Actions
  <2>2. UNCHANGED <<file, late, window, stale>> /\ action.at = "set"
    BY <1>7 DEF ToggleServed
  <2>3. action.asks # "none" => (Paused' <=> action.asks = "pause")
    BY <1>7, <1>f DEF ToggleServed, Marked, Paused
  <2>. QED  BY <1>f, <1>t, <2>1, <2>2, <2>3
            DEF AdminInv, CopiesAreThere, Promised, UpToDate
<1>8. CASE ToggleAnswered \/ ReloadServed \/ ActionFails
  BY <1>8, <1>t, <1>i DEF ToggleAnswered, ReloadServed, ActionFails, AdminInv,
     CopiesAreThere, Promised, UpToDate
<1>9. CASE OpenServed
  <2>1. stale' = (stale /\ late.kind = "save")
    BY <1>9 DEF OpenServed
  <2>2. ~stale' => ~stale \/ late.kind # "save"
    BY <2>1, Zenon
  <2>. QED  BY <1>9, <1>t, <1>i, <2>2
            DEF OpenServed, AdminInv, CopiesAreThere, Promised, UpToDate
<1>10. CASE SaveServed
  BY <1>10, <1>t, <1>i DEF SaveServed, AdminInv, CopiesAreThere, Promised, UpToDate
<1>11. CASE ActionTimesOut
  BY <1>11, <1>t, <1>i, <1>f DEF ActionTimesOut, AdminInv, CopiesAreThere, Promised, UpToDate
<1>12. CASE Glances
  <2>1. action'.at \in {"idle", "menu", "alert"} /\ action'.clean = FALSE
    BY <1>12, <1>i DEF Glances, OpenMenu, Dismiss, Tells, Idle
  <2>2. UNCHANGED <<file, kill, late, window, stale>>
    BY <1>12 DEF Glances, OpenMenu, Dismiss, Tells
  <2>. QED  BY <1>t, <2>1, <2>2 DEF AdminInv, CopiesAreThere, Promised, UpToDate
<1>. QED  BY <1>1, <1>2, <1>3, <1>4, <1>5, <1>6, <1>7, <1>8, <1>9, <1>10, <1>11, <1>12
          DEF Served

LEMMA NextInv == AdminInv /\ [Next]_vars => AdminInv'
<1>. SUFFICES ASSUME AdminInv, [Next]_vars PROVE AdminInv'
  OBVIOUS
<1>1. CASE \/ Die \/ Start \/ Subscriber \/ Drain \/ DrainAndAsk \/ Elapse
           \/ RefreshServed \/ Refreshed \/ RefreshFails
  <2>1. TypeOK'
    BY <1>1, BackgroundTypes DEF AdminInv
  <2>2. UNCHANGED <<file, kill, late, action, window, stale>>
    BY <1>1 DEF remote, latest, Die, Start, Subscriber, SubLost, SubOpened, Drain,
       DrainAndAsk, Elapse, RefreshServed, Refreshed, RefreshFails
  <2>. QED  BY <2>1, <2>2, Bystanders
<1>2. CASE UNCHANGED vars
  <2>1. TypeOK'
    BY <1>2 DEF vars, remote, latest, AdminInv, TypeOK
  <2>. QED  BY <1>2, <2>1, Bystanders DEF vars, remote
<1>. QED  BY <1>1, <1>2, OthersKeep, OwnKeep DEF Next, Threads, Disturbance

-----------------------------------------------------------------------------
(* The theorems.                                                           *)

\* The inductive invariant holds of every behaviour.
THEOREM AdminInvariant == Spec => []AdminInv
BY InitInv, NextInv, PTL DEF Spec

\* Types of menu, requests and windows, whatever is lost or late.
THEOREM AdminTypes == Spec => []TypeOK
<1>1. AdminInv => TypeOK
  BY DEF AdminInv
<1>. QED  BY <1>1, AdminInvariant, PTL

\* A click on a title that was right does what it said, unless somebody else
\* acts before the daemon has carried it out.
THEOREM ClicksAreObeyed == Spec => []ClickObeyed
<1>1. AdminInv => ClickObeyed
  BY DEF AdminInv, Promised, ClickObeyed
<1>. QED  BY <1>1, AdminInvariant, PTL

\* A save changes a key that Configure does not show only where it takes back an edit
\* made by hand while a copy of the file was around.
THEOREM SavesRevertEditsOnly == Spec => OnlyStaleSavesRevert
<1>1. ASSUME AdminInv, [Next]_vars, file' # file, ~EditByHand PROVE stale
  <2>1. LateServed \/ SaveServed
    BY <1>1 DEF Next, Threads, Disturbance, Served, Die, Start, Subscriber, SubLost,
       SubOpened, Drain, DrainAndAsk, Elapse, RefreshServed, Refreshed, RefreshFails,
       Touch, Glances, OpenMenu, Dismiss, Tells, Click, Reload, OpenConfigure, SaveTapped,
       Cancel, Begins, QueryServed, ReloadServed, OpenServed, ToggleServed, ToggleSends,
       ToggleAnswered, ActionFails, ActionTimesOut, vars, remote
  <2>. QED  BY <1>1, <2>1 DEF LateServed, SaveServed, AdminInv, UpToDate
<1>2. AdminInv /\ [Next]_vars => [file' # file /\ ~EditByHand => stale]_vars
  BY <1>1
<1>. QED  BY <1>2, AdminInvariant, PTL DEF Spec, OnlyStaleSavesRevert
=============================================================================
