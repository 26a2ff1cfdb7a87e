----------------------------- MODULE StatusFeed -----------------------------
(***************************************************************************)
(* What a subscription promises to the menu bar of one tray                *)
(* (crates/daemon/src/ipc.rs run_subscribe; crates/tray/src/bin/tray.rs    *)
(* run_subscriber and the drain timer).  Statuses are drawn in the order   *)
(* in which they were computed, each at most once; a newer one may take    *)
(* the place of one that was not drawn yet.  Unless a new status is due,   *)
(* the last of them tells the counters as they are; only while one is due  *)
(* may the last be lost with the daemon that writes it, or with a menu bar *)
(* that is muted because the connection is gone.                           *)
(***************************************************************************)
EXTENDS Naturals, Sequences

CONSTANTS Values,  \* the statuses
          None     \* nothing drawn: the muted clock

VARIABLES
  truth,  \* the status of the counters
  queue,  \* the statuses computed and not drawn, in order
  shown,  \* what the menu bar shows
  due     \* a status must be computed: the counters changed, or nobody listens

vars == <<truth, queue, shown, due>>

Init ==
  /\ truth \in Values
  /\ queue = <<>> /\ shown = None /\ due = TRUE

-----------------------------------------------------------------------------
\* The counters change; also a wake-up without a change.
Change ==
  /\ truth' \in Values /\ due' = TRUE
  /\ UNCHANGED <<queue, shown>>

Sample ==
  /\ due /\ due' \in BOOLEAN
  /\ queue' = Append(queue, truth)
  /\ UNCHANGED <<truth, shown>>

\* A newer status takes the place of one that was not drawn.
Skip ==
  /\ Len(queue) > 1 /\ queue' = Tail(queue)
  /\ UNCHANGED <<truth, shown, due>>

Show ==
  /\ queue # <<>>
  /\ shown' = Head(queue) /\ queue' = Tail(queue)
  /\ UNCHANGED <<truth, due>>

\* The connection breaks while its last status is written.
Lose ==
  /\ \E v \in Values : queue = Append(queue', v)
  /\ due' = TRUE
  /\ UNCHANGED <<truth, shown>>

\* The tray knows that the connection is gone.
Mute ==
  /\ due /\ Len(queue) <= 1
  /\ queue' = <<>> /\ shown' = None
  /\ UNCHANGED <<truth, due>>

Next == Change \/ Sample \/ Skip \/ Show \/ Lose \/ Mute

Spec == Init /\ [][Next]_vars
=============================================================================
