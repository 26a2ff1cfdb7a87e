---------------------------- MODULE StatusStream ----------------------------
(***************************************************************************)
(* One tray's subscription: the daemon's counters for the tray's user, the *)
(* wake-up broadcast, the Subscribe connection (crates/daemon/src/ipc.rs), *)
(* the socket, the tray's subscriber thread and the timer that draws the   *)
(* menu bar (crates/tray/src/bin/tray.rs).  The daemon may die and come    *)
(* back; the tray lives throughout.                                        *)
(*                                                                         *)
(* The ticker and the resetter are here what subscribers see of them: a    *)
(* change of the counters and, after the save, a wake-up.  Of a status the *)
(* module keeps what is drawn; module Notifications has the reset time and *)
(* the warnings.                                                           *)
(***************************************************************************)
EXTENDS UserStatus, Sequences

CONSTANTS ChannelCap,    \* TICK_BROADCAST_CAPACITY
          SocketCap,     \* statuses the socket buffers before a write blocks
          MaxDay,        \* bound: the clock runs over days 0 .. MaxDay
          MaxCrashes,    \* bound: how often the daemon may die
          None

ASSUME StreamAssumption ==
  /\ ChannelCap \in Nat \ {0} /\ SocketCap \in Nat \ {0}
  /\ MaxDay \in Nat /\ MaxCrashes \in Nat

VARIABLES
  wallDay, console,  \* the local day; the user is on the console
  up, crashes,       \* the daemon runs; how often it died
  mem,               \* the counters
  owed,              \* the tasks that changed mem and have not sent yet
  conn,              \* where the connection's task is
  behind,            \* wake-ups its receiver has not taken; ChannelCap + 1: lagged
  reply,             \* the status it writes
  wire,              \* statuses in the socket
  client,            \* the tray's subscriber thread
  latest,            \* Latest: the status to draw, and disconnected
  screen             \* what the menu bar shows; None: the muted clock

daemon == <<up, crashes, mem, owed>>
server == <<conn, behind, reply>>
tray == <<client, latest, screen>>
vars == <<wallDay, console, daemon, server, wire, tray>>

Statuses == [state : SessionStates, used : Used]

ASSUME NoneAssumption == None \notin Statuses

\* compute_status.
StatusOf(m) == [state |-> SessionState(m), used |-> m.used]

TypeOK ==
  /\ wallDay \in 0 .. MaxDay
  /\ console \in BOOLEAN
  /\ up \in BOOLEAN /\ crashes \in 0 .. MaxCrashes
  /\ mem \in Memories
  /\ owed \subseteq {"ticker", "resetter"}
  /\ conn \in {"none", "accepted", "compute", "write", "select"}
  /\ behind \in 0 .. ChannelCap + 1
  /\ reply \in Statuses \cup {None}
  /\ wire \in Seq(Statuses) /\ Len(wire) <= SocketCap
  /\ client \in {"away", "subscribed"}
  /\ latest \in [pending : Statuses \cup {None}, disconnected : BOOLEAN]
  /\ screen \in Statuses \cup {None}

Init ==
  /\ wallDay = 0 /\ console = FALSE
  /\ up = FALSE /\ crashes = 0
  /\ mem = [day |-> 0, used |-> 0, active |-> FALSE]
  /\ owed = {}
  /\ conn = "none" /\ behind = 0 /\ reply = None
  /\ wire = <<>>
  /\ client = "away"
  /\ latest = [pending |-> None, disconnected |-> TRUE]
  /\ screen = None

-----------------------------------------------------------------------------
(* The environment.                                                        *)

Midnight ==
  /\ wallDay < MaxDay /\ wallDay' = wallDay + 1
  /\ UNCHANGED <<console, daemon, server, wire, tray>>

ConsoleChange ==
  /\ console' = ~console
  /\ UNCHANGED <<wallDay, daemon, server, wire, tray>>

-----------------------------------------------------------------------------
(* The daemon: start, crash, the two tasks that change the counters.       *)

Start ==
  /\ ~up
  /\ up' = TRUE
  /\ \E m \in Reloaded(mem) :
       mem' = [ResetIfNewDay(m, wallDay) EXCEPT !.active = console]
  /\ UNCHANGED <<wallDay, console, crashes, owed, server, wire, tray>>

\* Connections end with the process; what they wrote can still be read.
Crash ==
  /\ up /\ crashes < MaxCrashes
  /\ up' = FALSE /\ crashes' = crashes + 1
  /\ owed' = {}
  /\ conn' = "none" /\ behind' = 0 /\ reply' = None
  /\ UNCHANGED <<wallDay, console, mem, wire, tray>>

\* The ticker's critical section.
TickLock ==
  /\ up /\ "ticker" \notin owed
  /\ mem' = Tick(ResetIfNewDay(mem, wallDay), console)
  /\ owed' = owed \cup {"ticker"}
  /\ UNCHANGED <<wallDay, console, up, crashes, server, wire, tray>>

\* The resetter's, when it rolls; otherwise it sends nothing.
ResetLock ==
  /\ up /\ "resetter" \notin owed
  /\ mem.day # wallDay
  /\ mem' = ResetIfNewDay(mem, wallDay)
  /\ owed' = owed \cup {"resetter"}
  /\ UNCHANGED <<wallDay, console, up, crashes, server, wire, tray>>

\* Mutated form: a wake-up is for a task that waits and kept for no other.
ReceivingWhenIdle == conn = "select"

\* A Receiver exists from `tick_tx.subscribe()` on.
Receiving == conn \notin {"none", "accepted"}

\* tick_tx.send(()); it never waits for a receiver.
Send(task) ==
  /\ task \in owed
  /\ owed' = owed \ {task}
  /\ behind' = IF Receiving /\ behind <= ChannelCap THEN behind + 1 ELSE behind
  /\ UNCHANGED <<wallDay, console, up, crashes, mem, conn, reply, wire, tray>>

-----------------------------------------------------------------------------
(* handle_connection and run_subscribe.                                    *)

\* The Subscribe frame is read: the receiver is created before the initial
\* status is computed.
Subscribe ==
  /\ conn = "accepted"
  /\ conn' = "compute" /\ behind' = 0
  /\ UNCHANGED <<wallDay, console, daemon, reply, wire, tray>>

ComputeStatus ==
  /\ conn = "compute"
  /\ reply' = StatusOf(mem)
  /\ conn' = "write"
  /\ UNCHANGED <<wallDay, console, daemon, behind, wire, tray>>

\* Mutated form: the write does not wait for room.
WriteAtOnce ==
  /\ conn = "write"
  /\ wire' = Append(wire, reply)
  /\ reply' = None
  /\ conn' = "select"
  /\ UNCHANGED <<wallDay, console, daemon, behind, tray>>

\* write_frame waits for room in the socket.
WriteStatus ==
  /\ conn = "write" /\ Len(wire) < SocketCap
  /\ wire' = Append(wire, reply)
  /\ reply' = None
  /\ conn' = "select"
  /\ UNCHANGED <<wallDay, console, daemon, behind, tray>>

\* rx.recv(): a wake-up, or Lagged, after which the channel's last ChannelCap
\* are still to come.  A fresh status follows either.
Receive ==
  /\ conn = "select" /\ behind > 0
  /\ behind' = behind - 1
  /\ conn' = "compute"
  /\ UNCHANGED <<wallDay, console, daemon, reply, wire, tray>>

-----------------------------------------------------------------------------
(* The tray's subscriber thread (run_subscriber).                          *)

\* Mutated form: the flag is left as it was.
StillDisconnected == latest

Connected == [latest EXCEPT !.disconnected = FALSE]

\* Subscription::open succeeds.
OpenSubscription ==
  /\ client = "away" /\ up /\ conn = "none"
  /\ client' = "subscribed"
  /\ conn' = "accepted"
  /\ latest' = Connected
  /\ UNCHANGED <<wallDay, console, daemon, behind, reply, wire, screen>>

\* It fails; the thread sleeps RECONNECT_BACKOFF and tries again.
OpenFails ==
  /\ client = "away" /\ ~up
  /\ latest' = [latest EXCEPT !.disconnected = TRUE]
  /\ UNCHANGED <<wallDay, console, daemon, server, wire, client, screen>>

\* Mutated form: a status that was not drawn yet is kept.
OlderKept ==
  /\ client = "subscribed" /\ wire # <<>>
  /\ latest' = IF latest.pending = None THEN [latest EXCEPT !.pending = Head(wire)] ELSE latest
  /\ wire' = Tail(wire)
  /\ UNCHANGED <<wallDay, console, daemon, server, client, screen>>

\* A status arrives; the timer will draw it.
NextUpdate ==
  /\ client = "subscribed" /\ wire # <<>>
  /\ latest' = [latest EXCEPT !.pending = Head(wire)]
  /\ wire' = Tail(wire)
  /\ UNCHANGED <<wallDay, console, daemon, server, client, screen>>

\* The daemon's end is closed and everything it sent was read.
StreamEnds ==
  /\ client = "subscribed" /\ conn = "none" /\ wire = <<>>
  /\ client' = "away"
  /\ latest' = [latest EXCEPT !.disconnected = TRUE]
  /\ UNCHANGED <<wallDay, console, daemon, server, wire, screen>>

-----------------------------------------------------------------------------
\* The main thread's drain timer: the pending status is taken even when it is
\* not drawn because the tray is disconnected.
Drain ==
  /\ latest' = [latest EXCEPT !.pending = None]
  /\ screen' = IF latest.disconnected THEN None
               ELSE IF latest.pending # None THEN latest.pending ELSE screen
  /\ UNCHANGED <<wallDay, console, daemon, server, wire, client>>

-----------------------------------------------------------------------------
Server == Subscribe \/ ComputeStatus \/ WriteStatus \/ Receive
Subscriber == OpenSubscription \/ OpenFails \/ NextUpdate \/ StreamEnds

Next ==
  \/ Midnight \/ ConsoleChange
  \/ Start \/ Crash \/ TickLock \/ ResetLock
  \/ \E task \in {"ticker", "resetter"} : Send(task)
  \/ Server
  \/ Subscriber
  \/ Drain

Spec == Init /\ [][Next]_vars

\* launchd restarts the daemon; its tasks, the tray's thread and its timer run.  Of
\* the operator this takes that no menu or alert of the tray stays open for ever:
\* the timer does not fire while one is (TrayAdmin has both).
Fairness ==
  /\ WF_vars(Start)
  /\ \A task \in {"ticker", "resetter"} : WF_vars(Send(task))
  /\ WF_vars(Server) /\ WF_vars(Subscriber) /\ WF_vars(Drain)

FairSpec == Spec /\ Fairness

-----------------------------------------------------------------------------
(* Properties.                                                             *)

\* The last status sent on the connection, as far as the tray has not drawn it.
Newest == IF wire # <<>> THEN wire[Len(wire)]
          ELSE IF latest.pending # None THEN latest.pending ELSE screen

\* No change of the counters is lost between creating the receiver, the initial
\* status and the broadcasts, lagging included: a connection that waits with no
\* wake-up due has sent the current state, unless a task still owes the wake-up.
NothingMissed ==
  conn = "select" /\ behind = 0 /\ owed = {} => Newest = StatusOf(mem)

\* StatusStream implements StatusFeed: through wake-ups, lag, a full socket, a
\* slow timer, crashes and reconnections the menu bar shows statuses in the order
\* in which they were computed, none twice, and is muted only while a new one is
\* due.
Drawable == IF latest.pending = None THEN <<>> ELSE <<latest.pending>>
BeingWritten == IF conn = "write" THEN <<reply>> ELSE <<>>
Due == conn \notin {"write", "select"} \/ behind > 0 \/ owed # {}

Feed == INSTANCE StatusFeed
          WITH Values <- Statuses, truth <- StatusOf(mem), shown <- screen, due <- Due,
               queue <- Drawable \o wire \o BeingWritten
FeedSpec == Feed!Spec

\* Once the counters stop changing the menu bar comes to show them and keeps
\* doing so, through reconnects, lag and a full socket.
ScreenCatchesUp ==
  <>[][UNCHANGED <<mem, up>>]_vars => <>[](screen = StatusOf(mem))
=============================================================================
