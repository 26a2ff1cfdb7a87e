------------------------- MODULE StatusStream_proofs -------------------------
(***************************************************************************)
(* NothingMissed, and that the stream implements StatusFeed, for every     *)
(* limit, capacity of the channel and of the socket, number of days and of *)
(* crashes.                                                                *)
(***************************************************************************)
EXTENDS StatusStream, TLAPS

\* A connection lives only in a running daemon and has the tray's thread at its
\* other end, which has cleared the disconnected flag.
ConnectionsAgree ==
  /\ ~up => conn = "none" /\ owed = {}
  /\ conn # "none" => client = "subscribed" /\ ~latest.disconnected
  /\ conn = "write" => reply # None

\* What is about to be written is current, unless a wake-up is due or owed.
ReplyIsCurrent ==
  conn = "write" /\ behind = 0 /\ owed = {} => reply = StatusOf(mem)

StreamInv == TypeOK /\ ConnectionsAgree /\ ReplyIsCurrent /\ NothingMissed

-----------------------------------------------------------------------------
LEMMA StatusType ==
  ASSUME NEW m \in Memories
  PROVE  StatusOf(m) \in Statuses
BY DEF StatusOf, Statuses, Memories, SessionState, SessionStates

LEMMA StatusIsSome == ASSUME NEW r \in Statuses PROVE r # None
BY NoneAssumption

LEMMA ResetType ==
  ASSUME NEW m \in Memories, NEW d \in Nat
  PROVE  ResetIfNewDay(m, d) \in Memories
<1>1. 0 \in Used
  BY StatusAssumption DEF Used
<1>2. [[m EXCEPT !.day = d] EXCEPT !.used = 0] \in Memories
  BY <1>1 DEF Memories
<1> QED BY <1>2 DEF ResetIfNewDay

LEMMA TickType ==
  ASSUME NEW m \in Memories, NEW c \in BOOLEAN
  PROVE  Tick(m, c) \in Memories
<1> DEFINE n == IF c /\ m.used < MaxUsed THEN m.used + 1 ELSE m.used
<1>1. n \in Used
  <2>1. m.used \in 0 .. MaxUsed /\ MaxUsed \in Nat
    BY StatusAssumption DEF Memories, Used
  <2>2. m.used < MaxUsed => m.used + 1 \in 0 .. MaxUsed
    BY <2>1
  <2> QED BY <2>1, <2>2 DEF Used
<1>2. Tick(m, c) = [m EXCEPT !.used = n, !.active = c]
  BY DEF Tick
<1> HIDE DEF n
<1>3. [m EXCEPT !.used = n, !.active = c] \in Memories
  BY <1>1 DEF Memories
<1> QED BY <1>2, <1>3

LEMMA ReloadType ==
  ASSUME NEW m \in Memories, NEW r \in Reloaded(m)
  PROVE  r \in Memories
<1>1. PICK n \in {m.used, m.used - 1, 0} \cap Nat : r = [m EXCEPT !.used = n]
  BY DEF Reloaded
<1>2. n \in Used
  BY StatusAssumption DEF Memories, Used
<1> QED BY <1>1, <1>2 DEF Memories

\* The end of a sequence under the two operations of the socket.
LEMMA LastAppended ==
  ASSUME NEW S, NEW s \in Seq(S), NEW e \in S
  PROVE  /\ Append(s, e) \in Seq(S) /\ Append(s, e) # <<>>
         /\ Len(Append(s, e)) = Len(s) + 1
         /\ Append(s, e)[Len(Append(s, e))] = e
OBVIOUS

LEMMA LastOfTail ==
  ASSUME NEW S, NEW s \in Seq(S), s # <<>>
  PROVE  /\ Head(s) \in S /\ Tail(s) \in Seq(S) /\ Len(Tail(s)) <= Len(s)
         /\ Tail(s) # <<>> => Tail(s)[Len(Tail(s))] = s[Len(s)]
         /\ Tail(s) = <<>> => Len(s) = 1 /\ Head(s) = s[Len(s)]
<1>1. Len(s) \in Nat \ {0} /\ Head(s) = s[1] /\ Head(s) \in S
  OBVIOUS
<1>2. Tail(s) \in Seq(S) /\ Len(Tail(s)) = Len(s) - 1
  OBVIOUS
<1>3. Tail(s) # <<>> => Tail(s)[Len(Tail(s))] = s[Len(s)]
  BY <1>1, <1>2
<1>4. Tail(s) = <<>> => Len(s) = 1
  BY <1>1, <1>2
<1> QED BY <1>1, <1>2, <1>3, <1>4

-----------------------------------------------------------------------------
LEMMA StreamInit == Init => StreamInv
<1> SUFFICES ASSUME Init PROVE StreamInv
  OBVIOUS
<1>1. mem \in Memories
  BY StatusAssumption DEF Init, Memories, Used
<1>2. wire \in Seq(Statuses) /\ Len(wire) <= SocketCap
  BY StreamAssumption DEF Init
<1>3. /\ wallDay \in 0 .. MaxDay /\ crashes \in 0 .. MaxCrashes
      /\ behind \in 0 .. ChannelCap + 1
  BY StreamAssumption DEF Init
<1>4. TypeOK
  BY <1>1, <1>2, <1>3 DEF Init, TypeOK
<1> QED
  BY <1>4 DEF Init, StreamInv, ConnectionsAgree, ReplyIsCurrent, NothingMissed

\* One step per action: types.
LEMMA StreamTypeNext == TypeOK /\ ConnectionsAgree /\ [Next]_vars => TypeOK'
<1> SUFFICES ASSUME TypeOK, ConnectionsAgree, [Next]_vars PROVE TypeOK'
  OBVIOUS
<1> USE StreamAssumption DEF TypeOK, daemon, server, tray
<1>1. CASE Midnight
  BY <1>1 DEF Midnight
<1>2. CASE ConsoleChange
  BY <1>2 DEF ConsoleChange
<1>3. CASE Start
  <2>1. PICK m \in Reloaded(mem) :
          mem' = [ResetIfNewDay(m, wallDay) EXCEPT !.active = console]
    BY <1>3 DEF Start
  <2>2. ResetIfNewDay(m, wallDay) \in Memories
    BY <2>1, ReloadType, ResetType
  <2>3. mem' \in Memories
    BY <2>1, <2>2 DEF Memories
  <2> QED BY <1>3, <2>3 DEF Start
<1>4. CASE Crash
  <2>1. crashes' \in 0 .. MaxCrashes /\ behind' \in 0 .. ChannelCap + 1
    BY <1>4 DEF Crash
  <2> QED BY <1>4, <2>1 DEF Crash
<1>5. CASE TickLock
  <2>1. mem' \in Memories
    BY <1>5, ResetType, TickType DEF TickLock
  <2> QED BY <1>5, <2>1 DEF TickLock
<1>6. CASE ResetLock
  <2>1. mem' \in Memories
    BY <1>6, ResetType DEF ResetLock
  <2> QED BY <1>6, <2>1 DEF ResetLock
<1>7. ASSUME NEW task \in {"ticker", "resetter"}, Send(task) PROVE TypeOK'
  <2>1. behind' \in 0 .. ChannelCap + 1
    BY <1>7 DEF Send
  <2>2. owed' \subseteq {"ticker", "resetter"}
    BY <1>7 DEF Send
  <2> QED BY <1>7, <2>1, <2>2 DEF Send
<1>8. CASE Subscribe
  BY <1>8 DEF Subscribe
<1>9. CASE ComputeStatus
  BY <1>9, StatusType DEF ComputeStatus
<1>10. CASE WriteStatus
  <2>1. reply \in Statuses
    BY <1>10 DEF WriteStatus, ConnectionsAgree
  <2>2. wire' \in Seq(Statuses) /\ Len(wire') = Len(wire) + 1
    BY <1>10, <2>1, LastAppended DEF WriteStatus
  <2>3. Len(wire') <= SocketCap
    BY <1>10, <2>2 DEF WriteStatus
  <2> QED BY <1>10, <2>2, <2>3 DEF WriteStatus
<1>11. CASE Receive
  <2>1. behind' \in 0 .. ChannelCap + 1
    BY <1>11 DEF Receive
  <2> QED BY <1>11, <2>1 DEF Receive
<1>12. CASE OpenSubscription \/ OpenFails \/ StreamEnds
  BY <1>12 DEF OpenSubscription, Connected, OpenFails, StreamEnds
<1>13. CASE NextUpdate
  <2>1. /\ Head(wire) \in Statuses /\ wire' \in Seq(Statuses)
        /\ Len(wire') <= Len(wire)
    BY <1>13, LastOfTail DEF NextUpdate
  <2>2. Len(wire') <= SocketCap
    BY <2>1
  <2> QED BY <1>13, <2>1, <2>2 DEF NextUpdate
<1>14. CASE Drain
  BY <1>14 DEF Drain
<1>15. CASE UNCHANGED vars
  BY <1>15 DEF vars
<1> QED
  BY <1>1, <1>2, <1>3, <1>4, <1>5, <1>6, <1>7, <1>8, <1>9, <1>10, <1>11, <1>12,
     <1>13, <1>14, <1>15 DEF Next, Server, Subscriber

LEMMA ConnectionsAgreeNext ==
  TypeOK /\ ConnectionsAgree /\ [Next]_vars => ConnectionsAgree'
<1> SUFFICES ASSUME TypeOK, ConnectionsAgree, [Next]_vars PROVE ConnectionsAgree'
  OBVIOUS
<1> USE DEF ConnectionsAgree, daemon, server, tray
<1>1. CASE Midnight \/ ConsoleChange \/ UNCHANGED vars
  BY <1>1 DEF Midnight, ConsoleChange, vars
<1>2. CASE Start \/ Crash \/ TickLock \/ ResetLock
  BY <1>2 DEF Start, Crash, TickLock, ResetLock
<1>3. ASSUME NEW task \in {"ticker", "resetter"}, Send(task) PROVE ConnectionsAgree'
  BY <1>3 DEF Send
<1>4. CASE ComputeStatus
  <2>1. reply' # None
    BY <1>4, StatusType, StatusIsSome DEF ComputeStatus, TypeOK
  <2> QED BY <1>4, <2>1 DEF ComputeStatus
<1>5. CASE Subscribe \/ WriteStatus \/ Receive
  BY <1>5 DEF Subscribe, WriteStatus, Receive
<1>6. CASE Subscriber
  BY <1>6 DEF Subscriber, OpenSubscription, Connected, OpenFails, NextUpdate,
              StreamEnds, TypeOK
<1>7. CASE Drain
  BY <1>7 DEF Drain, TypeOK
<1> QED BY <1>1, <1>2, <1>3, <1>4, <1>5, <1>6, <1>7 DEF Next, Server

\* A wake-up sent to a connection that has its receiver is due there.
LEMMA SendIsDue ==
  ASSUME TypeOK, NEW task, Send(task), Receiving PROVE behind' # 0
<1>1. behind \in Nat /\ ChannelCap \in Nat \ {0}
  BY StreamAssumption DEF TypeOK
<1> QED BY <1>1 DEF Send

\* A status that is computed is current; the counters change with a wake-up
\* owed, and a wake-up that is sent is due.
LEMMA ReplyIsCurrentNext ==
  TypeOK /\ ConnectionsAgree /\ ReplyIsCurrent /\ [Next]_vars => ReplyIsCurrent'
<1> SUFFICES ASSUME TypeOK, ConnectionsAgree, ReplyIsCurrent, [Next]_vars
             PROVE  ReplyIsCurrent'
  OBVIOUS
<1> USE DEF ReplyIsCurrent, daemon, server, tray
<1>1. CASE Midnight \/ ConsoleChange \/ Drain \/ Subscriber \/ UNCHANGED vars
  BY <1>1 DEF Midnight, ConsoleChange, Drain, Subscriber, OpenSubscription, OpenFails,
              NextUpdate, StreamEnds, vars
<1>2. CASE Start \/ Crash \/ TickLock \/ ResetLock
  BY <1>2 DEF Start, Crash, TickLock, ResetLock, ConnectionsAgree
<1>3. ASSUME NEW task \in {"ticker", "resetter"}, Send(task) PROVE ReplyIsCurrent'
  BY <1>3, SendIsDue DEF Send, Receiving
<1>4. CASE Server
  BY <1>4 DEF Server, Subscribe, ComputeStatus, WriteStatus, Receive
<1> QED BY <1>1, <1>2, <1>3, <1>4 DEF Next

\* Only the connection's write changes what the tray will have drawn last.
LEMMA NewestKept ==
  ASSUME TypeOK, ConnectionsAgree, conn = "select", NextUpdate \/ Drain
  PROVE  Newest' = Newest
<1>1. CASE NextUpdate
  <2>1. Head(wire) # None
    BY <1>1, LastOfTail, StatusIsSome DEF NextUpdate, TypeOK
  <2>2. wire' = Tail(wire) /\ latest'.pending = Head(wire)
    BY <1>1 DEF NextUpdate, TypeOK
  <2>3. Newest = wire[Len(wire)]
    BY <1>1 DEF NextUpdate, Newest
  <2> QED BY <1>1, <2>1, <2>2, <2>3, LastOfTail DEF NextUpdate, Newest, TypeOK
<1>2. CASE Drain
  <2>1. ~latest.disconnected /\ latest'.pending = None /\ UNCHANGED wire
    BY <1>2 DEF Drain, ConnectionsAgree, TypeOK
  <2>2. screen' = IF latest.pending # None THEN latest.pending ELSE screen
    BY <1>2, <2>1 DEF Drain
  <2> QED BY <2>1, <2>2 DEF Newest
<1> QED BY <1>1, <1>2

LEMMA NothingMissedNext == StreamInv /\ [Next]_vars => NothingMissed'
<1> SUFFICES ASSUME StreamInv, [Next]_vars PROVE NothingMissed'
  OBVIOUS
<1> USE DEF StreamInv, NothingMissed, daemon, server, tray
<1>1. CASE Midnight \/ ConsoleChange \/ UNCHANGED vars
  BY <1>1 DEF Midnight, ConsoleChange, vars, Newest
<1>2. CASE Start \/ Crash \/ TickLock \/ ResetLock
  BY <1>2 DEF Start, Crash, TickLock, ResetLock, ConnectionsAgree
<1>3. ASSUME NEW task \in {"ticker", "resetter"}, Send(task) PROVE NothingMissed'
  BY <1>3, SendIsDue DEF Send, Receiving
<1>4. CASE WriteStatus
  <2>1. reply \in Statuses
    BY <1>4 DEF WriteStatus, ConnectionsAgree, TypeOK
  <2>2. wire' # <<>> /\ wire'[Len(wire')] = reply
    BY <1>4, <2>1, LastAppended DEF WriteStatus, TypeOK
  <2>3. Newest' = reply
    BY <2>2 DEF Newest
  <2> QED BY <1>4, <2>3 DEF WriteStatus, ReplyIsCurrent
<1>5. CASE Subscribe \/ ComputeStatus \/ Receive
  BY <1>5 DEF Subscribe, ComputeStatus, Receive
<1>6. CASE OpenSubscription \/ OpenFails \/ StreamEnds
  BY <1>6 DEF OpenSubscription, OpenFails, StreamEnds, ConnectionsAgree
<1>7. CASE NextUpdate \/ Drain
  <2>1. UNCHANGED <<conn, behind, owed, mem>>
    BY <1>7 DEF NextUpdate, Drain
  <2> QED BY <1>7, <2>1, NewestKept
<1> QED
  BY <1>1, <1>2, <1>3, <1>4, <1>5, <1>6, <1>7 DEF Next, Server, Subscriber

\* The invariant of a subscription holds in every state of the specification.
THEOREM StreamInvariant == Spec => []StreamInv
<1>1. StreamInv /\ [Next]_vars => StreamInv'
  BY StreamTypeNext, ConnectionsAgreeNext, ReplyIsCurrentNext, NothingMissedNext
  DEF StreamInv
<1> QED BY <1>1, StreamInit, PTL DEF Spec

\* Whatever the capacities, no change of the counters is lost on its way to the
\* tray: run_subscribe answers every wake-up, lagging ones included, with a
\* status computed after it.
THEOREM NoChangeIsMissed == Spec => []NothingMissed
<1>1. StreamInv => NothingMissed
  BY DEF StreamInv
<1> QED BY <1>1, StreamInvariant, PTL

\* Types of daemon, stream and menu bar.
THEOREM StreamTypes == Spec => []TypeOK
<1>1. StreamInv => TypeOK
  BY DEF StreamInv
<1> QED BY <1>1, StreamInvariant, PTL

-----------------------------------------------------------------------------
(* StatusStream implements StatusFeed.                                     *)

\* The tray takes the connection for lost only after it has read all of it.
MutedWhenRead ==
  /\ latest.disconnected => client = "away"
  /\ client = "away" => wire = <<>>

LEMMA MutedStep == TypeOK /\ ConnectionsAgree /\ MutedWhenRead /\ [Next]_vars => MutedWhenRead'
<1> SUFFICES ASSUME TypeOK, ConnectionsAgree, MutedWhenRead, [Next]_vars PROVE MutedWhenRead'
  OBVIOUS
<1> USE DEF MutedWhenRead, daemon, server, tray
<1>1. CASE Midnight \/ ConsoleChange \/ UNCHANGED vars
  BY <1>1 DEF Midnight, ConsoleChange, vars
<1>2. CASE Start \/ Crash \/ TickLock \/ ResetLock
  BY <1>2 DEF Start, Crash, TickLock, ResetLock
<1>3. ASSUME NEW task \in {"ticker", "resetter"}, Send(task) PROVE MutedWhenRead'
  BY <1>3 DEF Send
<1>4. CASE Server
  BY <1>4 DEF Server, Subscribe, ComputeStatus, WriteStatus, Receive, ConnectionsAgree
<1>5. CASE OpenSubscription \/ OpenFails \/ StreamEnds
  BY <1>5 DEF OpenSubscription, Connected, OpenFails, StreamEnds, TypeOK
<1>6. CASE NextUpdate
  <2>1. client = "subscribed" /\ client' = client /\ latest'.disconnected = latest.disconnected
    BY <1>6 DEF NextUpdate, TypeOK
  <2> QED BY <2>1
<1>7. CASE Drain
  BY <1>7 DEF Drain, TypeOK
<1> QED BY <1>1, <1>2, <1>3, <1>4, <1>5, <1>6, <1>7 DEF Next, Subscriber

\* What is still to be drawn, under the operations of the slot, the socket and
\* the connection.
Queue == Drawable \o wire \o BeingWritten

LEMMA QueueParts ==
  ASSUME NEW S, NEW w \in Seq(S), NEW r \in Seq(S), NEW p \in S
  PROVE  /\ <<>> \o w = w /\ w \o <<>> = w
         /\ <<p>> \o w \o r \in Seq(S) /\ <<p>> \o w \o r # <<>>
         /\ Head(<<p>> \o w \o r) = p /\ Tail(<<p>> \o w \o r) = w \o r
         /\ Len(<<p>> \o w \o r) = 1 + Len(w) + Len(r)
         /\ w \o <<p>> = Append(w, p)
<1>1. <<>> \o w = w /\ w \o <<>> = w /\ w \o <<p>> = Append(w, p)
  OBVIOUS
<1>2. /\ <<p>> \o w \in Seq(S) /\ Len(<<p>> \o w) = 1 + Len(w)
      /\ (<<p>> \o w)[1] = p
      /\ \A i \in 1 .. Len(w) : (<<p>> \o w)[i + 1] = w[i]
  OBVIOUS
<1>3. /\ <<p>> \o w \o r \in Seq(S) /\ Len(<<p>> \o w \o r) = 1 + Len(w) + Len(r)
      /\ (<<p>> \o w \o r)[1] = p
  BY <1>2
<1>4. <<p>> \o w \o r # <<>> /\ Head(<<p>> \o w \o r) = p
  BY <1>3
<1>5. Tail(<<p>> \o w \o r) = w \o r
  BY <1>2, <1>3
<1> QED BY <1>1, <1>3, <1>4, <1>5

\* A socket that is not empty begins with its head.
LEMMA QueueOfWire ==
  ASSUME NEW S, NEW w \in Seq(S), w # <<>>
  PROVE  /\ Head(w) \in S /\ Tail(w) \in Seq(S)
         /\ w = <<Head(w)>> \o Tail(w)
OBVIOUS

LEMMA FeedInit == Init => Feed!Init
<1> SUFFICES ASSUME Init PROVE Feed!Init
  OBVIOUS
<1>1. StatusOf(mem) \in Statuses
  BY StreamInit, StatusType DEF StreamInv, TypeOK
<1>2. Drawable \o wire \o BeingWritten = <<>>
  BY DEF Init, Drawable, BeingWritten
<1> QED BY <1>1, <1>2 DEF Init, Due, Feed!Init

\* What the feed does not see.
LEMMA NotSeen ==
  ASSUME UNCHANGED <<StatusOf(mem), Queue, screen, Due>>
  PROVE  UNCHANGED Feed!vars
BY DEF Feed!vars, Queue

\* The counters and the wake-ups.
LEMMA CountersFeed ==
  ASSUME TypeOK', ConnectionsAgree, Start \/ TickLock \/ ResetLock
  PROVE  Feed!Change
<1> USE DEF daemon, server, tray
<1>1. UNCHANGED <<Queue, screen>>
  BY DEF Start, TickLock, ResetLock, Queue, Drawable, BeingWritten
<1>2. Due'
  BY DEF Start, TickLock, ResetLock, Due, ConnectionsAgree
<1>3. StatusOf(mem)' \in Statuses
  BY StatusType DEF TypeOK
<1> QED BY <1>1, <1>2, <1>3 DEF Feed!Change, Queue

LEMMA SendFeed ==
  ASSUME TypeOK, ConnectionsAgree, NEW task, Send(task)
  PROVE  UNCHANGED Feed!vars
<1> USE DEF daemon, server, tray
<1>1. UNCHANGED <<mem, Queue, screen, conn>>
  BY DEF Send, Queue, Drawable, BeingWritten
<1>2. Due
  BY DEF Send, Due
<1>3. Due'
  <2>1. CASE conn \in {"write", "select"}
    <3>1. behind' # 0 /\ behind' \in Nat
      <4>1. behind \in Nat
        BY StreamAssumption DEF TypeOK
      <4>2. behind' # 0
        BY <2>1, SendIsDue DEF Receiving
      <4> QED BY <4>1, <4>2 DEF Send
    <3> QED BY <3>1 DEF Due
  <2>2. CASE conn \notin {"write", "select"}
    BY <1>1, <2>2 DEF Due
  <2> QED BY <2>1, <2>2
<1> QED BY <1>1, <1>2, <1>3, NotSeen

\* The end of the daemon takes along the status that is being written.
LEMMA CrashFeed ==
  ASSUME TypeOK, ConnectionsAgree, Crash
  PROVE  Feed!Lose \/ Feed!Change
<1> USE DEF daemon, server, tray
<1>1. UNCHANGED <<mem, wire, latest, screen, Drawable>> /\ Due' /\ BeingWritten' = <<>>
  BY DEF Crash, Due, Drawable, BeingWritten
<1>2. wire \in Seq(Statuses) /\ Drawable \in Seq(Statuses)
  BY DEF TypeOK, Drawable
<1>3. Drawable \o wire \in Seq(Statuses)
  BY <1>2
<1>4. Queue' = Drawable \o wire
  BY <1>1, <1>3, QueueParts DEF Queue
<1>5. CASE conn = "write"
  <2>1. reply \in Statuses
    BY <1>5 DEF TypeOK, ConnectionsAgree
  <2>2. Queue = Append(Queue', reply)
    <3>1. (Drawable \o wire) \o <<reply>> = Append(Drawable \o wire, reply)
      BY <1>3, <2>1, QueueParts
    <3> QED BY <1>4, <1>5, <3>1 DEF Queue, BeingWritten
  <2> QED BY <1>1, <2>1, <2>2 DEF Feed!Lose, Queue
<1>6. CASE conn # "write"
  <2>1. Queue' = Queue
    BY <1>3, <1>4, <1>6, QueueParts DEF Queue, BeingWritten
  <2>2. StatusOf(mem) \in Statuses
    BY StatusType DEF TypeOK
  <2> QED BY <1>1, <2>1, <2>2 DEF Feed!Change, Queue
<1> QED BY <1>5, <1>6

\* The connection: a status is computed, and nothing is lost in writing it.
LEMMA ServerFeed ==
  ASSUME TypeOK, ConnectionsAgree, Server
  PROVE  Feed!Sample \/ UNCHANGED Feed!vars
<1> USE DEF daemon, server, tray
<1>1. wire \in Seq(Statuses) /\ Drawable \in Seq(Statuses)
  BY DEF TypeOK, Drawable
<1>2. Drawable \o wire \in Seq(Statuses)
  BY <1>1
<1>3. CASE Subscribe \/ Receive
  <2>1. UNCHANGED <<mem, Queue, screen>>
    BY <1>3 DEF Subscribe, Receive, Queue, Drawable, BeingWritten
  <2>2. Due /\ Due'
    BY <1>3 DEF Subscribe, Receive, Due
  <2> QED BY <2>1, <2>2, NotSeen
<1>4. CASE ComputeStatus
  <2>1. /\ UNCHANGED <<mem, wire, screen, Drawable>> /\ BeingWritten = <<>>
        /\ BeingWritten' = <<StatusOf(mem)>> /\ Due
    BY <1>4 DEF ComputeStatus, Drawable, BeingWritten, Due
  <2>2. StatusOf(mem) \in Statuses
    BY StatusType DEF TypeOK
  <2>3. Queue' = Append(Queue, StatusOf(mem))
    BY <1>2, <2>1, <2>2, QueueParts DEF Queue
  <2>4. Due' \in BOOLEAN
    BY DEF Due
  <2> QED BY <2>1, <2>3, <2>4 DEF Feed!Sample, Queue
<1>5. CASE WriteStatus
  <2>1. reply \in Statuses /\ conn = "write" /\ conn' = "select"
    BY <1>5 DEF WriteStatus, TypeOK, ConnectionsAgree
  <2>2. UNCHANGED <<mem, screen, Drawable, Due>> /\ wire' = Append(wire, reply)
    BY <1>5 DEF WriteStatus, Drawable, Due
  <2>3. BeingWritten = <<reply>> /\ BeingWritten' = <<>>
    BY <2>1 DEF BeingWritten
  <2>4. Queue = Append(Drawable \o wire, reply)
    BY <1>2, <2>1, <2>3, QueueParts DEF Queue
  <2>5. Queue' = Drawable \o Append(wire, reply)
    <3>1. Drawable \o Append(wire, reply) \in Seq(Statuses)
      BY <1>1, <2>1
    <3> QED BY <2>1, <2>2, <2>3, <3>1, QueueParts DEF Queue
  <2>6. Append(Drawable \o wire, reply) = Drawable \o Append(wire, reply)
    BY <1>1, <2>1
  <2> QED BY <2>2, <2>4, <2>5, <2>6, NotSeen
<1> QED BY <1>3, <1>4, <1>5 DEF Server

\* The subscriber's thread: a status that comes in before the slot was emptied
\* takes the place of the one there.
LEMMA SubscriberFeed ==
  ASSUME TypeOK, ConnectionsAgree, Subscriber
  PROVE  Feed!Skip \/ UNCHANGED Feed!vars
<1> USE DEF daemon, server, tray
<1>1. CASE OpenSubscription \/ OpenFails \/ StreamEnds
  <2>1. UNCHANGED <<mem, wire, screen, Drawable, BeingWritten, Due>>
    BY <1>1 DEF OpenSubscription, Connected, OpenFails, StreamEnds, Drawable, BeingWritten, Due,
                TypeOK
  <2> QED BY <2>1, NotSeen DEF Queue
<1>2. CASE NextUpdate
  <2>1. /\ UNCHANGED <<mem, screen, BeingWritten, Due>>
        /\ wire # <<>> /\ wire' = Tail(wire) /\ latest'.pending = Head(wire)
    BY <1>2 DEF NextUpdate, BeingWritten, Due, TypeOK
  <2>2. wire \in Seq(Statuses) /\ BeingWritten \in Seq(Statuses)
    BY DEF TypeOK, BeingWritten, ConnectionsAgree
  <2>3. Head(wire) \in Statuses /\ Tail(wire) \in Seq(Statuses) /\ wire = <<Head(wire)>> \o Tail(wire)
    BY <2>1, <2>2, QueueOfWire
  <2>4. Drawable' = <<Head(wire)>>
    BY <2>1, <2>3, StatusIsSome DEF Drawable
  <2>5. Queue' = wire \o BeingWritten
    BY <2>1, <2>3, <2>4 DEF Queue
  <2>6. CASE latest.pending = None
    <3>1. Queue = wire \o BeingWritten
      BY <2>2, <2>6, QueueParts DEF Queue, Drawable
    <3> QED BY <2>1, <2>5, <3>1, NotSeen
  <2>7. CASE latest.pending # None
    <3>1. latest.pending \in Statuses /\ Queue = <<latest.pending>> \o wire \o BeingWritten
      BY <2>7 DEF TypeOK, Queue, Drawable
    <3>2. Tail(Queue) = wire \o BeingWritten /\ Len(Queue) = 1 + Len(wire) + Len(BeingWritten)
      BY <2>2, <3>1, QueueParts
    <3>3. Len(Queue) > 1
      BY <2>1, <2>2, <3>2
    <3> QED BY <2>1, <2>5, <3>2, <3>3 DEF Feed!Skip, Queue
  <2> QED BY <2>6, <2>7
<1> QED BY <1>1, <1>2 DEF Subscriber

\* The timer draws the oldest status there is, or mutes.
LEMMA DrainFeed ==
  ASSUME TypeOK, ConnectionsAgree, MutedWhenRead, Drain
  PROVE  Feed!Show \/ Feed!Mute \/ UNCHANGED Feed!vars
<1> USE DEF daemon, server, tray
<1>1. UNCHANGED <<mem, wire, BeingWritten, Due>> /\ Drawable' = <<>>
  BY DEF Drain, BeingWritten, Due, Drawable, TypeOK
<1>2. wire \in Seq(Statuses) /\ BeingWritten \in Seq(Statuses)
  BY DEF TypeOK, BeingWritten, ConnectionsAgree
<1>3. Queue' = wire \o BeingWritten
  BY <1>1, <1>2, QueueParts DEF Queue
<1>4. CASE latest.disconnected
  <2>1. conn = "none" /\ wire = <<>> /\ screen' = None
    BY <1>4 DEF MutedWhenRead, ConnectionsAgree, Drain
  <2>2. Due /\ BeingWritten = <<>>
    BY <2>1 DEF Due, BeingWritten
  <2>3. Queue' = <<>> /\ Len(Queue) <= 1
    BY <1>3, <2>1, <2>2 DEF Queue, Drawable
  <2> QED BY <1>1, <2>1, <2>2, <2>3 DEF Feed!Mute, Queue
<1>5. CASE ~latest.disconnected /\ latest.pending # None
  <2>1. /\ latest.pending \in Statuses /\ screen' = latest.pending
        /\ Queue = <<latest.pending>> \o wire \o BeingWritten
    BY <1>5 DEF Drain, TypeOK, Queue, Drawable
  <2>2. Queue # <<>> /\ Head(Queue) = latest.pending /\ Tail(Queue) = wire \o BeingWritten
    BY <1>2, <2>1, QueueParts
  <2> QED BY <1>1, <1>3, <2>1, <2>2 DEF Feed!Show, Queue
<1>6. CASE ~latest.disconnected /\ latest.pending = None
  <2>1. Queue = wire \o BeingWritten /\ screen' = screen
    BY <1>2, <1>6, QueueParts DEF Queue, Drawable, Drain
  <2> QED BY <1>1, <1>3, <2>1, NotSeen
<1> QED BY <1>4, <1>5, <1>6

LEMMA FeedStep ==
  StreamInv /\ StreamInv' /\ MutedWhenRead /\ [Next]_vars => [Feed!Next]_(Feed!vars)
<1> SUFFICES ASSUME StreamInv, StreamInv', MutedWhenRead, [Next]_vars
             PROVE  Feed!Next \/ UNCHANGED Feed!vars
  OBVIOUS
<1> USE DEF StreamInv
<1>1. CASE Midnight \/ ConsoleChange \/ UNCHANGED vars
  <2>1. UNCHANGED <<mem, Queue, screen, Due>>
    BY <1>1 DEF Midnight, ConsoleChange, vars, daemon, server, tray, Queue, Drawable,
                BeingWritten, Due
  <2> QED BY <2>1, NotSeen
<1>2. CASE Start \/ TickLock \/ ResetLock
  BY <1>2, CountersFeed DEF Feed!Next
<1>3. CASE Crash
  BY <1>3, CrashFeed DEF Feed!Next
<1>4. ASSUME NEW task \in {"ticker", "resetter"}, Send(task) PROVE UNCHANGED Feed!vars
  BY <1>4, SendFeed
<1>5. CASE Server
  BY <1>5, ServerFeed DEF Feed!Next
<1>6. CASE Subscriber
  BY <1>6, SubscriberFeed DEF Feed!Next
<1>7. CASE Drain
  BY <1>7, DrainFeed DEF Feed!Next
<1> QED BY <1>1, <1>2, <1>3, <1>4, <1>5, <1>6, <1>7 DEF Next

\* Whatever the capacities, the crashes and the delays, the stream is a feed:
\* statuses are drawn in the order in which compute_status made them, none twice,
\* and none but the last can get lost otherwise than to a newer one.
THEOREM StreamIsAFeed == Spec => FeedSpec
<1>1. Init => MutedWhenRead
  BY DEF Init, MutedWhenRead
<1>2. StreamInv /\ MutedWhenRead /\ [Next]_vars => MutedWhenRead'
  BY MutedStep DEF StreamInv
<1> QED BY <1>1, <1>2, StreamInvariant, FeedInit, FeedStep, PTL DEF Spec, FeedSpec, Feed!Spec

-----------------------------------------------------------------------------
(* The feed says enough.                                                   *)

LastComputed == IF Queue = <<>> THEN screen ELSE Queue[Len(Queue)]

\* Unless a status is due, the last one computed is current, drawn or not.
FeedIsCurrent == ~Due => LastComputed = StatusOf(mem)

LEMMA SingleType == ASSUME NEW S, NEW x \in S PROVE <<x>> \in Seq(S)
OBVIOUS

LEMMA TailOfMany ==
  ASSUME NEW S, NEW s \in Seq(S), Len(s) > 1
  PROVE  /\ s # <<>> /\ Tail(s) # <<>>
         /\ Tail(s)[Len(Tail(s))] = s[Len(s)]
<1>1. \A n \in Nat : n > 1 => n # 1 /\ n # 0
  OBVIOUS
<1>2. Len(s) \in Nat /\ (s = <<>> => Len(s) = 0)
  OBVIOUS
<1>3. s # <<>> /\ Len(s) # 1
  BY <1>1, <1>2, Zenon
<1> QED BY <1>3, LastOfTail

LEMMA QueueType == TypeOK => Queue \in Seq(Statuses \cup {None})
<1> SUFFICES ASSUME TypeOK PROVE Queue \in Seq(Statuses \cup {None})
  OBVIOUS
<1>1. Drawable \in Seq(Statuses \cup {None}) /\ BeingWritten \in Seq(Statuses \cup {None})
  <2>1. latest.pending \in Statuses \cup {None} /\ reply \in Statuses \cup {None}
    BY DEF TypeOK
  <2>2. \A x \in Statuses \cup {None} : <<x>> \in Seq(Statuses \cup {None})
    BY SingleType
  <2>3. <<>> \in Seq(Statuses \cup {None})
    OBVIOUS
  <2> QED BY <2>1, <2>2, <2>3, Zenon DEF Drawable, BeingWritten
<1>2. wire \in Seq(Statuses \cup {None})
  BY DEF TypeOK
<1>3. Drawable \o wire \in Seq(Statuses \cup {None})
  BY <1>1, <1>2
<1> QED BY <1>1, <1>3 DEF Queue

LEMMA FeedCurrentStep ==
  ASSUME TypeOK, TypeOK', FeedIsCurrent, [Feed!Next]_(Feed!vars)
  PROVE  FeedIsCurrent'
<1> DEFINE S == Statuses \cup {None}
<1>1. Queue \in Seq(S) /\ Queue' \in Seq(S)
  <2>1. Queue \in Seq(S)
    BY QueueType
  <2>2. (TypeOK => Queue \in Seq(S))'
    BY QueueType, PTL
  <2> QED BY <2>1, <2>2
<1> HIDE DEF S
<1>2. CASE Feed!Change \/ Feed!Lose
  <2>1. Due'
    BY <1>2, Zenon DEF Feed!Change, Feed!Lose
  <2> QED BY <2>1 DEF FeedIsCurrent
<1>3. CASE Feed!Sample
  <2>1. Queue' = Append(Queue, StatusOf(mem)) /\ StatusOf(mem)' = StatusOf(mem)
    BY <1>3 DEF Feed!Sample, Queue
  <2>2. Queue' # <<>> /\ Queue'[Len(Queue')] = StatusOf(mem)
    BY <1>1, <2>1
  <2> QED BY <2>1, <2>2 DEF FeedIsCurrent, LastComputed
<1>4. CASE Feed!Skip
  <2>1. Len(Queue) > 1 /\ Queue' = Tail(Queue) /\ UNCHANGED <<StatusOf(mem), Due>>
    BY <1>4 DEF Feed!Skip, Queue
  <2>2. Queue # <<>> /\ Queue' # <<>> /\ Queue'[Len(Queue')] = Queue[Len(Queue)]
    BY <1>1, <2>1, TailOfMany
  <2> QED BY <2>1, <2>2 DEF FeedIsCurrent, LastComputed
<1>5. CASE Feed!Show
  <2>1. /\ Queue # <<>> /\ screen' = Head(Queue) /\ Queue' = Tail(Queue)
        /\ UNCHANGED <<StatusOf(mem), Due>>
    BY <1>5 DEF Feed!Show, Queue
  <2>2. /\ Tail(Queue) # <<>> => Tail(Queue)[Len(Tail(Queue))] = Queue[Len(Queue)]
        /\ Tail(Queue) = <<>> => Head(Queue) = Queue[Len(Queue)]
    BY <1>1, <2>1, LastOfTail
  <2> QED BY <2>1, <2>2 DEF FeedIsCurrent, LastComputed
<1>6. CASE Feed!Mute
  BY <1>6 DEF Feed!Mute, FeedIsCurrent
<1>7. CASE UNCHANGED Feed!vars
  BY <1>7 DEF Feed!vars, FeedIsCurrent, LastComputed, Queue
<1> QED BY <1>2, <1>3, <1>4, <1>5, <1>6, <1>7 DEF Feed!Next

\* On a connection that waits, the end of the queue is the newest status sent.
LEMMA NewestIsLast ==
  ASSUME TypeOK, conn = "select"
  PROVE  LastComputed = Newest
<1>1. wire \in Seq(Statuses) /\ BeingWritten = <<>>
  BY DEF TypeOK, BeingWritten
<1>2. CASE latest.pending = None
  <2>1. Queue = wire
    BY <1>1, <1>2, QueueParts DEF Queue, Drawable
  <2> QED BY <1>2, <2>1 DEF LastComputed, Newest
<1>3. CASE latest.pending # None
  <2>1. latest.pending \in Statuses /\ Queue = <<latest.pending>> \o wire
    <3>1. latest.pending \in Statuses
      BY <1>3 DEF TypeOK
    <3>2. <<latest.pending>> \o wire \in Seq(Statuses)
      BY <1>1, <3>1
    <3> QED BY <1>1, <1>3, <3>1, <3>2, QueueParts DEF Queue, Drawable
  <2>2. /\ Len(Queue) = 1 + Len(wire) /\ Queue # <<>> /\ Len(wire) \in Nat
        /\ Queue[1] = latest.pending
        /\ \A i \in 1 .. Len(wire) : Queue[i + 1] = wire[i]
    BY <1>1, <2>1
  <2>3. wire # <<>> => Len(wire) \in 1 .. Len(wire)
    BY <1>1
  <2>4. wire = <<>> => Len(wire) = 0
    OBVIOUS
  <2> QED BY <1>3, <2>2, <2>3, <2>4 DEF LastComputed, Newest
<1> QED BY <1>2, <1>3

\* The feed says enough: whatever behaves like one, over states of these types,
\* misses no change of the counters.
THEOREM FeedSuffices == FeedSpec /\ []TypeOK => []NothingMissed
<1>1. Feed!Init => FeedIsCurrent
  BY DEF Feed!Init, FeedIsCurrent
<1>2. TypeOK /\ TypeOK' /\ FeedIsCurrent /\ [Feed!Next]_(Feed!vars) => FeedIsCurrent'
  BY FeedCurrentStep
<1>3. TypeOK /\ FeedIsCurrent => NothingMissed
  <2> SUFFICES ASSUME TypeOK, FeedIsCurrent, conn = "select", behind = 0, owed = {}
               PROVE  Newest = StatusOf(mem)
    BY DEF NothingMissed
  <2>1. ~Due
    BY DEF Due
  <2> QED BY <2>1, NewestIsLast DEF FeedIsCurrent
<1> QED BY <1>1, <1>2, <1>3, PTL DEF FeedSpec, Feed!Spec
=============================================================================
