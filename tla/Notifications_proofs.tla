------------------------ MODULE Notifications_proofs ------------------------
(***************************************************************************)
(* Theorems about the warnings, for any limit, thresholds, calendar and    *)
(* socket capacity.                                                        *)
(***************************************************************************)
EXTENDS Notifications, LocalTime_proofs, WellFoundedInduction, TLAPS

NextReset == NextMidnight(wallDay, hour)

\* A status is complete and waits to be written.
Stamped == reply # None /\ reply.resets # None

\* Reset times travel in order: the tracker's is not above any in the socket,
\* those in the socket are sorted, none is above the one being written or above
\* the next midnight.
InOrder ==
  /\ \A i, j \in 1 .. Len(wire) : i <= j => wire[i].resets <= wire[j].resets
  /\ \A i \in 1 .. Len(wire) :
       /\ wire[i].resets <= NextReset
       /\ tracker.resets # None => tracker.resets <= wire[i].resets
       /\ Stamped => wire[i].resets <= reply.resets
  /\ Stamped =>
       /\ reply.resets <= NextReset
       /\ tracker.resets # None => tracker.resets <= reply.resets
  /\ tracker.resets # None => tracker.resets <= NextReset

\* Nothing was announced for a later cycle than the tracker's, and in its own
\* nothing tighter than what it remembers.
Remembers ==
  \A a \in announced :
    /\ tracker.resets # None /\ a[1] <= tracker.resets
    /\ a[1] = tracker.resets => tracker.fired # None /\ tracker.fired <= a[2]

WarnInv == TypeOK /\ InOrder /\ Remembers /\ OncePerCycle

-----------------------------------------------------------------------------
\* Sets of naturals have a least element.
LEMMA LeastNat ==
  ASSUME NEW T, T \subseteq Nat, T # {}
  PROVE  \E x \in T : \A y \in T : x <= y
<1> DEFINE R == OpToRel(<, Nat)
<1>1. IsWellFoundedOn(R, Nat)
  BY NatLessThanWellFounded
<1>2. ASSUME NEW x \in Nat, NEW y \in Nat, ~(<<y, x>> \in R)
      PROVE  x <= y
  <2>1. ~(y < x)
    BY <1>2 DEF OpToRel
  <2> QED BY <2>1
<1> HIDE DEF R
<1>3. PICK x \in T : \A y \in T : ~(<<y, x>> \in R)
  BY <1>1, WFMin
<1>4. \A y \in T : x <= y
  BY <1>2, <1>3
<1> QED BY <1>4

\* The tracker announces configured thresholds only.
LEMMA CandidateType ==
  ASSUME NEW s \in Statuses PROVE Candidate(s) \in Thresholds \cup {None}
<1>1. CASE s.state # "active" \/ Crossed(s) = {}
  BY <1>1 DEF Candidate
<1>2. CASE ~(s.state # "active" \/ Crossed(s) = {})
  <2>1. Crossed(s) \subseteq Thresholds /\ Crossed(s) # {}
    BY <1>2 DEF Crossed
  <2>2. \E t \in Crossed(s) : \A u \in Crossed(s) : t <= u
    BY <2>1, LeastNat, NotificationAssumption
  <2> QED BY <1>2, <2>1, <2>2 DEF Candidate
<1> QED BY <1>1, <1>2

\* The session state is one of the three.
LEMMA SessionStateType == ASSUME NEW m \in Memories PROVE SessionState(m) \in SessionStates
BY StatusAssumption DEF SessionState, SessionStates, Memories, Used

\* The operations on the counters keep their type.
LEMMA MemoryType ==
  ASSUME NEW m \in Memories, NEW d \in Nat, NEW c \in BOOLEAN
  PROVE  /\ ResetIfNewDay(m, d) \in Memories
         /\ Tick(m, c) \in Memories
         /\ [m EXCEPT !.active = c] \in Memories
         /\ Reloaded(m) \subseteq Memories
<1> USE StatusAssumption
<1>1. \A n \in Used, x \in Nat, y \in BOOLEAN :
        [day |-> x, used |-> n, active |-> y] \in Memories
  BY DEF Memories
<1>2. m.day \in Nat /\ m.used \in Used /\ m.active \in BOOLEAN
      /\ m = [day |-> m.day, used |-> m.used, active |-> m.active]
  BY DEF Memories
<1>3. ResetIfNewDay(m, d) \in Memories
  <2>1. 0 \in Used
    BY DEF Used
  <2> QED BY <1>1, <1>2, <2>1 DEF ResetIfNewDay, Memories
<1>4. Tick(m, c) \in Memories
  <2> DEFINE n == IF c /\ m.used < MaxUsed THEN m.used + 1 ELSE m.used
  <2>1. n \in Used
    BY <1>2 DEF Used
  <2>2. Tick(m, c) = [m EXCEPT !.used = n, !.active = c]
    BY <1>2 DEF Tick, Memories
  <2> HIDE DEF n
  <2> QED BY <2>1, <2>2 DEF Memories
<1>5. [m EXCEPT !.active = c] \in Memories
  BY DEF Memories
<1>6. Reloaded(m) \subseteq Memories
  <2>1. ASSUME NEW n \in {m.used, m.used - 1, 0} \cap Nat
        PROVE  [m EXCEPT !.used = n] \in Memories
    <3>1. n \in Used
      BY <1>2 DEF Used
    <3> QED BY <3>1 DEF Memories
  <2> QED BY <2>1 DEF Reloaded
<1> QED BY <1>3, <1>4, <1>5, <1>6

LEMMA NextResetType == TypeOK => NextReset \in Nat
BY NextMidnightAhead, NotificationAssumption DEF TypeOK, NextReset

\* The next midnight does not move back.
LEMMA NextResetGrows == TypeOK /\ TimePasses => NextReset <= NextReset'
<1> SUFFICES ASSUME TypeOK, TimePasses PROVE NextReset <= NextReset'
  OBVIOUS
<1>1. wallDay \in Nat /\ hour \in Hours(wallDay)
  BY NotificationAssumption DEF TypeOK
<1>2. CASE hour + 1 \in Hours(wallDay) /\ hour' = hour + 1 /\ UNCHANGED wallDay
  BY <1>1, <1>2, NextMidnightMonotone DEF NextReset
<1>3. CASE hour + 1 \notin Hours(wallDay) /\ hour' = 0 /\ wallDay' = wallDay + 1
  <2>1. hour = Length(wallDay) - 1
    BY <1>1, <1>3, LengthType, CalendarAssumption DEF Hours
  <2> QED BY <1>1, <1>3, <2>1, NextMidnightMonotone DEF NextReset
<1> QED BY <1>2, <1>3 DEF TimePasses

-----------------------------------------------------------------------------
LEMMA WarnInit == Init => WarnInv
<1> SUFFICES ASSUME Init PROVE WarnInv
  OBVIOUS
<1>1. TypeOK
  <2>1. hour \in Hours(wallDay)
    BY CalendarAssumption DEF Init, Hours, Length
  <2>2. mem \in Memories
    BY StatusAssumption DEF Init, Memories, Used
  <2>3. wire \in Seq(Statuses)
    BY DEF Init
  <2>4. /\ wallDay \in 0 .. MaxDay /\ crashes \in 0 .. MaxCrashes
        /\ console \in BOOLEAN /\ up \in BOOLEAN /\ repeated \in BOOLEAN
    <3>1. 0 \in 0 .. MaxDay /\ 0 \in 0 .. MaxCrashes
      BY NotificationAssumption
    <3> QED BY <3>1 DEF Init
  <2>5. tracker \in [resets : Nat \cup {None}, fired : Thresholds \cup {None}]
    BY DEF Init
  <2>6. announced \subseteq Nat \X Thresholds /\ reply = None
    BY DEF Init
  <2> QED BY <2>1, <2>2, <2>3, <2>4, <2>5, <2>6 DEF TypeOK
<1>2. InOrder
  BY DEF Init, InOrder, Stamped
<1> QED BY <1>1, <1>2 DEF Init, WarnInv, Remembers, OncePerCycle

LEMMA WireType ==
  TypeOK => \A i \in 1 .. Len(wire) : wire[i] \in Statuses /\ wire[i].resets \in Nat
<1> SUFFICES ASSUME TypeOK, NEW i \in 1 .. Len(wire)
             PROVE  wire[i] \in Statuses /\ wire[i].resets \in Nat
  OBVIOUS
<1>1. wire[i] \in Statuses
  BY DEF TypeOK
<1> QED BY <1>1 DEF Statuses, StatusesWith

\* Steps that leave the warnings alone: the clock, the user, the counters.
LEMMA OtherSteps ==
  ASSUME WarnInv, TypeOK', NextReset <= NextReset', NextReset' \in Nat,
         UNCHANGED <<wire, tracker, history>>,
         reply' = reply \/ ~Stamped'
  PROVE  WarnInv'
<1> USE DEF WarnInv
<1>1. NextReset \in Nat
  BY NextResetType
<1>2. \A i \in 1 .. Len(wire) : wire[i].resets \in Nat
  BY WireType
<1>3. Stamped => reply.resets \in Nat
  BY DEF TypeOK, Stamped, Statuses, StatusesWith
<1>4. tracker.resets # None => tracker.resets \in Nat
  BY DEF TypeOK
<1>5. Stamped' => Stamped /\ reply' = reply
  BY DEF Stamped
<1>6. InOrder'
  BY <1>1, <1>2, <1>3, <1>4, <1>5 DEF InOrder
<1>7. Remembers' /\ OncePerCycle'
  BY DEF Remembers, OncePerCycle, history
<1> QED BY <1>6, <1>7

\* A status is stamped with the next midnight, not before any sent earlier.
LEMMA ReadClockKeeps == WarnInv /\ ReadClock => WarnInv'
<1> SUFFICES ASSUME WarnInv, ReadClock PROVE WarnInv'
  OBVIOUS
<1> USE DEF WarnInv
<1>1. NextReset \in Nat /\ NextReset' = NextReset
  BY NextResetType DEF ReadClock, NextReset, clock
<1>2. reply \in StatusesWith({None})
  <2>1. \A r \in Statuses : r.resets # None
    BY NotificationAssumption DEF Statuses, StatusesWith
  <2> QED BY <2>1 DEF ReadClock, TypeOK
<1>3. reply' \in Statuses /\ reply'.resets = NextReset
  BY <1>1, <1>2 DEF ReadClock, NextReset, Statuses, StatusesWith
<1>4. TypeOK'
  BY <1>3 DEF ReadClock, TypeOK, clock, daemon, history
<1>5. InOrder'
  BY <1>1, <1>3 DEF ReadClock, InOrder, Stamped
<1>6. Remembers' /\ OncePerCycle'
  BY DEF ReadClock, Remembers, OncePerCycle, history
<1> QED BY <1>4, <1>5, <1>6

\* A stamped status goes to the end of the socket.
LEMMA WriteStatusKeeps == WarnInv /\ WriteStatus => WarnInv'
<1> SUFFICES ASSUME WarnInv, WriteStatus PROVE WarnInv'
  OBVIOUS
<1> USE DEF WarnInv
<1>1. NextReset \in Nat /\ NextReset' = NextReset /\ Stamped /\ ~Stamped'
  BY NextResetType DEF WriteStatus, NextReset, clock, Stamped
<1>2. reply \in Statuses
  BY <1>1 DEF TypeOK, Stamped, StatusesWith
<1>3. /\ wire \in Seq(Statuses) /\ wire' = Append(wire, reply)
      /\ wire' \in Seq(Statuses) /\ Len(wire') = Len(wire) + 1 /\ Len(wire) \in Nat
      /\ \A i \in 1 .. Len(wire) : wire'[i] = wire[i]
      /\ wire'[Len(wire) + 1] = reply
  BY <1>2 DEF WriteStatus, TypeOK
<1>4. TypeOK'
  BY <1>3 DEF WriteStatus, TypeOK, clock, daemon, history
<1>5. \A i \in 1 .. Len(wire) : wire[i].resets \in Nat
  BY WireType
<1>6. reply.resets \in Nat /\ UNCHANGED tracker
  BY <1>2 DEF Statuses, StatusesWith, WriteStatus
<1>7. \A i, j \in 1 .. Len(wire') : i <= j => wire'[i].resets <= wire'[j].resets
  <2> SUFFICES ASSUME NEW i \in 1 .. Len(wire'), NEW j \in 1 .. Len(wire'), i <= j
               PROVE  wire'[i].resets <= wire'[j].resets
    OBVIOUS
  <2>1. CASE j <= Len(wire)
    BY <1>3, <2>1 DEF InOrder
  <2>2. CASE j = Len(wire) + 1 /\ i <= Len(wire)
    BY <1>1, <1>3, <2>2 DEF InOrder
  <2>3. CASE i = Len(wire) + 1 /\ j = Len(wire) + 1
    BY <1>3, <1>6, <2>3
  <2> QED BY <1>3, <2>1, <2>2, <2>3
<1>8. \A i \in 1 .. Len(wire') :
        /\ wire'[i].resets <= NextReset'
        /\ tracker'.resets # None => tracker'.resets <= wire'[i].resets
  BY <1>1, <1>3, <1>6 DEF InOrder
<1>9. InOrder'
  BY <1>1, <1>6, <1>7, <1>8 DEF InOrder
<1>10. Remembers' /\ OncePerCycle'
  BY DEF WriteStatus, Remembers, OncePerCycle, history
<1> QED BY <1>4, <1>9, <1>10

\* The tracker takes the first status: it comes to that reset time, and what it
\* announces is tighter than all it announced for it.
LEMMA EvaluateKeeps == WarnInv /\ Evaluate => WarnInv'
<1> SUFFICES ASSUME WarnInv, Evaluate PROVE WarnInv'
  OBVIOUS
<1> USE DEF WarnInv
<1> DEFINE s == Head(wire)
           t == Rearmed(tracker, s)
           c == Candidate(s)
<1>1. /\ wire \in Seq(Statuses) /\ wire # <<>> /\ wire' = Tail(wire)
      /\ UNCHANGED <<wallDay, hour, reply>>
  BY DEF Evaluate, TypeOK, clock
<1>2. /\ Len(wire) \in Nat \ {0} /\ s = wire[1] /\ s \in Statuses
      /\ wire' \in Seq(Statuses) /\ Len(wire') = Len(wire) - 1
      /\ \A i \in 1 .. Len(wire') : wire'[i] = wire[i + 1]
  BY <1>1
<1>3. \A i \in 1 .. Len(wire) : wire[i].resets \in Nat
  BY WireType
<1>4. s.resets \in Nat /\ NextReset \in Nat /\ NextReset' = NextReset
  BY <1>1, <1>2, <1>3, NextResetType DEF NextReset
<1>5. c \in Thresholds \cup {None}
  BY <1>2, CandidateType
<1>6. /\ t.resets = s.resets
      /\ t \in [resets : Nat \cup {None}, fired : Thresholds \cup {None}]
      /\ t = tracker \/ (tracker.resets # s.resets /\ t.fired = None)
  BY <1>4 DEF Rearmed, TypeOK
<1>7. tracker.resets # None => tracker.resets \in Nat /\ tracker.resets <= s.resets
  BY <1>2 DEF InOrder, TypeOK
<1>8. /\ Fires(t, c) =>
           /\ tracker' = [t EXCEPT !.fired = c]
           /\ announced' = announced \cup {<<s.resets, c>>}
           /\ repeated' = (repeated \/ <<s.resets, c>> \in announced)
      /\ ~Fires(t, c) => tracker' = t /\ UNCHANGED <<announced, repeated>>
  BY DEF Evaluate, history
<1>9. Fires(t, c) => c \in Thresholds /\ c \in Nat /\ (t.fired = None \/ c < t.fired)
  BY <1>5, NotificationAssumption DEF Fires
<1>10. \A a \in announced : a[1] \in Nat /\ a[2] \in Nat
  BY NotificationAssumption DEF TypeOK
<1>11. /\ tracker' \in [resets : Nat \cup {None}, fired : Thresholds \cup {None}]
       /\ tracker'.resets = s.resets
       /\ Fires(t, c) => tracker'.fired = c
       /\ ~Fires(t, c) => tracker'.fired = t.fired
  BY <1>6, <1>8, <1>9
<1> HIDE DEF s, t, c
<1>12. TypeOK'
  <2>1. announced' \subseteq Nat \X Thresholds
    BY <1>4, <1>8, <1>9 DEF TypeOK
  <2>2. repeated' \in BOOLEAN
    BY <1>8 DEF TypeOK
  <2> QED BY <1>2, <1>11, <2>1, <2>2 DEF Evaluate, TypeOK, clock, daemon
<1>13. InOrder'
  <2>1. \A i \in 1 .. Len(wire) : s.resets <= wire[i].resets
    BY <1>2 DEF InOrder
  <2>2. s.resets <= NextReset /\ (Stamped => s.resets <= reply.resets)
    BY <1>2 DEF InOrder
  <2>3. Stamped' = Stamped
    BY <1>1 DEF Stamped
  <2>4. \A i, j \in 1 .. Len(wire') : i <= j => wire'[i].resets <= wire'[j].resets
    <3>1. \A i, j \in 1 .. Len(wire) : i <= j => wire[i].resets <= wire[j].resets
      BY DEF InOrder
    <3>2. \A i \in 1 .. Len(wire') : i + 1 \in 1 .. Len(wire) /\ wire'[i] = wire[i + 1]
      BY <1>2
    <3>3. \A i, j \in 1 .. Len(wire') : i <= j => i + 1 <= j + 1
      BY <1>2
    <3> QED BY <3>1, <3>2, <3>3
  <2>5. \A i \in 1 .. Len(wire') :
          /\ wire'[i].resets <= NextReset
          /\ s.resets <= wire'[i].resets
          /\ Stamped => wire'[i].resets <= reply.resets
    BY <1>2, <2>1 DEF InOrder
  <2> QED BY <1>1, <1>4, <1>11, <2>2, <2>3, <2>4, <2>5 DEF InOrder
<1>14. ASSUME NEW a \in announced, a[1] = s.resets
       PROVE  t = tracker /\ tracker.fired # None /\ tracker.fired <= a[2]
  <2>1. tracker.resets # None /\ a[1] <= tracker.resets
    BY DEF Remembers
  <2>2. tracker.resets = s.resets
    BY <1>4, <1>7, <1>14, <2>1
  <2> QED BY <1>6, <1>14, <2>2 DEF Remembers
<1>15. ASSUME NEW a \in announced PROVE a[1] <= s.resets
  BY <1>4, <1>7, <1>10 DEF Remembers
<1>16. tracker.fired # None => tracker.fired \in Nat
  BY NotificationAssumption DEF TypeOK
<1>17. Remembers'
  <2> SUFFICES ASSUME NEW a \in announced'
               PROVE  /\ s.resets # None /\ a[1] <= s.resets
                      /\ a[1] = s.resets => tracker'.fired # None /\ tracker'.fired <= a[2]
    BY <1>11 DEF Remembers
  <2>1. s.resets # None
    BY <1>4, NotificationAssumption
  <2>2. CASE a \in announced
    <3>1. CASE Fires(t, c)
      BY <1>9, <1>10, <1>11, <1>14, <1>15, <1>16, <2>1, <2>2, <3>1, NotificationAssumption
    <3>2. CASE ~Fires(t, c)
      BY <1>11, <1>14, <1>15, <2>1, <2>2, <3>2
    <3> QED BY <3>1, <3>2
  <2>3. CASE a \notin announced
    <3>1. Fires(t, c) /\ a = <<s.resets, c>>
      BY <1>8, <2>3
    <3> QED BY <1>4, <1>9, <1>11, <2>1, <3>1, NotificationAssumption
  <2> QED BY <2>2, <2>3
<1>18. OncePerCycle'
  <2>1. CASE Fires(t, c)
    <3>1. <<s.resets, c>> \notin announced
      BY <1>9, <1>14, <1>16, <2>1
    <3> QED BY <1>8, <2>1, <3>1 DEF OncePerCycle
  <2>2. CASE ~Fires(t, c)
    BY <1>8, <2>2 DEF OncePerCycle
  <2> QED BY <2>1, <2>2
<1> QED BY <1>12, <1>13, <1>17, <1>18

LEMMA WarnNext == WarnInv /\ [Next]_vars => WarnInv'
<1> SUFFICES ASSUME WarnInv, [Next]_vars PROVE WarnInv'
  OBVIOUS
<1>t. TypeOK
  BY DEF WarnInv
<1>n. NextReset \in Nat
  BY <1>t, NextResetType
<1>m. /\ mem \in Memories /\ console \in BOOLEAN /\ wallDay \in Nat
      /\ wallDay \in 0 .. MaxDay /\ hour \in Hours(wallDay)
  BY <1>t, NotificationAssumption DEF TypeOK
<1>1. CASE TimePasses
  <2>1. wallDay' \in 0 .. MaxDay /\ hour' \in Hours(wallDay')
    <3>1. 0 \in Hours(wallDay + 1)
      BY <1>m, LengthType, CalendarAssumption DEF Hours
    <3> QED BY <1>1, <1>m, <3>1, NotificationAssumption DEF TimePasses
  <2>2. TypeOK'
    BY <1>1, <1>t, <2>1 DEF TimePasses, TypeOK, daemon, history
  <2>3. NextReset <= NextReset'
    BY <1>1, <1>t, NextResetGrows
  <2>4. NextReset' \in Nat
    BY <2>1, NextMidnightAhead, NotificationAssumption DEF NextReset
  <2> QED BY <1>1, <2>2, <2>3, <2>4, OtherSteps DEF TimePasses
<1>2. CASE ConsoleChange \/ Start \/ Crash \/ TickLock \/ ResetLock
  <2>1. NextReset' = NextReset
    BY <1>2 DEF ConsoleChange, Start, Crash, TickLock, ResetLock, clock, NextReset
  <2>2. mem' \in Memories
    <3>1. CASE Start
      <4>1. PICK m \in Reloaded(mem) :
              mem' = [ResetIfNewDay(m, wallDay) EXCEPT !.active = console]
        BY <3>1 DEF Start
      <4>2. m \in Memories
        BY <1>m, MemoryType
      <4>3. ResetIfNewDay(m, wallDay) \in Memories
        BY <1>m, <4>2, MemoryType
      <4> QED BY <1>m, <4>1, <4>3, MemoryType
    <3> QED BY <1>2, <1>m, <3>1, MemoryType
            DEF ConsoleChange, Crash, TickLock, ResetLock, daemon
  <2>5. up' \in BOOLEAN /\ console' \in BOOLEAN /\ (reply' = reply \/ reply' = None)
    BY <1>2, <1>t DEF ConsoleChange, Start, Crash, TickLock, ResetLock, TypeOK, daemon
  <2>6. crashes' \in 0 .. MaxCrashes
    BY <1>2, <1>t, NotificationAssumption
    DEF ConsoleChange, Start, Crash, TickLock, ResetLock, TypeOK, daemon
  <2>7. UNCHANGED <<wallDay, hour, wire, tracker, announced, repeated>>
    BY <1>2 DEF ConsoleChange, Start, Crash, TickLock, ResetLock, clock, history
  <2>3. TypeOK'
    BY <1>t, <2>2, <2>5, <2>6, <2>7 DEF TypeOK
  <2>4. UNCHANGED <<wire, tracker, history>> /\ (reply' = reply \/ ~Stamped')
    BY <1>2 DEF ConsoleChange, Start, Crash, TickLock, ResetLock, Stamped
  <2> QED BY <1>n, <2>1, <2>3, <2>4, OtherSteps
<1>3. CASE ReadCounters
  <2>1. reply' \in StatusesWith({None}) /\ ~Stamped'
    BY <1>3, <1>m, SessionStateType DEF ReadCounters, StatusesWith, Memories, Stamped
  <2>2. TypeOK'
    BY <1>3, <1>t, <2>1 DEF ReadCounters, TypeOK, clock, daemon, history
  <2> QED BY <1>3, <1>n, <2>1, <2>2, OtherSteps DEF ReadCounters, clock, NextReset
<1>4. CASE UNCHANGED vars
  <2>1. TypeOK'
    BY <1>4, <1>t DEF vars, TypeOK, clock, daemon, history
  <2> QED BY <1>4, <1>n, <2>1, OtherSteps DEF vars, clock, NextReset
<1> QED
  BY <1>1, <1>2, <1>3, <1>4, ReadClockKeeps, WriteStatusKeeps, EvaluateKeeps DEF Next

\* The warnings' invariant: types, order of the reset times, memory of the tracker.
THEOREM WarnInvariant == Spec => []WarnInv
BY WarnInit, WarnNext, PTL DEF Spec

\* No threshold is announced twice in one reset cycle.
THEOREM AnnouncedOncePerCycle == Spec => []OncePerCycle
<1>1. WarnInv => OncePerCycle
  BY DEF WarnInv
<1> QED BY <1>1, WarnInvariant, PTL

\* Types of clock, budget and tracker.
THEOREM WarnTypes == Spec => []TypeOK
<1>1. WarnInv => TypeOK
  BY DEF WarnInv
<1> QED BY <1>1, WarnInvariant, PTL
=============================================================================
