------------------------ MODULE ControlPlane_proofs ------------------------
(***************************************************************************)
(* What can leave a configuration file that does not load, that what was   *)
(* saved comes into force, and that the control plane implements           *)
(* ConfigRegister, for any documents, paths and number of requests.        *)
(***************************************************************************)
EXTENDS ControlPlane, TLAPS

-----------------------------------------------------------------------------
(* The inductive invariant.                                                *)

\* What a request has open, parsed and asked for agrees with where it is.
CallsAgree ==
  \A c \in Calls :
    /\ call[c].at \in {"loaded", "opened", "written", "moved"} => call[c].cfg \in Loadable
    /\ call[c].at = "loaded" => call[c].req.kind \in {"get", "set_paused"}
    /\ call[c].at \in {"opened", "written", "moved"} =>
         \/ call[c].req.kind = "set_config"
         \/ call[c].req.kind = "set_paused" /\ KillPath[call[c].cfg] \in KillPaths
    /\ call[c].where # "closed" => call[c].at = "opened"

\* Only a running daemon is at work on requests.
DownMeansIdle ==
  daemon.at # "up" =>
    /\ \A c \in Calls : call[c].at \in {"free", "sent", "answered"}
    /\ tmp[Config] = Absent

\* A daemon that seeds has put an empty file in place.
SeedIsThere == daemon.at = "seeding" => disk[Config] = Empty

\* As long as no two saves overlapped, the one under way owns the temporary
\* file: it has truncated it, and what it wrote stays whole.
LoneSave ==
  ~overlap =>
    /\ \A c, d \in Calls : Saving(c) /\ Saving(d) => c = d
    /\ \A c \in Calls : Saving(c) =>
         IF call[c].at = "opened" THEN call[c].where = "tmp" /\ tmp[Config] = Empty
                                  ELSE tmp[Config] = call[c].cfg

\* A save that still writes to an inode another one moved into place writes to
\* a file whose restart is due.
LateWritesAreSeen ==
  \A c \in Calls : call[c].where = "file" /\ call[c].req.kind = "set_config" => Due

ControlInv ==
  /\ CallsAgree /\ DownMeansIdle /\ SeedIsThere /\ LoneSave /\ LateWritesAreSeen
  /\ FileStaysLoadable /\ SavesTakeEffect
-----------------------------------------------------------------------------
(* Types.                                                                  *)

\* Requests and answers have their types.
LEMMA CallTypes ==
  /\ NoCall \in Call
  /\ \A r \in Request : [NoCall EXCEPT !.at = "sent", !.req = r] \in Call
  /\ \A calls \in [Calls -> Call], c \in Calls, a \in Answer :
       Answered(calls, c, a) \in [Calls -> Call]
  /\ \A d \in Docs, b \in BOOLEAN : State(b, d) \in Answer
  /\ Error \in Answer /\ Done \in Answer
<1>1. Error \in Answer /\ Done \in Answer
  BY DEF Answer
<1>2. \A d \in Docs, b \in BOOLEAN : State(b, d) \in Answer
  BY DEF Answer, State
<1>3. NoCall \in Call
  BY <1>1 DEF Call, NoCall
<1>4. \A r \in Request : [NoCall EXCEPT !.at = "sent", !.req = r] \in Call
  BY <1>1 DEF Call, NoCall
<1>5. ASSUME NEW calls \in [Calls -> Call], NEW c \in Calls, NEW a \in Answer
      PROVE  Answered(calls, c, a) \in [Calls -> Call]
  <2>1. [NoCall EXCEPT !.at = "answered", !.answer = a] \in Call
    BY <1>1 DEF Call, NoCall
  <2>. QED  BY <2>1 DEF Answered
<1>. QED  BY <1>1, <1>2, <1>3, <1>4, <1>5

\* A rename or a removal changes which inode a request has open, no more.
LEMMA UnlinkedType ==
  ASSUME call \in [Calls -> Call], NEW f
  PROVE  Unlinked(f) \in [Calls -> Call]
BY DEF Unlinked, Call

\* A step of a request updates where it is, what it has open and what it parsed.
LEMMA StepType ==
  ASSUME call \in [Calls -> Call], NEW c \in Calls
  PROVE  /\ \A d \in Docs : [call EXCEPT ![c].at = "loaded", ![c].cfg = d] \in [Calls -> Call]
         /\ \A d \in Docs : [call EXCEPT ![c].at = "opened", ![c].where = "tmp", ![c].cfg = d]
                             \in [Calls -> Call]
         /\ [call EXCEPT ![c].at = "opened", ![c].where = "tmp"] \in [Calls -> Call]
         /\ [call EXCEPT ![c].at = "written", ![c].where = "closed"] \in [Calls -> Call]
         /\ [call[c] EXCEPT !.at = "moved"] \in Call
         /\ [call[c] EXCEPT !.where = "file"] \in Call
<1>1. call[c] \in Call
  OBVIOUS
<1>2. ASSUME NEW d \in Docs
      PROVE  /\ [call EXCEPT ![c].at = "loaded", ![c].cfg = d] \in [Calls -> Call]
             /\ [call EXCEPT ![c].at = "opened", ![c].where = "tmp", ![c].cfg = d] \in [Calls -> Call]
  <2>1. [call[c] EXCEPT !.at = "loaded", !.cfg = d] \in Call
    BY <1>1 DEF Call
  <2>2. [call[c] EXCEPT !.at = "opened", !.where = "tmp", !.cfg = d] \in Call
    BY <1>1 DEF Call
  <2>. QED  BY <2>1, <2>2
<1>3. [call[c] EXCEPT !.at = "opened", !.where = "tmp"] \in Call
  BY <1>1 DEF Call
<1>4. [call[c] EXCEPT !.at = "written", !.where = "closed"] \in Call
  BY <1>1 DEF Call
<1>5. [call[c] EXCEPT !.at = "moved"] \in Call /\ [call[c] EXCEPT !.where = "file"] \in Call
  BY <1>1 DEF Call
<1>6. \A x \in Call : [call EXCEPT ![c] = x] \in [Calls -> Call]
  OBVIOUS
<1>. QED  BY <1>2, <1>3, <1>4, <1>5, <1>6

\* A loaded request knows its path; one that saves, the file it replaces.
LEMMA Places ==
  ASSUME TypeOK, CallsAgree, ControlAssumption, NEW c \in Calls
  PROVE  /\ call[c].at = "loaded" =>
              /\ call[c].cfg \in Loadable
              /\ KillPath[call[c].cfg] \in KillPaths \cup {NoPath}
         /\ call[c].at \in {"opened", "written", "moved"} =>
              /\ Target(c) \in Files /\ Body(c) \in Loadable
              /\ call[c].cfg \in Loadable
              /\ KillPath[call[c].cfg] \in KillPaths \cup {NoPath}
BY DEF CallsAgree, ControlAssumption, Loadable, Target, Body, Files

\* Every step keeps the types; CallsAgree provides that what was parsed is loadable.
LEMMA TypeStep == TypeOK /\ CallsAgree /\ [ControlNext]_controlVars => TypeOK'
<1>. SUFFICES ASSUME TypeOK, CallsAgree, [ControlNext]_controlVars PROVE TypeOK'
  OBVIOUS
<1>1. CASE Client
  <2>1. ASSUME NEW c \in Calls, NEW r \in Request, Send(c, r) PROVE TypeOK'
    BY <2>1, CallTypes DEF TypeOK, Send
  <2>2. ASSUME NEW c \in Calls, Receive(c) PROVE TypeOK'
    BY <2>2, CallTypes DEF TypeOK, Receive
  <2>. QED  BY <1>1, <2>1, <2>2 DEF Client
<1>2. ASSUME NEW c \in Calls, Fails(c) PROVE TypeOK'
  BY <1>2, CallTypes DEF TypeOK, Fails
<1>3. ASSUME NEW c \in Calls, Handle(c) PROVE TypeOK'
  <2>1. CASE LoadFails(c) \/ BadPath(c) \/ RejectToml(c) \/ TmpTaken(c)
    BY <2>1, <1>2 DEF LoadFails, BadPath, RejectToml, TmpTaken
  <2>12. CASE ChmodFails(c)
    BY <2>12, CallTypes DEF ChmodFails, TypeOK
  <2>2. CASE LoadSucceeds(c)
    <3>1. call' \in [Calls -> Call]
      <4>1. disk[Config] \in Docs
        BY <2>2 DEF LoadSucceeds, Loadable
      <4>2. call' = [call EXCEPT ![c].at = "loaded", ![c].cfg = disk[Config]]
        BY <2>2 DEF LoadSucceeds
      <4>. QED  BY <4>1, <4>2, StepType, Zenon DEF TypeOK
    <3>. QED  BY <2>2, <3>1 DEF LoadSucceeds, TypeOK
  <2>3. CASE ReloadDaemon(c)
    BY <2>3, CallTypes DEF ReloadDaemon, TypeOK
  <2>4. CASE KillSwitchPaused(c)
    <3>1. State(disk[KillPath[call[c].cfg]] # Absent, call[c].cfg) \in Answer
      BY <2>4, Places, CallTypes, ControlAssumption DEF KillSwitchPaused, Loadable
    <3>. QED  BY <2>4, <3>1, CallTypes DEF KillSwitchPaused, TypeOK
  <2>5. CASE RemoveMarker(c)
    <3>1. State(FALSE, call[c].cfg) \in Answer
      BY <2>5, Places, CallTypes, ControlAssumption DEF RemoveMarker, Loadable
    <3>2. Unlinked(KillPath[call[c].cfg]) \in [Calls -> Call]
      BY UnlinkedType DEF TypeOK
    <3>. QED  BY <2>5, <3>1, <3>2, CallTypes DEF RemoveMarker, TypeOK
  <2>6. CASE OpenConfigTmp(c)
    <3>1. call[c].req.toml \in Docs
      BY <2>6, ControlAssumption DEF OpenConfigTmp, AcceptToml, Loadable
    <3>2. call' \in [Calls -> Call]
      <4>1. call' = [call EXCEPT ![c].at = "opened", ![c].where = "tmp",
                                 ![c].cfg = call[c].req.toml]
        BY <2>6 DEF OpenConfigTmp
      <4>. QED  BY <3>1, <4>1, StepType, Zenon DEF TypeOK
    <3>. QED  BY <2>6, <3>2, ControlAssumption DEF OpenConfigTmp, TypeOK
  <2>7. CASE OpenMarkerTmp(c)
    <3>1. call' \in [Calls -> Call]
      BY <2>7, StepType, Zenon DEF OpenMarkerTmp, TypeOK
    <3>. QED  BY <2>7, <3>1, ControlAssumption DEF OpenMarkerTmp, TypeOK
  <2>8. CASE Write(c)
    <3>1. Target(c) \in Files /\ Body(c) \in Docs
      BY <2>8, Places, ControlAssumption DEF Write, Loadable
    <3>2. call' \in [Calls -> Call]
      BY <2>8, StepType, Zenon DEF Write, TypeOK
    <3>3. \A old \in Docs \cup {Absent} : Over(old, Body(c)) \subseteq Docs \cup {Absent}
      BY <3>1, ControlAssumption DEF Over
    <3>. QED  BY <2>8, <3>1, <3>2, <3>3 DEF Write, TypeOK
  <2>9. CASE Rename(c)
    <3>1. Target(c) \in Files
      BY <2>9, Places, ControlAssumption DEF Rename
    <3>2. call' \in [Calls -> Call]
      <4>1. \A d \in Calls : Unlinked(Target(c))[d] \in Call
        BY UnlinkedType DEF TypeOK
      <4>2. \A d \in Calls : [call[d] EXCEPT !.at = "moved"] \in Call
                             /\ [call[d] EXCEPT !.where = "file"] \in Call
        BY StepType DEF TypeOK
      <4>. QED  BY <2>9, <4>1, <4>2 DEF Rename
    <3>. QED  BY <2>9, <3>1, <3>2 DEF Rename, TypeOK
  <2>10. CASE ConfigSaved(c)
    <3>1. (IF KillPath[call[c].cfg] = NoPath THEN Error
           ELSE State(disk[KillPath[call[c].cfg]] # Absent, call[c].cfg)) \in Answer
      BY <2>10, Places, CallTypes, ControlAssumption DEF ConfigSaved, Loadable
    <3>. QED  BY <2>10, <3>1, CallTypes DEF ConfigSaved, KickAfterSave, TypeOK
  <2>11. CASE MarkerWritten(c)
    <3>1. State(TRUE, call[c].cfg) \in Answer
      BY <2>11, Places, CallTypes, ControlAssumption DEF MarkerWritten, Loadable
    <3>. QED  BY <2>11, <3>1, CallTypes DEF MarkerWritten, TypeOK
  <2>. QED  BY <1>3, <2>1, <2>2, <2>3, <2>4, <2>5, <2>6, <2>7, <2>8, <2>9, <2>10, <2>11, <2>12
            DEF Handle
<1>4. ASSUME Die PROVE TypeOK'
  <2>1. call' \in [Calls -> Call]
    <3>1. \A c \in Calls : Answered(call, c, Error)[c] \in Call
      <4>1. \A c \in Calls : Answered(call, c, Error) \in [Calls -> Call]
        BY CallTypes DEF TypeOK
      <4>. QED  BY <4>1
    <3>. QED  BY <1>4, <3>1 DEF Die, TypeOK
  <2>. QED  BY <1>4, <2>1, ControlAssumption DEF Die, TypeOK, Loadable
<1>5. CASE Restart
  <2>1. CASE Load
    BY <2>1 DEF Load, Started, TypeOK
  <2>2. CASE SeedOpen
    BY <2>2, ControlAssumption DEF SeedOpen, TypeOK
  <2>3. CASE SeedWrite
    BY <2>3, ControlAssumption DEF SeedWrite, Started, TypeOK, Loadable
  <2>. QED  BY <1>4, <1>5, <2>1, <2>2, <2>3 DEF Restart, Kickstart
<1>6. CASE Shell
  <2>1. \A f : Unlinked(f) \in [Calls -> Call]
    BY UnlinkedType DEF TypeOK
  <2>2. ASSUME NEW p \in KillPaths, TouchKillSwitch(p) PROVE TypeOK'
    BY <2>1, <2>2, ControlAssumption DEF TouchKillSwitch, TypeOK
  <2>3. ASSUME NEW d \in Docs \cup {Absent}, EditByHand(d) PROVE TypeOK'
    BY <2>1, <2>3 DEF EditByHand, TypeOK
  <2>. QED  BY <1>6, <2>2, <2>3 DEF Shell
<1>7. CASE Trouble
  <2>1. CASE KickstartFails
    BY <2>1 DEF KickstartFails, TypeOK
  <2>2. ASSUME NEW c \in Calls, Unauthorized(c) \/ IoError(c) PROVE TypeOK'
    BY <1>2, <2>2 DEF Unauthorized, IoError
  <2>3. ASSUME NEW c \in Calls, WriteStops(c) PROVE TypeOK'
    <3>1. Target(c) \in Files
      BY <2>3, Places, ControlAssumption DEF WriteStops
    <3>. QED  BY <2>3, <3>1, CallTypes, ControlAssumption DEF WriteStops, TypeOK
  <2>4. CASE SeedStops
    <3>1. disk' \in [Files -> Docs \cup {Absent}]
      BY <2>4, ControlAssumption DEF SeedStops, TypeOK
    <3>2. daemon' \in [at : {"down", "seeding", "up"}, config : Loadable]
      BY <2>4, ControlAssumption DEF SeedStops, Loadable
    <3>3. cut' \in BOOLEAN /\ UNCHANGED <<tmp, kick, call, byHand, overlap>>
      BY <2>4 DEF SeedStops, TypeOK
    <3>. QED  BY <3>1, <3>2, <3>3 DEF TypeOK
  <2>. QED  BY <1>4, <1>7, <2>1, <2>2, <2>3, <2>4 DEF Trouble, Crash
<1>8. CASE UNCHANGED controlVars
  BY <1>8 DEF controlVars, TypeOK
<1>. QED  BY <1>1, <1>3, <1>5, <1>6, <1>7, <1>8 DEF ControlNext
-----------------------------------------------------------------------------
(* Each part of the invariant is kept.                                     *)

\* A removal and a rename leave a request what it is, where it is.
LEMMA UnlinkedFields ==
  ASSUME TypeOK, NEW f, NEW d \in Calls
  PROVE  /\ Unlinked(f)[d].at = call[d].at /\ Unlinked(f)[d].req = call[d].req
         /\ Unlinked(f)[d].cfg = call[d].cfg
         /\ Unlinked(f)[d].where =
              IF call[d].where = "file" /\ Target(d) = f THEN "gone" ELSE call[d].where
<1>1. call[d] \in Call
  BY DEF TypeOK
<1>. QED  BY <1>1 DEF Unlinked, Call

\* A request that is over, not begun or not there has nothing open.
LEMMA AgreeWhenOver ==
  ASSUME TypeOK, CallsAgree, NEW c \in Calls, NEW x \in Call,
         x.at \in {"free", "sent", "answered"}, x.where = "closed",
         call' = [call EXCEPT ![c] = x]
  PROVE  CallsAgree'
BY DEF CallsAgree, TypeOK

\* Nor does CallsAgree depend on which inode an open one leads to.
LEMMA AgreeUnlinked ==
  ASSUME TypeOK, CallsAgree, NEW f, call' = Unlinked(f)
  PROVE  CallsAgree'
BY UnlinkedFields DEF CallsAgree

\* Every step keeps what a request has in step with where it is.
LEMMA AgreeStep == TypeOK /\ CallsAgree /\ [ControlNext]_controlVars => CallsAgree'
<1>. SUFFICES ASSUME TypeOK, CallsAgree, [ControlNext]_controlVars PROVE CallsAgree'
  OBVIOUS
<1>1. CASE Client
  <2>1. ASSUME NEW c \in Calls, NEW r \in Request, Send(c, r) PROVE CallsAgree'
    <3>. DEFINE x == [NoCall EXCEPT !.at = "sent", !.req = r]
    <3>1. x \in Call /\ x.at = "sent" /\ x.where = "closed"
      BY CallTypes DEF NoCall
    <3>. QED  BY <2>1, <3>1, AgreeWhenOver DEF Send
  <2>2. ASSUME NEW c \in Calls, Receive(c) PROVE CallsAgree'
    <3>1. NoCall \in Call /\ NoCall.at = "free" /\ NoCall.where = "closed"
      BY CallTypes DEF NoCall
    <3>. QED  BY <2>2, <3>1, AgreeWhenOver DEF Receive
  <2>. QED  BY <1>1, <2>1, <2>2 DEF Client
<1>2. ASSUME NEW c \in Calls, NEW a, call' = Answered(call, c, a) PROVE CallsAgree'
  BY <1>2 DEF CallsAgree, TypeOK, Answered, NoCall
<1>3. ASSUME NEW c \in Calls, Handle(c) PROVE CallsAgree'
  <2>1. CASE \/ LoadFails(c) \/ BadPath(c) \/ RejectToml(c) \/ TmpTaken(c) \/ ChmodFails(c)
             \/ ReloadDaemon(c) \/ KillSwitchPaused(c) \/ ConfigSaved(c) \/ MarkerWritten(c)
    BY <2>1, <1>2 DEF LoadFails, BadPath, RejectToml, TmpTaken, ChmodFails, Fails,
                      ReloadDaemon, KillSwitchPaused, ConfigSaved, MarkerWritten
  <2>2. CASE LoadSucceeds(c)
    BY <2>2 DEF LoadSucceeds, Taken, CallsAgree, TypeOK, Call
  <2>3. CASE RemoveMarker(c)
    <3>. DEFINE f == KillPath[call[c].cfg]
    <3>1. /\ \A d \in Calls \ {c} : call'[d] = Unlinked(f)[d]
          /\ call'[c].at = "answered" /\ call'[c].where = "closed"
      BY <2>3 DEF RemoveMarker, Unlinked, Answered, NoCall
    <3>. QED  BY <3>1, UnlinkedFields DEF CallsAgree
  <2>4. CASE OpenConfigTmp(c)
    BY <2>4 DEF OpenConfigTmp, AcceptToml, Taken, CallsAgree, TypeOK, Call
  <2>5. CASE OpenMarkerTmp(c)
    BY <2>5, ControlAssumption DEF OpenMarkerTmp, CallsAgree, TypeOK, Call, Loadable
  <2>6. CASE Write(c)
    BY <2>6 DEF Write, CallsAgree, TypeOK, Call
  <2>7. CASE Rename(c)
    BY <2>7 DEF Rename, Unlinked, CallsAgree, TypeOK, Call
  <2>. QED  BY <1>3, <2>1, <2>2, <2>3, <2>4, <2>5, <2>6, <2>7 DEF Handle
<1>4. ASSUME Die PROVE CallsAgree'
  BY <1>4 DEF Die, Answered, NoCall, CallsAgree, TypeOK, Call
<1>5. CASE Restart
  <2>1. CASE UNCHANGED call
    BY <2>1 DEF CallsAgree
  <2>. QED  BY <1>4, <1>5, <2>1 DEF Restart, Kickstart, Load, SeedOpen, SeedWrite, Started
<1>6. CASE Shell
  BY <1>6, AgreeUnlinked DEF Shell, TouchKillSwitch, EditByHand
<1>7. CASE Trouble
  <2>1. CASE KickstartFails \/ SeedStops
    BY <2>1 DEF KickstartFails, SeedStops, CallsAgree
  <2>2. ASSUME NEW c \in Calls, Unauthorized(c) \/ WriteStops(c) \/ IoError(c) PROVE CallsAgree'
    BY <1>2, <2>2 DEF Unauthorized, WriteStops, IoError, Fails
  <2>. QED  BY <1>4, <1>7, <2>1, <2>2 DEF Trouble, Crash
<1>8. CASE UNCHANGED controlVars
  BY <1>8 DEF controlVars, CallsAgree
<1>. QED  BY <1>1, <1>3, <1>5, <1>6, <1>7, <1>8 DEF ControlNext

\* No step of an idle daemon is one of a request.
LEMMA IdleStep ==
  TypeOK /\ CallsAgree /\ DownMeansIdle /\ [ControlNext]_controlVars => DownMeansIdle'
<1>. SUFFICES ASSUME TypeOK, CallsAgree, DownMeansIdle, [ControlNext]_controlVars
              PROVE  DownMeansIdle'
  OBVIOUS
<1>1. CASE Client
  <2>1. ASSUME NEW c \in Calls, NEW r \in Request, Send(c, r) PROVE DownMeansIdle'
    BY <2>1 DEF Send, NoCall, DownMeansIdle, TypeOK
  <2>2. ASSUME NEW c \in Calls, Receive(c) PROVE DownMeansIdle'
    BY <2>2 DEF Receive, NoCall, DownMeansIdle, TypeOK
  <2>. QED  BY <1>1, <2>1, <2>2 DEF Client
<1>2. ASSUME NEW c \in Calls, Handle(c) \/ Unauthorized(c) \/ WriteStops(c) \/ IoError(c)
      PROVE  DownMeansIdle'
  <2>1. daemon.at = "up"
    BY <1>2 DEF Handle, LoadFails, LoadSucceeds, ReloadDaemon, BadPath, KillSwitchPaused,
                RemoveMarker, RejectToml, OpenConfigTmp, AcceptToml, OpenMarkerTmp, Write,
                Rename, TmpTaken, ChmodFails, ConfigSaved, MarkerWritten, Unauthorized,
                WriteStops, IoError, Taken, DownMeansIdle
  <2>2. UNCHANGED daemon
    BY <1>2 DEF Handle, LoadFails, LoadSucceeds, ReloadDaemon, BadPath, KillSwitchPaused,
                RemoveMarker, RejectToml, OpenConfigTmp, AcceptToml, OpenMarkerTmp, Write,
                Rename, TmpTaken, ChmodFails, ConfigSaved, MarkerWritten, Unauthorized,
                WriteStops, IoError, Fails
  <2>. QED  BY <2>1, <2>2 DEF DownMeansIdle
<1>3. ASSUME Die PROVE DownMeansIdle'
  BY <1>3 DEF Die, Answered, NoCall, DownMeansIdle, TypeOK, Call, Files
<1>4. CASE Restart
  BY <1>3, <1>4 DEF Restart, Kickstart, Load, SeedOpen, SeedWrite, Started, DownMeansIdle, TypeOK
<1>5. CASE Shell
  <2>1. \A f : \A c \in Calls : Unlinked(f)[c].at = call[c].at
    BY DEF Unlinked, TypeOK, Call
  <2>. QED  BY <1>5, <2>1 DEF Shell, TouchKillSwitch, EditByHand, DownMeansIdle
<1>6. CASE Crash \/ KickstartFails \/ UNCHANGED controlVars
  BY <1>3, <1>6 DEF Crash, KickstartFails, controlVars, DownMeansIdle
<1>7. CASE SeedStops
  BY <1>7 DEF SeedStops, DownMeansIdle
<1>. QED  BY <1>1, <1>2, <1>4, <1>5, <1>6, <1>7 DEF ControlNext, Trouble

\* Nobody else writes the file while the daemon seeds it.
LEMMA SeedStep ==
  TypeOK /\ CallsAgree /\ DownMeansIdle /\ SeedIsThere /\ [ControlNext]_controlVars
    => SeedIsThere'
<1>. SUFFICES ASSUME TypeOK, CallsAgree, DownMeansIdle, SeedIsThere,
                     [ControlNext]_controlVars
              PROVE  SeedIsThere'
  OBVIOUS
<1>. USE ControlAssumption
<1>1. CASE UNCHANGED <<disk, daemon>>
  BY <1>1 DEF SeedIsThere
<1>2. ASSUME NEW c \in Calls, RemoveMarker(c) \/ Write(c) \/ WriteStops(c) \/ Rename(c)
      PROVE  SeedIsThere'
  <2>1. daemon.at = "up"
    BY <1>2 DEF RemoveMarker, Write, WriteStops, Rename, DownMeansIdle
  <2>2. UNCHANGED daemon
    BY <1>2 DEF RemoveMarker, Write, WriteStops, Rename
  <2>. QED  BY <2>1, <2>2 DEF SeedIsThere
<1>3. CASE Restart
  <2>1. CASE SeedOpen
    BY <2>1 DEF SeedOpen, SeedIsThere, TypeOK, Files
  <2>. QED  BY <1>3, <2>1
            DEF Restart, Load, SeedWrite, Started, Kickstart, Die, SeedIsThere
<1>4. CASE Shell
  <2>1. ASSUME NEW p \in KillPaths, TouchKillSwitch(p) PROVE SeedIsThere'
    BY <2>1 DEF TouchKillSwitch, SeedIsThere, TypeOK, Files
  <2>2. ASSUME NEW d \in Docs \cup {Absent}, EditByHand(d) PROVE SeedIsThere'
    BY <2>2 DEF EditByHand, SeedIsThere
  <2>. QED  BY <1>4, <2>1, <2>2 DEF Shell
<1>5. CASE Trouble \/ Client
  <2>1. CASE Crash
    BY <2>1 DEF Crash, Die, SeedIsThere
  <2>2. CASE Client
    BY <1>1, <2>2 DEF Client, Send, Receive
  <2>3. CASE SeedStops
    BY <2>3 DEF SeedStops, SeedIsThere
  <2>. QED  BY <1>1, <1>2, <1>5, <2>1, <2>2, <2>3
            DEF Trouble, KickstartFails, Unauthorized, IoError, Fails
<1>6. ASSUME NEW c \in Calls, Handle(c) PROVE SeedIsThere'
  BY <1>1, <1>2, <1>6 DEF Handle, LoadFails, LoadSucceeds, ReloadDaemon, BadPath,
     KillSwitchPaused, RejectToml, OpenConfigTmp, OpenMarkerTmp, TmpTaken, ChmodFails,
     ConfigSaved, MarkerWritten, Fails
<1>. QED  BY <1>1, <1>3, <1>4, <1>5, <1>6 DEF ControlNext, controlVars

\* A request under way replaces the configuration file if it is a SetConfig.
LEMMA TargetIsConfig ==
  ASSUME TypeOK, CallsAgree, ControlAssumption, NEW c \in Calls,
         call[c].at \in {"opened", "written", "moved"}
  PROVE  Target(c) = Config <=> call[c].req.kind = "set_config"
BY DEF CallsAgree, ControlAssumption, Target

\* The rename of one request tells every other one what its inode is called now.
LEMMA RenameFields ==
  ASSUME TypeOK, NEW c \in Calls, Rename(c), NEW d \in Calls
  PROVE  /\ call'[d].at = IF d = c THEN "moved" ELSE call[d].at
         /\ call'[d].req = call[d].req /\ call'[d].cfg = call[d].cfg
         /\ call'[d].where =
              IF d = c \/ Target(d) # Target(c) THEN call[d].where
              ELSE CASE call[d].where = "tmp" -> "file"
                     [] call[d].where = "file" -> "gone"
                     [] OTHER -> call[d].where
<1>1. Unlinked(Target(c))[d].at = call[d].at /\ Unlinked(Target(c))[d].req = call[d].req
      /\ Unlinked(Target(c))[d].cfg = call[d].cfg
      /\ Unlinked(Target(c))[d].where =
           IF call[d].where = "file" /\ Target(d) = Target(c) THEN "gone" ELSE call[d].where
  BY UnlinkedFields
<1>2. call[d].at \in {"free", "sent", "loaded", "opened", "written", "moved", "answered"}
  BY DEF TypeOK, Call
<1>. QED  BY <1>1, <1>2 DEF Rename, TypeOK, Call

\* LoneSave only depends on the saves, their temporary file and whether they
\* overlapped.
LEMMA LoneQuiet ==
  ASSUME LoneSave, tmp'[Config] = tmp[Config], UNCHANGED overlap, NEW c \in Calls,
         \A d \in Calls \ {c} : call'[d] = call[d],
         call'[c].at \in {"opened", "written"} => call'[c].req.kind # "set_config"
  PROVE  LoneSave'
BY DEF LoneSave, Saving

\* A file removed by hand takes no save's temporary file away.
LEMMA LoneUnlinked ==
  ASSUME TypeOK, LoneSave, UNCHANGED <<tmp, overlap>>, NEW f, call' = Unlinked(f)
  PROVE  LoneSave'
BY UnlinkedFields DEF LoneSave, Saving

\* As long as saves do not overlap, the one under way finds what it wrote.
LEMMA LoneStep ==
  TypeOK /\ CallsAgree /\ DownMeansIdle /\ LoneSave /\ [ControlNext]_controlVars => LoneSave'
<1>. SUFFICES ASSUME TypeOK, CallsAgree, DownMeansIdle, LoneSave, [ControlNext]_controlVars
              PROVE  LoneSave'
  OBVIOUS
<1>. USE ControlAssumption
<1>1. ASSUME NEW c \in Calls, NEW a, call' = Answered(call, c, a), UNCHANGED <<tmp, overlap>>
      PROVE  LoneSave'
  <2>1. /\ \A d \in Calls \ {c} : call'[d] = call[d]
        /\ call'[c].at = "answered"
    BY <1>1 DEF Answered, NoCall, TypeOK
  <2>. QED  BY <1>1, <2>1, LoneQuiet
<1>2. CASE Client
  <2>1. ASSUME NEW c \in Calls, NEW r \in Request, Send(c, r) PROVE LoneSave'
    <3>1. (\A d \in Calls \ {c} : call'[d] = call[d]) /\ call'[c].at = "sent"
      BY <2>1 DEF Send, NoCall, TypeOK
    <3>. QED  BY <2>1, <3>1, LoneQuiet DEF Send
  <2>2. ASSUME NEW c \in Calls, Receive(c) PROVE LoneSave'
    <3>1. (\A d \in Calls \ {c} : call'[d] = call[d]) /\ call'[c].at = "free"
      BY <2>2 DEF Receive, NoCall, TypeOK
    <3>. QED  BY <2>2, <3>1, LoneQuiet DEF Receive
  <2>. QED  BY <1>2, <2>1, <2>2 DEF Client
<1>3. ASSUME NEW c \in Calls, Handle(c) PROVE LoneSave'
  <2>1. CASE \/ LoadFails(c) \/ BadPath(c) \/ RejectToml(c) \/ TmpTaken(c) \/ ChmodFails(c)
             \/ ReloadDaemon(c) \/ KillSwitchPaused(c) \/ ConfigSaved(c) \/ MarkerWritten(c)
    BY <1>1, <2>1 DEF LoadFails, BadPath, RejectToml, TmpTaken, ChmodFails, Fails,
                      ReloadDaemon, KillSwitchPaused, ConfigSaved, MarkerWritten
  <2>2. CASE LoadSucceeds(c)
    <3>1. (\A d \in Calls \ {c} : call'[d] = call[d]) /\ call'[c].at = "loaded"
      BY <2>2 DEF LoadSucceeds, TypeOK, Call
    <3>. QED  BY <2>2, <3>1, LoneQuiet DEF LoadSucceeds
  <2>3. CASE RemoveMarker(c)
    <3>. DEFINE f == KillPath[call[c].cfg]
    <3>1. /\ \A d \in Calls \ {c} : call'[d] = Unlinked(f)[d]
          /\ call'[c].at = "answered"
      BY <2>3 DEF RemoveMarker, Unlinked, Answered, NoCall
    <3>2. \A d \in Calls \ {c} : /\ call'[d].at = call[d].at /\ call'[d].req = call[d].req
                                 /\ call'[d].cfg = call[d].cfg
                                 /\ call[d].where = "tmp" => call'[d].where = "tmp"
      BY <3>1, UnlinkedFields
    <3>3. UNCHANGED <<tmp, overlap>>
      BY <2>3 DEF RemoveMarker
    <3>. QED  BY <3>1, <3>2, <3>3 DEF LoneSave, Saving
  <2>4. CASE OpenConfigTmp(c)
    <3>1. /\ \A d \in Calls \ {c} : call'[d] = call[d]
          /\ call'[c].at = "opened" /\ call'[c].where = "tmp"
      BY <2>4 DEF OpenConfigTmp, TypeOK, Call
    <3>2. tmp'[Config] = Empty
      BY <2>4 DEF OpenConfigTmp, TypeOK, Files
    <3>3. ~overlap' => \A d \in Calls \ {c} : ~Saving(d)
      BY <2>4 DEF OpenConfigTmp
    <3>. QED  BY <3>1, <3>2, <3>3 DEF LoneSave, Saving, Loadable
  <2>5. CASE OpenMarkerTmp(c)
    <3>1. /\ \A d \in Calls \ {c} : call'[d] = call[d]
          /\ call'[c].req.kind = "set_paused"
      BY <2>5 DEF OpenMarkerTmp, TypeOK, Call
    <3>2. tmp'[Config] = tmp[Config]
      BY <2>5, Places DEF OpenMarkerTmp, TypeOK, Files
    <3>3. UNCHANGED overlap
      BY <2>5 DEF OpenMarkerTmp
    <3>. QED  BY <3>1, <3>2, <3>3, LoneQuiet
  <2>6. CASE Write(c)
    <3>1. /\ \A d \in Calls \ {c} : call'[d] = call[d]
          /\ call'[c].at = "written" /\ call'[c].req = call[c].req
      BY <2>6 DEF Write, TypeOK, Call
    <3>2. CASE call[c].req.kind = "set_config"
      <4>1. Target(c) = Config /\ Body(c) \in Loadable
        BY <2>6, <3>2, Places DEF Write, Target
      <4>2. CASE ~overlap
        <5>1. call[c].where = "tmp" /\ tmp[Config] = Empty /\ \A d \in Calls : Saving(d) => d = c
          BY <2>6, <3>2, <4>2 DEF Write, LoneSave, Saving
        <5>2. Over(tmp[Config], Body(c)) = {call[c].cfg}
          BY <3>2, <5>1 DEF Over, Body
        <5>3. tmp' = [tmp EXCEPT ![Config] = call[c].cfg]
          BY <2>6, <4>1, <5>1, <5>2 DEF Write
        <5>4. tmp'[Config] = call[c].cfg
          BY <5>3 DEF TypeOK, Files
        <5>5. call'[c].cfg = call[c].cfg
          BY <2>6 DEF Write, TypeOK, Call
        <5>. QED  BY <3>1, <5>1, <5>4, <5>5 DEF LoneSave, Saving
      <4>. QED  BY <2>6, <4>2 DEF Write, LoneSave
    <3>3. CASE call[c].req.kind # "set_config"
      <4>1. Target(c) # Config
        BY <2>6, <3>3, TargetIsConfig DEF Write
      <4>2. tmp'[Config] = tmp[Config]
        BY <2>6, <4>1 DEF Write, TypeOK, Files
      <4>3. UNCHANGED overlap
        BY <2>6 DEF Write
      <4>. QED  BY <3>1, <3>3, <4>2, <4>3, LoneQuiet
    <3>. QED  BY <3>2, <3>3
  <2>7. CASE Rename(c)
    <3>1. \A d \in Calls : Saving(d) => Target(d) = Config
      BY DEF Saving, Target
    <3>2. CASE Target(c) = Config
      <4>1. call[c].req.kind = "set_config"
        BY <2>7, <3>2, TargetIsConfig DEF Rename
      <4>2. ~overlap => \A d \in Calls : Saving(d) => d = c
        BY <2>7, <4>1 DEF Rename, LoneSave, Saving
      <4>3. tmp'[Config] = Absent
        BY <2>7, <3>2 DEF Rename, TypeOK, Files
      <4>4. UNCHANGED overlap
        BY <2>7 DEF Rename
      <4>. QED  BY <2>7, <4>2, <4>3, <4>4, RenameFields DEF LoneSave, Saving
    <3>3. CASE Target(c) # Config
      <4>1. tmp'[Config] = tmp[Config]
        BY <2>7, <3>3 DEF Rename, TypeOK, Files
      <4>2. UNCHANGED overlap
        BY <2>7 DEF Rename
      <4>. QED  BY <2>7, <3>1, <3>3, <4>1, <4>2, RenameFields DEF LoneSave, Saving
    <3>. QED  BY <3>2, <3>3
  <2>. QED  BY <1>3, <2>1, <2>2, <2>3, <2>4, <2>5, <2>6, <2>7 DEF Handle
<1>4. ASSUME Die PROVE LoneSave'
  <2>1. tmp'[Config] = Absent /\ \A c \in Calls : ~Saving(c)'
    <3>1. daemon'.at = "down"
      BY <1>4 DEF Die
    <3>2. DownMeansIdle'
      BY IdleStep
    <3>. QED  BY <3>1, <3>2 DEF DownMeansIdle, Saving
  <2>. QED  BY <2>1 DEF LoneSave
<1>5. CASE Restart
  <2>1. CASE Load \/ SeedOpen \/ SeedWrite
    <3>1. daemon.at # "up" /\ UNCHANGED <<tmp, call>>
      BY <2>1 DEF Load, SeedOpen, SeedWrite, Started
    <3>2. tmp'[Config] = Absent /\ \A c \in Calls : ~Saving(c)'
      BY <3>1 DEF DownMeansIdle, Saving
    <3>. QED  BY <3>2 DEF LoneSave
  <2>. QED  BY <1>4, <1>5, <2>1 DEF Restart, Kickstart
<1>6. CASE Shell
  BY <1>6, LoneUnlinked DEF Shell, TouchKillSwitch, EditByHand
<1>7. CASE Trouble
  <2>1. CASE Crash
    BY <1>4, <2>1 DEF Crash, Die
  <2>2. CASE KickstartFails \/ SeedStops
    BY <2>2 DEF KickstartFails, SeedStops, LoneSave, Saving
  <2>3. ASSUME NEW c \in Calls, WriteStops(c) PROVE LoneSave'
    <3>1. /\ \A d \in Calls \ {c} : call'[d] = call[d]
          /\ call'[c].at = "answered"
      BY <2>3 DEF WriteStops, Answered, NoCall, TypeOK
    <3>2. UNCHANGED overlap
      BY <2>3 DEF WriteStops
    <3>3. CASE call[c].req.kind = "set_config"
      BY <2>3, <3>1, <3>2, <3>3 DEF WriteStops, LoneSave, Saving
    <3>4. CASE call[c].req.kind # "set_config"
      <4>1. Target(c) # Config
        BY <2>3, <3>4, TargetIsConfig DEF WriteStops
      <4>2. tmp'[Config] = tmp[Config]
        BY <2>3, <4>1 DEF WriteStops, TypeOK, Files
      <4>. QED  BY <3>1, <3>2, <4>2 DEF LoneSave, Saving
    <3>. QED  BY <3>3, <3>4
  <2>. QED  BY <1>1, <1>7, <2>1, <2>2, <2>3 DEF Trouble, Unauthorized, IoError, Fails
<1>8. CASE UNCHANGED controlVars
  BY <1>8 DEF controlVars, LoneSave, Saving
<1>. QED  BY <1>2, <1>3, <1>5, <1>6, <1>7, <1>8 DEF ControlNext

\* As long as the daemon goes on as it is, nobody forgets what happened to the file.
LEMMA SameDaemon ==
  ASSUME TypeOK, [ControlNext]_controlVars, daemon'.at = daemon.at
  PROVE  /\ ~Kickstart /\ ~Crash /\ ~Load /\ ~SeedOpen /\ ~SeedWrite /\ ~SeedStops
         /\ UNCHANGED daemon /\ (byHand => byHand') /\ (overlap => overlap')
         /\ byHand' \/ UNCHANGED cut
<1>1. ~Kickstart /\ ~Crash /\ ~Load /\ ~SeedWrite /\ ~SeedStops
  BY DEF Kickstart, Crash, Die, Load, SeedWrite, SeedStops, Started
<1>2. ~SeedOpen
  BY DEF SeedOpen, TypeOK
<1>3. ASSUME NEW c \in Calls, Handle(c)
      PROVE  UNCHANGED <<daemon, cut>> /\ (byHand => byHand') /\ (overlap => overlap')
  <2>1. CASE OpenConfigTmp(c)
    <3>1. overlap' = (overlap \/ \E d \in Calls \ {c} : Saving(d))
      BY <2>1 DEF OpenConfigTmp
    <3>2. overlap => overlap'
      BY <3>1, Zenon
    <3>3. UNCHANGED <<daemon, cut, byHand>>
      BY <2>1 DEF OpenConfigTmp
    <3>. QED  BY <3>2, <3>3, Zenon
  <2>2. CASE ~OpenConfigTmp(c)
    <3>1. UNCHANGED <<daemon, byHand, overlap, cut>>
      BY <1>3, <2>2 DEF Handle, LoadFails, LoadSucceeds, ReloadDaemon, BadPath, KillSwitchPaused,
         RemoveMarker, RejectToml, OpenMarkerTmp, Write, Rename, TmpTaken, ChmodFails,
         ConfigSaved, MarkerWritten, Fails
    <3>. QED  BY <3>1, Zenon
  <2>. QED  BY <2>1, <2>2
<1>4. CASE Shell
  <2>1. /\ daemon' = daemon /\ overlap' = overlap
        /\ byHand' = TRUE \/ (byHand' = byHand /\ cut' = cut)
    BY <1>4 DEF Shell, TouchKillSwitch, EditByHand
  <2>2. byHand => byHand'
    BY <2>1, Zenon
  <2>. QED  BY <1>1, <1>2, <2>1, <2>2, Zenon
<1>5. CASE Trouble \/ Client \/ UNCHANGED controlVars
  <2>1. daemon' = daemon /\ byHand' = byHand /\ overlap' = overlap /\ cut' = cut
    BY <1>1, <1>5 DEF Trouble, KickstartFails, Client, Send, Receive, Unauthorized,
       WriteStops, IoError, Fails, controlVars
  <2>. QED  BY <1>1, <1>2, <2>1, Zenon
<1>. QED  BY <1>1, <1>2, <1>3, <1>4, <1>5 DEF ControlNext, Restart

\* A restart that is due stays due as long as the daemon runs.
LEMMA DueStep ==
  ASSUME TypeOK, CallsAgree, ControlAssumption, [ControlNext]_controlVars,
         daemon.at = "up", daemon'.at = "up", Due
  PROVE  Due'
<1>1. ~Die /\ ~Load /\ ~SeedWrite /\ ~SeedOpen /\ ~SeedStops
  BY DEF Die, Load, SeedWrite, SeedOpen, SeedStops
<1>3. kick # "none" => kick' # "none"
  BY <1>1 DEF ControlNext, Restart, Kickstart, Trouble, Crash, KickstartFails, Client, Send,
     Receive, Unauthorized, WriteStops, IoError, Handle, LoadFails, LoadSucceeds,
     ReloadDaemon, BadPath,
     KillSwitchPaused, RemoveMarker, RejectToml, OpenConfigTmp, OpenMarkerTmp, Write, Rename,
     TmpTaken, ChmodFails, ConfigSaved, KickAfterSave, MarkerWritten, Fails, Shell,
     TouchKillSwitch, EditByHand, controlVars
<1>4. ASSUME NEW m \in Calls, call[m].at = "moved", call[m].req.kind = "set_config"
      PROVE  Due'
  <2>1. ASSUME NEW c \in Calls, NEW a, call' = Answered(call, c, a), c # m PROVE Due'
    BY <1>4, <2>1 DEF Answered, Due, TypeOK
  <2>2. CASE \E c \in Calls : (\E r \in Request : Send(c, r)) \/ Receive(c)
    <3>1. ASSUME NEW c \in Calls, (\E r \in Request : Send(c, r)) \/ Receive(c)
          PROVE  call'[m] = call[m]
      <4>1. call[c] = NoCall \/ call[c].at = "answered"
        BY <3>1 DEF Send, Receive
      <4>2. c # m
        BY <1>4, <4>1 DEF NoCall
      <4>. QED  BY <3>1, <4>2 DEF Send, Receive, TypeOK
    <3>. QED  BY <1>4, <2>2, <3>1 DEF Due
  <2>3. ASSUME NEW c \in Calls, Handle(c) PROVE Due'
    <3>1. CASE ConfigSaved(c)
      BY <3>1 DEF ConfigSaved, KickAfterSave, Due
    <3>2. CASE ChmodFails(c)
      <4>1. c = m => kick' # "none"
        BY <1>4, <3>2 DEF ChmodFails
      <4>. QED  BY <2>1, <3>2, <4>1 DEF ChmodFails, Due
    <3>3. CASE \/ LoadFails(c) \/ BadPath(c) \/ RejectToml(c) \/ TmpTaken(c)
               \/ ReloadDaemon(c) \/ KillSwitchPaused(c) \/ MarkerWritten(c)
      <4>1. c # m
        BY <1>4, <3>3 DEF LoadFails, BadPath, RejectToml, TmpTaken, ReloadDaemon, Taken,
           KillSwitchPaused, MarkerWritten
      <4>. QED  BY <2>1, <3>3, <4>1 DEF LoadFails, BadPath, RejectToml, TmpTaken, ReloadDaemon,
           KillSwitchPaused, MarkerWritten, Fails
    <3>4. CASE LoadSucceeds(c) \/ OpenConfigTmp(c) \/ OpenMarkerTmp(c) \/ Write(c)
      <4>1. call'[m] = call[m]
        BY <1>4, <3>4 DEF LoadSucceeds, OpenConfigTmp, AcceptToml, OpenMarkerTmp, Write, Taken,
           TypeOK
      <4>. QED  BY <1>4, <4>1 DEF Due
    <3>5. CASE RemoveMarker(c)
      <4>1. c # m
        BY <1>4, <3>5 DEF RemoveMarker
      <4>2. call'[m] = Unlinked(KillPath[call[c].cfg])[m]
        BY <3>5, <4>1 DEF RemoveMarker, Unlinked, Answered
      <4>3. call'[m].at = call[m].at /\ call'[m].req = call[m].req
        BY <4>2, UnlinkedFields
      <4>. QED  BY <1>4, <4>3 DEF Due
    <3>6. CASE Rename(c)
      BY <1>4, <3>6, RenameFields DEF Due
    <3>. QED  BY <2>3, <3>1, <3>2, <3>3, <3>4, <3>5, <3>6 DEF Handle
  <2>4. CASE Shell
    <3>1. \E f : call' = Unlinked(f)
      BY <2>4 DEF Shell, TouchKillSwitch, EditByHand
    <3>2. call'[m].at = call[m].at /\ call'[m].req = call[m].req
      BY <3>1, UnlinkedFields
    <3>. QED  BY <1>4, <3>2 DEF Due
  <2>5. ASSUME NEW c \in Calls, Unauthorized(c) \/ WriteStops(c) \/ IoError(c) PROVE Due'
    <3>1. c # m
      BY <1>4, <2>5 DEF Unauthorized, Taken, WriteStops, IoError, AcceptToml
    <3>. QED  BY <2>1, <2>5, <3>1 DEF Unauthorized, WriteStops, IoError, Fails
  <2>6. CASE KickstartFails \/ UNCHANGED controlVars
    BY <1>4, <2>6 DEF KickstartFails, controlVars, Due
  <2>. QED  BY <1>1, <2>2, <2>3, <2>4, <2>5, <2>6
            DEF ControlNext, Restart, Kickstart, Trouble, Crash, Client
<1>. QED  BY <1>3, <1>4 DEF Due

\* Which steps change the configuration file of a daemon that goes on as it is.
LEMMA ConfigChanges ==
  ASSUME TypeOK, CallsAgree, ControlAssumption, [ControlNext]_controlVars,
         daemon'.at = daemon.at, disk'[Config] # disk[Config]
  PROVE  \/ \E d \in Docs \cup {Absent} : EditByHand(d)
         \/ \E c \in Calls : call[c].req.kind = "set_config" /\ Rename(c)
         \/ \E c \in Calls : /\ call[c].req.kind = "set_config" /\ call[c].where = "file"
                             /\ Write(c) \/ WriteStops(c)
<1>1. ~Kickstart /\ ~Crash /\ ~Load /\ ~SeedWrite /\ ~SeedOpen /\ ~SeedStops
  BY SameDaemon
<1>2. ~UNCHANGED disk
  OBVIOUS
<1>3. ASSUME NEW p \in KillPaths, TouchKillSwitch(p) PROVE FALSE
  BY <1>3, ControlAssumption DEF TouchKillSwitch, TypeOK, Files
<1>4. ASSUME NEW c \in Calls, Handle(c)
      PROVE  call[c].req.kind = "set_config" /\ (Rename(c) \/ (Write(c) /\ call[c].where = "file"))
  <2>1. CASE RemoveMarker(c)
    <3>1. KillPath[call[c].cfg] \in KillPaths
      BY <2>1, Places DEF RemoveMarker
    <3>2. disk' = [disk EXCEPT ![KillPath[call[c].cfg]] = Absent]
      BY <2>1 DEF RemoveMarker
    <3>. QED  BY <3>1, <3>2, ControlAssumption DEF TypeOK, Files
  <2>2. CASE Write(c)
    <3>1. call[c].where = "file"
      BY <2>2 DEF Write
    <3>2. Target(c) = Config
      BY <2>2, <3>1 DEF Write, TypeOK, Files
    <3>. QED  BY <2>2, <3>1, <3>2, TargetIsConfig DEF Write
  <2>3. CASE Rename(c)
    <3>1. Target(c) = Config
      BY <2>3 DEF Rename, TypeOK, Files
    <3>. QED  BY <2>3, <3>1, TargetIsConfig DEF Rename
  <2>4. CASE ~(RemoveMarker(c) \/ Write(c) \/ Rename(c))
    BY <1>4, <2>4 DEF Handle, LoadFails, LoadSucceeds, ReloadDaemon, BadPath, KillSwitchPaused,
       RejectToml, OpenConfigTmp, OpenMarkerTmp, TmpTaken, ChmodFails, ConfigSaved,
       MarkerWritten, Fails
  <2>. QED  BY <2>1, <2>2, <2>3, <2>4
<1>5. ~Client /\ ~Restart
  BY <1>1, <1>2 DEF Client, Restart, Send, Receive
<1>6. Trouble => \E c \in Calls : WriteStops(c)
  BY <1>1, <1>2 DEF Trouble, KickstartFails, Unauthorized, IoError, Fails
<1>7. ASSUME NEW c \in Calls, WriteStops(c)
      PROVE  call[c].req.kind = "set_config" /\ call[c].where = "file"
  <2>1. call[c].where = "file"
    BY <1>7 DEF WriteStops
  <2>2. Target(c) = Config
    BY <1>7, <2>1 DEF WriteStops, TypeOK, Files
  <2>. QED  BY <1>7, <2>1, <2>2, TargetIsConfig DEF WriteStops
<1>. QED  BY <1>2, <1>3, <1>4, <1>5, <1>6, <1>7 DEF ControlNext, Shell, controlVars

\* A save that writes to an inode in place is that of a running daemon, and a
\* request gets there by the rename of another.
LEMMA LateStep ==
  TypeOK /\ CallsAgree /\ DownMeansIdle /\ SeedIsThere /\ LateWritesAreSeen
    /\ [ControlNext]_controlVars => LateWritesAreSeen'
<1>. SUFFICES ASSUME TypeOK, CallsAgree, DownMeansIdle, SeedIsThere, LateWritesAreSeen,
                     [ControlNext]_controlVars,
                     NEW c \in Calls, call'[c].where = "file", call'[c].req.kind = "set_config"
              PROVE  Due'
  BY DEF LateWritesAreSeen
<1>. USE ControlAssumption
<1>1. call'[c].at = "opened" /\ daemon'.at = "up"
  <2>1. CallsAgree' /\ DownMeansIdle'
    BY AgreeStep, IdleStep
  <2>. QED  BY <2>1 DEF CallsAgree, DownMeansIdle
<1>2. ~Die /\ ~SeedStops
  BY <1>1 DEF Die, SeedStops
<1>3. daemon.at = "up"
  <2>1. CASE Load \/ SeedWrite
    <3>1. daemon.at # "up" /\ UNCHANGED call
      BY <2>1 DEF Load, SeedWrite, Started
    <3>. QED  BY <1>1, <3>1 DEF DownMeansIdle
  <2>2. CASE ~(Load \/ SeedWrite)
    <3>1. ~SeedOpen
      BY <1>1 DEF SeedOpen, TypeOK
    <3>2. UNCHANGED daemon
      BY <1>2, <2>2, <3>1 DEF ControlNext, Restart, Kickstart, Trouble, Crash,
         KickstartFails, Client, Send, Receive, Unauthorized, WriteStops, IoError, Handle,
         LoadFails,
         LoadSucceeds, ReloadDaemon, BadPath, KillSwitchPaused, RemoveMarker, RejectToml,
         OpenConfigTmp, OpenMarkerTmp, Write, Rename, TmpTaken, ChmodFails, ConfigSaved,
         MarkerWritten, Fails, Shell, TouchKillSwitch, EditByHand, controlVars
    <3>. QED  BY <1>1, <3>2
  <2>. QED  BY <2>1, <2>2
<1>4. Due => Due'
  BY <1>1, <1>3, DueStep
<1>5. CASE call[c].where = "file" /\ call[c].req.kind = "set_config"
  BY <1>4, <1>5 DEF LateWritesAreSeen
<1>6. ASSUME NEW d \in Calls, Rename(d) PROVE Due'
  <2>1. CASE d # c /\ Target(d) = Config
    <3>1. call[d].at = "written"
      BY <1>6 DEF Rename
    <3>2. call[d].req.kind = "set_config"
      BY <2>1, <3>1, TargetIsConfig
    <3>3. call'[d].at = "moved" /\ call'[d].req.kind = "set_config"
      BY <1>6, <3>2, RenameFields
    <3>. QED  BY <3>3 DEF Due
  <2>2. CASE d = c \/ Target(d) # Config
    <3>1. call[c].req.kind = "set_config" /\ call[c].where = "file"
      BY <1>6, <2>2, RenameFields DEF Target
    <3>. QED  BY <1>5, <3>1
  <2>. QED  BY <2>1, <2>2
<1>7. ASSUME NEW f, \/ call'[c] = call[c] \/ call'[c] = Unlinked(f)[c] \/ call'[c].where # "file"
      PROVE  Due'
  <2>1. call[c].where = "file" /\ call[c].req.kind = "set_config"
    BY <1>7, UnlinkedFields
  <2>. QED  BY <1>5, <2>1
<1>8. ASSUME NEW d \in Calls, NEW a, call' = Answered(call, d, a) PROVE Due'
  BY <1>7, <1>8 DEF Answered, NoCall, TypeOK
<1>9. ASSUME NEW d \in Calls, Handle(d) PROVE Due'
  <2>1. CASE LoadSucceeds(d) \/ OpenConfigTmp(d) \/ OpenMarkerTmp(d) \/ Write(d)
    <3>1. CASE d # c
      BY <1>7, <2>1, <3>1 DEF LoadSucceeds, OpenConfigTmp, OpenMarkerTmp, Write, TypeOK
    <3>2. CASE d = c /\ ~LoadSucceeds(d)
      BY <1>7, <2>1, <3>2 DEF OpenConfigTmp, OpenMarkerTmp, Write, TypeOK, Call
    <3>3. CASE d = c /\ LoadSucceeds(d)
      BY <1>1, <3>3 DEF LoadSucceeds, TypeOK, Call
    <3>. QED  BY <3>1, <3>2, <3>3
  <2>2. CASE RemoveMarker(d)
    BY <1>7, <2>2 DEF RemoveMarker, Answered, NoCall, Unlinked
  <2>3. CASE ~(\/ LoadSucceeds(d) \/ OpenConfigTmp(d) \/ OpenMarkerTmp(d) \/ Write(d)
               \/ RemoveMarker(d))
    BY <1>6, <1>8, <1>9, <2>3 DEF Handle, LoadFails, ReloadDaemon, BadPath, KillSwitchPaused,
       RejectToml, TmpTaken, ChmodFails, ConfigSaved, MarkerWritten, Fails
  <2>. QED  BY <2>1, <2>2, <2>3
<1>10. CASE Shell
  BY <1>7, <1>10 DEF Shell, TouchKillSwitch, EditByHand
<1>11. CASE Client
  <2>1. ASSUME NEW d \in Calls, NEW r \in Request, Send(d, r) PROVE Due'
    BY <1>7, <2>1 DEF Send, NoCall, TypeOK
  <2>2. ASSUME NEW d \in Calls, Receive(d) PROVE Due'
    BY <1>7, <2>2 DEF Receive, NoCall, TypeOK
  <2>. QED  BY <1>11, <2>1, <2>2 DEF Client
<1>12. CASE Trouble
  BY <1>2, <1>7, <1>8, <1>12 DEF Trouble, Crash, KickstartFails, Unauthorized, WriteStops,
     IoError, Fails
<1>13. CASE Restart \/ UNCHANGED controlVars
  BY <1>2, <1>7, <1>13 DEF Restart, Kickstart, Load, SeedOpen, SeedWrite, Started, controlVars
<1>. QED  BY <1>9, <1>10, <1>11, <1>12, <1>13 DEF ControlNext

\* A daemon that starts has loaded what is there; one that ends leaves what was.
LEMMA StartsAndEnds ==
  ASSUME TypeOK, SeedIsThere, FileStaysLoadable, ControlAssumption, [ControlNext]_controlVars,
         daemon'.at # daemon.at
  PROVE  FileStaysLoadable' /\ SavesTakeEffect'
<1>1. CASE Load
  BY <1>1 DEF Load, Started, FileStaysLoadable, SavesTakeEffect
<1>2. CASE SeedOpen
  BY <1>2, ControlAssumption DEF SeedOpen, FileStaysLoadable, SavesTakeEffect, TypeOK, Files,
     Loadable
<1>3. CASE SeedWrite
  BY <1>3, ControlAssumption DEF SeedWrite, Started, FileStaysLoadable, SavesTakeEffect, TypeOK,
     Files, Loadable
<1>4. CASE Kickstart \/ Crash
  BY <1>4, ControlAssumption DEF Kickstart, Crash, Die, FileStaysLoadable, SavesTakeEffect,
     TypeOK
<1>5. CASE SeedStops
  BY <1>5, ControlAssumption DEF SeedStops, FileStaysLoadable, SavesTakeEffect, TypeOK, Files,
     Loadable
<1>. QED  BY <1>1, <1>2, <1>3, <1>4, <1>5
          DEF ControlNext, Restart, KickstartFails, Trouble, Client, Send, Receive, Unauthorized,
          WriteStops, IoError, Handle, LoadFails, LoadSucceeds, ReloadDaemon, BadPath,
          KillSwitchPaused,
          RemoveMarker, RejectToml, OpenConfigTmp, OpenMarkerTmp, Write, Rename, TmpTaken,
          ChmodFails, ConfigSaved, MarkerWritten, Fails, Shell, TouchKillSwitch, EditByHand,
          controlVars

\* A step that puts an unloadable text in place is an edit, has an overlap behind it
\* or ends the seeding half way.
LEMMA LoadableStep ==
  TypeOK /\ ControlInv /\ [ControlNext]_controlVars => FileStaysLoadable'
<1>. SUFFICES ASSUME TypeOK, ControlInv, [ControlNext]_controlVars PROVE FileStaysLoadable'
  OBVIOUS
<1>. USE ControlAssumption
<1>1. CASE daemon'.at # daemon.at
  BY <1>1, StartsAndEnds DEF ControlInv
<1>2. CASE daemon'.at = daemon.at
  <2>1. /\ UNCHANGED daemon /\ (byHand => byHand') /\ (overlap => overlap')
        /\ byHand' \/ UNCHANGED cut
    BY <1>2, SameDaemon
  <2>2. CASE disk'[Config] = disk[Config]
    BY <2>1, <2>2 DEF ControlInv, FileStaysLoadable
  <2>3. ASSUME NEW d \in Docs \cup {Absent}, EditByHand(d) PROVE FileStaysLoadable'
    BY <2>3 DEF EditByHand, FileStaysLoadable
  <2>4. ASSUME NEW c \in Calls, call[c].req.kind = "set_config", Rename(c)
        PROVE  FileStaysLoadable'
    <3>1. Target(c) = Config /\ Saving(c)
      BY <2>4 DEF Target, Saving, Rename
    <3>2. disk'[Config] = tmp[Config] /\ tmp[Config] # Absent
      BY <2>4, <3>1 DEF Rename, TypeOK, Files
    <3>3. overlap \/ tmp[Config] \in Loadable
      <4>1. call[c].cfg \in Loadable
        BY <2>4 DEF Rename, ControlInv, CallsAgree
      <4>. QED  BY <2>4, <3>1, <4>1 DEF Rename, ControlInv, LoneSave
    <3>. QED  BY <2>1, <3>2, <3>3 DEF FileStaysLoadable
  <2>5. ASSUME NEW c \in Calls, call[c].req.kind = "set_config", call[c].where = "file",
               Write(c) \/ WriteStops(c)
        PROVE  FileStaysLoadable'
    <3>1. overlap
      BY <2>5 DEF Write, WriteStops, Saving, ControlInv, LoneSave
    <3>. QED  BY <2>1, <3>1 DEF FileStaysLoadable
  <2>. QED  BY <1>2, <2>2, <2>3, <2>4, <2>5, ConfigChanges DEF ControlInv
<1>. QED  BY <1>1, <1>2

\* A step that makes the file differ from what runs has a restart behind it.
LEMMA EffectStep ==
  TypeOK /\ ControlInv /\ [ControlNext]_controlVars => SavesTakeEffect'
<1>. SUFFICES ASSUME TypeOK, ControlInv, [ControlNext]_controlVars PROVE SavesTakeEffect'
  OBVIOUS
<1>. USE ControlAssumption
<1>1. CASE daemon'.at # daemon.at
  BY <1>1, StartsAndEnds DEF ControlInv
<1>2. CASE daemon'.at # "up"
  BY <1>2 DEF SavesTakeEffect
<1>3. CASE daemon.at = "up" /\ daemon'.at = "up"
  <2>. SUFFICES ASSUME daemon'.config # disk'[Config] PROVE byHand' \/ Due'
    BY DEF SavesTakeEffect
  <2>1. (byHand => byHand') /\ (Due => Due')
    BY <1>3, DueStep, SameDaemon DEF ControlInv
  <2>2. CASE disk'[Config] = disk[Config]
    <3>1. UNCHANGED daemon
      BY <1>3, SameDaemon
    <3>. QED  BY <1>3, <2>1, <2>2, <3>1 DEF ControlInv, SavesTakeEffect
  <2>3. ASSUME NEW d \in Docs \cup {Absent}, EditByHand(d) PROVE byHand'
    BY <2>3 DEF EditByHand
  <2>4. ASSUME NEW c \in Calls, call[c].req.kind = "set_config", Rename(c) PROVE Due'
    BY <2>4, RenameFields DEF Due
  <2>5. ASSUME NEW c \in Calls, call[c].req.kind = "set_config", call[c].where = "file"
        PROVE  Due'
    BY <2>1, <2>5 DEF ControlInv, LateWritesAreSeen
  <2>. QED  BY <1>3, <2>2, <2>3, <2>4, <2>5, ConfigChanges DEF ControlInv
<1>. QED  BY <1>1, <1>2, <1>3

-----------------------------------------------------------------------------
(* The theorems.                                                           *)

\* The types and the invariant hold when the system begins.
LEMMA InitInv == ControlInit => TypeOK /\ ControlInv
<1>. SUFFICES ASSUME ControlInit PROVE TypeOK /\ ControlInv
  OBVIOUS
<1>. USE ControlAssumption
<1>1. TypeOK
  BY CallTypes DEF ControlInit, TypeOK, Files, Loadable
<1>2. \A c \in Calls : call[c].at = "free" /\ call[c].where = "closed"
  BY DEF ControlInit, NoCall
<1>3. CallsAgree /\ LateWritesAreSeen
  BY <1>2 DEF CallsAgree, LateWritesAreSeen
<1>4. DownMeansIdle /\ SeedIsThere /\ LoneSave
  BY <1>2 DEF ControlInit, DownMeansIdle, SeedIsThere, LoneSave, Saving, Files
<1>5. FileStaysLoadable /\ SavesTakeEffect
  BY DEF ControlInit, FileStaysLoadable, SavesTakeEffect, Files
<1>. QED  BY <1>1, <1>3, <1>4, <1>5 DEF ControlInv

\* Every step keeps the invariant.
LEMMA StepInv == TypeOK /\ ControlInv /\ [ControlNext]_controlVars => TypeOK' /\ ControlInv'
BY TypeStep, AgreeStep, IdleStep, SeedStep, LoneStep, LateStep, LoadableStep, EffectStep
   DEF ControlInv

\* The inductive invariant holds of every behaviour.
THEOREM ControlInvariant == ControlSpec => [](TypeOK /\ ControlInv)
BY InitInv, StepInv, PTL DEF ControlSpec

\* Requests, files and the daemon keep their types, torn texts included.
THEOREM ControlTypes == ControlSpec => []TypeOK
BY ControlInvariant, PTL

\* Requests that fail, time out, interleave or die with the daemon never leave
\* a configuration file the daemon cannot load: only hand edits, overlapping saves
\* and a default configuration whose writing stopped half way can.
THEOREM FileAlwaysLoads == ControlSpec => []FileStaysLoadable
<1>1. TypeOK /\ ControlInv => FileStaysLoadable
  BY DEF ControlInv
<1>. QED  BY <1>1, ControlInvariant, PTL

\* A saved configuration is in force, or the restart that puts it in force is on
\* its way or launchctl refused it.
THEOREM SavesComeIntoForce == ControlSpec => []SavesTakeEffect
<1>1. TypeOK /\ ControlInv => SavesTakeEffect
  BY DEF ControlInv
<1>. QED  BY <1>1, ControlInvariant, PTL
-----------------------------------------------------------------------------
(* ControlPlane implements ConfigRegister.                                 *)

\* A save whose text is in place and whose restart is not asked for yet.
Moved(c) == call[c].at = "moved" /\ call[c].req.kind = "set_config"

\* The register tells a request by the save it is at, and that by its text.
SameSave(d) ==
  /\ Saving(d)' <=> Saving(d)
  /\ Saving(d) => call'[d].cfg = call[d].cfg
  /\ Moved(d)' <=> Moved(d)

LEMMA DueIsMoved ==
  /\ Due <=> kick # "none" \/ \E d \in Calls : Moved(d)
  /\ Due' <=> kick' # "none" \/ \E d \in Calls : Moved(d)'
BY DEF Due, Moved

\* A save that is pending has a text; where there is none, no save is.
LEMMA PendingIsSaving ==
  ASSUME CallsAgree, ControlAssumption, NEW c \in Calls
  PROVE  /\ Pending[c] # Absent <=> Saving(c)
         /\ Saving(c) => Pending[c] = call[c].cfg /\ call[c].cfg \in Loadable
BY DEF Pending, Saving, CallsAgree, ControlAssumption, Loadable

\* The register's due is a truth value, and compared as one.
LEMMA DueEquals ==
  /\ (Due' <=> Due) => Due' = Due
  /\ Due => Due = TRUE
  /\ Due' => Due' = TRUE
  /\ ~Due => Due = FALSE
  /\ ~Due' => Due' = FALSE
BY Zenon DEF Due

\* What becomes due is what a save or a reload asks for.
LEMMA DueSame ==
  ASSUME kick' = kick, \A d \in Calls : Moved(d)' <=> Moved(d)
  PROVE  Due' = Due
<1>1. Due' <=> Due
  BY DueIsMoved
<1>. QED  BY <1>1, DueEquals

LEMMA PendingSame == (\A d \in Calls : SameSave(d)) => Pending' = Pending
BY DEF Pending, SameSave

\* The save of request c is over: put in place or given up.
LEMMA SaveDropped ==
  ASSUME NEW c \in Calls, ~Saving(c)', \A d \in Calls \ {c} : SameSave(d)
  PROVE  Pending' = [Pending EXCEPT ![c] = Absent]
BY DEF Pending, SameSave

\* A step the register does not see.
LEMMA Unseen ==
  ASSUME UNCHANGED <<daemon, byHand, overlap, cut>>, disk'[Config] = disk[Config],
         \A d \in Calls : SameSave(d), kick' = kick \/ (Due /\ Due')
  PROVE  UNCHANGED Register!vars
<1>1. Due' = Due
  BY DueEquals, DueSame DEF SameSave
<1>. QED  BY <1>1, PendingSame DEF Register!vars

\* Requests that nothing happens to, or that only change which inode they have open.
LEMMA SameCall ==
  ASSUME NEW d \in Calls,
         call'[d].at = call[d].at, call'[d].req = call[d].req, call'[d].cfg = call[d].cfg
  PROVE  SameSave(d)
BY DEF SameSave, Saving, Moved

\* One that is at no save before the step and at none after it.
LEMMA NoSave ==
  ASSUME NEW d \in Calls, ~Saving(d), ~Moved(d), ~Saving(d)', ~Moved(d)'
  PROVE  SameSave(d)
BY DEF SameSave

\* The answer ends what request c was at; the others go on.
LEMMA AnsweredSaves ==
  ASSUME TypeOK, NEW c \in Calls, NEW a, call' = Answered(call, c, a)
  PROVE  /\ \A d \in Calls \ {c} : SameSave(d)
         /\ ~Saving(c)' /\ ~Moved(c)'
<1>1. \A d \in Calls \ {c} : call'[d] = call[d]
  BY DEF Answered, TypeOK
<1>2. call'[c].at = "answered"
  BY DEF Answered, NoCall, TypeOK
<1>. QED  BY <1>1, <1>2, SameCall DEF Saving, Moved

\* A request ends before its rename: its save, if it is one, is given up.
LEMMA GivenUp ==
  ASSUME TypeOK, CallsAgree, ControlAssumption, NEW c \in Calls, NEW a,
         call' = Answered(call, c, a), ~Moved(c),
         disk'[Config] = disk[Config], UNCHANGED <<daemon, kick, byHand, overlap, cut>>
  PROVE  Register!Abandon(c) \/ UNCHANGED Register!vars
<1>1. (\A d \in Calls \ {c} : SameSave(d)) /\ ~Saving(c)' /\ ~Moved(c)'
  BY AnsweredSaves
<1>2. Due' = Due
  BY <1>1, DueSame DEF SameSave
<1>3. CASE Saving(c)
  BY <1>1, <1>2, <1>3, SaveDropped, PendingIsSaving DEF Register!Abandon, Register!Dropped
<1>4. CASE ~Saving(c)
  BY <1>1, <1>4, NoSave, Unseen
<1>. QED  BY <1>3, <1>4

\* The register starts with nothing pending and nothing due.
LEMMA RegisterInit == ControlInit => Register!Init
<1>. SUFFICES ASSUME ControlInit PROVE Register!Init
  OBVIOUS
<1>1. \A c \in Calls : call[c].at = "free"
  BY DEF ControlInit, NoCall
<1>2. Pending = Register!NonePending
  BY <1>1 DEF Pending, Saving, Register!NonePending
<1>3. Due = FALSE
  BY <1>1, DueEquals DEF ControlInit, Due
<1>4. disk[Config] \in {Absent} \cup Loadable
  BY DEF ControlInit, Files
<1>. QED  BY <1>2, <1>3, <1>4 DEF ControlInit, Register!Init, Register!Down, Register!Loadable,
          Loadable

\* Requests on their way and replies that arrive are none of the register's.
LEMMA ClientUnseen == ASSUME TypeOK, Client PROVE UNCHANGED Register!vars
<1>1. ASSUME NEW c \in Calls, (\E r \in Request : Send(c, r)) \/ Receive(c)
      PROVE  UNCHANGED Register!vars
  <2>1. /\ \A d \in Calls \ {c} : call'[d] = call[d]
        /\ call[c].at \in {"free", "answered"} /\ call'[c].at \in {"free", "sent"}
    <3>1. ASSUME NEW r \in Request, Send(c, r)
          PROVE  /\ \A d \in Calls \ {c} : call'[d] = call[d]
                 /\ call[c].at = "free" /\ call'[c].at = "sent"
      BY <3>1 DEF Send, NoCall, TypeOK
    <3>2. ASSUME Receive(c)
          PROVE  /\ \A d \in Calls \ {c} : call'[d] = call[d]
                 /\ call[c].at = "answered" /\ call'[c].at = "free"
      BY <3>2 DEF Receive, NoCall, TypeOK
    <3>. QED  BY <1>1, <3>1, <3>2
  <2>2. \A d \in Calls : SameSave(d)
    BY <2>1, SameCall, NoSave DEF Saving, Moved
  <2>. QED  BY <1>1, <2>2, Unseen DEF Send, Receive
<1>. QED  BY <1>1 DEF Client

\* A text that was accepted is pending.
LEMMA OpenAccepts ==
  ASSUME TypeOK, CallsAgree, ControlAssumption, NEW c \in Calls, OpenConfigTmp(c)
  PROVE  Register!Accept(c)
<1>1. /\ daemon.at = "up" /\ call[c].at = "sent" /\ call[c].req.kind = "set_config"
      /\ call[c].req.toml \in Loadable
  BY DEF OpenConfigTmp, AcceptToml, Taken
<1>2. /\ \A d \in Calls \ {c} : call'[d] = call[d]
      /\ call'[c].at = "opened" /\ call'[c].req = call[c].req
      /\ call'[c].cfg = call[c].req.toml
  BY DEF OpenConfigTmp, TypeOK, Call
<1>3. /\ \A d \in Calls \ {c} : SameSave(d)
      /\ ~Saving(c) /\ Saving(c)' /\ ~Moved(c) /\ ~Moved(c)'
  BY <1>1, <1>2, SameCall DEF Saving, Moved
<1>4. Pending' = [Pending EXCEPT ![c] = call[c].req.toml]
  BY <1>2, <1>3 DEF Pending, SameSave
<1>5. Pending[c] = Absent /\ Pending'[c] = call[c].req.toml
  BY <1>3, <1>4 DEF Pending
<1>6. Due' = Due
  BY <1>3, DueSame DEF SameSave, OpenConfigTmp
<1>7. overlap' = (overlap \/ \E other \in Calls \ {c} : Pending[other] # Absent)
  <2>1. overlap' = (overlap \/ \E d \in Calls \ {c} : Saving(d))
    BY DEF OpenConfigTmp
  <2>2. \A d \in Calls \ {c} : Saving(d) <=> Pending[d] # Absent
    BY PendingIsSaving
  <2>3. (\E d \in Calls \ {c} : Saving(d)) <=> \E d \in Calls \ {c} : Pending[d] # Absent
    BY <2>2
  <2>. QED  BY <2>1, <2>3, Zenon
<1>8. UNCHANGED <<disk, daemon, byHand, cut>>
  BY DEF OpenConfigTmp
<1>9. Pending' = [Pending EXCEPT ![c] = Pending'[c]] /\ Pending'[c] \in Register!Loadable
  BY <1>1, <1>4, <1>5 DEF Register!Loadable, Loadable
<1>. QED  BY <1>1, <1>5, <1>6, <1>7, <1>8, <1>9, Zenon DEF Register!Accept

\* A save that finds its inode in place, by the rename of another, overlapped it.
LEMMA WritesInPlace ==
  ASSUME TypeOK, ControlInv, NEW c \in Calls, call[c].at = "opened", call[c].where = "file",
         call[c].req.kind = "set_config"
  PROVE  overlap /\ Due /\ daemon.at = "up"
BY DEF ControlInv, LoneSave, LateWritesAreSeen, DownMeansIdle, Saving

\* What a save writes is only seen where saves overlapped.
LEMMA WriteStep ==
  ASSUME TypeOK, TypeOK', ControlInv, ControlAssumption, NEW c \in Calls, Write(c)
  PROVE  Register!Overwrite \/ UNCHANGED Register!vars
<1>1. /\ \A d \in Calls \ {c} : call'[d] = call[d]
      /\ call[c].at = "opened" /\ call'[c].at = "written"
      /\ call'[c].req = call[c].req /\ call'[c].cfg = call[c].cfg
  BY DEF Write, TypeOK, Call
<1>2. \A d \in Calls : SameSave(d)
  BY <1>1, SameCall DEF SameSave, Saving, Moved
<1>3. UNCHANGED <<daemon, kick, byHand, overlap, cut>>
  BY DEF Write
<1>4. CASE disk'[Config] = disk[Config]
  BY <1>2, <1>3, <1>4, Unseen
<1>5. CASE disk'[Config] # disk[Config]
  <2>1. call[c].where = "file" /\ call[c].req.kind = "set_config"
    <3>1. call[c].where = "file" /\ Target(c) = Config
      BY <1>5 DEF Write, TypeOK, Files
    <3>. QED  BY <1>1, <3>1, TargetIsConfig DEF ControlInv
  <2>2. overlap /\ Due /\ daemon.at = "up"
    BY <1>1, <2>1, WritesInPlace
  <2>3. disk'[Config] \in Docs
    <3>1. \E x \in Over(disk[Config], Body(c)) : disk' = [disk EXCEPT ![Config] = x]
      BY <2>1 DEF Write, Target
    <3>2. Over(disk[Config], Body(c)) \subseteq Docs \cup {disk[Config]}
      BY <1>1, Places DEF Over, ControlInv, Loadable, ControlAssumption
    <3>. QED  BY <1>5, <3>1, <3>2 DEF TypeOK, Files
  <2>4. Due' = TRUE
    BY <1>2, <1>3, <2>2, DueSame, DueEquals DEF SameSave
  <2>. QED  BY <1>2, <1>3, <2>2, <2>3, <2>4, PendingSame DEF Register!Overwrite
<1>. QED  BY <1>4, <1>5

\* A rename puts the text of a lone save in place, whole; of several, what it finds.
LEMMA RenameStep ==
  ASSUME TypeOK, TypeOK', ControlInv, ControlAssumption, NEW c \in Calls, Rename(c)
  PROVE  Register!Commit(c) \/ Register!Overwrite \/ UNCHANGED Register!vars
<1>1. /\ \A d \in Calls \ {c} : SameSave(d)
      /\ call[c].at = "written" /\ call'[c].at = "moved" /\ call'[c].req = call[c].req
  <2>1. \A d \in Calls \ {c} : /\ call'[d].at = call[d].at /\ call'[d].req = call[d].req
                               /\ call'[d].cfg = call[d].cfg
    BY RenameFields
  <2>2. call[c].at = "written"
    BY DEF Rename
  <2>. QED  BY <2>1, <2>2, RenameFields, SameCall
<1>2. UNCHANGED <<daemon, kick, byHand, overlap, cut>> /\ daemon.at = "up"
  BY DEF Rename, ControlInv, DownMeansIdle
<1>3. CASE call[c].req.kind # "set_config"
  <2>1. disk'[Config] = disk[Config]
    BY <1>1, <1>3, TargetIsConfig DEF Rename, TypeOK, Files, ControlInv
  <2>2. SameSave(c)
    BY <1>1, <1>3, NoSave DEF Saving, Moved
  <2>. QED  BY <1>1, <1>2, <2>1, <2>2, Unseen
<1>4. CASE call[c].req.kind = "set_config"
  <2>1. Saving(c) /\ ~Saving(c)' /\ Moved(c)'
    BY <1>1, <1>4 DEF Saving, Moved
  <2>2. disk'[Config] = tmp[Config] /\ tmp[Config] \in Docs
    BY <1>4 DEF Rename, Target, TypeOK, Files
  <2>3. Pending' = Register!Dropped(c)
    BY <1>1, <2>1, SaveDropped DEF Register!Dropped
  <2>4. Due' = TRUE
    BY <2>1, DueIsMoved, DueEquals
  <2>5. CASE overlap
    BY <1>2, <2>2, <2>3, <2>4, <2>5 DEF Register!Overwrite
  <2>6. CASE ~overlap
    <3>1. tmp[Config] = Pending[c] /\ Pending[c] # Absent
      BY <1>1, <2>1, <2>6, PendingIsSaving DEF ControlInv, LoneSave
    <3>. QED  BY <1>2, <2>2, <2>3, <2>4, <3>1 DEF Register!Commit
  <2>. QED  BY <2>5, <2>6
<1>. QED  BY <1>3, <1>4

\* A write that stops gives the save up; its part is only seen where saves overlapped.
LEMMA StoppedStep ==
  ASSUME TypeOK, ControlInv, ControlAssumption, NEW c \in Calls, WriteStops(c)
  PROVE  Register!Abandon(c) \/ Register!Overwrite \/ UNCHANGED Register!vars
<1>1. /\ call[c].at = "opened" /\ call' = Answered(call, c, Error)
      /\ UNCHANGED <<daemon, kick, byHand, overlap, cut>>
  BY DEF WriteStops
<1>2. ~Moved(c)
  BY <1>1 DEF Moved
<1>3. CASE disk'[Config] = disk[Config]
  BY <1>1, <1>2, <1>3, GivenUp DEF ControlInv
<1>4. CASE disk'[Config] # disk[Config]
  <2>1. call[c].where = "file" /\ Target(c) = Config
    BY <1>4 DEF WriteStops, TypeOK, Files
  <2>2. call[c].req.kind = "set_config"
    BY <1>1, <2>1, TargetIsConfig DEF ControlInv
  <2>3. overlap /\ Due /\ daemon.at = "up"
    BY <1>1, <2>1, <2>2, WritesInPlace
  <2>4. disk'[Config] \in Docs
    BY <1>4, <2>1, ControlAssumption DEF WriteStops, TypeOK, Files
  <2>5. (\A d \in Calls \ {c} : SameSave(d)) /\ ~Saving(c)' /\ ~Moved(c)'
    BY <1>1, AnsweredSaves
  <2>6. Pending' = Register!Dropped(c)
    BY <2>5, SaveDropped DEF Register!Dropped
  <2>7. Due' = TRUE
    BY <1>1, <1>2, <2>3, <2>5, DueSame, DueEquals DEF SameSave
  <2>. QED  BY <1>1, <2>3, <2>4, <2>6, <2>7 DEF Register!Overwrite
<1>. QED  BY <1>3, <1>4

\* The end of the process gives everything up and discharges the restart.
LEMMA DieStep ==
  ASSUME TypeOK, Die
  PROVE  Register!Stop
<1>1. \A d \in Calls : call'[d].at \in {"free", "sent", "answered"}
  BY DEF Die, Answered, NoCall, TypeOK, Call
<1>2. Pending' = Register!NonePending
  BY <1>1 DEF Pending, Saving, Register!NonePending
<1>3. Due' = FALSE
  BY <1>1, DueEquals DEF Die, Due
<1>. QED  BY <1>2, <1>3 DEF Die, Register!Stop, Register!Down

\* The start and the seeding are the register's own.
LEMMA StartStep ==
  ASSUME TypeOK, SeedIsThere, ControlAssumption, Load \/ SeedOpen \/ SeedWrite \/ SeedStops
  PROVE  Register!Load \/ Register!SeedOpen \/ Register!SeedWrite \/ Register!SeedStops
<1>1. UNCHANGED <<kick, call>>
  BY DEF Load, SeedOpen, SeedWrite, SeedStops, Started
<1>2. \A d \in Calls : SameSave(d)
  BY <1>1, SameCall
<1>3. Pending' = Pending /\ Due' = Due
  BY <1>1, <1>2, PendingSame, DueSame DEF SameSave
<1>4. CASE Load
  BY <1>3, <1>4 DEF Load, Started, Loadable, Register!Load, Register!Loadable
<1>5. CASE SeedOpen
  BY <1>3, <1>5 DEF SeedOpen, Register!SeedOpen, TypeOK, Files
<1>6. CASE SeedWrite
  BY <1>3, <1>6 DEF SeedWrite, Started, SeedIsThere, Register!SeedWrite, TypeOK, Files
<1>7. CASE SeedStops
  BY <1>3, <1>7 DEF SeedStops, Register!SeedStops, Register!Down, TypeOK, Files
<1>. QED  BY <1>4, <1>5, <1>6, <1>7

\* An edit by hand is one; a touch of the kill switch is not seen.
LEMMA ShellStep ==
  ASSUME TypeOK, ControlAssumption, Shell
  PROVE  Register!Edit \/ UNCHANGED Register!vars
<1>1. (\E f : call' = Unlinked(f)) /\ UNCHANGED <<daemon, kick, overlap>>
  BY DEF Shell, TouchKillSwitch, EditByHand
<1>2. \A d \in Calls : SameSave(d)
  BY <1>1, UnlinkedFields, SameCall
<1>3. Pending' = Pending /\ Due' = Due
  BY <1>1, <1>2, PendingSame, DueSame DEF SameSave
<1>4. ASSUME NEW p \in KillPaths, TouchKillSwitch(p) PROVE UNCHANGED Register!vars
  <2>1. disk'[Config] = disk[Config]
    BY <1>4, ControlAssumption DEF TouchKillSwitch, TypeOK, Files
  <2>. QED  BY <1>4, <1>2, <2>1, Unseen DEF TouchKillSwitch
<1>5. ASSUME NEW d \in Docs \cup {Absent}, EditByHand(d) PROVE Register!Edit
  BY <1>1, <1>3, <1>5 DEF EditByHand, Register!Edit, TypeOK, Files
<1>. QED  BY <1>4, <1>5 DEF Shell

\* What the daemon does of itself with a request.
LEMMA HandleStep ==
  ASSUME TypeOK, TypeOK', ControlInv, ControlAssumption, NEW c \in Calls, Handle(c)
  PROVE  \/ Register!Accept(c) \/ Register!Commit(c) \/ Register!Abandon(c)
         \/ Register!Overwrite \/ Register!Owe \/ UNCHANGED Register!vars
<1>. USE DEF ControlInv
<1>1. CASE LoadFails(c) \/ BadPath(c) \/ RejectToml(c) \/ TmpTaken(c)
  <2>1. call[c].at \in {"sent", "loaded", "written"} /\ Fails(c)
    BY <1>1 DEF LoadFails, BadPath, RejectToml, TmpTaken, Taken
  <2>. QED  BY <2>1, GivenUp DEF Fails, Moved
<1>2. CASE LoadSucceeds(c)
  <2>1. /\ \A d \in Calls \ {c} : call'[d] = call[d]
        /\ call[c].at = "sent" /\ call'[c].at = "loaded"
    BY <1>2 DEF LoadSucceeds, Taken, TypeOK, Call
  <2>2. \A d \in Calls : SameSave(d)
    BY <2>1, SameCall, NoSave DEF Saving, Moved
  <2>. QED  BY <1>2, <2>2, Unseen DEF LoadSucceeds
<1>3. CASE ReloadDaemon(c)
  <2>1. daemon.at = "up" /\ call[c].at = "sent" /\ call' = Answered(call, c, Done)
        /\ kick' = "pending" /\ UNCHANGED <<disk, daemon, byHand, overlap, cut>>
    BY <1>3 DEF ReloadDaemon, Taken
  <2>2. \A d \in Calls : SameSave(d)
    BY <2>1, AnsweredSaves, NoSave DEF Saving, Moved
  <2>3. Due' = TRUE
    BY <2>1, DueEquals DEF Due
  <2>4. CASE Due
    BY <2>1, <2>2, <2>3, <2>4, Unseen
  <2>5. CASE ~Due
    BY <2>1, <2>2, <2>3, <2>5, PendingSame DEF Register!Owe
  <2>. QED  BY <2>4, <2>5
<1>4. CASE KillSwitchPaused(c) \/ MarkerWritten(c)
  <2>1. call[c].at = "loaded" \/ call[c].req.kind = "set_paused"
    BY <1>4 DEF KillSwitchPaused, MarkerWritten
  <2>2. ~Moved(c) /\ (\E a : call' = Answered(call, c, a))
        /\ UNCHANGED <<disk, daemon, kick, byHand, overlap, cut>>
    BY <1>4, <2>1 DEF KillSwitchPaused, MarkerWritten, Moved
  <2>. QED  BY <2>2, GivenUp
<1>5. CASE RemoveMarker(c)
  <2>. DEFINE path == KillPath[call[c].cfg]
  <2>1. /\ \A d \in Calls \ {c} : call'[d] = Unlinked(path)[d]
        /\ call[c].at = "loaded" /\ call'[c].at = "answered"
    BY <1>5 DEF RemoveMarker, Unlinked, Answered, NoCall
  <2>2. \A d \in Calls : SameSave(d)
    <3>1. ASSUME NEW d \in Calls \ {c} PROVE SameSave(d)
      BY <2>1, UnlinkedFields, SameCall
    <3>2. SameSave(c)
      BY <2>1, NoSave DEF Saving, Moved
    <3>. QED  BY <3>1, <3>2
  <2>3. disk'[Config] = disk[Config]
    <3>1. path \in KillPaths
      BY <1>5, Places DEF RemoveMarker
    <3>. QED  BY <1>5, <3>1, ControlAssumption DEF RemoveMarker, TypeOK, Files
  <2>. QED  BY <1>5, <2>2, <2>3, Unseen DEF RemoveMarker
<1>6. CASE OpenConfigTmp(c)
  BY <1>6, OpenAccepts
<1>7. CASE OpenMarkerTmp(c)
  <2>1. /\ \A d \in Calls \ {c} : call'[d] = call[d]
        /\ call[c].req.kind = "set_paused" /\ call'[c].req = call[c].req
    BY <1>7 DEF OpenMarkerTmp, TypeOK, Call
  <2>2. \A d \in Calls : SameSave(d)
    BY <2>1, SameCall, NoSave DEF Saving, Moved
  <2>. QED  BY <1>7, <2>2, Unseen DEF OpenMarkerTmp
<1>8. CASE Write(c)
  BY <1>8, WriteStep
<1>9. CASE Rename(c)
  BY <1>9, RenameStep
<1>10. CASE ChmodFails(c) \/ ConfigSaved(c)
  <2>1. call[c].at = "moved" /\ (\E a : call' = Answered(call, c, a))
        /\ UNCHANGED <<disk, daemon, byHand, overlap, cut>>
    BY <1>10 DEF ChmodFails, ConfigSaved
  <2>2. CASE Moved(c)
    <3>1. kick' # "none"
      BY <1>10, <2>2 DEF ChmodFails, ConfigSaved, KickAfterSave, Moved
    <3>2. Due /\ Due' = TRUE
      BY <2>2, <3>1, DueIsMoved, DueEquals
    <3>3. ~Saving(c)
      BY <2>1 DEF Saving
    <3>4. Pending' = Pending
      BY <2>1, <3>3, AnsweredSaves DEF Pending, SameSave
    <3>. QED  BY <2>1, <3>2, <3>4, DueEquals DEF Register!vars
  <2>3. CASE ~Moved(c)
    <3>1. UNCHANGED kick
      BY <1>10, <2>1, <2>3 DEF ChmodFails, ConfigSaved, Moved
    <3>. QED  BY <2>1, <2>3, <3>1, GivenUp
  <2>. QED  BY <2>2, <2>3
<1>. QED  BY <1>1, <1>2, <1>3, <1>4, <1>5, <1>6, <1>7, <1>8, <1>9, <1>10 DEF Handle

\* Every step of the control plane is one of the register or not seen by it.
LEMMA RegisterStep ==
  TypeOK /\ ControlInv /\ [ControlNext]_controlVars => [Register!Next]_(Register!vars)
<1>. SUFFICES ASSUME TypeOK, ControlInv, [ControlNext]_controlVars
              PROVE  Register!Next \/ UNCHANGED Register!vars
  OBVIOUS
<1>. USE ControlAssumption
<1>0. TypeOK'
  BY TypeStep DEF ControlInv
<1>1. CASE Client
  BY <1>1, ClientUnseen
<1>2. CASE Shell
  BY <1>2, ShellStep DEF Register!Next
<1>3. ASSUME NEW c \in Calls, Handle(c) PROVE Register!Next \/ UNCHANGED Register!vars
  BY <1>0, <1>3, HandleStep DEF Register!Next
<1>4. CASE Kickstart \/ Crash
  <2>1. Die
    BY <1>4 DEF Kickstart, Crash
  <2>. QED  BY <2>1, DieStep DEF Register!Next
<1>5. CASE Load \/ SeedOpen \/ SeedWrite \/ SeedStops
  BY <1>5, StartStep DEF ControlInv, Register!Next
<1>6. ASSUME NEW c \in Calls, Unauthorized(c) \/ IoError(c)
      PROVE  Register!Next \/ UNCHANGED Register!vars
  <2>1. call[c].at # "moved" /\ Fails(c)
    BY <1>6 DEF Unauthorized, IoError, Taken, AcceptToml
  <2>2. Register!Abandon(c) \/ UNCHANGED Register!vars
    BY <2>1, GivenUp DEF Fails, Moved, ControlInv
  <2>. QED  BY <2>2 DEF Register!Next
<1>7. ASSUME NEW c \in Calls, WriteStops(c) PROVE Register!Next \/ UNCHANGED Register!vars
  BY <1>7, StoppedStep DEF Register!Next
<1>8. CASE KickstartFails \/ UNCHANGED controlVars
  <2>1. UNCHANGED <<call, disk, daemon, byHand, overlap, cut>>
    BY <1>8 DEF KickstartFails, controlVars
  <2>2. kick' = kick \/ (Due /\ Due')
    BY <1>8 DEF KickstartFails, controlVars, Due
  <2>3. \A d \in Calls : SameSave(d)
    BY <2>1, SameCall
  <2>. QED  BY <2>1, <2>2, <2>3, Unseen
<1>. QED  BY <1>1, <1>2, <1>3, <1>4, <1>5, <1>6, <1>7, <1>8 DEF ControlNext, Restart, Trouble

\* Whatever requests overlap, fail or die with the daemon, the configuration file
\* behaves as a register: saves replace the text whole unless two overlapped, only
\* the seed of a missing file may stop half way, and a restart is due from each
\* save until the process ends.
THEOREM ConfigFileIsARegister == ControlSpec => RegisterSpec
BY RegisterInit, RegisterStep, ControlInvariant, PTL DEF ControlSpec, RegisterSpec, Register!Spec

\* What the register needs to keep for its promises: pending texts load.
RegisterInv ==
  /\ daemon \in [at : {"down", "seeding", "up"}, config : Loadable]
  /\ \A c \in Calls : Pending[c] \in Loadable \cup {Absent}
  /\ FileStaysLoadable /\ SavesTakeEffect

LEMMA RegisterInvStep ==
  ASSUME ControlAssumption, RegisterInv, [Register!Next]_(Register!vars)
  PROVE  RegisterInv'
<1>. USE ControlAssumption
<1>0. daemon' \in [at : {"down", "seeding", "up"}, config : Loadable]
  <2>1. CASE Register!Load \/ Register!SeedOpen \/ Register!SeedWrite \/ Register!SeedStops
    BY <2>1 DEF Register!Load, Register!SeedOpen, Register!SeedWrite, Register!SeedStops,
       Register!Down, Register!Loadable, RegisterInv, Loadable
  <2>2. CASE UNCHANGED daemon
    BY <2>2 DEF RegisterInv
  <2>3. CASE Register!Stop
    BY <2>3 DEF Register!Stop, Register!Down, Loadable
  <2>. QED  BY <2>1, <2>2, <2>3
            DEF Register!Next, Register!Accept, Register!Commit, Register!Abandon,
            Register!Overwrite, Register!Owe, Register!Edit, Register!vars
<1>1. \A c \in Calls : Pending'[c] \in Loadable \cup {Absent}
  <2>1. CASE \E c \in Calls : Pending' = Register!Dropped(c)
    BY <2>1 DEF RegisterInv, Register!Dropped, Pending
  <2>2. CASE \E c \in Calls : Register!Accept(c)
    BY <2>2 DEF RegisterInv, Register!Accept, Register!Loadable, Loadable, Pending
  <2>3. CASE Pending' = Register!NonePending
    BY <2>3 DEF Register!NonePending
  <2>4. CASE Pending' = Pending
    BY <2>4 DEF RegisterInv
  <2>. QED  BY <2>1, <2>2, <2>3, <2>4
            DEF Register!Next, Register!Commit, Register!Abandon, Register!Overwrite, Register!Owe,
            Register!Stop, Register!Load, Register!SeedOpen, Register!SeedWrite,
            Register!SeedStops, Register!Edit, Register!vars
<1>2. FileStaysLoadable'
  <2>1. ASSUME NEW c \in Calls, Register!Commit(c) PROVE FileStaysLoadable'
    BY <2>1 DEF RegisterInv, Register!Commit, FileStaysLoadable
  <2>2. CASE Register!Overwrite \/ Register!Edit
    BY <2>2 DEF Register!Overwrite, Register!Edit, FileStaysLoadable
  <2>3. CASE Register!Load \/ Register!SeedOpen \/ Register!SeedWrite
    BY <2>3 DEF Register!Load, Register!SeedOpen, Register!SeedWrite, Register!Loadable,
       FileStaysLoadable, Loadable
  <2>4. CASE Register!Stop
    BY <2>4 DEF Register!Stop, Register!Down, RegisterInv, FileStaysLoadable
  <2>5. ASSUME disk'[Config] = disk[Config], UNCHANGED <<daemon, byHand, cut>>,
               overlap => overlap'
        PROVE  FileStaysLoadable'
    BY <2>5 DEF RegisterInv, FileStaysLoadable
  <2>6. ASSUME NEW c \in Calls, Register!Accept(c) PROVE FileStaysLoadable'
    <3>1. overlap => overlap'
      BY <2>6, Zenon DEF Register!Accept
    <3>. QED  BY <2>5, <2>6, <3>1 DEF Register!Accept
  <2>7. CASE Register!SeedStops
    BY <2>7 DEF Register!SeedStops, Register!Down, FileStaysLoadable, Loadable
  <2>. QED  BY <2>1, <2>2, <2>3, <2>4, <2>5, <2>6, <2>7
            DEF Register!Next, Register!Abandon, Register!Owe, Register!vars
<1>3. SavesTakeEffect'
  <2>1. CASE Due' = TRUE
    BY <2>1 DEF SavesTakeEffect
  <2>2. CASE Register!Edit
    BY <2>2 DEF Register!Edit, SavesTakeEffect
  <2>3. CASE Register!Load \/ Register!SeedOpen \/ Register!SeedWrite \/ Register!Stop
    BY <2>3 DEF Register!Load, Register!SeedOpen, Register!SeedWrite, Register!Stop,
       Register!Down, RegisterInv, SavesTakeEffect
  <2>4. CASE Register!SeedStops
    BY <2>4 DEF Register!SeedStops, Register!Down, SavesTakeEffect
  <2>5. ASSUME disk'[Config] = disk[Config], UNCHANGED <<daemon, byHand>>, Due' = Due
        PROVE  SavesTakeEffect'
    <3>1. (Due => Due') /\ (byHand => byHand')
      BY <2>5, Zenon
    <3>2. disk'[Config] = disk[Config] /\ UNCHANGED daemon
      BY <2>5
    <3>. QED  BY <3>1, <3>2 DEF RegisterInv, SavesTakeEffect
  <2>6. CASE Register!Owe
    <3>1. Due'
      BY <2>6 DEF Register!Owe
    <3>. QED  BY <3>1 DEF SavesTakeEffect
  <2>7. ASSUME NEW c \in Calls, Register!Accept(c) \/ Register!Abandon(c) PROVE SavesTakeEffect'
    BY <2>5, <2>7 DEF Register!Accept, Register!Abandon
  <2>8. CASE UNCHANGED Register!vars
    BY <2>5, <2>8 DEF Register!vars
  <2>. QED  BY <2>1, <2>2, <2>3, <2>4, <2>6, <2>7, <2>8
            DEF Register!Next, Register!Commit, Register!Overwrite
<1>. QED  BY <1>0, <1>1, <1>2, <1>3 DEF RegisterInv

\* The register says enough: whatever behaves like one leaves a file that does not
\* load only by an edit, an overlap or a seed that was cut short, and puts what was
\* saved into force.
THEOREM RegisterSuffices == RegisterSpec => [](FileStaysLoadable /\ SavesTakeEffect)
<1>1. Register!Init => RegisterInv
  BY ControlAssumption DEF Register!Init, Register!NonePending, Register!Down,
     Register!Loadable, Loadable, RegisterInv, FileStaysLoadable, SavesTakeEffect
<1>2. RegisterInv /\ [Register!Next]_(Register!vars) => RegisterInv'
  BY RegisterInvStep, ControlAssumption
<1>3. RegisterInv => FileStaysLoadable /\ SavesTakeEffect
  BY DEF RegisterInv
<1>. QED  BY <1>1, <1>2, <1>3, PTL DEF RegisterSpec, Register!Spec
=============================================================================
