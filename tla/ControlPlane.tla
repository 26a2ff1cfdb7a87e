---------------------------- MODULE ControlPlane ----------------------------
(***************************************************************************)
(* The admin control plane of the daemon (crates/daemon/src/control/) and  *)
(* the configuration file it serves (config.rs): requests that arrive over *)
(* XPC, each on a connection and a queue of its own, so that they run      *)
(* side by side; the temporary file they share, named after the process;   *)
(* `launchctl kickstart -k`, sent by a thread 300 ms after the reply; and  *)
(* the restart, which loads the file or seeds it.                          *)
(*                                                                         *)
(* A document stands for the text of a configuration.  A kill-switch file  *)
(* only exists or does not: its content is the document Empty.             *)
(***************************************************************************)
EXTENDS Integers

CONSTANTS Docs,      \* the texts a configuration file may hold
          Invalid,   \* those parse_toml rejects
          Empty,     \* the empty text: every field takes its default
          Torn,      \* a text cut short, or two mixed
          Example,   \* packaging/config.example.toml
          Config,    \* /etc/screentimed/config.toml
          KillPaths, \* the paths a kill switch may have
          NoPath,    \* a kill_switch_path that validate_kill_switch_path rejects
          KillPath,  \* KillPath[d]: the kill_switch_path of d
          Absent,    \* no such file
          Calls      \* bound: the requests in flight

ASSUME ControlAssumption ==
  /\ Invalid \subseteq Docs /\ Torn \in Invalid
  /\ Empty \in Docs \ Invalid /\ Example \in Docs \ Invalid
  /\ Config \notin KillPaths /\ NoPath \notin KillPaths /\ NoPath # Config
  /\ KillPath \in [Docs \ Invalid -> KillPaths \cup {NoPath}]
  /\ Absent \notin Docs

VARIABLES
  disk,    \* the files
  tmp,     \* their temporary files, `<file>.tmp.<pid>` of this daemon
  daemon,  \* whether it runs, and the configuration it loaded when it started
  kick,    \* the kickstart thread: none, pending, or failed: launchctl did, or
           \* the save that had to start it, after its rename
  call,    \* the requests in flight
  byHand,  \* history: the file was edited by hand since the last load
  overlap, \* history: two saves overlapped since the last load
  cut      \* history: the configuration in place is a seed that was cut short

controlVars == <<disk, tmp, daemon, kick, call, byHand, overlap, cut>>

Files == {Config} \cup KillPaths
Loadable == Docs \ Invalid

\* "get": GetConfig and GetEnforcementState, which read the same two files.
Request ==
  [kind : {"get", "reload"}]
    \cup [kind : {"set_config"}, toml : Docs]
    \cup [kind : {"set_paused"}, paused : BOOLEAN]

\* The answers: what EnforcementState and Config carry, or an error.
State(paused, doc) == [ok |-> TRUE, paused |-> paused, doc |-> doc]
Error == [ok |-> FALSE]
Done == [ok |-> TRUE]

\* No request; `cfg`: the parsed configuration; `where`: the name that leads to
\* the inode it has open.
NoCall == [at |-> "free", req |-> [kind |-> "none"], cfg |-> Absent,
           where |-> "closed", answer |-> Error]

ControlInit ==
  /\ disk \in [Files -> {Absent} \cup Loadable]
  /\ \A p \in KillPaths : disk[p] \in {Absent, Empty}
  /\ tmp = [f \in Files |-> Absent]
  /\ daemon = [at |-> "down", config |-> Empty]
  /\ kick = "none"
  /\ call = [c \in Calls |-> NoCall]
  /\ byHand = FALSE /\ overlap = FALSE /\ cut = FALSE

-----------------------------------------------------------------------------
(* Requests and answers.                                                   *)

Send(c, r) ==
  /\ call[c] = NoCall
  /\ call' = [call EXCEPT ![c] = [NoCall EXCEPT !.at = "sent", !.req = r]]
  /\ UNCHANGED <<disk, tmp, daemon, kick, byHand, overlap, cut>>

\* The request is over; the reply is on its way.
Answered(calls, c, a) == [calls EXCEPT ![c] = [NoCall EXCEPT !.at = "answered", !.answer = a]]

Fails(c) ==
  call' = Answered(call, c, Error) /\ UNCHANGED <<disk, tmp, daemon, kick, byHand, overlap, cut>>

\* A request the daemon takes up.  One sent while it is down waits in the Mach
\* service's queue.
Taken(c, kinds) == daemon.at = "up" /\ call[c].at = "sent" /\ call[c].req.kind \in kinds

\* The peer is not in the admin group, or the group cannot be read.
Unauthorized(c) ==
  Taken(c, {"get", "reload", "set_config", "set_paused"}) /\ Fails(c)

-----------------------------------------------------------------------------
(* handle_authorized.                                                      *)

LoadFails(c) ==
  /\ Taken(c, {"get", "reload", "set_paused"})
  /\ disk[Config] \notin Loadable
  /\ Fails(c)

LoadSucceeds(c) ==
  /\ Taken(c, {"get", "set_paused"})
  /\ disk[Config] \in Loadable
  /\ call' = [call EXCEPT ![c].at = "loaded", ![c].cfg = disk[Config]]
  /\ UNCHANGED <<disk, tmp, daemon, kick, byHand, overlap, cut>>

ReloadDaemon(c) ==
  /\ Taken(c, {"reload"}) /\ disk[Config] \in Loadable
  /\ kick' = "pending"
  /\ call' = Answered(call, c, Done)
  /\ UNCHANGED <<disk, tmp, daemon, byHand, overlap, cut>>

\* validate_kill_switch_path, which Config::validate does not call.
BadPath(c) == call[c].at = "loaded" /\ KillPath[call[c].cfg] = NoPath /\ Fails(c)

\* The marker is looked up, in the place the configuration on disk names.
KillSwitchPaused(c) ==
  LET path == KillPath[call[c].cfg]
  IN /\ call[c].at = "loaded" /\ call[c].req.kind # "set_paused" /\ path # NoPath
     /\ call' = Answered(call, c, State(disk[path] # Absent, call[c].cfg))
     /\ UNCHANGED <<disk, tmp, daemon, kick, byHand, overlap, cut>>

\* The file that request c replaces, and what it puts there.
Target(d) == IF call[d].req.kind = "set_config" THEN Config ELSE KillPath[call[d].cfg]
Body(c) == IF call[c].req.kind = "set_config" THEN call[c].cfg ELSE Empty

\* The requests after the inode behind file f has lost its name to another.
Unlinked(f) ==
  [d \in Calls |-> IF call[d].where = "file" /\ Target(d) = f
                     THEN [call[d] EXCEPT !.where = "gone"] ELSE call[d]]

RemoveMarker(c) ==
  LET path == KillPath[call[c].cfg]
  IN /\ call[c].at = "loaded" /\ call[c].req.kind = "set_paused" /\ path # NoPath
     /\ ~call[c].req.paused
     /\ disk' = [disk EXCEPT ![path] = Absent]
     /\ call' = Answered(Unlinked(path), c, State(FALSE, call[c].cfg))
     /\ UNCHANGED <<tmp, daemon, kick, byHand, overlap, cut>>

RejectToml(c) == Taken(c, {"set_config"}) /\ call[c].req.toml \in Invalid /\ Fails(c)

-----------------------------------------------------------------------------
(* write_config_atomic and write_marker_atomic.                            *)

Saving(d) == call[d].req.kind = "set_config" /\ call[d].at \in {"opened", "written"}

\* Mutated form: the text is not parsed before it is written.
SaveUnparsed(c) == Taken(c, {"set_config"})

\* SetConfig's text was parsed.
AcceptToml(c) == Taken(c, {"set_config"}) /\ call[c].req.toml \in Loadable

\* Mutated form: the file is truncated and written in place.
OpenInPlace(c) ==
  /\ AcceptToml(c)
  /\ disk' = [disk EXCEPT ![Config] = Empty]
  /\ call' = [call EXCEPT ![c].at = "opened", ![c].where = "file", ![c].cfg = call[c].req.toml]
  /\ UNCHANGED <<tmp, daemon, kick, byHand, overlap, cut>>

\* fs::write creates or truncates the temporary file.
OpenConfigTmp(c) ==
  /\ AcceptToml(c)
  /\ tmp' = [tmp EXCEPT ![Config] = Empty]
  /\ call' = [call EXCEPT ![c].at = "opened", ![c].where = "tmp", ![c].cfg = call[c].req.toml]
  /\ overlap' = (overlap \/ \E d \in Calls \ {c} : Saving(d))
  /\ UNCHANGED <<disk, daemon, kick, byHand, cut>>

OpenMarkerTmp(c) ==
  LET path == KillPath[call[c].cfg]
  IN /\ call[c].at = "loaded" /\ call[c].req.kind = "set_paused" /\ path # NoPath
     /\ call[c].req.paused
     /\ tmp' = [tmp EXCEPT ![path] = Empty]
     /\ call' = [call EXCEPT ![c].at = "opened", ![c].where = "tmp"]
     /\ UNCHANGED <<disk, daemon, kick, byHand, overlap, cut>>

\* Another request's longer text shows behind a shorter one; an empty one leaves
\* the file as it is.
Over(old, body) ==
  IF body = Empty THEN {old} ELSE IF old \in {Empty, body} THEN {body} ELSE {body, Torn}

Write(c) ==
  LET f == Target(c)
  IN /\ call[c].at = "opened"
     /\ \/ /\ call[c].where = "tmp"
           /\ \E x \in Over(tmp[f], Body(c)) : tmp' = [tmp EXCEPT ![f] = x]
           /\ UNCHANGED disk
        \/ /\ call[c].where = "file"
           /\ \E x \in Over(disk[f], Body(c)) : disk' = [disk EXCEPT ![f] = x]
           /\ UNCHANGED tmp
        \/ call[c].where = "gone" /\ UNCHANGED <<disk, tmp>>
     /\ call' = [call EXCEPT ![c].at = "written", ![c].where = "closed"]
     /\ UNCHANGED <<daemon, kick, byHand, overlap, cut>>

\* chmod and rename: the temporary file is there, whoever wrote it last.
Rename(c) ==
  LET f == Target(c)
  IN /\ call[c].at = "written" /\ tmp[f] # Absent
     /\ disk' = [disk EXCEPT ![f] = tmp[f]]
     /\ tmp' = [tmp EXCEPT ![f] = Absent]
     /\ call' = [d \in Calls |->
                   IF d = c THEN [call[d] EXCEPT !.at = "moved"]
                   ELSE IF call[d].where = "tmp" /\ Target(d) = f
                     THEN [call[d] EXCEPT !.where = "file"] ELSE Unlinked(f)[d]]
     /\ UNCHANGED <<daemon, kick, byHand, overlap, cut>>

\* Another request has renamed it away.
TmpTaken(c) == call[c].at = "written" /\ tmp[Target(c)] = Absent /\ Fails(c)

\* The final chmod fails, as it must if the file is gone: no restart follows.
ChmodFails(c) ==
  /\ call[c].at = "moved" /\ call' = Answered(call, c, Error)
  /\ kick' = IF call[c].req.kind = "set_config" /\ kick = "none" THEN "failed" ELSE kick
  /\ UNCHANGED <<disk, tmp, daemon, byHand, overlap, cut>>

\* Mutated form: the daemon is not restarted.
SavedWithoutKick == UNCHANGED kick

KickAfterSave == kick' = "pending"

\* The restart is ordered before the path of the kill switch is looked at.
ConfigSaved(c) ==
  LET path == KillPath[call[c].cfg]
  IN /\ call[c].at = "moved" /\ call[c].req.kind = "set_config" /\ disk[Config] # Absent
     /\ KickAfterSave
     /\ call' = Answered(call, c, IF path = NoPath THEN Error
                                  ELSE State(disk[path] # Absent, call[c].cfg))
     /\ UNCHANGED <<disk, tmp, daemon, byHand, overlap, cut>>

MarkerWritten(c) ==
  /\ call[c].at = "moved" /\ call[c].req.kind = "set_paused" /\ disk[Target(c)] # Absent
  /\ call' = Answered(call, c, State(TRUE, call[c].cfg))
  /\ UNCHANGED <<disk, tmp, daemon, kick, byHand, overlap, cut>>

\* fs::write fails after a part of the text.
WriteStops(c) ==
  LET f == Target(c)
      Cut(old) == IF Body(c) = Empty THEN old ELSE Torn
  IN /\ call[c].at = "opened"
     /\ \/ call[c].where = "tmp" /\ tmp' = [tmp EXCEPT ![f] = Cut(@)] /\ UNCHANGED disk
        \/ call[c].where = "file" /\ disk' = [disk EXCEPT ![f] = Cut(@)] /\ UNCHANGED tmp
     /\ call' = Answered(call, c, Error)
     /\ UNCHANGED <<daemon, kick, byHand, overlap, cut>>

\* A system call fails: creating the directory, opening, chmod, rename, unlink.
IoError(c) ==
  /\ \/ AcceptToml(c) \/ call[c].at \in {"opened", "written"}
     \/ call[c].at = "loaded" /\ call[c].req.kind = "set_paused"
  /\ Fails(c)

-----------------------------------------------------------------------------
(* The daemon's end and its start.                                         *)

\* The process dies: its threads with it, its temporary files out of use, and
\* its clients see the connection break.
Die ==
  /\ daemon' = [at |-> "down", config |-> Empty]
  /\ kick' = "none"
  /\ tmp' = [f \in Files |-> Absent]
  /\ call' = [c \in Calls |-> IF call[c].at \in {"free", "sent", "answered"} THEN call[c]
                              ELSE Answered(call, c, Error)[c]]
  /\ UNCHANGED <<disk, byHand, overlap, cut>>

Kickstart == daemon.at = "up" /\ kick = "pending" /\ Die

\* launchctl fails: a warning in the log.
KickstartFails ==
  /\ daemon.at = "up" /\ kick = "pending" /\ kick' = "failed"
  /\ UNCHANGED <<disk, tmp, daemon, call, byHand, overlap, cut>>

Crash == daemon.at # "down" /\ Die

\* load_or_seed.  A file that does not load ends the process: it stays down.
Started(d) ==
  /\ daemon' = [at |-> "up", config |-> d]
  /\ byHand' = FALSE /\ overlap' = FALSE
  /\ UNCHANGED <<tmp, kick, call, cut>>

\* Mutated form: a file that does not parse is taken over.
LoadAnything ==
  /\ daemon.at = "down" /\ disk[Config] # Absent
  /\ Started(disk[Config]) /\ UNCHANGED disk

Load ==
  /\ daemon.at = "down" /\ disk[Config] \in Loadable
  /\ Started(disk[Config]) /\ UNCHANGED disk

\* seed_default_config writes the file in place.
SeedOpen ==
  /\ daemon.at = "down" /\ disk[Config] = Absent
  /\ disk' = [disk EXCEPT ![Config] = Empty]
  /\ daemon' = [daemon EXCEPT !.at = "seeding"]
  /\ UNCHANGED <<tmp, kick, call, byHand, overlap, cut>>

SeedWrite ==
  /\ daemon.at = "seeding"
  /\ disk' = [disk EXCEPT ![Config] = Example]
  /\ Started(Example)

\* fs::write ends after a part of the text, with an error or with the process; or
\* all is written and the chmod fails.  The daemon does not come up.  (A part that
\* still parses is like Empty, which is in place until then.)
SeedStops ==
  /\ daemon.at = "seeding" /\ daemon' = [at |-> "down", config |-> Empty]
  /\ \/ disk' = [disk EXCEPT ![Config] = Torn] /\ cut' = TRUE
     \/ disk' = [disk EXCEPT ![Config] = Example] /\ UNCHANGED cut
  /\ UNCHANGED <<tmp, kick, call, byHand, overlap>>

-----------------------------------------------------------------------------
(* The operator at a shell.                                                *)

TouchKillSwitch(p) ==
  /\ disk' = [disk EXCEPT ![p] = IF @ = Absent THEN Empty ELSE Absent]
  /\ call' = Unlinked(p)
  /\ UNCHANGED <<tmp, daemon, kick, byHand, overlap, cut>>

EditByHand(d) ==
  /\ daemon.at # "seeding" /\ disk[Config] # d
  /\ disk' = [disk EXCEPT ![Config] = d]
  /\ call' = Unlinked(Config)
  /\ byHand' = TRUE /\ cut' = FALSE
  /\ UNCHANGED <<tmp, daemon, kick, overlap>>

-----------------------------------------------------------------------------
\* The reply arrives at its connection.
Receive(c) ==
  /\ call[c].at = "answered" /\ call' = [call EXCEPT ![c] = NoCall]
  /\ UNCHANGED <<disk, tmp, daemon, kick, byHand, overlap, cut>>

\* What the daemon does of itself with request c.
Handle(c) ==
  \/ LoadFails(c) \/ LoadSucceeds(c) \/ ReloadDaemon(c)
  \/ BadPath(c) \/ KillSwitchPaused(c) \/ RemoveMarker(c)
  \/ RejectToml(c) \/ OpenConfigTmp(c) \/ OpenMarkerTmp(c) \/ Write(c)
  \/ Rename(c) \/ TmpTaken(c) \/ ChmodFails(c) \/ ConfigSaved(c) \/ MarkerWritten(c)

Restart == Kickstart \/ Load \/ SeedOpen \/ SeedWrite

Shell == (\E p \in KillPaths : TouchKillSwitch(p)) \/ (\E d \in Docs \cup {Absent} : EditByHand(d))

Trouble ==
  \/ Crash \/ SeedStops \/ KickstartFails
  \/ \E c \in Calls : Unauthorized(c) \/ WriteStops(c) \/ IoError(c)

Client == \E c \in Calls : (\E r \in Request : Send(c, r)) \/ Receive(c)

ControlNext == Restart \/ Shell \/ Trouble \/ Client \/ \E c \in Calls : Handle(c)

ControlSpec == ControlInit /\ [][ControlNext]_controlVars

-----------------------------------------------------------------------------
(* Properties.                                                             *)

Answer == {Error, Done} \cup [ok : {TRUE}, paused : BOOLEAN, doc : Docs]

Call ==
  [at : {"free", "sent", "loaded", "opened", "written", "moved", "answered"},
   req : Request \cup {[kind |-> "none"]}, cfg : Docs \cup {Absent},
   where : {"closed", "tmp", "file", "gone"}, answer : Answer]

TypeOK ==
  /\ disk \in [Files -> Docs \cup {Absent}]
  /\ tmp \in [Files -> Docs \cup {Absent}]
  /\ daemon \in [at : {"down", "seeding", "up"}, config : Loadable]
  /\ kick \in {"none", "pending", "failed"}
  /\ call \in [Calls -> Call]
  /\ byHand \in BOOLEAN /\ overlap \in BOOLEAN /\ cut \in BOOLEAN

\* Whatever requests, crashes and failures did to the configuration file, the
\* daemon can start from it.  What can leave one that does not load is an edit by
\* hand, two saves at once, and the default configuration when its writing in
\* place stopped half way: then the daemon never came up, and the file is that.
FileStaysLoadable ==
  \/ byHand \/ overlap \/ disk[Config] \in Loadable
  \/ daemon.at = "down" /\ (disk[Config] = Absent \/ (cut /\ disk[Config] = Torn))

\* A restart was asked for, or a save is about to ask for it.
Due == kick # "none" \/ \E c \in Calls : call[c].at = "moved" /\ call[c].req.kind = "set_config"

\* What was saved comes into force: whenever the daemon runs a configuration
\* other than the one on disk, a restart is scheduled or about to be, unless
\* launchctl or the last chmod has failed or the file was edited by hand.  It
\* holds of overlapping saves too, and of those answered with an error because
\* of their kill-switch path.
SavesTakeEffect ==
  daemon.at = "up" /\ daemon.config # disk[Config] => byHand \/ Due

\* ControlPlane implements ConfigRegister: saves that do not overlap replace the
\* file in one step and by a whole text, no restart that a save or a reload made
\* due is forgotten before the process ends, and the daemon runs nothing but
\* what it loaded.
Pending == [c \in Calls |-> IF Saving(c) THEN call[c].cfg ELSE Absent]

Register == INSTANCE ConfigRegister
              WITH file <- disk[Config], pending <- Pending, due <- Due, clash <- overlap
RegisterSpec == Register!Spec
=============================================================================
