----------------------------- MODULE StateFile -----------------------------
(***************************************************************************)
(* `State::save_atomic` (crates/daemon/src/state.rs) at the granularity of *)
(* its system calls.  A call writes `<path>.tmp` with std::fs::write (open *)
(* with create and truncate, write, close) and then renames it over        *)
(* `<path>`.  The name of the temporary file is fixed, so two calls in     *)
(* flight share it: the second open truncates the file the first one is    *)
(* writing, and a rename moves whatever the temporary name denotes, with   *)
(* every descriptor still open on it.                                      *)
(*                                                                         *)
(* Files are inodes reached by a name: `fd[w]` is the name that now        *)
(* reaches the inode writer w has open, so a rename of `.tmp` redirects    *)
(* the descriptors on it to the state file.                                *)
(***************************************************************************)
CONSTANTS Writers,      \* the tasks that call save_atomic
          Bodies,       \* the serialized states
          Absent,       \* no such file, no call in progress
          Empty,        \* a file of length zero
          Torn,         \* bytes that serde_json does not accept
          SaveMayFail   \* BOOLEAN: system calls may fail (disk full, ...)

ASSUME ContentAssumption ==
  /\ {Absent, Empty, Torn} \cap Bodies = {}
  /\ Absent # Empty /\ Absent # Torn /\ Empty # Torn
  /\ SaveMayFail \in BOOLEAN

VARIABLES dir,    \* the state directory exists
          disk,   \* content of the state file
          tmp,    \* content of the temporary file
          fd,     \* fd[w]: which name reaches the file w has open
          stage,  \* stage[w]: where w is in save_atomic
          body    \* body[w]: the bytes w is saving

fileVars == <<dir, disk, tmp, fd, stage, body>>

Contents == Bodies \cup {Absent, Empty, Torn}

FileTypeOK ==
  /\ dir \in BOOLEAN
  /\ disk \in Contents
  /\ tmp \in Contents
  /\ fd \in [Writers -> {"none", "tmp", "state", "gone"}]
  /\ stage \in [Writers -> {"idle", "open", "write", "rename"}]
  /\ body \in [Writers -> Bodies \cup {Absent}]

NoCalls ==
  /\ fd = [w \in Writers |-> "none"]
  /\ stage = [w \in Writers |-> "idle"]
  /\ body = [w \in Writers |-> Absent]

FileInit == dir = FALSE /\ disk = Absent /\ tmp = Absent /\ NoCalls

Saving(w) == stage[w] # "idle"

\* A write of b at offset 0 over content `old` replaces it, unless `old` is
\* longer: then its tail stays behind b and the whole does not parse.
Written(old, b) == IF old \in {Empty, b} THEN {b} ELSE {b, Torn}

-----------------------------------------------------------------------------
\* The call, up to the serialized body.
SaveBegin(w, b) ==
  /\ stage[w] = "idle"
  /\ stage' = [stage EXCEPT ![w] = "open"]
  /\ body' = [body EXCEPT ![w] = b]
  /\ UNCHANGED <<dir, disk, tmp, fd>>

\* Mutated form of SaveOpen: write the file in place.
SaveOpenInPlace(w) ==
  /\ stage[w] = "open"
  /\ dir' = TRUE
  /\ disk' = Empty
  /\ fd' = [fd EXCEPT ![w] = "state"]
  /\ stage' = [stage EXCEPT ![w] = "write"]
  /\ UNCHANGED <<tmp, body>>

\* create_dir_all when the directory is missing, then open(O_CREAT|O_TRUNC).
SaveOpen(w) ==
  /\ stage[w] = "open"
  /\ dir' = TRUE
  /\ tmp' = Empty
  /\ fd' = [fd EXCEPT ![w] = "tmp"]
  /\ stage' = [stage EXCEPT ![w] = "write"]
  /\ UNCHANGED <<disk, body>>

\* write(2) and close(2) of std::fs::write.
SaveWrite(w) ==
  /\ stage[w] = "write"
  /\ tmp' \in IF fd[w] = "tmp" THEN Written(tmp, body[w]) ELSE {tmp}
  /\ disk' \in IF fd[w] = "state" THEN Written(disk, body[w]) ELSE {disk}
  /\ fd' = [fd EXCEPT ![w] = "none"]
  /\ stage' = [stage EXCEPT ![w] = "rename"]
  /\ UNCHANGED <<dir, body>>

Return(w) ==
  /\ stage' = [stage EXCEPT ![w] = "idle"]
  /\ body' = [body EXCEPT ![w] = Absent]

\* rename(2): the state file becomes the temporary file, whatever it holds;
\* descriptors follow their inode.
SaveRename(w) ==
  /\ stage[w] = "rename"
  /\ tmp # Absent
  /\ disk' = tmp
  /\ tmp' = Absent
  /\ fd' = [v \in Writers |-> CASE fd[v] = "tmp" -> "state"
                                [] fd[v] = "state" -> "gone"
                                [] OTHER -> fd[v]]
  /\ Return(w)
  /\ UNCHANGED dir

\* Content a write that fails may leave where it has written part of the body.
Partly(w, name, old) == IF stage[w] = "write" /\ fd[w] = name THEN {old, Torn} ELSE {old}

\* Any system call of the three fails and `?` returns it; a rename must fail
\* when another call has renamed the temporary file away.  create_dir_all may
\* have succeeded before the failure.
SaveError(w) ==
  /\ Saving(w)
  /\ SaveMayFail \/ (stage[w] = "rename" /\ tmp = Absent)
  /\ dir' \in IF stage[w] = "open" THEN {dir, TRUE} ELSE {dir}
  /\ tmp' \in Partly(w, "tmp", tmp)
  /\ disk' \in Partly(w, "state", disk)
  /\ fd' = [fd EXCEPT ![w] = "none"]
  /\ Return(w)

\* The process dies: calls vanish, files stay as they are.
FileCrash ==
  /\ fd' = [w \in Writers |-> "none"]
  /\ stage' = [w \in Writers |-> "idle"]
  /\ body' = [w \in Writers |-> Absent]
  /\ UNCHANGED <<dir, disk, tmp>>

\* remove_dir_all of the state directory (control::prepare_uninstall).
RemoveStateDir ==
  /\ dir' = FALSE
  /\ disk' = Absent
  /\ tmp' = Absent
  /\ fd' = [w \in Writers |-> IF fd[w] = "none" THEN "none" ELSE "gone"]
  /\ UNCHANGED <<stage, body>>

SaveStep(w) == SaveOpen(w) \/ SaveWrite(w) \/ SaveRename(w) \/ SaveError(w)

FileNext ==
  \/ \E w \in Writers, b \in Bodies : SaveBegin(w, b)
  \/ \E w \in Writers : SaveStep(w)
  \/ FileCrash
  \/ RemoveStateDir

FileSpec == FileInit /\ [][FileNext]_fileVars

-----------------------------------------------------------------------------
\* With a single writer save_atomic implements AtomicReplace: the bodies of
\* calls in progress are pending, the rename is the commit.
Pending == IF \E w \in Writers : Saving(w)
             THEN body[CHOOSE w \in Writers : Saving(w)] ELSE Absent

Abstract == INSTANCE AtomicReplace WITH cell <- disk, pending <- Pending
AbstractSpec == Abstract!Spec

\* The state file never holds anything but a whole state: a daemon killed at
\* any point finds a file State::load parses (or none).  state.rs calls its
\* updates atomic.
NeverTorn == disk \notin {Empty, Torn}
=============================================================================
