--------------------------- MODULE ConfigRegister ---------------------------
(***************************************************************************)
(* What the control plane promises of the configuration file               *)
(* (crates/daemon/src/control/mod.rs, write_config_atomic and the restart  *)
(* behind it; config.rs, load_or_seed).  Saves that do not overlap replace *)
(* the text whole, in one step, by one that was accepted.  Every change a  *)
(* save makes leaves a restart due, and only the end of the process        *)
(* discharges it.  The daemon runs what it loaded when it started, and     *)
(* loads nothing that does not parse.  A missing file is seeded in place,  *)
(* which may stop half way; nothing starts from what that leaves.  After   *)
(* two saves overlapped the text may be anything, until the next start;    *)
(* that a restart is due remains.                                          *)
(***************************************************************************)
CONSTANTS Docs,     \* the texts a configuration file may hold
          Invalid,  \* those that do not load
          Empty,    \* the empty text
          Torn,     \* a text cut short
          Example,  \* the text a missing file is seeded with
          Absent,   \* no file; also: no save under way
          Calls     \* the requests in flight

VARIABLES
  file,     \* the text of the configuration file
  daemon,   \* whether it runs, and the configuration it runs
  pending,  \* the accepted texts that are neither in place nor given up
  due,      \* a restart is due
  byHand,   \* the file was edited by hand since the last start
  clash,    \* two saves overlapped since the last start
  cut       \* the text in place is a seed that was cut short

vars == <<file, daemon, pending, due, byHand, clash, cut>>

Loadable == Docs \ Invalid
Down == [at |-> "down", config |-> Empty]
NonePending == [c \in Calls |-> Absent]

Init ==
  /\ file \in {Absent} \cup Loadable
  /\ daemon = Down /\ pending = NonePending
  /\ due = FALSE /\ byHand = FALSE /\ clash = FALSE /\ cut = FALSE

-----------------------------------------------------------------------------
Dropped(c) == [pending EXCEPT ![c] = Absent]

Accept(c) ==
  /\ daemon.at = "up" /\ pending[c] = Absent
  /\ pending'[c] \in Loadable
  /\ pending' = [pending EXCEPT ![c] = pending'[c]]
  /\ clash' = (clash \/ \E other \in Calls \ {c} : pending[other] # Absent)
  /\ UNCHANGED <<file, daemon, due, byHand, cut>>

Commit(c) ==
  /\ pending[c] # Absent
  /\ file' = pending[c] /\ pending' = Dropped(c) /\ due' = TRUE
  /\ UNCHANGED <<daemon, byHand, clash, cut>>

Abandon(c) ==
  /\ pending[c] # Absent
  /\ pending' = Dropped(c) /\ UNCHANGED <<file, daemon, due, byHand, clash, cut>>

\* Saves that overlapped: any text may come into place.
Overwrite ==
  /\ clash /\ daemon.at = "up"
  /\ file' \in Docs /\ due' = TRUE
  /\ pending' = pending \/ \E c \in Calls : pending' = Dropped(c)
  /\ UNCHANGED <<daemon, byHand, clash, cut>>

\* A request to reload.
Owe ==
  /\ daemon.at = "up" /\ ~due /\ due'
  /\ UNCHANGED <<file, daemon, pending, byHand, clash, cut>>

Stop ==
  /\ daemon' = Down /\ pending' = NonePending /\ due' = FALSE
  /\ UNCHANGED <<file, byHand, clash, cut>>

Load ==
  /\ daemon.at = "down" /\ file \in Loadable
  /\ daemon' = [at |-> "up", config |-> file]
  /\ byHand' = FALSE /\ clash' = FALSE
  /\ UNCHANGED <<file, pending, due, cut>>

SeedOpen ==
  /\ daemon.at = "down" /\ file = Absent
  /\ file' = Empty /\ daemon' = [daemon EXCEPT !.at = "seeding"]
  /\ UNCHANGED <<pending, due, byHand, clash, cut>>

SeedWrite ==
  /\ daemon.at = "seeding" /\ file = Empty
  /\ file' = Example /\ daemon' = [at |-> "up", config |-> Example]
  /\ byHand' = FALSE /\ clash' = FALSE
  /\ UNCHANGED <<pending, due, cut>>

\* The seed is written in place: its end may leave a part of it, or all of it.
SeedStops ==
  /\ daemon.at = "seeding" /\ daemon' = Down
  /\ \/ file' = Torn /\ cut' = TRUE
     \/ file' = Example /\ UNCHANGED cut
  /\ UNCHANGED <<pending, due, byHand, clash>>

Edit ==
  /\ daemon.at # "seeding"
  /\ file' \in Docs \cup {Absent} /\ byHand' = TRUE /\ cut' = FALSE
  /\ UNCHANGED <<daemon, pending, due, clash>>

Next ==
  \/ \E c \in Calls : Accept(c) \/ Commit(c) \/ Abandon(c)
  \/ Overwrite \/ Owe \/ Stop \/ Load \/ SeedOpen \/ SeedWrite \/ SeedStops \/ Edit

Spec == Init /\ [][Next]_vars
=============================================================================
