# Verification of Konstantin (screentimed and its tray)

Konstantin limits the daily screen time of macOS accounts. A root daemon,
`screentimed`, counts the seconds of whoever owns the console, keeps the
counters in a file, ends the session of a user over limit and pushes status
updates over a Unix socket. A menu-bar application, the tray, shows the time
left, announces thresholds and lets an administrator configure, pause, install
and remove the daemon through an XPC control plane.

This directory holds TLA+ models of that program, the TLC configurations that
check them, and TLAPS proofs. Paths below are relative to the repository root.

## 1. Inventory

| Component | State it keeps | Operations | Talks to |
|---|---|---|---|
| Counter state, `crates/daemon/src/state.rs` | `day`, `counters`, `active_now` | `load`, `reset_if_new_day`, `tick`, `save_atomic` | file system |
| Main loop, `main.rs` | `Arc<Mutex<State>>`, broadcast sender, locals of two tasks | start, `run_ticker`, `run_midnight_resetter`, shutdown | state, sessions, time, enforcement, IPC |
| Console, `sessions.rs` | none (SystemConfiguration) | `console_users`: no user or one | main loop, enforcement |
| Local time, `time.rs` | none | `next_local_midnight` | resetter, IPC |
| Enforcement, `enforcement.rs` | `last_kicked` per uid | `decide`, `act_on`, `force_logout` | launchctl, pkill, kill-switch file |
| Status IPC, `ipc.rs`, `crates/proto/src/lib.rs` | one task and one broadcast receiver per connection | `GetStatus`, `Subscribe`, `ReportSessionState` | state, time, trays |
| Tray subscriber, `crates/tray/src/bin/tray.rs`, `lib.rs` | `Latest` (shared with a timer), reconnect loop | `run_subscriber`, drain timer | status IPC |
| Warnings, `crates/tray/src/notifications.rs` | `NotifTracker` | `evaluate` | subscriber |
| Configuration, `config.rs` | the TOML file | load or seed, validate | start, control plane |
| Control plane, `control/*.rs`, `crates/proto/src/admin.rs` | files: config, kill switch | `SetConfig`, `ReloadDaemon`, `SetEnforcementPaused`, `PrepareUninstall`, kickstart after the reply | launchd, trays |
| Tray administration, `tray.rs`, `admin_xpc.rs`, `users.rs` | pause state and title, configuration window, one action under its panel | background refresh, toggle, reload, open, save, request timeout | control plane |
| Tray launch, `tray.rs` (`main`, mod `install`) | where the launch is, its own version | first setup, repair, version refresh, agent | ServiceManagement, socket, control plane |
| Deferred uninstaller, `tray.rs` | inode of the bundle, time it has been missing | observe the bundle, `PrepareUninstall`, unregister agent and daemon | Homebrew's hook, control plane, ServiceManagement |
| Services (outside the repository) | bundle at its path, registrations, running daemon | register, unregister, approve, launch, replace the bundle | launchd, Homebrew, an administrator |

What is hard in it:

* two tasks of a multi-threaded runtime share the counters under a mutex, but
  read the clock before taking it and save after releasing it, through one
  temporary file;
* the daemon is killed routinely (`kickstart -k` after each configuration
  change), and trays reconnect on their own schedule;
* enforcement takes seconds, on data cloned before, with commands that fail,
  hang or act later, and against a kill switch read once;
* midnight: four places read the clock on their own (ticker, resetter,
  `compute_status`, start), and days of 23 and 25 hours are not `now + 24 h`;
* a subscription crosses a lossy broadcast, a bounded socket, a thread and a
  timer before the user sees a number;
* administration requests run side by side in the daemon, share one temporary
  file and are cut short by the restart an earlier one asked for; in the tray a
  timer, a thread, a panel and the subscriber write the pause state, and a
  request given up on is carried out later;
* an installation has no transaction: the tray looks at registration, socket,
  endpoint and version one after the other, a refresh unregisters before it
  registers, macOS may finish either later or never, and Homebrew moves the
  bundle underneath and calls the same uninstall hook for an upgrade;
* the daemon that is asked to remove its state goes on counting and saving.

`PROJECT.json` lists the hazards line by line, with the properties aimed at
each and, where none is, the reason.

## 2. Modules

```
AtomicReplace  <--implements--  StateFile
                                   | INSTANCE (Writers = the two tasks)
DayCounters, LocalTime  ------> Screentimed          counting and saving
                                Enforcement          the pass inside the ticker
UserStatus  ------------------> StatusStream         daemon -> tray -> menu bar
StatusFeed  <--implements------'
UserStatus, LocalTime  -------> Notifications        daemon -> tracker
ConfigRegister  <--implements--  ControlPlane         admin requests, restarts
                                TrayAdmin            pause item, Configure, Reload
Services  <-- TrayLaunch ---------------.            launch of the tray
Services, StateFile <-- DeferredUninstall -> Lifecycle   an installation's life
```

Each `MC*.tla` gives a module its constants for TLC; `*_proofs.tla` holds its
theorems.

* **DayCounters** (`state.rs`): the pure operations on `State`. A missing entry
  of the map is 0, `u32` addition wraps at `CounterModulus` (a release build
  has no overflow checks).
* **AtomicReplace**: what the header of `state.rs` promises of the file.
* **StateFile** (`State::save_atomic`): the call at the granularity of its
  system calls. `fd[w]` is the *name* by which writer `w`'s open inode can now
  be reached; a rename turns `"tmp"` into `"state"` and `"state"` into
  `"gone"`. Writing over longer content of another writer may leave its tail
  (`Torn`). Errors, partial writes, crashes and `remove_dir_all` are actions.
* **LocalTime** (`time.rs`): a local time is a day and the hours elapsed since
  it began; `DayAfter` is `(now + Duration::days(1)).date_naive()`, which adds
  elapsed hours.
* **Screentimed** (`main.rs`): one action per stretch between two points where
  something else may happen. The ticker: `TickWake` (console read), `TickRead`
  (date read), `TickLock` (critical section and start of the save),
  `SaveProgress`/`SaveDone`/`SaveFailed`, `TickSend`, `TickEnforce`. The
  resetter: `ResetPlan`, `ResetWake`, `ResetLock`, the same saves, `ResetSend`.
  Around them `Start`, `Crash`, `Midnight`, `ConsoleChange`. `solo` and `clean`
  are history variables that only properties read.
* **Enforcement** (`enforcement.rs`): a pass from the tick's snapshot through
  `decide`, `act_on` and each step of `force_logout`. `age[u]` is the time
  since the stamp, saturated at the backoff, which is all `decide` can see of
  it. `session[u]` records that a command was run on the session: it may end
  now, later, or not at all.
* **UserStatus**, **StatusStream** (`ipc.rs`, `tray.rs`, `lib.rs`): one
  subscription. `behind` counts the wake-ups the receiver has not taken, with
  `ChannelCap + 1` for a lagged one; `wire` is the socket; `latest` and
  `screen` are the tray's two ends.
* **StatusFeed**: what a subscription promises to the menu bar, without
  channel, socket, thread or timer: a queue of the statuses computed and not
  drawn. Statuses are drawn in the order in which they were computed, each at
  most once; a newer one may take the place of one not drawn yet. While a status
  is `due` (the counters changed, or nobody is subscribed) the menu bar may be
  muted with at most one left to draw; the daemon's end may take the last of the
  queue with it, and makes one due. `FeedSpec` maps the queue to the slot of the
  timer, the socket and what is being written, in this order.
* **Notifications** (`ipc.rs`, `notifications.rs`): `ReadCounters` and
  `ReadClock` are the two halves of `compute_status`; `Evaluate` is the
  tracker. When a status is computed is left open, so any wake-up pattern is
  covered. `day` in a status is a ghost: the code does not send it.
* **ControlPlane** (`control/mod.rs`, `config.rs`, `auth.rs`, `xpc.rs`): each
  request is a sequence of its system calls, interleaved with the others.
  `where` is, as in `StateFile`, the name by which the inode a request has open
  can be reached. A document stands for the text of a configuration; what
  matters of it is whether it parses and which kill switch it names.
  `GetConfig` and `GetEnforcementState` are one request, as they read the same
  two files. The
  restart is `Kickstart` (300 ms after a reply) and `Load` or `SeedOpen`,
  `SeedWrite`. The seed is written in place, so `SeedStops` may leave a part of
  it, with the daemon down. `byHand`, `overlap` and `cut` are history variables
  that only properties read.
* **ConfigRegister**: what the control plane promises of the configuration
  file, without temporary files, system calls, replies or the kickstart thread:
  a text is accepted, then committed whole or given up; a commit or a reload
  makes a restart due; only the end of the process discharges it; the start
  loads what is there. Where two saves overlapped since the last start
  (`clash`), any text may come into place, and a restart is due all the same. The
  seed of a missing file is not whole in one step: `SeedOpen`, then `SeedWrite` or
  `SeedStops`.
  `RegisterSpec` maps `pending` to the texts of the saves between their
  truncation and their rename, and `due` to a kickstart that is pending or
  failed, or a save that has renamed and not replied.
* **TrayAdmin** (`tray.rs`, `admin_xpc.rs`): the drain timer with its refresh
  thread, the toggle, the Configure window and Reload under their modal panel,
  and the subscription, all around `Latest`. `action` is the one action that
  runs; `late` is a request that timed out in the tray and that the daemon still
  carries out. A panel pumps the run loop and the timer goes on; an open menu and
  an alert, which ends each action that failed or timed out, run the loop in
  modes in which it does not fire (`Held`), until `Dismiss`. The daemon serves a
  request in one step here. A configuration is told apart by a key that Configure
  does not show, its kill-switch path. `clicked`, `clean` and `stale` are history
  that only properties read.
* **Services**: the bundle at its path, the registrations of daemon and agent,
  and the daemon launchd runs. It has the vocabulary of ServiceManagement,
  launchd and Homebrew as the repository uses them; none of the three is under
  `src/`, except the calls (mod `service_management` of `tray.rs`) and the
  socket that `Server::bind` makes. A bundle's number is its inode and its
  version at once. `late` is an unregistration that timed out and goes on;
  `taken` is history.
* **TrayLaunch** (`tray.rs`): `tray.at` is where `main` is. Each dialog, request
  and wait is a stage of its own, so whatever was read before may have changed
  after: `daemon_lifecycle_state` is `ReadStatus`, `ProbeSocket`, `ProbeAdmin`;
  `maybe_refresh_daemon_version` the three `Version...` actions;
  `refresh_and_verify_daemon` is `RefreshUnregisters`, `Register` and
  `Verified` or `VerifyTimesOut`. `note` tells whether the operator was shown an
  alert or a check was given up with a line in the log.
* **DeferredUninstall** (`tray.rs`, `control/mod.rs`): the process the uninstall
  hook leaves behind. `observe_bundle` is `Away` and `Replaced`, the loop around
  it `Poll`, `SeesReplacement`, `SeesRemoval`, `WaitTimesOut`; then `Prepared`
  and the two unregistrations. The daemon's side of `PrepareUninstall` is
  `WipeSocket` and `WipeState`, or `WipeStops` half way, against a ticker that
  saves call by call (`TickerSaves`, from `StateFile`). `gone` and `fresh` are
  history: how long the path has really been empty.
* **Lifecycle**: composes the three with the environment. Whatever ends the
  daemon ends its saves and its requests (`EndsWithDaemon`).

`Screentimed` shows enforcement only by its effect (the console may be emptied
for a user over limit); `Enforcement` shows the counters only by ticks and
midnights. `StatusStream` and `Notifications` take from `Screentimed` what a
restart may find (`Reloaded`: everything, all but a tick, or nothing).

## 3. Runs

Runs that pass:

| Run | Question | Bounds |
|---|---|---|
| `counting` | What may a crash lose (`CrashLosesAtMostOneTick`)? Is a wake-up ever forgotten (`ChangesAreBroadcast`)? Is the proof's invariant `SaveInv` right? Do memory and file keep coming back to the present (`DayCatchesUp`, `DiskCatchesUp`)? | 1 user, days 0 and 1 (day 1 long; 2 "hours" a day, 3 on the long one), counters mod 3, 1 crash, saves may fail |
| `enforcement` | Who is kicked, when, how often, and does an over-limit user leave? | 3 users (configured, not configured, without account), all 4 configurations, limit 2, backoff 2 |
| `status_stream` | Is a change lost on its way (`NothingMissed`)? Does the menu bar catch up (`ScreenCatchesUp`)? Are statuses drawn in order, none twice, and none lost that is not owed anew (`FeedSpec`)? | limit 2, channel 1, socket 1, 1 midnight, 1 crash |
| `notifications` | Is a threshold announced twice in a cycle (`OncePerCycle`)? | thresholds 1 and 3, limit 3, socket 1, days 0..2 (one long, one short), 1 crash |
| `control` | What can leave a configuration file that does not load (`FileStaysLoadable`)? Does what was saved come into force (`SavesTakeEffect`)? Are the steps of saves, restarts and failures those of a register (`RegisterSpec`)? | 2 requests in flight, 1 kill-switch path, 4 documents: empty, edited, one whose path is refused, one that does not parse; symmetric requests |
| `tray_admin` | Does the pause item stop being wrong, also after menus and alerts (`MenuCatchesUp`)? Does a click do what the item said (`ClickObeyed`)? Of the keys Configure does not show, can a save take back more than a hand edit made while a copy was around (`OnlyStaleSavesRevert`)? | 2 kill-switch paths, 1 late request beside the refresh and the action |
| `lifecycle` | Is a lost registration ever unseen (`LostRegistrationIsTold`)? Do tray and daemon end at one version (`VersionsAgree`)? Is only a removal taken for one (`ActsOnRemoval`)? Is the state file still an atomic cell while its directory is removed (`AbstractSpec`)? | 2 bundles, grace of 2 polls, deadline of 4, 1 uninstaller at a time, 1 task saving, 2 bodies, saves may fail |

The bounds are chosen so that every interesting case occurs: a midnight lets
the resetter be late, overlap the ticker's save and meet a day whose first hour
confuses `next_local_midnight` (`notifications` has a second midnight and a
short day); counters modulo 3 wrap within a day; capacity 1 makes the channel
lag and the socket block after two ticks; one crash is enough to lose a save and
to reconnect, and a second one starts from a state the first already reached;
two requests are enough to truncate, rename and write on to each other's file,
and two kill-switch paths with one late request let a toggle, a save and an
abandoned request act on different paths. Two bundles are an upgrade, with every
launch, repair and uninstall before, during and after it. Time in the
uninstaller is counted in its 250 ms polls: 2 for the grace period of 20 s and 4
for the deadline of 120 s keep their order and let a bundle leave, return and
leave again in between; a bundle that comes is assumed to stay until the next
poll, as one that came and went within 250 ms could be seen by nobody. Launches,
registrations, approvals, moves of the bundle and hooks are unbounded. Console and kill-switch changes, hand edits, failures, timeouts,
lost time and, in the last three runs, crashes are unbounded. The deadlock check
stays on. The proofs (section 5) cover the safety properties without bounds.

`LostRegistrationIsTold` excepts a registration that somebody else took away:
an uninstaller that has seen the removal acts for up to 40 s and does not look
at the path again, and an unregistration that timed out goes on, so either may
hit a bundle that was installed meanwhile. `VersionsAgree` is about a launch that
showed no alert and gave up on no check, and excepts a daemon whose socket was
removed by an uninstall that then failed: no tray can reach it, and
`EnabledMissingSocket` is only a line in the log.

`OnlyStaleSavesRevert` is about the keys that Configure does not show, and names
what it takes back of them: an edit made by hand while the window, or a request
from it, held an older copy. Of users and thresholds a save keeps nothing but
what the window shows: a user without a row is dropped (as the test at
`tray.rs:2643` wants it), and thresholds that do not parse become an empty list
(`tray.rs:2514`). `ClickObeyed` is
about an item whose title was right; a click on one that is not up to date does
the opposite of what it says.

`SavesTakeEffect` names the two ways in which a saved configuration is not put
into force: launchctl fails, which only the log tells, or the `chmod` after the
rename does, which the operator sees as a failed save. `FileStaysLoadable`
excepts hand edits, overlapping saves and a seed cut short. Overlapping saves
share one temporary file, as the two tasks of `torn_state` do, and can leave a
mixed text. `seed_default_config` writes in place (`config.rs:159`): if the write
stops half way, a part of the default configuration stays, every later start
fails on it, and somebody has to edit or remove the file. The property says what
remains true: only then, only that text, and the daemon is down.

Runs that show a disagreement between the code and its documentation:

| Run | Property | What happens |
|---|---|---|
| `torn_state` | `NeverTorn` | The ticker and the resetter save at the same time through one `.tmp`: one truncates what the other renames, and `state.json` is empty. `state.rs:12` calls updates atomic. Around midnight only, and a crash must follow before the next save. |
| `kill_switch_late` | `NoCommandWhilePaused` | The switch is touched after `bootout gui/`; `bootout user/` and `pkill -KILL` still run. `docs/concepts.md:166` says "Checked before every actual bootout". |
| `rearm_early` | `RearmsWhenZeroed` | A status computed just after midnight carries yesterday's counters and tomorrow's `resets_at`: the tracker re-arms on counters that are not zeroed, repeats yesterday's warning and counts it as announced for the new day. `notifications.rs:25` says the counters "have been zeroed". |
| `midnight_past` | `MidnightAhead` | In the first hour of a 25-hour day `next_local_midnight` returns the midnight that has passed. `time.rs:11` and the test at `time.rs:48` say it is strictly in the future. The resetter polls every 60 s for that hour, and `resets_at` changes in the middle of the day. |
| `uninstall_leaves_state` | `WipedOnUninstall` | The daemon removes its state directory and answers that it did; the ticker of the same daemon saves again before it is unregistered, `create_dir_all` included. A whole `state.json` is left after the uninstaller is done. `README.md` says that `state.json` is wiped on uninstall. |

That the day of the counters can go *back* for one tick (a ticker that read
yesterday's date enters after the resetter) was seen as well; `DayCatchesUp`
shows that it comes right again, and no run is spent on it.

## 4. Fairness

Stated per action, only where something in the system guarantees it:

* the daemon's tasks and the restart (`WF` on `TickerStep`, `ResetterStep`,
  `Start`): tokio polls ready tasks and fires timers, launchd has `KeepAlive`;
* `SF` on a `ResetPlan` whose target is ahead: the first hour of a long day, in
  which the target is past, comes to an end;
* enforcement: `WF` on the daemon's steps and on time. Nothing is assumed of
  `launchctl`. `OverLimitUserLeaves` also needs that a `pkill -KILL` retried
  for ever once matches in time (`SF`) and that a session whose processes were
  killed ends (`WF`); without these the code can promise nothing;
* a subscription: `WF` on the connection's task, on the tray's thread, on its
  timer and on each task's `send`. For the timer this takes it that no menu or
  alert of the tray stays open for ever, as it does not fire while one is;
  `TrayAdmin` models them, `StatusStream` does not;
* the pause item: `WF` on the daemon's start, on each request that was sent, the
  late one included, on the subscriber, the 30 s of the refresh and the tray's
  threads; `SF` on the drain timer, which menus and alerts hold up (it is
  scheduled in the default mode of the run loop, `tray.rs:602`) and which, overdue
  by then, fires when the loop is back in that mode. `MenuCatchesUp` speaks of
  behaviours in which choices, shell commands, crashes, refusals and timeouts
  come to an end; until then the item may be wrong at any time, which is how
  the code works. Menus and alerts may come and go for ever, and nobody has to
  close one: behaviours in which one stays open for ever (`<>[]Held`) are the
  other exception, as in them the item does stay wrong. `DiskCatchesUp` likewise
  excepts saves that fail for ever.

Apart from what `ScreenCatchesUp` takes of menus and alerts, nothing is assumed
of the user, the operator, the clock, crashes or failures.
`Lifecycle` states no fairness: an operator may leave a dialog open for ever,
and nothing obliges ServiceManagement to act.

## 5. Proofs

All are checked by TLAPS for every value of the constants, under the named
assumptions of each module (counters of any width, any calendar in which no two
consecutive days lack a midnight, any capacities, any limits).

* **Screentimed_proofs.** `TypeCorrect`, with the frame that a save in progress
  has a body. `BroadcastFollows`. `SaveInvariant`: `CrashLosesAtMostOneTick`
  alone is not inductive. One also needs that tasks are in `save_atomic` only
  where their program counter says so (`TasksAgree`), that nothing is dated
  after today (`NotAhead`), that a save which met no other owns the temporary
  file and carries the current state (`SoloIsWhole`), and that a file of an
  older day is not mistaken for one of a day a task is about to switch to
  (`DiskNotUpcoming`). `CrashLoss` follows.
* **Enforcement_proofs.** `PassInvariant` relates where the pass is to its
  victim, the snapshot and the mode; from it `LogModeIsSafe`, `KicksAreDue` and
  the action property `BackoffIsKept`.
* **LocalTime_proofs.** `NextMidnightOrdinary`, `NextMidnightAhead` (the first
  hour of a long day is the *only* exception) and `NextMidnightMonotone`.
* **Notifications_proofs.** `AnnouncedOncePerCycle`. The invariant: reset times
  travel in order through clock, reply, socket and tracker (from
  `NextMidnightMonotone`), and the tracker remembers the tightest announcement
  of its cycle.
* **StatusStream_proofs.** `NoChangeIsMissed`. The invariant: a connection is
  live only with a connected tray at its other end, and a status about to be
  written is current unless a wake-up is due or owed.

  `StreamIsAFeed`: `Spec` implements `StatusFeed`. A write to the socket and a
  wake-up sent or taken are not seen; a status read into the slot is a `Skip`
  when it replaces another there and is not seen otherwise; a crash is a `Lose`
  when it interrupts a write and a `Change` when it does not. What needs an
  invariant of its own is the timer, which takes the status in the slot even
  when it draws the muted clock: `MutedWhenRead`, the tray is disconnected only
  after it has read its socket to the end, so a muted drawing drops one status
  at most. `FeedSuffices` is the other half: the feed's steps, with the types,
  imply `NothingMissed`, because as long as none is due the last status computed
  tells the counters as they are (`FeedIsCurrent`).

* **ControlPlane_proofs.** `FileAlwaysLoads` and `SavesComeIntoForce` follow
  from `ControlInvariant`. The file loads because only parsed texts are written
  (`CallsAgree`), and because a save that met no other owns the temporary file
  from its truncation to its rename (`LoneSave`). The in-place write of the seed
  passes through the empty text, which loads (`SeedIsThere`), and may end in a
  part of it, which does not: then the daemon is down and stays so, no request is
  under way, and nobody but an edit touches the file (`cut`). A save
  comes into force because a request that still writes to an inode another one
  has renamed into place does so while a restart is due (`LateWritesAreSeen`):
  the rename that moved its inode is followed by a kickstart, and a kickstart
  that kills the daemon kills the writer too (`DownMeansIdle`). `ControlTypes`
  is the type invariant.

  `ConfigFileIsARegister`: `ControlSpec` implements `ConfigRegister`. The
  opening of the temporary file is the register's accept, the rename its commit:
  for that `LoneSave` must say more than that the temporary file loads, namely
  that it holds the text of the one save under way, and `LateWritesAreSeen` must
  find a restart due of the register's own, not excused by an edit. Steps on the
  kill switch, of clients and of reads are not seen (`Unseen`); steps in place,
  through an inode that a rename moved, are its `Overwrite`, which needs
  `clash` (`WritesInPlace`). The seeding is the register's own, with its three ends.
  `RegisterSuffices` is the other half: from the register's steps alone follow
  `FileStaysLoadable`, with its exceptions, and `SavesTakeEffect`, so what is
  implemented says enough.

* **TrayAdmin_proofs.** `ClicksAreObeyed` and `SavesRevertEditsOnly` follow from
  `AdminInvariant`. `ClickObeyed` speaks of the end of an action only; what
  carries it there is `Promised`: at each stage of an undisturbed toggle what
  the daemon was found to be, what is asked of it and what the operator clicked
  agree. It is kept because whatever changes the pause state behind the action
  (a shell, a hand edit, a late request) clears `clean`. `UpToDate` does the same
  for configurations: as long as no edit was made behind a copy, the window, the
  save under way and the save that timed out all hold the file's own path, so
  that committing any of them changes nothing. `CopiesAreThere` provides that
  the last two have a copy at all, without which the file would not even keep
  its type. `AdminTypes` is the type invariant.

* **Lifecycle_proofs.** Three invariants, each over the part it needs.
  `LaunchInv` (services and tray): an enabled registration that is gone behind
  the look at it was taken by another or told of (`Told`), tray and daemon agree
  from the end of the checks on (`Agree`), no alert is noted before it
  (`Noted`), and nothing runs from a bundle that was not there yet (`Known`):
  `LossIsTold`, `VersionsAreOne`. They are stated from the look on, not from
  `run` on, because that is where a step can break them. `WatchInv` (uninstaller
  and bundle): the polls it counted are the polls the path was empty
  (`Counted`): `OnlyRemovals`. `LifecycleTypes` joins them.

  The state file: `SoleWriterAtomic`, with a single writer `FileSpec` implements
  `AtomicReplace`; the rename is the commit, an error or a crash abandons
  (`SoleInv`: what the writer knows of its temporary file). The premise is
  exactly what the daemon violates in `torn_state`. `WipedAtomically` carries
  `SoleInv` over to `Lifecycle` and adds the one step `FileNext` does not have, a
  wipe that stops half way.

`PassTypes`, `StreamTypes` and `WarnTypes` are the type invariants of
`Enforcement`, `StatusStream` and `Notifications`, conjuncts of the invariants
above.

Every invariant and action property of the passing runs, and each refinement,
is proved. Only model-checked: liveness (`DayCatchesUp`, `DiskCatchesUp`,
`PassEnds`, `OverLimitUserLeaves`, `ScreenCatchesUp`, `MenuCatchesUp`), as
fairness and ENABLED are outside this prover's reach, and that the properties of
the runs that show a disagreement are violated, of which TLC's counterexamples
are the evidence.

## 6. What is not modelled

* `fsync`: `save_atomic` does not call it, so a power failure may lose or empty
  the file after the rename. `Crash` is the death of the process only.
* The wall clock going backwards (it would zero the counters), and time zone
  changes.
* Several console users: `sessions.rs` returns at most one.
* Frames: malformed, oversized or split frames and peer credentials.
* A tray restart (it may repeat the warnings of the day) and a daemon restart's
  effect on the enforcement backoff (the stamps are lost).
* Control plane: the envelope of XPC dictionaries, `ValidateConfig` and
  `GetDaemonInfo`, which change nothing (the version the latter tells is in
  `TrayLaunch`). A daemon started with
  another configuration path does not kickstart; the model is of the installed
  one. Any failing system call of a
  request is `IoError` (`ChmodFails` after the rename, `WriteStops` half way).
* The pause item when the kill-switch path itself changes (the tray then learns
  the state at the path on disk, the daemon looks at the path it loaded, until
  the restart that `SavesTakeEffect` promises).
* Configure: its fields and their validation, the listing of local users
  (`users.rs`), and the users and thresholds a save writes: only the rows it
  shows (a user whose directory record cannot be read for a moment loses the
  limit), and an empty list for thresholds that do not parse. A configuration in
  `TrayAdmin` is told apart by a key that the window does not show.
* `PrepareUninstall` with `preserve_config: false`, which would remove the
  configuration too: the tray never sends it.
* Services: the approval macOS may want for the agent, two uninstallers at once,
  two trays (a lock on a file makes the second one quit), and a daemon executable
  that is replaced without its bundle.
  `NotRegistered`, `NotFound` and `Unknown` are one status, as in the code.
* `status` (one request, one answer), packaging and release scripts.
* Formatting, layout, icons, logging.

## 7. Plan

The modules were built in the order in which they depend on each other:
counting and saving first, as everything else reads the counters, then what
enforces, what shows and what administers them, then the life of an
installation. What is left is the rows of the Configure window (open, edit,
save), as a module that `TrayAdmin` composes with when its state space allows
it.
