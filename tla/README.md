# Paperclip in TLA+

A verification development for the Paperclip tablet platform: TLA+ models of its
components, TLC runs over small instances of them, and TLAPS proofs, for every value
of the constants, of most of the safety properties those runs check.

Paths below are relative to the repository root. `PROJECT.json` lists every
component with its sources, the source lines behind every definition, the runs,
the mutants and the hazards, each at the line where it bites.

## 1. The system

Paperclip runs apps on an e-paper tablet beside the vendor's software ("stock",
`xochitl.service`). The tablet has no console: a wrong step can leave it with no
way in, so the code's first concern is that stock can always be brought back and
that what is selected to start is complete.

| Part | State it keeps | Operations | Interacts with | Hard because |
|---|---|---|---|---|
| Platform updater, `platform/updater` | `releases/`, links `current` and `previous`, journal, platform state and its snapshots | run, rollback, reconcile | host session, boot launcher | power cuts between any two writes; a new release rewrites the state the old one must read |
| Platform root, `updater/remove.rs`, `paperctl upgrade` | the installed tree, `paperctl`, links | bootstrap, upgrade, remove | updater, package store | a removal cut short is run again |
| Platform bundles, `updater/bundle.rs`, `manifest.rs` | bundle files | package, sign, verify, extract | release train, updater | the build directory changes while it is read |
| Package installer, `packages/install.rs`, `store.rs` | release directories with a marker, selections, journal, staging, a lock | install, rollback, recover, prune, sweeps | running apps, several processes | faults inside a transaction; replay of intents |
| Catalog, `packages/catalog.rs`, `publish.rs` | index and signature files, the device's cache | publish, fetch, accept, offer | installer | two files that are one document; replayed indexes |
| Archives, `packages/archive.rs`, `check.rs` | none | check, build, extract | publisher, installer | headers that lie; limits at their exact value |
| Host: state machine and runtime, `platform/host` | state, foreground, pending switch, failure ledger, queued events | one handler per event | systemd, compositor, OnFailure= unit | events that are stale when handled; blocking actions |
| Process sweep, `host/linux/process.rs`, `recovery.rs` | a cgroup's members | sweep, restore stock | systemd, the kernel | forks between reading and signalling; two sweeps at once |
| Isolation, `host/probe.rs`, `units.rs`, `report.rs` | facilities | probe, plan a unit, report | systemd, the kernel | a limit that is silently without effect |
| Takeover and hold, `platform/device` | unit, wakelock, lock files, watchdog, start ledger | acquire, present, hold, release | stock, systemd | the command is killed anywhere |
| Panel bridge, `device/panel.rs`, `vendor.rs`, `native/` | canvas, the engine's buffers, the hold report | open, draw, claim, swap, read back | vendor library | nothing sees the glass |
| Input and gestures, `device/input`, `compositor/gesture.rs` | slots, contacts, claims | decode, resync, arbitrate | kernel, apps | dropped events; fingers in any order |
| Compositor, `platform/compositor` | clients, pools, foreground, lock, status file | connect, attach, commit, present, release, sleep | apps, host, boot | buffers owned by two processes; clients that vanish |
| Protocol and SDK, `platform/protocol`, `platform/sdk` | session phase, outstanding frame, tasks, the save file | hello, draw, suspend, exit, save | compositor, host | messages that cross |
| `paperctl run` and `dev` | the loop, the app's thread, the window | present, switch, rebuild, exit | SDK, panel | coalesced damage; a rebuild against a closing window |
| Boot, `platform/boot` | attempt counter, autostart marker, units | count, decide, launch, watch, reset | updater's `current`, status file | the counter must survive the crash it counts; the updater starts sessions too |
| Release train, `release.yml`, `xtask`, `paperctl` release commands | tags, releases, digests | plan, build, upload, sign | bundles, catalog | main moves between steps; reruns |
| The desk: transport, run log, doctor, deploy | config, logs, the tablet's `paperctl` | find, run detached, examine, deploy | the tablet over ssh | two shells, other desks; a tablet that changes under the questions |
| Apps: chess, sudoku, settings, store, home | game and file, cached answers, pages | taps, answers, frames | SDK, admin service, store | answers late, denied or after a write; claimed damage |

What makes each part correct is the list of properties in section 3.

## 2. Modules

A module's variables are the component's state and what its properties need to
know of the past; each action is one handler, or one step of a handler that can be
interrupted or blocked there. Data is small: a version is a number, content a name
that stands for its digest, a picture a value per region. The comment at the head
of each module says what is external.

| Module | Models |
|---|---|
| `Upgrade` | the update transaction: one action per durable write or session call |
| `Installer` | one app's install transaction by several processes |
| `Supervisor` | state machine, runtime loop, the restore, and the units around them |
| `Compositor` | server and clients, two slots each, sockets as queues; an honest client and one that says anything |
| `AppSession` | host session, SDK loop, tasks, save file, the queues between |
| `SessionContract` | what a session promises, without queues or processes; `AppSession` implements it |
| `PanelLoop` | `paperctl run`: readers, the app's thread, damage, switching, shutdown |
| `PanelEngine` | canvas, claims, the engine's memory, the hold child and its report |
| `Input`, `Gesture` | evdev decoding with SYN_DROPPED; edge swipes and the escape pinch |
| `Takeover` | acquire and release order, the hold child, the watchdog, the start ledger |
| `Boot` | units, counter, launcher, watch, safe mode, the operator's commands |
| `Sweep`, `Isolation` | two recoveries over one process tree; probe, unit and report |
| `Distribution`, `Packaging` | publisher, mirror and cache; check, build and extract |
| `PlatformRoot`, `Bundle`, `ReleaseTrain` | installed root; bundle files; plan, workflow and signing |
| `Operator`, `Doctor`, `DevLoop` | transport and run log; doctor, deploy and setup; the development loop |
| `ChessApp`, `SudokuApp`, `SettingsApp`, `StoreApp`, `HomeApp` | the five apps, with the rules, admin service, inventory and launch ledger behind them |
| `MCUpgrade`, `MCInstaller`, `MCSupervisor` | constants for TLC |
| `MCRecovery`, `MCPanel`, `MCDevice`, `MCLive`, `MCSoftware`, `MCApps` | several components under one specification |
| `UpgradeProofs`, `InstallerProofs`, `SupervisorProofs` | theorems about the component they are named for |
| `DeviceProofs`, `SoftwareProofs` | theorems about the parts of `MCDevice`, and about those of `MCSoftware` |
| `PanelProofs` | theorems about the compositor, gestures, the panel bridge and the decoding of input in `MCPanel` |
| `SessionProofs` | theorems about the session and its save file, the refinement of `SessionContract`, and the panel loop |
| `AppProofs` | theorems about the five apps of `MCApps` |

A module of several components is a sum, not a product: a variable `which` is chosen
once, the component it names runs, and the others rest in one initial state. So a run
explores each component alone, and its state count is the sum of theirs. A property of
such a run has one part per component and says of each what the component's own module
states; the parts keep their names there (`Compositor!LockCovers`,
`Boot!GivesUpAfterMaxAttempts`).

### Choices worth knowing

* `Upgrade`: removing a tree is not atomic (`complete`, `partial`, `absent`).
  `live` and `snap` abstract platform state to the release that wrote it, which is
  all `readable_by_state_version` can tell apart. `Kill` is a signal, a dropped
  link or an I/O error passed up with `?`; `PowerCut` also ends the session. A
  removal whose result the code ignores (`upgrade.rs` 244, 255, 429, 438) may fail
  and the command goes on; `refused` remembers the staging directories left that
  way. A staging directory is named by the command that made it. One assumption is
  built into `GradeReady`: a release that cannot read the state it was started over
  does not reach `ready`.
* `Installer`: directories are `absent`, `complete`, `bare` (no marker) or
  `damaged` (marker, files gone); `readdir` order decides which of the last two a
  removal passes through, so the model takes either. `recover` may run beside a
  command and a command may be started over a crash that nobody recovered from.
  The history `met` records four things under which the code keeps less
  (`Trials`): a recover that overlapped a command (`overlap`), a command begun
  after a crash and before its recover (`hasty`), a removal stopped with the marker
  left and other files gone (`maimed`), and a selection change stopped by an I/O
  error (`stale`). A property says which of them it allows to have happened;
  section 5 says what happens after each.
* `Supervisor`: one pass collects events, handles them one by one and executes what
  the machine asked for, one action per call that can block or fail. Home and App
  are one state, `foreground`. Deadlines are two flags that a tick reads. From
  systemd come `Conflicts=`, `PartOf=`, `OnFailure=` with its start limit, and that
  a stop which times out fails the unit. Stock does not crash here.
* `Compositor`: a client process is its own client id. Frames are numbered, and a
  frame being written reads as torn, so that reading a slot its client writes
  would show. A release notice may be lost when the socket's buffer is full.
* `AppSession`: a message to the host is stamped with the notices its sender had
  read, so the properties can tell a message that crossed a notice from one sent
  against it. An app without the SDK may say anything. A draw callback may change
  the app's memory, ask the host and spawn tasks, like an event's, but names no
  action.
* `Takeover`: refused system calls, failed starts and a hung child are faults; a
  kill ends the command and leaves its child and the watchdog. The guardian's start
  of stock may come to nothing too (`spent`), and its script unlocks all the same.
  A failed write of the start record may leave any part of it, for it empties the
  file first; the ledger counts the starts on record.
* `Boot`: power may go at any step; `/run` is lost, the root directory is not. The
  supervisor is a process and a status file, and remembers who started it: the
  launcher, or an upgrade, rollback or reconcile, which stand it down, select and
  bring it up at any time without making the apps' copies.
* `Input`: the decoder is `astray` about a slot once a resync has guessed the
  kernel's slot wrong or a frame has put another finger in the slot of a contact it
  lifts; until then the properties hold, whatever is dropped.
* `Operator`: a run has an id, which only the properties see, and a process id of its
  desk, which recurs and which another desk may use as well.
* `DevLoop`: a build reads the sources over time, so it may or may not have an edit
  saved meanwhile. `asked` remembers the last edit a window was asked to close for
  (`owed`), and whether that request crossed the start of the session (`crossed`).
* `SettingsApp`: `lit.shows` is what the glass shows, which is what was drawn only
  where damage was claimed; the store may change with Settings in front or not.
* `Distribution`: a document and its signature are two files, each replaced
  atomically; a mirror may serve any index it once served.
* `Packaging`: sizes count blocks and headers may understate them.
* `PanelEngine`: half pixels where the code has `f32`, pixels where it has `u32`.
* `ChessApp`: the `chess` crate is external; `Engine` gives for every position what
  the code asks of it. The counts of the draw rules are constants.
* `SudokuApp`: a four by four grid; the random stream is a sequence of draws.

### Refinement

`AppSession` defines `ImplementsContract` by an instance of `SessionContract` whose
phase, outstanding frame, number of frames and exit reason are fields of the host's
record. The run `panel` checks it: with any app at the other end, the session goes
only where the contract lets it, one frame at a time, no draw while suspended, one
exit reason, nothing after Closed.

## 3. Runs

| Run | Expect | Checks |
|---|---|---|
| `upgrade` | pass | `TypeOK`, `CurrentComplete`, `JournalTruth`, `SelectedWasGraded`, `NoOrphanStaging`, `CommitIsEarned`, `SwapOnlyAtStock` |
| `recovery` | pass | `StateReadable`, `RunningKept`, `FallbackUsable`, `EventuallyResolved`, `LatestWins`, `LockReleased` |
| `install` | pass | `SelectedComplete`, `RecoveredClean` |
| `supervisor` | pass | `StockTruth`, `SpentStaysAtStock`, `AlwaysResolves` |
| `panel` | pass | `CompositorIsSound`, `SessionIsSound`, `SessionImplementsContract`, `PanelLoopIsSound`, `InputIsSound`, `GesturesAreFinal`, `PanelTellsTheTruth` |
| `device` | pass | `TakeoverIsSafe`, `BootIsSound`, `SweepTellsTheTruth`, `IsolationIsHonest` |
| `live` | pass | `ExitEnds`, `StockReturns`, `LaunchesEndOrArrive`, `EditReachesTheWindow` |
| `software` | pass | `CatalogIsSound`, `PackagingIsSound`, `RootIsSound`, `ShippedIsWhatWasBuilt`, `DeskTellsTheTruth` |
| `apps` | pass | `GamesAreSound`, `ScreensAreSound` |
| `upgrade_rollback` | violation | `RollbackGoesBack` |
| `install_marker` | violation | `SelectedWhole` |
| `supervisor_stop` | violation | `StoppedAtStock` |

Run one with `tlc -config <run>.cfg <module>` in this directory. The comment above
each property says what it means; in short:

* updater: the selected release is complete at every instant; the journal is true;
  nothing ungraded stays selected; staging is orphaned only where its removal failed; a
  commit is earned;
  the selection moves only at stock; state handed back is readable; an interrupted
  transaction is always resolved;
* installer: the selected version is complete and recovery cleans up, until a
  recover overlaps a command or a removal is stopped with the marker left; a running
  version is kept, the fallback is usable and a newer selection is not undone by an
  older intent, until any of the four trials is met; locks are not left for good;
* host: a supervisor at stock has stock running or the failure of its restore still
  to handle, a spent failure budget is
  obeyed, every switch and recovery ends; a tree reported empty is empty; the
  wakelock is let go only over a stock that owns the panel; no directive without
  effect but for the two filters of section 5, and the report claims nothing that is
  not in force without them;
* glass: nothing shows over the lock screen, a slot is not shown while it is written
  (but for the case in section 5), a frame is accepted only if published and not given
  up, a reported save is on disk, the glass shows the last frame however damage was
  coalesced, contacts come down before they move and end once, and what is held is a
  finger or pen on the glass, across dropped events until the decoder is astray, a
  claimed contact stays claimed, the hold report is true of the engine's memory;
* device: stock is never down with the device free to suspend and comes back wherever
  the command is killed, unless a restore or the guardian's start came to nothing or a
  stray guardian fired beneath a session; the panel has one owner; a release that
  never reaches Home is tried `MAX_BOOT_ATTEMPTS` times at most and graded by its own
  session only, and a session the launcher started runs the apps of the release
  selected, while none was selected since the boot;
* software: a published version never changes, a listed one is complete, the index
  shown as fresh never goes back, nothing untrusted reaches the installer; nothing
  is written outside the destination and disk use is bounded; app data is kept
  unless its removal was asked for and `paperctl` is never absent in between; what
  is signed is what was built; verdicts are true, and so is the exit status of a run
  whose process id no other run on that tablet had;
* development: an edit the open window was asked to close for is built and run, but
  for the escapes in section 5;
* apps: the file is the game unless a save failed; in the games the pending choices
  are legal and on the glass; damage covers the change, but for Sudoku's status band
  and Settings' rows (section 5): Settings' glass shows the page and the dialog that
  take presses, and its rows as of the last page turn or dialog; caches follow what
  they cache, Settings' list unless its last read was refused or another program
  changed the store under it.

Bounds, and why they are enough to be interesting:

* `upgrade`: three releases (current, fallback, candidate), two commands (the second
  finds what the first left), two faults (reconcile is itself interrupted), and any
  removal the code does not look at may fail. v2
  writes state v1 cannot read and v3 writes state all can, so upgrades with and
  without a snapshot both happen.
* `recovery`: the same with power cuts only, and the installer with one process,
  four commands, kills and power cuts, `recover` after each. A killed `paperctl`
  leaves its session running, which may write state during the restore:
  `StateReadable` is not promised there. A removal stopped with the marker left ends
  what the installer's three properties promise, and the other three trials are left
  out of the run, since nothing would be checked after them.
* `install`: two processes, three versions (selected, fallback, one to prune), three
  commands, two faults, commands started over a crash before its recover. A recover
  that overlaps a command is left out: after it `SelectedComplete` says nothing.
  `install_marker` checks `SelectedWhole`, which is the same without its proviso.
  Processes are interchangeable, so symmetry is sound.
* `supervisor`: one owner and stock, one command and a stop request, one fault of any
  kind, every budget one (the shipped policy allows one restore attempt), so every
  limit is met. It starts at stock or with a session up (`EitherSpec`), so that the
  one command and fault are not used up on getting there. `supervisor_stop` has a
  second owner and a second command, which is what the disagreement takes.
* `panel`: an honest Home and one arbitrary client with three frames, a sleep, a
  failing presentation and a socket that holds two notices; two draws, an input, a
  suspension, a task and either exit reason; two regions and two pointers with one
  switch; two touch slots with four ids and one drop; three contacts on three
  places, which is `MIN_PINCH_FINGERS`, so both gestures can happen; strokes inside,
  across and outside a panel of two by two. `MaxQueries` is 0 there; `live` has an app
  that asks.
* `device`: three takeovers with two refusals and a kill; two launches where the code
  has three (`MAX_BOOT_ATTEMPTS` 2) and three restarts a boot, so that both limits are
  met in either order; two releases, and the updater's commands at any moment; three
  processes of which one ignores SIGTERM and a stray
  nothing ends; every machine for `Isolation`.
* `live`: the same parts, smaller, since liveness is checked over the whole graph; one
  release in `Boot`, which the property does not tell apart.
* `software`: two versions, two keys of which one is trusted, three indexes, two
  faults; limits small enough that an archive meets each one exactly and passes it;
  four root commands with two faults; two workflow runs with a commit between them;
  two shells and other desks, two runs, two process ids, two tablets, a retention of
  one.
* `apps`: a three by three endgame with promotion, capture and repetition; a grid
  with a puzzle that would have two solutions; two reads against a budget of three;
  a store that changes behind Settings or under it; two apps, two versions, two
  requests at once; two tiles and two fingers.

Deadlock checking is off in all of them: with every command and fault used up a
system at rest is where it should be.

Fairness. Updater and installer: a started command goes on until it returns or is
stopped, someone runs `reconcile` or `recover` after an interruption (the documents ask
for it), and a running session does not recreate `state/platform` in the window of every
single attempt. Supervisor: the loop goes on while the process lives, which its watchdog
enforces, and deadlines pass; nothing is assumed of apps, compositor, stock or the
restore unit. `live`: a process that can run does, a socket with bytes is read, stock's
unit goes on starting, an armed watchdog fires (its start may still come to nothing),
the window's event loop delivers what was posted. `LaunchesEndOrArrive` needs no
fairness.

Each property has a mutant in `PROJECT.json`: a plausible bug of the mapped code
under which TLC finds the property violated. Mutant operators stand before the
definition they mutate and are used by nothing.

## 4. Proofs

Each theorem holds for every value of the constants: any apps, versions, processes,
messages, budgets, queue lengths and bounds, within the assumptions below.

| Module | Theorem | States, of its specification |
|---|---|---|
| `UpgradeProofs` | `TypeCorrect` | `[]TypeOK` |
| | `SelectionIsComplete` | `[]CurrentComplete` |
| | `JournalIsTrue` | `[]JournalTruth` |
| | `SelectionIsGraded` | `[]SelectedWasGraded` |
| | `StagingIsClaimed` | `[]NoOrphanStaging` |
| | `CommitsAreEarned` | `CommitIsEarned` |
| | `SwapsAreAtStock` | `SwapOnlyAtStock` |
| `InstallerProofs` | `TypeCorrect` | `[]TypeOK` |
| | `SelectedIsComplete` | `[]SelectedComplete`, that is `Careful => SelectedWhole` |
| | `RecoveryIsClean` | `RecoveredClean` |
| | `RunningIsKept` | `[]RunningKept` |
| | `FallbackIsUsable` | `[]FallbackUsable` |
| | `LatestRequestWins` | `LatestWins` |
| | `RecoveryStateIsReadable` | `[]StateReadable`, of `MCRecovery` |
| `SupervisorProofs`, of `AnySpec` | `TypeCorrect` | `[]TypeOK` |
| | `StockIsAccountedFor` | `[]StockTruth` |
| | `SpentBudgetIsFinal` | `SpentStaysAtStock` |
| `DeviceProofs` | `BootsAreBounded` | `[]BootIsSound` |
| | `TakeoversAreSafe` | `[]TakeoverIsSafe` |
| | `SweepsTellTheTruth` | `[]SweepTellsTheTruth` |
| | `IsolationTellsTheTruth` | `[]IsolationIsHonest` |
| `SessionProofs` | `SessionKeepsContract` | `SessionImplementsContract` |
| | `SessionsAreSound` | `[]SessionIsSound` |
| | `GlassShowsTheLastFrame` | `[]PanelLoopIsSound` |
| `PanelProofs` | `CompositorsAreSound` | `[]CompositorIsSound` |
| | `GesturesStayFinal` | `GesturesAreFinal` |
| | `PanelsTellTheTruth` | `[]PanelTellsTheTruth` |
| | `InputsAreSound` | `[]InputIsSound` |
| `SoftwareProofs` | `RootsAreSound` | `RootIsSound` |
| | `CatalogsAreSound` | `CatalogIsSound` |
| | `ShippingIsSound` | `[]ShippedIsWhatWasBuilt` |
| | `DeskIsTruthful` | `[]DeskTellsTheTruth` |
| | `PackagesAreSound` | `[]PackagingIsSound` |
| `AppProofs` | `ScreensTellTheTruth` | `[]ScreensAreSound` |
| | `GamesAreKept` | `[]GamesAreSound` |

These are all the safety invariants and action properties of the passing runs; what is
left to the runs alone is liveness.

Two kinds of hypothesis stand outside the specification. `ASSUME`s on the constants say
what a value must be for the module to mean anything; TLC evaluates each. Most say that
bounds are natural numbers, that a name for "none" is no process, version or message,
that finite sets are finite (`ConstantsAssumption`, `AttemptsAssumption`,
`HomeAssumption`, `ProcessesAssumption`, `NilAssumption`, `ContactsAssumption`,
`WidthAssumption`, `ClientsAssumption`, `InputAssumption`, `PanelAssumption`,
`RecoveryAssumption`, `VersionsAssumption`, `ListsAssumption`, `DeskAssumption`,
`ScreensAssumption`). Four say more:

* `PackagesAssumption`: declared paths are relative, which parsing a manifest ensures,
  and what is below a path is below a directory;
* `ReadsAssumption`: the list of apps is among what Settings reads;
* `EngineAssumption`: a move of the chess crate leads to a position it knows, and a pawn
  that promotes is offered all four pieces;
* `DrawsAssumption`: the stream gives finished grids that break no constraint, each with
  an order of its cells to dig in, and a tap falls on a cell.

The other kind is about behaviour, and stands in the theorem or in the property it
states:

* `SelectedIsComplete` and `RecoveryIsClean` are theorems of every behaviour of the
  installer, and say `Careful => ...`: as long as no recover overlapped a command and
  no removal was stopped with the marker left and other files gone. The code ensures
  neither; after either the conclusion fails, as section 5 says.
* `RunningIsKept`, `FallbackIsUsable` and `LatestRequestWins` say `Prompt => ...`: as
  long as none of the four `Trials` was met, which are those two, a command begun
  between a crash and its recover, and a selection change stopped by an I/O error.
* `RecoveryStateIsReadable` assumes that `paperctl` is not killed (`"kill" \notin Cuts`);
  `RestoredStateIsReadable` in `UpgradeProofs`, which it rests on, assumes `Gentle`: also
  that nothing starts a session over an open transaction. A killed `paperctl` leaves its
  session running, which goes on writing state under the restore.
* `StagingIsClaimed` excepts the staging directories whose removal failed (`refused`).
* `BootsAreBounded` speaks of the apps of a session the launcher started, while no
  release was selected since the boot (`sess.by`, `record.moved`).
* `TakeoversAreSafe` excepts a restore that gave up, a guardian whose start of stock came
  to nothing and a stray guardian that fired beneath a session (`taken`).
* `IsolationTellsTheTruth` excepts the two filters written on every machine.
* `InputsAreSound` says `~kernel.astray => ...` of the tablet's decoders: until a resync
  guesses the kernel's slot wrong, or a frame puts a finger in the slot of a contact it
  lifts.
* `DeskIsTruthful` speaks of the exit of a run whose process id no other run on that
  tablet had (`Namesake`).
* `ScreensTellTheTruth` speaks of Settings' list unless its last read was refused or
  another program changed the store under it (`behind`), and of the rows on its glass
  unless an answer was filed since (`lit.heard`).
* `SweepsTellTheTruth` assumes `Layout = "unified"`: on the other layouts the code
  cannot read a tree at all and refuses to report on it.

### The inductive invariants

Few of these properties are inductive as they stand. The larger invariants below
were given to TLC, on an instance of their run, before they were proved.

`UpgradeProofs`. Even types are not inductive: putting a snapshot back looks it up
under the release the record came from, so the proof needs that a record with a
snapshot has such a release (`SnapshotInv`) and that a command's record is the one on
disk (`PhaseInv`). For the rest the invariant `IInv` adds

* `FromInv`: while a transaction is open, the release it would go back to is
  complete. This is what makes the revert safe, and it holds because nothing
  removes that release: `RemoveOldRelease` removes a candidate that differs from it
  (`CandidateInv`), prune runs when the journal says `commit`, and reconcile
  discards a candidate only in PREPARE, where the selected release is the one to
  go back to (`SelectionInv`) and is spared by the guard;
* `SelectionInv`: which release the links name, by step and by journal phase;
* `CandidateInv`: the candidate is complete from its rename until it is selected;
* `StagingInv`: a staging directory is claimed by the journal, or is one whose removal
  failed;
* `SessionInv`: the session is down from the stand-down to the bring-up, so what is
  graded is what is selected.

`StateInv` is for the state handed back. What runs is what is selected, and over a cut or
undone transaction at most the release to go back to (`RunsInv`); so whoever may still
write the state writes what that release can read, or there is a snapshot it can read,
kept until the transaction ends (`BackedInv`), and noted only once it was copied
(`NotedInv`). `RecoveryStateIsReadable` instantiates it for the three releases of
`MCRecovery`.

`InstallerProofs` has three layers. `TypeInv` is `TypeOK` with what each command
remembers at each step. `SafeInv` is that one process works on an app at a time
(`Exclusive`, `LockAt`), that what is about to be selected is complete (`SelectingAt`,
`ReplayAt`) and that a tree with a marker and files gone is one a prune is at work on
(`MarkerInv`); it holds while `Careful` does. `FreshInv` orders the commands while
`Prompt` holds: an intent in the journal is no older than the last reported selection
(`IntentInv`, `FreshAt`), and nothing selected, running or kept as the fallback is
pruned (`RunningInv`, `FallbackWhole`).

`SupervisorProofs`: `ControlInv` says what the machine's state, the actions still to
execute and the units tell of each other. `NothingLeft` is that a pass begins with
nothing to do; `LaunchInv` that a session is being started only for the switch that is
pending; `SpentInv` that a spent budget leaves no start of the target in the plan;
`Accounted` that whoever is at stock, going there or recovering has stock, has its
restore still in the plan, or has the restore's failure still in a queue. The last is
what the proof changed: "at stock, stock is up" was true of the run's two commands and
false beyond them (section 5, `supervisor_stop`), and `StockTruth` is now what the code
does.

`DeviceProofs`. `BootInv`: the counter on disk is never behind the launches it stands
for and is ahead while one is being made (`CounterInv`), and a status file that says
Home was written since this bring-up (`GradeInv`); what is in the apps' directory at the
launcher's bring-up was made from the release selected then (`ShippedInv`).
`TakeoverInv`: the wakelock covers a session from before the stop (`WakeInv`), the
presenter lives only under the command that waits for it or after that command was
killed (`OwnerInv`), and a session the start budget admits has both its guarded starts
left (`LedgerInv`). `PanelInv`: from the first start of stock that found the panel free
of strays, strays do not come back. `IsolationInv`: what was probed is this machine's,
what was planned and reported is of what was probed.

`PanelProofs` has one invariant for each of its four parts.

* `CompositorInv`: for a client that follows the protocol, the queues between it and the
  server account for each of its two slots (`Core`), with `Speaks` and `Talks` for what
  each side may have said, until a slot is repeated. `Covered` and `Exclusive` are the
  lock screen and the slot on the glass; `Pointed` says that the foreground is a
  connected client.
* `GestureInv`: a contact that was ruled the system's is on the glass and keeps the
  gesture that took it.
* `EngineInv`: a pixel no claim covers is on the glass and in the engine's memory as it
  is on the canvas (`ClaimInv`), which needs that the union of rectangles a frame is
  rounded to still covers each; and what a hold reports was read back from the engine's
  own image (`ReportInv`).
* `InputInv`: until the decoder is astray about a slot, the decoders' slots fit the
  kernel's fingers, finger for finger while nothing was dropped (`SlotsInv`), the pen's
  contact is as the kernel has it (`PenInv`), and what the stream says is down is a
  contact one of the decoders holds (`StreamInv`). A slot that was lifted and landed in
  again in one frame, or a drop while a slot other than 0 is in use, leaves the decoder
  astray (section 5), and the invariant claims nothing after it.

`SessionProofs`. `SessionInv` is about two queues and the two ends: `HostInv` says what
the host keeps of its frames, `PublishedInv` and `SavedInv` that nothing is reported
before it is so. `TalkInv` says that what was said knowing of every notice can still be
heard (`SaidInv`), where the app is in the conversation (`TurnInv`), and that the frame
asked for is in one place: its draw, its drawing or its report (`FrameInv`). `Counted`
ties the notices the app has read to those still in its queue. `TalkInv` holds until
something is refused, and what is refused had crossed a notice (`host.crossing`).
`OneFrameInv` is what the refinement needs: an outstanding frame means a session that is
neither being greeted, suspended nor leaving; the proof takes every action of
`AppSession` to a step of `SessionContract` or a stutter. `LoopInv` is for `paperctl
run`: what the glass lacks of the last frame is in the damage slot, and what the frame
lacks of the app's picture is in what the app knows it changed (`PictureInv`); one draw
or its frame is on the wire (`DrawInv`); what the thread says of its save is what became
of it (`LoopSavedInv`).

`SoftwareProofs`. `RootInv`: the marker is written before the first thing it is for
(`MakesInOrder`) and goes after the last (`RemovesInOrder`). `CatalogInv`: a descriptor
describes the archive beside it (`DescribedInv`), what the publisher is about to write
agrees with what it wrote (`PublisherInv`), and what the reader carries was signed
(`VouchedInv`, `CachedInv`). `TrainInv`: what a release holds goes together and a
document stands for its archive. `BundleInv`: a document's components and the files
packed so far cover each other, and agree while nobody touches the tree. `DeskInv`: a
log was written by a run of the process id it is named by (`OwnersInv`); records are
told apart by their times, and with no one killed the run that closes last leaves at
most `RETAIN` of them (`RecordInv`). That pruning keeps few is `YoungestAreFew`: the
oldest record it keeps has all the others it keeps after it. `ExaminedInv`: what a calm
report says is so (`AnswersInv`), a holder that is not xochitl was not taken for stock
(`HolderInv`), and while no connection drops and no two deployments overlap the live
file is whole (`LiveInv`). `PackageInv`: what is on disk lies where it may (`NodesInv`),
costs no more than was read, and its names and number are what the extraction counted
(`TakenInv`); of an archive that `build` made, what is on disk and what is still to come
are the files its manifest declares, each once (`BuiltInv`), so an accepted extraction
of it holds exactly those.

`AppProofs`. For the screens, what is shown is what is known as soon as everything on
its way has arrived. `SettingsInv`: the list in the store is cached, or is the last one
on its way, or will be asked for (`WillShow`), unless that was excepted; the glass has
the page and dialog last painted, and its rows if no answer was filed since. `StoreInv`:
rows that differ from the panel are in the damage (`RestShown`). `HomeInv`: the last
reading of the battery is shown or is the last in the queue (`Hear`). For the games:

* `ChessInv`: the game is the replay of its events (`Replays`), so a file that was saved
  loads as that game; the pending promotion and the selection are legal in its position
  (`PendingFits`, `SelectionFits`), and the glass has them unless the damage does.
* `SudokuInv`: the board breaks no rule and has the givens of its puzzle (`LegalGame`);
  the file is the game unless a save failed; what is stale on the glass is claimed.
  Every puzzle dealt has one solution (`PuzzleHasOneSolution`), by two facts.
  `SearchFinds`: the solver, stopped at two, counts two if the grid has two completions,
  by induction on `Work`, the blanks times `W + 1` and the digits still to try.
  `DigKeeps`: a cell is left empty only if the count stays at one, so each grid of the
  digging has the finished one as its only completion (`Holey`).

The library's induction theorems take a property as an operator, which no prover here
can instantiate. Where a proof rests on data of any size (a queue, a fold over
rectangles, a replay of events, the solver) the property is a set instead:
`SubsetInduction` and `NumberInduction` say that a set closed under the step is
everything, and are proved from the least element of what is missing. The modules that
need them repeat them, so that each can be read and checked alone.

The final step of a temporal theorem joins initiation, consecution and implication.

### What proving changed

`StockTruth`, as said. A decision of `Supervisor` written as unordered cases that overlap
was ordered as the code orders it. `ReleaseTrain` credited a platform with a rebuild it
never gets: `xtask` rebuilds apps only, and the signer's document now says so.

The rest changed form, not meaning. `Count`, the Sudoku solver, is a recursive function
of a search (grid, digit, limit) that goes digit by digit as the loop in `solve.rs`
does, where it was a recursive operator; the generated puzzles are a function of pairs;
the App Store's rows are the increasing listing of the apps that have one. No module
uses `RECURSIVE` now.

### Only model-checked

* Liveness, which is out of TLAPS's reach: `EventuallyResolved`, `LockReleased`,
  `AlwaysResolves` and the run `live`.
* The violations: that the three properties of section 5 fail is shown by a
  counterexample, which is its own proof.

## 5. Disagreements between the code and what is said of it

Three have a run:

* `upgrade_rollback`: a requested rollback opens its record with the selected
  release as `from`, and the shared revert selects `from`: it re-selects what was
  selected. docs/updating.md says it "goes back one step".
* `install_marker`: a prune killed part way can leave a marked, incomplete
  directory, which re-installing that version takes as present.
* `supervisor_stop`: `runtime.rs:577` reads whether stock is active as the last event
  of a pass; a switch handled before it stops stock, the app fails in that same pass,
  and the one restore times out. `state.rs:603` then takes the old observation for
  stock, and a stop request ends the run as `Outcome::StoppedAtStock`, of which
  `runtime.rs:321` says that "stock owns the display". With two restore attempts or more
  the same observation lets the failed restore be counted at stock.

Six more are stated as properties that the code does not keep. They belong to no run;
checked as the invariant of a small instance of the module's own specification, each
fails within a few steps:

* `UpgradeBringsAppsForward` of `Boot` (`BootSpec`, two releases): `upgrade`, `rollback`
  and `reconcile` bring the session up (`updater/linux.rs:162`) without making the apps'
  copies, which only the launcher does; until the next boot the session runs the copies
  of the release before. `paperclip-launcher.rs:186` says the copies are made so that an
  upgrade "brings the app binaries forward with it".
* `FingersAreContacts` of `Input` (`InputSpec`, one slot, no drops): a finger lifted and
  another landed in one slot within one frame (`evdev.rs:185`): Up is sent with the new
  contact, which never came down, and the old one never ends. The comment at 143 gives
  the slot its own id so that "two fingers swapping within a frame" would not look like
  one.
* `EveryDirectiveWorks` of `Isolation` (`IsolationSpec`): `units.rs:670-672` writes
  `RestrictSUIDSGID` and `LockPersonality` on every machine; both are seccomp filters,
  and the tablet's systemd has none (docs/isolation.md:45). docs/isolation.md:15 and 17
  say such a directive is not written, and `report.rs:208` names the first among what
  carries its claim of no privilege escalation; the claim itself rests on the other two.
* `ReloadIsNotAnExit` of `DevLoop` (`DevSpec`, one app, two edits): the watcher sets the
  flag, the next session clears it (`dev.rs:230`) and registers its window, and the
  watcher asks that window to close: `paperctl dev` exits without the edit.
  `dev.rs:12-21` says that a window the watcher closed is reloaded.
* `WaitsForItsOwnRun` of `Operator` (`OperatorSpec`, one shell, one process id, two
  runs): `remote.rs:409` names the log of a detached run by the desk's process id. The
  log outlives its run, so a later command with that process id may read the older run's
  `EXIT=` before its own run has truncated the log, and report it as its own. Two desks
  may also have one process id at once.
* `SettingsShowsWhatItDrew` of `MCApps` (the constants of `apps.cfg`): `app.rs:118`
  claims no region when neither page nor dialog changed, so what an answer brought is
  drawn and never shown: after a launch the glass keeps the Loading page until the first
  page turn or dialog, and after a confirmed rollback the old rows. `app.rs:103-105`
  says of such an answer that it changed nothing visible.

The others were met while modelling. The models do what the code does, and the
properties of section 3 are stated so that they are true of it.

Updater and platform root
* `paperclip-launcher.rs:114`: with autostart on, a power cut in VERIFY leads to the
  ungraded candidate being started at boot; `upgrade.rs:450` gives exactly that as
  the reason not to resume.
* `upgrade.rs:265` removes `releases/<candidate>` even when `previous` names it.
* `upgrade.rs:295`: a failed `bring_up` returns with the candidate selected and VERIFY
  open; the module comment says failure before COMMIT means rollback.
* `upgrade.rs:586`: a rollback that cannot stand down ends "stranded" although the
  device need not be at stock.
* `upgrade.rs` 244, 255, 429: the result of removing the staging directory is ignored
  and the journal says `failed` all the same; a directory whose removal failed is
  orphaned, for no later command looks for it. At 438 the same goes for the discarded
  release, which may be left part way, but is named by no link.
* `upgrade.rs:736`: no lock; `reconcile` beside a running `run` reverts it, and the run
  then journals `commit`.
* `remove.rs:83`: `path.exists()` follows links, so a link whose target was removed
  first is passed over and stays; a later installation then fails to select the
  previous release (`upgrade.rs:286`).
* Bootstrap's atomic write leaves the new `paperctl` without its execute bit for a
  moment.

Packages
* `install.rs:671`: an I/O error in the selection change leaves an activation entry
  that a later recover replays over a newer selection.
* `install.rs:662`: killed between commit and the activation entry, the release is not
  activated by `recover`, as the module comment says it is.
* `store.rs:549`: `recover` breaks the lock of a live install, and the first of the two
  to return removes the other's lock (593); both then work on one app, and a release may
  be selected that is not whole.
* After a crash nothing keeps a command from starting before `recover`: what it selects
  may be undone by the intent the crash left, and its prune may take the release that
  runs or the fallback.
* `catalog.rs:418` writes the cached index and its signature one after the other;
  stopped in between, the cache no longer verifies and every later acceptance fails
  on it. `publish.rs:271` says an index this key did not sign starts again at serial
  1; the code fails on it, so a publish stopped between index and signature cannot
  be finished by running it again.
* An asset called `paper.toml` is written twice into an archive; a directory given
  as an asset passes the check and fails the build; directories made on the way to a
  file are not counted; a tree edited between its metadata and its reading is
  archived as a mixture.

Host and device
* `state.rs:680`: two restores in one pass, the first failing and the second working:
  the stale failure is handled first and halts the supervisor.
* `state.rs:576`: a switch requested during a switch starts a second app unit and
  forgets the first; `runtime.rs:838` says there is only ever one.
* `units.rs:470` promises the restore unit after any death of the supervisor; app
  crashes within ten minutes use up its start limit.
* `runtime.rs:778` removes the display registry files also when stock owns them,
  which `recovery.rs:221` calls a bug.
* A stop request (`linux.rs:132`) is honoured only at stock; `state.rs:540` names a
  caller of `operator_retry` that does not exist.
* `process.rs:150`: the SIGKILL pass is not repeated, so a process forked in between
  survives a sweep whose comment (144) says it repeats; the reaper of descriptor
  holders does not spare stock as `process.rs:12` says.
* `takeover.rs:313`: a release whose `systemctl` fails leaves stock down with the
  watchdog disarmed, unlike the comment at 403. The guardian's script (375) unlocks the
  wakelock whatever its `systemctl start` came to: after a kill and such a start stock
  is down with the device free to suspend. `stock.rs:343`: each of `reset_failed`,
  `record` and `start` may end the restore with an error, and a failed write of the
  record may empty it, so that later sessions see fewer starts than there were. Two
  commands that overlap both pass the gate; a kill between the wakelock and the watchdog
  leaks the wakelock; a watchdog left by a killed command fires beneath a later session
  (`hold.rs:47`).
* Boot: restarts within one boot use up the counter that is
  meant across boots; `autostart enable` leaves an exhausted counter; a crash between
  the wants link and the safe-mode unit leaves `OnFailure=` naming nothing.
* Panel bridge: an unknown waveform is refused without a word, a failed clear loses
  the report of the frame, a failed open keeps the vendor's lock.

From the finger to the glass
* Compositor: a slot released under the lock screen ("releasing without presenting is
  safe", `server.rs:689`) is shown again at wake while its client may be drawing
  into it; a background client's second commit leaks the first
  slot; a failed presentation never gives its slot back; a Home that connects
  after everything stopped is not shown; a release notice that is lost blocks its
  client for good.
* Session: an app built with the SDK can be ended for a message that crosses a suspend
  or an exit; `session.rs:47` calls that "an app that has already misused the
  protocol".
* `paperctl run`: a later redraw replaces a request to go home or launch; an answer
  after the frame is not drawn until the next pointer; a panel error ends the loop
  without asking the app to save; `LaunchReason::Restored` is given when a directory
  merely exists.
* Input: after a drop the current slot is taken to be 0, so that what another slot's
  finger does next is told of slot 0's; a hovering pen that leaves emits nothing.
  Gestures: a first event may be claimed (`gesture.rs:22` says not).

Releases and the desk
* `release.yml:5`: a platform whose required components are more than what the
  workflow compiles is published and cannot be signed; a failing planner is hidden
  by `tee`; only a hundred releases are read; an interrupted replacement of an asset
  leaves it missing.
* `updater/manifest.rs:387` does not escape newlines; a bundle packed during a build
  mixes two builds.
* `deploy.rs:71`: `cat` ends well when the connection drops, so half a binary can be
  moved to the live path, which the comment says never happens;
  `transport/config.rs:157`: two shells may lose a pin.
* `paperctl dev`: an edit saved during a build, or while the new process starts, is in
  the build or forgotten; a flag set while no window is open is cleared by the next
  session (`dev.rs:145` says it "is what `run` acts on once one does"). The liveness
  property excepts a failed build or relaunch, a window that ends with an error, and a
  request that crossed the start of its session.

Apps
* Sudoku's status line can change without its band being claimed (`screen.rs:36` says
  it is claimed whenever the line changes).
* Settings: a read that was rate limited is not asked again, and a denied write closes
  its dialog without a word. The store may change with Settings in front: its list is
  then old until the next read, and since a rollback is asked for by app alone, a
  confirmation that names the release previous when the list was read may roll back to
  another. Where a press lands is by the list, not by the rows on the glass
  (`SettingsShowsWhatItDrew`).
* Store: two operations can run on one app, an install does not refresh the
  inventory, damage waiting to be drawn is overwritten by the next, and a release
  that started once is never given up.

## 6. Not modelled, and what is next

Not modelled: glyphs, lines, colours and the chrome; the render test card; telemetry
counters and diagnostics; the system facades; argument parsing, templates and
documentation tools; finding input nodes. They are pure output, or functions of one
input with tests of their own. Cryptography and parsing appear by what they decide.
Chess move generation belongs to a library and is a constant.

Not covered by a property, and why: two updaters at once (`upgrade.rs:736`) and
`recover` beside a live install (`store.rs:549`), where there is no lock and the
properties fail; the restore unit's start limit (`units.rs:518`).

Next: properties for those three, once the code settles what should hold of them.
