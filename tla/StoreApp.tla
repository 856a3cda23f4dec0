------------------------------- MODULE StoreApp -------------------------------
(***************************************************************************)
(* The App Store (apps/app-store), the inventory it shows (packages        *)
(* inventory.rs) and the launch ledger behind a row's health (launch.rs).  *)
(* Presses hand requests to worker threads; their progress and outcomes    *)
(* come back on one queue, in the order each worker sends them.  The app   *)
(* draws when the host asks for a frame and says which part of the frame   *)
(* changed.  The installer itself is module Installer; here an install or  *)
(* a rollback is one change of the store, or a refusal.  Versions are      *)
(* numbers, 0 is no version, and release notes are the version they are of. *)
(***************************************************************************)
EXTENDS Integers, Sequences, FiniteSets

CONSTANTS
    Apps,            \* app identifiers; rows are listed in their order
    Held,            \* the apps installed at the newest version, updated from the one before
    Newest,          \* versions are 1..Newest
    MAX_ATTEMPTS,    \* Ledger::MAX_ATTEMPTS
    MaxRequests,     \* requests handed to a worker
    MaxOutside       \* changes made by somebody else: publishing, launching, losing the network

VARIABLES
    store,   \* AppStoreApp and its AppStoreScreen
    jobs,    \* the worker threads still running
    queue,   \* completions sent and not yet handled
    shelf,   \* releases on disk, the ledger and the catalog
    lit,     \* what the panel shows, whether a frame is owed, and whether one was skipped
    used     \* the budgets spent

stvars == <<store, jobs, queue, shelf, lit, used>>

Versions == 1..Newest
NoNotes == [app |-> 0, text |-> 0]
Idle == [app |-> 0, step |-> "none"]
\* Damage::Full is row 0, which no list has.
Full == {0}

---------------------------------------------------------------------------
(* packages/launch.rs: what the ledger remembers of an app's last release *)

Fresh(version) == [version |-> version, attempts |-> 0, started |-> FALSE]
NoHealth == Fresh(0)

OfVersion(app, version) ==
    IF shelf.health[app].version = version THEN shelf.health[app] ELSE Fresh(version)

ShouldLaunch(app, version) ==
    LET health == shelf.health[app]
    IN health.version = version => health.started \/ health.attempts < MAX_ATTEMPTS

Failing(app) ==
    /\ shelf.health[app].version # 0
    /\ ~shelf.health[app].started
    /\ shelf.health[app].attempts >= MAX_ATTEMPTS

---------------------------------------------------------------------------
(* packages/inventory.rs *)

\* The newest version the catalog offers, when it can be read.
Offered(app) == IF shelf.reachable THEN shelf.catalog[app] ELSE 0

StateOf(app) ==
    LET installed == shelf.current[app]
        offered == Offered(app)
    IN IF installed = 0 THEN (IF offered # 0 THEN "Available" ELSE "NothingSelected")
       ELSE IF Failing(app) /\ shelf.health[app].version = installed THEN "Failing"
       ELSE IF offered = 0 THEN (IF shelf.reachable THEN "InstalledNotOffered" ELSE "Installed")
       ELSE IF offered > installed THEN "UpdateAvailable" ELSE "UpToDate"

\* An app is listed when it has something on disk or the catalog offers it.
Listed(app) == shelf.disk[app] # {} \/ Offered(app) # 0

Unlisted == [state |-> "none", installed |-> 0, fallback |-> 0, available |-> 0, kept |-> 0]

Survey ==
    [app \in Apps |->
        IF Listed(app)
        THEN [state |-> StateOf(app), installed |-> shelf.current[app], fallback |-> shelf.previous[app],
              available |-> Offered(app),
              kept |-> IF shelf.disk[app] = {} THEN 0 ELSE CHOOSE v \in shelf.disk[app] :
                                                            \A w \in shelf.disk[app] : w <= v]
        ELSE Unlisted]

---------------------------------------------------------------------------
(* What a frame shows, and the part of it that reaches the panel *)

Entry(app) == store.inventory[app]
Rows ==
    LET listed == {a \in Apps : Entry(a).state # "none"}
    IN CHOOSE row \in [1..Cardinality(listed) -> listed] :
          \A i, j \in DOMAIN row : i < j => row[i] < row[j]
CanRollBack(app) == Entry(app).fallback # 0 /\ Entry(app).installed # 0
NotesShown == IF store.notes.app = store.view THEN store.notes.text ELSE 0

Step(app) == IF store.working.app = app THEN store.working.step ELSE "none"

\* The banner above the list, or below the notes, when the last operation failed.
Banner == store.failure

ListDrawn ==
    [screen |-> [view |-> 0, names |-> Rows, banner |-> Banner],
     rows |-> [i \in DOMAIN Rows |-> [entry |-> Entry(Rows[i]), step |-> Step(Rows[i])]]]

DetailDrawn ==
    [screen |-> [view |-> store.view, entry |-> Entry(store.view), notes |-> NotesShown,
                 step |-> Step(store.view), banner |-> Banner],
     rows |-> <<>>]

Rendered == IF store.view = 0 THEN ListDrawn ELSE DetailDrawn

\* The first frame has been drawn: the host asks for it before it sends input.
StoreInit ==
    /\ shelf = [current |-> [a \in Apps |-> IF a \in Held THEN Newest ELSE 0],
                previous |-> [a \in Apps |-> IF a \in Held THEN Newest - 1 ELSE 0],
                disk |-> [a \in Apps |-> IF a \in Held THEN {Newest - 1, Newest} ELSE {}],
                health |-> [a \in Apps |-> NoHealth],
                catalog |-> [a \in Apps |-> IF a \in Held THEN Newest ELSE 1], reachable |-> TRUE]
    /\ store = [view |-> 0, inventory |-> Survey, notes |-> NoNotes, working |-> Idle, failure |-> FALSE,
                damage |-> Full]
    /\ jobs = {} /\ queue = <<>>
    /\ lit = [shows |-> Rendered, due |-> FALSE, skipped |-> FALSE]
    /\ used = [requests |-> 0, outside |-> 0]

\* A frame is drawn whole, but only the claimed rows are swapped onto the panel.
Presented ==
    IF store.damage = Full THEN Rendered
    ELSE [lit.shows EXCEPT !.rows = [i \in DOMAIN @ |->
              IF i \in store.damage /\ i \in DOMAIN Rendered.rows THEN Rendered.rows[i] ELSE @[i]]]

Draw ==
    /\ lit.due
    /\ lit' = [lit EXCEPT !.shows = Presented, !.due = FALSE]
    /\ UNCHANGED <<store, jobs, queue, shelf, used>>

\* Action::Redraw: the host is asked for a frame.  skipped records that
\* something changed again before the frame asked for earlier was drawn.
Redraw == lit' = [lit EXCEPT !.due = TRUE, !.skipped = lit.skipped \/ lit.due]

---------------------------------------------------------------------------
(* AppStoreApp::press, and the requests it hands to a worker *)

Dispatch(kind, app, version) ==
    /\ used.requests < MaxRequests
    /\ used' = [used EXCEPT !.requests = @ + 1]
    /\ jobs' = jobs \cup {[id |-> used.requests, kind |-> kind, app |-> app, version |-> version,
                           told |-> FALSE]}

PressRefresh ==
    /\ store.view = 0
    /\ Dispatch("Refresh", 0, 0)
    /\ UNCHANGED <<store, queue, shelf, lit>>

\* A row: the detail view, and a request for the notes of the version offered.
PressRow(app) ==
    /\ store.view = 0 /\ Entry(app).state # "none"
    /\ store' = [store EXCEPT !.view = app, !.failure = FALSE, !.notes = NoNotes, !.damage = Full]
    /\ IF Entry(app).available = 0 THEN UNCHANGED <<jobs, used>>
       ELSE Dispatch("Notes", app, Entry(app).available)
    /\ Redraw
    /\ UNCHANGED <<queue, shelf>>

PressBack ==
    /\ store.view # 0
    /\ store' = [store EXCEPT !.view = 0, !.notes = NoNotes, !.damage = Full]
    /\ Redraw
    /\ UNCHANGED <<jobs, queue, shelf, used>>

\* Clearing a failure moves every row, so only a start without one is a row's change.
StartDamage(row) == IF ~store.failure /\ row # 0 THEN {row} ELSE Full

\* AppStoreScreen::begin: one operation at a time.
Start(kind, app, version, row) ==
    /\ store.working = Idle
    /\ store' = [store EXCEPT !.working = [app |-> app, step |-> "STARTING"], !.failure = FALSE,
                              !.damage = StartDamage(row)]
    /\ Dispatch(kind, app, version)
    /\ Redraw
    /\ UNCHANGED <<queue, shelf>>

\* primary_action: what the one button of a row or a detail view does.
Primary(app, row) ==
    \/ /\ Entry(app).state \in {"Available", "UpdateAvailable"}
       /\ Start("Install", app, Entry(app).available, row)
    \/ /\ Entry(app).state = "Failing" /\ CanRollBack(app)
       /\ Start("Rollback", app, 0, row)
    \/ /\ Entry(app).state = "NothingSelected" /\ Entry(app).kept # 0
       /\ Start("Install", app, Entry(app).kept, row)

PressRowAction(i) ==
    /\ store.view = 0 /\ i \in DOMAIN Rows
    /\ Primary(Rows[i], i)

PressPrimary == store.view # 0 /\ Primary(store.view, 0)

PressRollback ==
    /\ store.view # 0 /\ CanRollBack(store.view)
    /\ Start("Rollback", store.view, 0, 0)

---------------------------------------------------------------------------
(* The workers: source.rs *)

Complete(messages) == queue' = queue \o messages
Done(outcome, app, value) == [kind |-> "Done", outcome |-> outcome, app |-> app, value |-> value]

\* Reporter: an install tells its step before it finishes.
TellProgress(job) ==
    /\ job.kind = "Install" /\ ~job.told
    /\ jobs' = (jobs \ {job}) \cup {[job EXCEPT !.told = TRUE]}
    /\ Complete(<<[kind |-> "Progress", step |-> "COMMITTING"]>>)
    /\ UNCHANGED <<store, shelf, lit, used>>

Fails(job) ==
    /\ used.outside < MaxOutside
    /\ used' = [used EXCEPT !.outside = @ + 1]
    /\ jobs' = jobs \ {job}
    /\ Complete(<<Done("Failed", job.app, 0)>>)
    /\ UNCHANGED <<store, shelf, lit>>

Answers(job, message) ==
    /\ jobs' = jobs \ {job}
    /\ Complete(<<message>>)
    /\ UNCHANGED <<store, lit, used>>

DoRefresh(job) ==
    /\ job.kind = "Refresh"
    /\ Answers(job, [kind |-> "Done", outcome |-> "Refreshed", app |-> 0, value |-> Survey])
    /\ UNCHANGED shelf

\* Notes and installs need the catalog to be readable and to offer that version.
Offers(job) == shelf.reachable /\ job.version <= shelf.catalog[job.app]

DoNotes(job) ==
    /\ job.kind = "Notes"
    /\ Answers(job, IF Offers(job) THEN Done("Notes", job.app, job.version) ELSE Done("Failed", job.app, 0))
    /\ UNCHANGED shelf

Select(app, version) ==
    shelf' = [shelf EXCEPT !.current[app] = version, !.disk[app] = @ \cup {version},
                           !.previous[app] = IF shelf.current[app] = version THEN @ ELSE shelf.current[app]]

\* The package manager refuses a version older than the one installed.
DoInstall(job) ==
    /\ job.kind = "Install" /\ job.told
    /\ IF Offers(job) /\ job.version >= shelf.current[job.app]
       THEN Answers(job, Done("Installed", job.app, job.version)) /\ Select(job.app, job.version)
       ELSE Answers(job, Done("Failed", job.app, 0)) /\ UNCHANGED shelf

DoRollback(job) ==
    /\ job.kind = "Rollback"
    /\ IF shelf.previous[job.app] # 0
       THEN /\ Answers(job, Done("RolledBack", job.app, shelf.previous[job.app]))
            /\ Select(job.app, shelf.previous[job.app])
       ELSE Answers(job, Done("Failed", job.app, 0)) /\ UNCHANGED shelf

---------------------------------------------------------------------------
(* AppStoreApp::event for a completion *)

RowOf(app) == IF \E i \in DOMAIN Rows : Rows[i] = app THEN CHOOSE i \in DOMAIN Rows : Rows[i] = app ELSE 0

\* The row the operation in flight belongs to; the whole panel when there is none.
WorkingDamage ==
    IF store.view = 0 /\ store.working # Idle /\ RowOf(store.working.app) # 0
    THEN {RowOf(store.working.app)} ELSE Full

Report(step) ==
    store' = [store EXCEPT !.damage = WorkingDamage,
                           !.working = IF @ = Idle THEN @ ELSE [@ EXCEPT !.step = step]]

\* A detail view of an app that is no longer listed goes back to the list.
ApplyRefreshed(inventory) ==
    LET gone == store.view # 0 /\ inventory[store.view].state = "none"
    IN store' = [store EXCEPT !.inventory = inventory, !.damage = Full,
                              !.view = IF gone THEN 0 ELSE @, !.notes = IF gone THEN NoNotes ELSE @]

\* Any failure ends the operation shown, whichever worker it came from.
ApplyFailed(done) ==
    store' = [store EXCEPT !.working = Idle, !.failure = TRUE, !.damage = Full]

ApplyNotes(done) ==
    store' = [store EXCEPT !.notes = [app |-> done.app, text |-> done.value], !.damage = Full]

ApplyFinished == store' = [store EXCEPT !.working = Idle, !.failure = FALSE, !.damage = Full]

Apply(done) ==
    \/ done.outcome = "Refreshed" /\ ApplyRefreshed(done.value)
    \/ done.outcome = "Notes" /\ ApplyNotes(done)
    \/ done.outcome \in {"Installed", "RolledBack"} /\ ApplyFinished
    \/ done.outcome = "Failed" /\ ApplyFailed(done)

Completed ==
    /\ queue # <<>>
    /\ IF Head(queue).kind = "Progress" THEN Report(Head(queue).step) ELSE Apply(Head(queue))
    /\ queue' = Tail(queue)
    /\ Redraw
    /\ UNCHANGED <<jobs, shelf, used>>

---------------------------------------------------------------------------
(* What others do meanwhile *)

Outside(change) ==
    /\ used.outside < MaxOutside
    /\ used' = [used EXCEPT !.outside = @ + 1]
    /\ shelf' = change
    /\ UNCHANGED <<store, jobs, queue, lit>>

Publish(app) == shelf.catalog[app] < Newest /\ Outside([shelf EXCEPT !.catalog[app] = @ + 1])
NetworkChanges == Outside([shelf EXCEPT !.reachable = ~@])
Withdraw(app) == shelf.catalog[app] # 0 /\ Outside([shelf EXCEPT !.catalog[app] = 0])

\* An install killed after its commit and before its activation.
HalfInstall(app) ==
    /\ shelf.current[app] = 0 /\ shelf.disk[app] = {} /\ Offered(app) # 0
    /\ Outside([shelf EXCEPT !.disk[app] = {Offered(app)}])

Installed(app) == shelf.current[app] # 0
Record(app, health) == Outside([shelf EXCEPT !.health[app] = health])

RecordAttempt(app) ==
    LET health == OfVersion(app, shelf.current[app])
    IN /\ Installed(app) /\ ShouldLaunch(app, shelf.current[app])
       /\ Record(app, [health EXCEPT !.attempts = @ + 1])
RecordStarted(app) ==
    Installed(app) /\ Record(app, [Fresh(shelf.current[app]) EXCEPT !.started = TRUE])
RecordFailure(app) ==
    Installed(app) /\ Record(app, [OfVersion(app, shelf.current[app]) EXCEPT !.started = FALSE])
ClearHealth(app) == Record(app, NoHealth)

StoreNext ==
    \/ Draw \/ PressRefresh \/ PressBack \/ PressPrimary \/ PressRollback \/ Completed
    \/ \E app \in Apps : PressRow(app)
    \/ \E i \in 1..Cardinality(Apps) : PressRowAction(i)
    \/ \E job \in jobs : \/ TellProgress(job) \/ Fails(job) \/ DoRefresh(job) \/ DoNotes(job)
                         \/ DoInstall(job) \/ DoRollback(job)
    \/ NetworkChanges
    \/ \E app \in Apps : \/ Publish(app) \/ Withdraw(app) \/ HalfInstall(app)
                         \/ RecordAttempt(app) \/ RecordStarted(app) \/ RecordFailure(app) \/ ClearHealth(app)

StoreSpec == StoreInit /\ [][StoreNext]_stvars

---------------------------------------------------------------------------
(* Properties *)

Changing(job) == job.kind \in {"Install", "Rollback"}
InFlight(app) ==
    \/ \E job \in jobs : Changing(job) /\ job.app = app
    \/ \E i \in DOMAIN queue : queue[i].kind = "Done" /\ queue[i].app = app
                               /\ queue[i].outcome \in {"Installed", "RolledBack", "Failed"}

\* While the screen says an app is being changed, a worker for that app is
\* running or its outcome is waiting to be handled: no row is left working for
\* good, whichever requests overlap and fail (apply, screen.rs 313-341).
WorkingIsReal == store.working # Idle => InFlight(store.working.app)

\* The detail view always shows an app the inventory lists, although refreshes
\* come back long after they were asked for (screen.rs 315-325).
DetailIsListed == store.view # 0 => Entry(store.view).state # "none"

\* When each frame asked for is drawn before the next change, the panel shows
\* the screen as it is: the row a start or a progress report claims is all that
\* changed, also when a failure banner goes away (app.rs 161-179, 233-244).
ClaimCoversTheChange == ~lit.due /\ ~lit.skipped => lit.shows = Rendered

===============================================================================
