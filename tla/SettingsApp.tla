------------------------------ MODULE SettingsApp ------------------------------
(***************************************************************************)
(* Settings (apps/settings) and the host's admin service behind it         *)
(* (paperctl admin.rs, system.rs): pages over cached answers, a modal      *)
(* confirmation before every write, queries and answers in flight, the     *)
(* host's rate window, the store a rollback swaps, and the part of each    *)
(* frame the app says has changed.  One app is installed; versions are     *)
(* numbers.                                                                *)
(***************************************************************************)
EXTENDS Integers, Sequences

CONSTANTS
    READS,          \* the read queries, in the order they are asked
    Budget,         \* MAX_SYSTEM_QUERIES_PER_SECOND
    MaxConfirms,    \* confirmations opened
    MaxSuspends     \* times the app is sent to the background

VARIABLES
    panel,   \* SettingsApp and SettingsScreen
    wire,    \* queries to the host and answers to the app, each in order
    host,    \* the store and the RateWindow
    lit,     \* what the glass shows: page, page content, dialog; due: a redraw is owed;
             \*   heard: whether an answer was filed since the body of the page was swapped
    behind   \* cache: the list was refused, or the store changed by another program with
             \*   Settings in front, since the list was last asked for or answered; the budgets used

sevars == <<panel, wire, host, lit, behind>>

\* The page that lists apps, and one for the pages that only show facts.  The
\* host answers Grants with an empty list, so that page has no button either.
Pages == {"Apps", "Storage"}
Loading == [active |-> 0, previous |-> 0]
NoDialog == [kind |-> "none", returns |-> 0]
NoFrame == [page |-> "none", confirming |-> FALSE]
NothingShown == [page |-> "none", content |-> Loading, dialog |-> NoDialog]

SettingsInit ==
    /\ panel = [page |-> "Apps", apps |-> Loading, pending |-> NoDialog, asked |-> FALSE,
                painted |-> NoFrame, front |-> TRUE]
    /\ wire = [queries |-> <<>>, answers |-> <<>>]
    /\ host = [active |-> 2, previous |-> 1, new |-> 0, old |-> 0]
    /\ lit = [shows |-> NothingShown, due |-> TRUE, heard |-> "nothing"]
    /\ behind = [cache |-> TRUE, confirms |-> 0, suspends |-> 0]

Ask(queries) == wire' = [wire EXCEPT !.queries = @ \o queries]
Redraw == lit' = [lit EXCEPT !.due = TRUE]

\* Every read is asked again: what comes back is what the store holds.
AskReads == Ask(READS)

---------------------------------------------------------------------------
(* SettingsScreen::press: a confirmation takes every tap while it is open *)

Modal == panel.pending # NoDialog
Tap == panel.front /\ panel.asked

PressCancel ==
    /\ Tap /\ Modal
    /\ panel' = [panel EXCEPT !.pending = NoDialog]
    /\ Redraw
    /\ UNCHANGED <<wire, host, behind>>

PressConfirm ==
    /\ Tap /\ Modal
    /\ panel' = [panel EXCEPT !.pending = NoDialog]
    /\ Ask(<<panel.pending.kind>>)
    /\ Redraw
    /\ UNCHANGED <<host, behind>>

PressScrim ==
    /\ Tap /\ Modal
    /\ UNCHANGED sevars

PressTab(page) ==
    /\ Tap /\ ~Modal /\ page # panel.page
    /\ panel' = [panel EXCEPT !.page = page]
    /\ Redraw
    /\ UNCHANGED <<wire, host, behind>>

Open(dialog) ==
    /\ Tap /\ ~Modal /\ behind.confirms < MaxConfirms
    /\ panel' = [panel EXCEPT !.pending = dialog]
    /\ behind' = [behind EXCEPT !.confirms = @ + 1]
    /\ Redraw
    /\ UNCHANGED <<wire, host>>

\* A row has a rollback button only when the release it lists has one before it.
RollbackButton == panel.page = "Apps" /\ panel.apps.previous # 0
PressRollback ==
    /\ RollbackButton
    /\ Open([kind |-> "Rollback", returns |-> panel.apps.previous])

PressUninstall ==
    /\ panel.page = "Apps" /\ panel.apps # Loading
    /\ Open([kind |-> "Uninstall", returns |-> 0])

PressReturnToStock ==
    /\ Tap /\ ~Modal
    /\ UNCHANGED sevars

---------------------------------------------------------------------------
(* SettingsApp::event for what the host sends *)

WriteKinds == {"Rollback", "Uninstall", "RevokeGrant"}

AfterWriteAsksNothing(answer) == wire.queries

\* The answer to a write, refused or not, asks for every read again.
AfterWrite(answer) ==
    IF answer.kind \in WriteKinds /\ ~answer.denied THEN wire.queries \o READS ELSE wire.queries

ReceiveAnswer ==
    /\ wire.answers # <<>>
    /\ LET answer == Head(wire.answers)
       IN /\ wire' = [queries |-> AfterWrite(answer), answers |-> Tail(wire.answers)]
          /\ panel' = [panel EXCEPT !.apps =
                          IF answer.kind = "InstalledApps" /\ ~answer.denied THEN answer.apps ELSE @]
          /\ lit' = IF answer.denied THEN lit ELSE [lit EXCEPT !.due = TRUE, !.heard = "answers"]
    /\ UNCHANGED <<host, behind>>

Suspended ==
    /\ Tap /\ behind.suspends < MaxSuspends
    /\ panel' = [panel EXCEPT !.front = FALSE]
    /\ lit' = [shows |-> NothingShown, due |-> FALSE, heard |-> "nothing"]
    /\ behind' = [behind EXCEPT !.suspends = @ + 1]
    /\ UNCHANGED <<wire, host>>

Resumed ==
    /\ ~panel.front
    /\ panel' = [panel EXCEPT !.front = TRUE, !.painted = NoFrame]
    /\ AskReads
    /\ Redraw
    /\ behind' = [behind EXCEPT !.cache = FALSE]
    /\ UNCHANGED host

---------------------------------------------------------------------------
(* Drawing *)

\* draw_apps: a row for each app, with its active and its previous release.
AppsDrawn == panel.apps
\* The other pages: facts, and no row that could be tapped.
FactsDrawn == Loading
TabsDrawn == panel.page
\* The scrim, the card and its two buttons, over the page.
DialogDrawn == panel.pending

Rendered == [page |-> TabsDrawn, dialog |-> DialogDrawn,
             content |-> IF panel.page = "Apps" THEN AppsDrawn ELSE FactsDrawn]

\* SettingsApp::damage_between: the whole glass, the page below the tabs with
\* the two tabs, or nothing.
DamageBetween(was, confirming, page) ==
    IF was = NoFrame \/ was.confirming \/ confirming THEN "full"
    ELSE IF was.page = page THEN "none"
    ELSE "page"

\* An empty claim never reaches the glass (waveform.rs covering).
Swapped(damage) ==
    CASE damage = "full" -> Rendered
      [] damage = "page" -> [Rendered EXCEPT !.dialog = lit.shows.dialog]
      [] damage = "none" -> lit.shows

Draw ==
    /\ panel.front /\ lit.due
    /\ LET damage == DamageBetween(panel.painted, Modal, panel.page)
       IN lit' = [shows |-> Swapped(damage), due |-> FALSE,
                  heard |-> IF damage = "none" THEN lit.heard ELSE "nothing"]
    /\ panel' = [panel EXCEPT !.asked = TRUE,
                              !.painted = [page |-> panel.page, confirming |-> Modal]]
    /\ IF panel.asked THEN UNCHANGED <<wire, behind>>
       ELSE /\ AskReads
            /\ behind' = [behind EXCEPT !.cache = FALSE]
    /\ UNCHANGED host

---------------------------------------------------------------------------
(* The host: AdminResponder *)

Allowed == host.new + host.old < Budget

Denied(kind) == [kind |-> kind, denied |-> TRUE, apps |-> Loading]
Value(kind) == [kind |-> kind, denied |-> FALSE,
                apps |-> [active |-> host.active, previous |-> host.previous]]

\* PackageManager::rollback swaps the two releases; uninstall and revoke are
\* answered NotSupported, reads change nothing.
Performed(kind) ==
    IF kind = "Rollback" THEN [host EXCEPT !.active = host.previous, !.previous = host.active]
    ELSE host

HostAnswers ==
    /\ wire.queries # <<>>
    /\ LET kind == Head(wire.queries)
       IN IF Allowed
          THEN /\ host' = [Performed(kind) EXCEPT !.new = @ + 1]
               /\ wire' = [queries |-> Tail(wire.queries), answers |-> Append(wire.answers, Value(kind))]
               /\ behind' = IF kind = "InstalledApps" THEN [behind EXCEPT !.cache = FALSE] ELSE behind
          ELSE /\ wire' = [queries |-> Tail(wire.queries), answers |-> Append(wire.answers, Denied(kind))]
               /\ behind' = IF kind = "InstalledApps" THEN [behind EXCEPT !.cache = TRUE] ELSE behind
               /\ UNCHANGED host
    /\ UNCHANGED <<panel, lit>>

\* Half a second passes; what was sent a second ago leaves the window.
Tick ==
    /\ host.new + host.old > 0
    /\ host' = [host EXCEPT !.new = 0, !.old = host.new]
    /\ UNCHANGED <<panel, wire, lit, behind>>

\* Another program (paperctl install) selects another release, with Settings in
\* front or not; nobody tells Settings.
StoreChanges ==
    /\ host.active # 3
    /\ host' = [host EXCEPT !.active = 3, !.previous = host.active]
    /\ behind' = IF panel.front THEN [behind EXCEPT !.cache = TRUE] ELSE behind
    /\ UNCHANGED <<panel, wire, lit>>

SettingsNext ==
    \/ PressCancel \/ PressConfirm \/ PressScrim
    \/ \E page \in Pages : PressTab(page)
    \/ PressRollback \/ PressUninstall \/ PressReturnToStock
    \/ ReceiveAnswer \/ Suspended \/ Resumed \/ Draw
    \/ HostAnswers \/ Tick \/ StoreChanges

SettingsSpec == SettingsInit /\ [][SettingsNext]_sevars

---------------------------------------------------------------------------
(* Properties *)

Quiet == panel.asked /\ panel.front /\ wire.queries = <<>> /\ wire.answers = <<>>

\* Once everything asked has been answered, and unless the last read of the list
\* was refused for asking too fast or another program changed the store after it
\* with Settings in front, the cached list is what the store holds: a write is
\* always followed by a read the write's answer triggers, and so is a resume.
CacheFollowsStore ==
    (Quiet /\ ~behind.cache) =>
        panel.apps = [active |-> host.active, previous |-> host.previous]

\* With no redraw owed the glass shows the page and the dialog that take the
\* presses; it shows all of the page, the rows too, while a dialog is open, and
\* without one unless an answer was filed since the page was turned to or a
\* dialog closed over it.
DialogOnGlass ==
    (panel.front /\ ~lit.due) =>
        /\ lit.shows.page = panel.page
        /\ lit.shows.dialog = panel.pending
        /\ Modal \/ lit.heard = "nothing" => lit.shows = Rendered

\* app.rs:103: what claims no region changed nothing visible, so the glass shows
\* what was drawn last.
GlassShowsWhatWasDrawn == (panel.front /\ ~lit.due) => lit.shows = Rendered

===============================================================================
