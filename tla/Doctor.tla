------------------------------- MODULE Doctor -------------------------------
(***************************************************************************)
(* Looking after a tablet from the desk: doctor asks it three questions    *)
(* over ssh (paperctl doctor.rs), deploy replaces the paperctl on it         *)
(* (deploy.rs), setup prepares its root (setup.rs).  The tablet goes on     *)
(* living between two questions: xochitl restarts, somebody takes the       *)
(* display, a connection drops while the new binary is being sent.         *)
(***************************************************************************)
EXTENDS Integers, FiniteSets

CONSTANTS
    Here,         \* the version of the paperctl at the desk
    Parts,        \* pieces a binary is sent in
    MaxPid,       \* processes that ran as xochitl or took the display
    MaxEvents,    \* changes on the tablet
    MaxDrops,     \* connections that fail or drop
    MaxCommands   \* doctor, deploy and setup commands

VARIABLES
    tablet,  \* xochitl, the display lock, the root, what setup looks for
    files,   \* the binaries on the tablet, and which one each path names
    doctor,  \* the report being made
    deploys, \* the remote shells of deploys under way
    spent    \* budgets, and whether two deploys ever overlapped

docvars == <<tablet, files, doctor, deploys, spent>>

NoFile == 0
File(version, parts, runs) == [version |-> version, parts |-> parts, runs |-> runs]
LiveFile == files.inode[files.live]

DoctorInit ==
    /\ \E ready \in BOOLEAN :
          tablet = [pid |-> 1, restarts |-> 0, lock |-> 1, pids |-> 1, root |-> FALSE, ready |-> ready]
    /\ \E old \in {Here - 1, Here + 1} :
          files = [inode |-> [i \in {1} |-> File(old, Parts, TRUE)], live |-> 1, staged |-> NoFile]
    /\ doctor = [at |-> "none"]
    /\ deploys = {}
    /\ spent = [events |-> 0, drops |-> 0, commands |-> 0, overlap |-> FALSE]

---------------------------------------------------------------------------
(* The tablet *)

\* Whatever changes under a report being made makes it less than calm.
Disturbed == IF doctor.at = "none" THEN doctor ELSE [doctor EXCEPT !.calm = FALSE]

Event(new) ==
    /\ spent.events < MaxEvents
    /\ tablet' = new
    /\ doctor' = Disturbed
    /\ spent' = [spent EXCEPT !.events = @ + 1]
    /\ UNCHANGED <<files, deploys>>

\* xochitl stops, letting go of the display.
XochitlStops == tablet.pid # 0 /\ Event([tablet EXCEPT !.pid = 0, !.lock = IF @ = tablet.pid THEN 0 ELSE @])

\* systemd restarts it, or somebody starts it, which sets the count back.
XochitlStarts(restarts) ==
    /\ tablet.pid = 0 /\ tablet.pids < MaxPid
    /\ Event([tablet EXCEPT !.pid = tablet.pids + 1, !.pids = @ + 1, !.restarts = restarts,
                            !.lock = IF @ = 0 THEN tablet.pids + 1 ELSE @])

\* Another process takes the display, and lets go of it.
TakeDisplay ==
    /\ tablet.lock = 0 /\ tablet.pids < MaxPid
    /\ Event([tablet EXCEPT !.lock = tablet.pids + 1, !.pids = @ + 1])
LeaveDisplay == tablet.lock \notin {0, tablet.pid} /\ Event([tablet EXCEPT !.lock = 0])

---------------------------------------------------------------------------
(* doctor *)

Spend(kind) == spent' = [spent EXCEPT ![kind] = @ + 1]
Start == spent.commands < MaxCommands /\ Spend("commands")

\* build_report, once the probe was answered.
Ask ==
    /\ doctor.at \in {"none", "done"} /\ Start
    /\ doctor' = [at |-> "xochitl", calm |-> TRUE, answers |-> {}, restarts |-> 0, main |-> 0,
                  held |-> FALSE, stock |-> FALSE, foreign |-> FALSE, present |-> FALSE, older |-> FALSE,
                  verdict |-> "none"]
    /\ UNCHANGED <<tablet, files, deploys>>

\* What an ssh that failed itself leaves: 255 is not an answer.
AnswersOfAFailedCall == {}

\* ssh fails: the fields stay as empty output parses.
Unanswered(question, next) ==
    /\ doctor.at = question /\ spent.drops < MaxDrops
    /\ doctor' = [doctor EXCEPT !.at = next, !.answers = @ \cup (AnswersOfAFailedCall \cap {question})]
    /\ Spend("drops")
    /\ UNCHANGED <<tablet, files, deploys>>

\* systemctl show: how often xochitl was restarted, and its main process, if any.
QueryXochitl ==
    /\ doctor.at = "xochitl"
    /\ doctor' = [doctor EXCEPT !.at = "lock", !.answers = @ \cup {"xochitl"},
                                !.restarts = tablet.restarts, !.main = tablet.pid]
    /\ UNCHANGED <<tablet, files, deploys, spent>>

\* parse_lock: stock is the holder that is xochitl's main process as read before.
Stock(holder, main) == holder # 0 /\ main # 0 /\ holder = main

QueryLock ==
    /\ doctor.at = "lock"
    /\ doctor' = [doctor EXCEPT !.at = "binary", !.answers = @ \cup {"lock"}, !.held = tablet.lock # 0,
                                !.stock = Stock(tablet.lock, doctor.main),
                                !.foreign = tablet.lock \notin {0, tablet.pid}]
    /\ UNCHANGED <<tablet, files, deploys, spent>>

\* paperctl --version on the tablet: a cut-off or not executable file does not answer.
QueryBinary ==
    /\ doctor.at = "binary"
    /\ doctor' = [doctor EXCEPT !.at = "verdict", !.answers = @ \cup {"binary"},
                                !.present = (LiveFile.runs /\ LiveFile.parts = Parts),
                                !.older = (LiveFile.version < Here)]
    /\ UNCHANGED <<tablet, files, deploys, spent>>

\* compute_verdict.
Verdict ==
    IF doctor.answers # {"xochitl", "lock", "binary"} THEN "unreachable"
    ELSE IF doctor.restarts > 0 \/ (doctor.held /\ ~doctor.stock) \/ ~doctor.present \/ doctor.older
         THEN "degraded" ELSE "healthy"

Report ==
    /\ doctor.at = "verdict"
    /\ doctor' = [doctor EXCEPT !.at = "done", !.verdict = Verdict]
    /\ UNCHANGED <<tablet, files, deploys, spent>>

---------------------------------------------------------------------------
(* deploy *)

Replace(d, new) == deploys' = (deploys \ {d}) \cup {new}
Touch(inode) == /\ files' = inode /\ doctor' = Disturbed

\* install_to: cat > paperctl.new opens the staged path, emptying what is there.
Deploy ==
    /\ spent.commands < MaxCommands
    /\ spent' = [spent EXCEPT !.commands = @ + 1, !.overlap = @ \/ deploys # {}]
    /\ LET fresh == Cardinality(DOMAIN files.inode) + 1
           fd == IF files.staged = NoFile THEN fresh ELSE files.staged
       IN  /\ Touch([inode |-> [i \in DOMAIN files.inode \cup {fd} |->
                                   IF i = fd THEN File(Here, 0, FALSE) ELSE files.inode[i]],
                     live |-> files.live, staged |-> fd])
           /\ deploys' = deploys \cup {[id |-> spent.commands, fd |-> fd, at |-> "cat"]}
    /\ UNCHANGED tablet

\* The bytes arrive; when the connection ends, cat ends with them.
Send(d) ==
    /\ d.at = "cat" /\ files.inode[d.fd].parts < Parts
    /\ Touch([files EXCEPT !.inode[d.fd].parts = @ + 1])
    /\ UNCHANGED <<tablet, deploys, spent>>

CatEnds(d) ==
    /\ d.at = "cat"
    /\ \/ files.inode[d.fd].parts = Parts /\ UNCHANGED spent
       \/ files.inode[d.fd].parts < Parts /\ spent.drops < MaxDrops /\ Spend("drops")
    /\ Replace(d, [d EXCEPT !.at = "chmod"])
    /\ UNCHANGED <<tablet, files, doctor>>

\* chmod +x and mv, each on the path; the chain stops at the first that fails.
Chmod(d) ==
    /\ d.at = "chmod"
    /\ IF files.staged = NoFile
       THEN deploys' = deploys \ {d} /\ UNCHANGED <<files, doctor>>
       ELSE Replace(d, [d EXCEPT !.at = "mv"]) /\ Touch([files EXCEPT !.inode[files.staged].runs = TRUE])
    /\ UNCHANGED <<tablet, spent>>

Mv(d) ==
    /\ d.at = "mv"
    /\ deploys' = deploys \ {d}
    /\ IF files.staged = NoFile
       THEN UNCHANGED <<files, doctor>>
       ELSE Touch([files EXCEPT !.live = files.staged, !.staged = NoFile])
    /\ UNCHANGED <<tablet, spent>>

InstallCommand(d) == Chmod(d) \/ Mv(d)

---------------------------------------------------------------------------
(* setup *)

\* prerequisites: systemd, the stock unit, /run on a tmpfs, what isolation needs.
Ready == tablet.ready

\* Every one is looked at and reported first; one missing ends the command there.
Setup(check) ==
    /\ Start
    /\ tablet' = IF Ready /\ ~check THEN [tablet EXCEPT !.root = TRUE] ELSE tablet
    /\ UNCHANGED <<files, doctor, deploys>>

DoctorNext ==
    \/ XochitlStops \/ \E n \in {0, tablet.restarts + 1} : XochitlStarts(n)
    \/ TakeDisplay \/ LeaveDisplay
    \/ Ask \/ QueryXochitl \/ QueryLock \/ QueryBinary \/ Report
    \/ Unanswered("xochitl", "lock") \/ Unanswered("lock", "binary") \/ Unanswered("binary", "verdict")
    \/ Deploy
    \/ \E d \in deploys : Send(d) \/ CatEnds(d) \/ InstallCommand(d)
    \/ \E check \in BOOLEAN : Setup(check)

DoctorSpec == DoctorInit /\ [][DoctorNext]_docvars

---------------------------------------------------------------------------
(* Properties *)

\* The state of a tablet doctor should call healthy, taken at one moment.
Fit ==
    /\ tablet.restarts = 0 /\ tablet.lock \in {0, tablet.pid}
    /\ LiveFile.runs /\ LiveFile.parts = Parts /\ LiveFile.version >= Here

\* A report nothing changed under is true: healthy exactly when the tablet is, and
\* neither healthy nor degraded when a question went unanswered (compute_verdict).
UndisturbedVerdictIsTrue ==
    doctor.at = "done" /\ doctor.calm =>
        \/ doctor.verdict = "unreachable" /\ spent.drops > 0
        \/ doctor.verdict = (IF Fit THEN "healthy" ELSE "degraded")

\* Whatever happens between the questions, healthy is never said of a tablet whose
\* display was, when it was looked at, held by a process other than xochitl.
HealthyMeansNobodyElse ==
    doctor.at = "done" /\ doctor.verdict = "healthy" => ~doctor.foreign

\* As long as connections hold and deploys do not overlap, the paperctl at its path
\* is whole and can be run at every moment of a deploy.
LivePaperctlRuns ==
    spent.drops = 0 /\ ~spent.overlap => LiveFile.parts = Parts /\ LiveFile.runs

=============================================================================
