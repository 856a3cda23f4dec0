------------------------------ MODULE Operator ------------------------------
(***************************************************************************)
(* paperctl at the operator's desk: finding a tablet (transport config.rs,  *)
(* discover.rs), running a command on it, blocking or detached              *)
(* (remote.rs, dispatch.rs), and the log of runs (telemetry run_log.rs,     *)
(* logs.rs).  Several shells run paperctl at once; they share the config    *)
(* file and the run log, tablets come and go, connections drop.            *)
(***************************************************************************)
EXTENDS Integers, FiniteSets

CONSTANTS
    Shells,      \* paperctl processes at the desk
    Hosts,       \* tablets, by address; USB_HOST is the one on the cable
    USB_HOST,
    RETAIN,      \* run records kept
    Pids,        \* process numbers, which come round again
    MaxRuns,     \* commands started
    MaxMoves,    \* tablets plugged in, pulled out or put to sleep
    MaxKills,    \* processes interrupted
    MaxPolls     \* polls before a detached run's deadline

VARIABLES
    config,  \* the config file: the pinned host and the cached one
    up,      \* hosts that answer
    shell,   \* the processes
    jobs,    \* commands detached on tablets, the ended ones too: one per run
    logs,    \* log files on the tablets, by host and path; they outlive their run
    record,  \* the run log: records, whole or being written
    spent    \* budgets

ovars == <<config, up, shell, jobs, logs, record, spent>>

None == "none"
Idle == [at |-> "idle"]
\* The runs; each is a process of its own, with a pid no other has while it lives.
Ids == 1 .. MaxRuns
NoLog == [owner |-> 0, exit |-> FALSE]

SharedLogPath(pid) == CHOOSE p \in Pids : TRUE
\* The log of a detached run carries the pid of the process that waits for it.
LogPath(pid) == pid

OperatorInit ==
    /\ config = [pinned |-> None, cache |-> None]
    /\ up \in SUBSET Hosts
    /\ shell = [s \in Shells |-> Idle]
    /\ jobs = {}
    /\ logs = [h \in Hosts |-> [p \in Pids |-> NoLog]]
    /\ record = {}
    /\ spent = [runs |-> 0, moves |-> 0, closed |-> 0, kills |-> 0]

\* A tablet answers, or no longer does; what runs on it goes on.
Move(h) ==
    /\ spent.moves < MaxMoves
    /\ up' = (up \ {h}) \cup ({h} \ up)
    /\ spent' = [spent EXCEPT !.moves = @ + 1]
    /\ UNCHANGED <<config, shell, jobs, logs, record>>

---------------------------------------------------------------------------
(* Config and resolution *)

Live(pid) == \E t \in Shells : shell[t] # Idle /\ shell[t].pid = pid

\* A process starts: it loads the config and keeps its own copy.
Load(s, verb, flag) ==
    /\ shell[s] = Idle /\ spent.runs < MaxRuns
    /\ \E pid \in Pids :
          /\ ~Live(pid)
          /\ shell' = [shell EXCEPT ![s] = [at |-> "loaded", verb |-> verb, flag |-> flag,
                                            copy |-> config, id |-> spent.runs + 1, pid |-> pid,
                                            host |-> None, polls |-> 0, saw |-> 0]]
    /\ spent' = [spent EXCEPT !.runs = @ + 1]
    /\ UNCHANGED <<config, up, jobs, logs, record>>

\* pin, unpin: the whole file is written from the copy.
Pin(s, h) ==
    /\ shell[s] # Idle /\ shell[s].at = "loaded" /\ shell[s].verb = "pin"
    /\ config' = [shell[s].copy EXCEPT !.pinned = h]
    /\ shell' = [shell EXCEPT ![s].at = "closing"]
    /\ UNCHANGED <<up, jobs, logs, record, spent>>

\* resolve: flag, pin, then the first of USB, mDNS and the cached host that answers.
\* mDNS names hosts on the network, and may miss one that answers.
Resolved(flag, copy) ==
    CASE flag # None -> {[host |-> flag, source |-> "flag"]}
      [] flag = None /\ copy.pinned # None -> {[host |-> copy.pinned, source |-> "pinned"]}
      [] OTHER ->
           IF USB_HOST \in up THEN {[host |-> USB_HOST, source |-> "usb"]}
           ELSE IF up # {} THEN {[host |-> h, source |-> "mdns"] : h \in up}
                                  \cup (IF copy.cache \in up THEN {[host |-> copy.cache, source |-> "cache"]} ELSE {})
           ELSE {}

\* remember: every source but the cache itself is written back.
Remember(s, found) ==
    IF found.source = "cache" \/ shell[s].copy.cache = found.host THEN config
    ELSE [shell[s].copy EXCEPT !.cache = found.host]

ResolveAndAnnounce(s) ==
    /\ shell[s] # Idle /\ shell[s].at = "loaded" /\ shell[s].verb # "pin"
    /\ \/ \E found \in Resolved(shell[s].flag, shell[s].copy) :
             /\ config' = Remember(s, found)
             /\ shell' = [shell EXCEPT ![s].at = "resolved", ![s].host = found.host]
       \/ /\ Resolved(shell[s].flag, shell[s].copy) = {}
          /\ shell' = [shell EXCEPT ![s].at = "closing"]
          /\ UNCHANGED config
    /\ UNCHANGED <<up, jobs, logs, record, spent>>

---------------------------------------------------------------------------
(* Running it *)

\* run_blocking_with: the code of the remote command, or ssh's own when it could not.
RunBlocking(s) ==
    /\ shell[s] # Idle /\ shell[s].at = "resolved" /\ shell[s].verb = "blocking"
    /\ shell' = [shell EXCEPT ![s].at = "closing"]
    /\ UNCHANGED <<config, up, jobs, logs, record, spent>>

Job(id, host, pid) ==
    [id |-> id, host |-> host, pid |-> pid, log |-> LogPath(pid), at |-> "forked"]

\* start_detached: ssh returns once the remote shell is in the background.
StartDetached(s) ==
    /\ shell[s] # Idle /\ shell[s].at = "resolved" /\ shell[s].verb = "open"
    /\ IF shell[s].host \in up
       THEN /\ jobs' = jobs \cup {Job(shell[s].id, shell[s].host, shell[s].pid)}
            /\ shell' = [shell EXCEPT ![s].at = "polling"]
       ELSE /\ shell' = [shell EXCEPT ![s].at = "closing"]
            /\ UNCHANGED jobs
    /\ UNCHANGED <<config, up, logs, record, spent>>

\* Somebody at another desk starts a run, under a pid of that desk.
StartElsewhere(h, pid) ==
    /\ h \in up /\ spent.runs < MaxRuns
    /\ jobs' = jobs \cup {Job(spent.runs + 1, h, pid)}
    /\ spent' = [spent EXCEPT !.runs = @ + 1]
    /\ UNCHANGED <<config, up, shell, logs, record>>

\* On the tablet: the log is truncated as the command starts, and ends with EXIT=.
JobBegins(j) ==
    /\ j.at = "forked"
    /\ logs' = [logs EXCEPT ![j.host][j.log] = [owner |-> j.id, exit |-> FALSE]]
    /\ jobs' = (jobs \ {j}) \cup {[j EXCEPT !.at = "running"]}
    /\ UNCHANGED <<config, up, shell, record, spent>>

JobEnds(j) ==
    /\ j.at = "running"
    /\ logs' = [logs EXCEPT ![j.host][j.log] = [owner |-> j.id, exit |-> TRUE]]
    /\ jobs' = (jobs \ {j}) \cup {[j EXCEPT !.at = "ended"]}
    /\ UNCHANGED <<config, up, shell, record, spent>>

\* poll_detached: an ssh that fails reads as a log without a marker.
PollDetached(s) ==
    /\ shell[s] # Idle /\ shell[s].at = "polling"
    /\ LET log == logs[shell[s].host][LogPath(shell[s].pid)]
       IN  IF shell[s].host \in up /\ log.exit
           THEN shell' = [shell EXCEPT ![s].at = "closing", ![s].saw = log.owner]
           ELSE IF shell[s].polls < MaxPolls
                THEN shell' = [shell EXCEPT ![s].polls = @ + 1]
                ELSE shell' = [shell EXCEPT ![s].at = "closing"]
    /\ UNCHANGED <<config, up, jobs, logs, record, spent>>

---------------------------------------------------------------------------
(* The run log *)

\* on_close, record: the file is created, then filled; its time is that of closing.
WriteRecord(s) ==
    /\ shell[s] # Idle /\ shell[s].at = "closing"
    /\ record' = record \cup {[id |-> shell[s].id, time |-> spent.closed, whole |-> FALSE]}
    /\ spent' = [spent EXCEPT !.closed = @ + 1]
    /\ shell' = [shell EXCEPT ![s].at = "recording"]
    /\ UNCHANGED <<config, up, jobs, logs>>

FinishRecord(s) ==
    /\ shell[s] # Idle /\ shell[s].at = "recording"
    /\ record' = {IF r.id = shell[s].id THEN [r EXCEPT !.whole = TRUE] ELSE r : r \in record}
    /\ shell' = [shell EXCEPT ![s].at = "pruning"]
    /\ UNCHANGED <<config, up, jobs, logs, spent>>

\* list fails on a record another process is still writing.
Listable == \A r \in record : r.whole

\* prune: all but the RETAIN youngest.
Older(r) == Cardinality({q \in record : q.time > r.time})
Stale == {r \in record : Older(r) >= RETAIN}

Prune(s) ==
    /\ shell[s] # Idle /\ shell[s].at = "pruning"
    /\ record' = IF Listable THEN record \ Stale ELSE record
    /\ shell' = [shell EXCEPT ![s] = Idle]
    /\ UNCHANGED <<config, up, jobs, logs, spent>>

\* The process is interrupted; what it started on the tablet is not.
Kill(s) ==
    /\ shell[s] # Idle /\ spent.kills < MaxKills
    /\ shell' = [shell EXCEPT ![s] = Idle]
    /\ spent' = [spent EXCEPT !.kills = @ + 1]
    /\ UNCHANGED <<config, up, jobs, logs, record>>

OperatorNext ==
    \/ \E s \in Shells : Kill(s)
    \/ \E h \in Hosts : Move(h)
    \/ \E s \in Shells, verb \in {"blocking", "open"}, flag \in {None} \cup (Hosts \ {USB_HOST}) : Load(s, verb, flag)
    \/ \E s \in Shells : Load(s, "pin", None)
    \/ \E s \in Shells, h \in Hosts \cup {None} : Pin(s, h)
    \/ \E s \in Shells : ResolveAndAnnounce(s)
    \/ \E s \in Shells : RunBlocking(s) \/ StartDetached(s) \/ PollDetached(s)
    \/ \E h \in Hosts, pid \in Pids : StartElsewhere(h, pid)
    \/ \E j \in jobs : JobBegins(j) \/ JobEnds(j)
    \/ \E s \in Shells : WriteRecord(s) \/ FinishRecord(s) \/ Prune(s)

OperatorSpec == OperatorInit /\ [][OperatorNext]_ovars

---------------------------------------------------------------------------
(* Properties *)

\* Another run, of any desk, had this one's pid on this tablet.
Namesake(s) ==
    \E j \in jobs : j.id # shell[s].id /\ j.host = shell[s].host /\ j.pid = shell[s].pid

Reported(s) == shell[s] # Idle /\ shell[s].saw # 0

\* The exit a detached run reports is its own, whoever else runs on the tablet
\* and whatever logs lie there, unless a run with the same pid left its log or
\* writes it now.
ReportedExitIsItsOwn ==
    \A s \in Shells : Reported(s) /\ ~Namesake(s) => shell[s].saw = shell[s].id

\* remote.rs:399: a detached run waits for its own command to finish.  The code
\* does not keep it: a log is named by a pid, which recurs.
WaitsForItsOwnRun == \A s \in Shells : Reported(s) => shell[s].saw = shell[s].id

\* Once nobody is at it the log holds no more than RETAIN runs: a prune that failed
\* because another process was writing its record is made up for by that process's
\* own.  A process killed at it may leave more, and a record cut short ends pruning.
QuietLogIsBounded ==
    (spent.kills = 0 /\ \A s \in Shells : shell[s] = Idle \/ shell[s].at \notin {"recording", "pruning"}) =>
        Cardinality(record) <= RETAIN

=============================================================================
