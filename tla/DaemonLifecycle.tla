-------------------------- MODULE DaemonLifecycle --------------------------
(***************************************************************************)
(* Several `cyan core start` and `cyan core stop` commands                 *)
(* (cli/commands/core.py) and the daemons they start (CoreApp.run in       *)
(* service/app.py), which meet at two places only: the flock on            *)
(* cyan-core.lock, whose content names the daemon, and the TCP endpoint.   *)
(* All read the same configuration, so there is one endpoint.              *)
(*                                                                         *)
(* A start command spawns one daemon at most: the daemon of c is the one   *)
(* that start command c spawned.  An open_connection that succeeds is a    *)
(* port that is not Nobody's.                                              *)
(***************************************************************************)
EXTENDS Naturals

CONSTANTS
    Starter,       \* start commands
    Stopper,       \* stop commands
    Busy,          \* bound: those whose daemon is asked to start a training
    Nobody,        \* no process
    MaxCrashes     \* bound: daemons that die of a signal or an exception

Holder    == {"cli", "daemon"} \X Starter
Cli(c)    == <<"cli", c>>
Daemon(d) == <<"daemon", d>>

ASSUME LifecycleAssumption ==
    /\ Busy \subseteq Starter
    /\ Nobody \notin Starter \cup Holder
    /\ MaxCrashes \in Nat

VARIABLES
    lock,       \* who holds the flock
    meta,       \* whose record the lock file holds, Nobody: it is empty
    port,       \* whose daemon listens
    at,         \* where CoreApp.run of each daemon stands
    down,       \* _shutting_down, set together with the supervisor's refusal
    event,      \* _shutdown_event is set
    job,        \* the job.start request of each daemon
    start,      \* where each start command stands, or what it printed
    stop,       \* the same of each stop command
    asked,      \* the daemon a stop command is connected to
    request,    \* its core.shutdown request, in the daemon
    crashes

files    == <<lock, meta>>
daemon   == <<at, down, event, job>>
stopping == <<stop, asked, request>>
vars == <<lock, meta, port, at, down, event, job, start, stop, asked, request, crashes>>

StartEnd == {"started", "already_running", "error"}
StopEnd  == {"stopped", "not_running", "error"}

\* Past the flock and not yet past the unlock.
Inside == {"locked", "blank", "recovering", "binding", "serving", "closing", "closed",
           "sweeping", "clearing", "unlocking"}
Gone   == {"refused", "exited", "dead"}
Alive(d) == at[d] \in Inside \cup {"spawned"}
\* Connections are handled until server.stop() closes the writers.
Handles(d) == at[d] \in {"serving", "closing", "closed"}

TypeOK ==
    /\ lock \in Holder \cup {Nobody}
    /\ meta \in Starter \cup {Nobody}
    /\ port \in Starter \cup {Nobody}
    /\ at \in [Starter -> Inside \cup Gone \cup {"none", "spawned"}]
    /\ down \in [Starter -> BOOLEAN]
    /\ event \in [Starter -> BOOLEAN]
    /\ job \in [Starter -> {"none", "waiting", "checking", "launching", "running",
                            "refused", "over"}]
    /\ start \in [Starter -> StartEnd \cup
            {"ping", "discover", "discoverHeld", "look", "slot", "slotProbe", "slotHeld",
             "spawn", "wait", "waitProbe", "waitHeld", "confirm"}]
    /\ stop \in [Stopper -> StopEnd \cup {"idle", "asked", "wait"}]
    /\ asked \in [Stopper -> Starter \cup {Nobody}]
    /\ request \in [Stopper -> {"none", "sent", "locking", "closing", "answered", "armed"}]
    /\ crashes \in 0..MaxCrashes

Init ==
    /\ lock = Nobody /\ meta = Nobody /\ port = Nobody
    /\ at = [d \in Starter |-> "none"]
    /\ down = [d \in Starter |-> FALSE]
    /\ event = [d \in Starter |-> FALSE]
    /\ job = [d \in Starter |-> "none"]
    /\ start = [c \in Starter |-> "ping"]
    /\ stop = [s \in Stopper |-> "idle"]
    /\ asked = [s \in Stopper |-> Nobody]
    /\ request = [s \in Stopper |-> "none"]
    /\ crashes = 0

(***************************************************************************)
(* cmd_core_start                                                          *)
(***************************************************************************)
CliGoto(c, to) == start' = [start EXCEPT ![c] = to]

\* _ping_check: a connection attempt, and what follows either outcome.
Ping(c, from, answered, refused) ==
    /\ start[c] = from
    /\ CliGoto(c, IF port # Nobody THEN answered ELSE refused)
    /\ UNCHANGED <<files, port, daemon, stopping, crashes>>

\* _daemon_lock_is_free takes the lock to see whether it is free ...
Probe(c, from, held, busy) ==
    /\ start[c] = from
    /\ IF lock = Nobody
       THEN lock' = Cli(c) /\ CliGoto(c, held)
       ELSE UNCHANGED lock /\ CliGoto(c, busy)
    /\ UNCHANGED <<meta, port, daemon, stopping, crashes>>

\* ... and gives it back.
Release(c, held, to) ==
    /\ start[c] = held
    /\ lock' = Nobody
    /\ CliGoto(c, to)
    /\ UNCHANGED <<meta, port, daemon, stopping, crashes>>

FirstPing(c)       == Ping(c, "ping", "already_running", "discover")
DiscoverProbe(c)   == Probe(c, "discover", "discoverHeld", "look")
DiscoverRelease(c) == Release(c, "discoverHeld", "slot")

\* _discover_running_daemon: a record, and an endpoint that answers.
Look(c) ==
    /\ start[c] = "look"
    /\ CliGoto(c, IF meta # Nobody /\ port # Nobody THEN "already_running" ELSE "slot")
    /\ UNCHANGED <<files, port, daemon, stopping, crashes>>

\* _wait_for_start_slot
SlotPing(c)    == Ping(c, "slot", "already_running", "slotProbe")
SlotProbe(c)   == Probe(c, "slotProbe", "slotHeld", "slot")
SlotRelease(c) == Release(c, "slotHeld", "spawn")

Spawn(c) ==
    /\ start[c] = "spawn"
    /\ at' = [at EXCEPT ![c] = "spawned"]
    /\ CliGoto(c, "wait")
    /\ UNCHANGED <<files, port, down, event, job, stopping, crashes>>

\* Mutation: the child's exit is not noticed.
WaitPingOnly(c) ==
    /\ start[c] = "wait"
    /\ CliGoto(c, IF port # Nobody THEN "confirm" ELSE "wait")
    /\ UNCHANGED <<files, port, daemon, stopping, crashes>>

\* _wait_for_started: poll() and the ping.  They are one step: a child that exits between
\* the two is found in the next round, since only a ping that was refused uses the poll.
WaitPing(c) ==
    /\ start[c] = "wait"
    /\ CliGoto(c, IF port # Nobody THEN "confirm"
                  ELSE IF Alive(c) THEN "wait" ELSE "waitProbe")
    /\ UNCHANGED <<files, port, daemon, stopping, crashes>>

WaitProbe(c)   == Probe(c, "waitProbe", "waitHeld", "wait")
WaitRelease(c) == Release(c, "waitHeld", "error")

\* ... and 0.05 s after one that was answered, the poll() that decides.
Confirm(c) ==
    /\ start[c] = "confirm"
    /\ CliGoto(c, IF Alive(c) THEN "started" ELSE "already_running")
    /\ UNCHANGED <<files, port, daemon, stopping, crashes>>

\* _CORE_LIFECYCLE_TIMEOUT_SECONDS, tested at the head of both loops.
StartTimeout(c) ==
    /\ start[c] \in {"slot", "wait"}
    /\ CliGoto(c, "error")
    /\ UNCHANGED <<files, port, daemon, stopping, crashes>>

StartStep(c) ==
    \/ FirstPing(c) \/ DiscoverProbe(c) \/ DiscoverRelease(c) \/ Look(c)
    \/ SlotPing(c) \/ SlotProbe(c) \/ SlotRelease(c) \/ Spawn(c)
    \/ WaitPing(c) \/ WaitProbe(c) \/ WaitRelease(c)
    \/ Confirm(c)

(***************************************************************************)
(* CoreApp.run                                                             *)
(***************************************************************************)
\* A step of run() that only moves on.
Goto(d, from, to) ==
    /\ at[d] = from
    /\ at' = [at EXCEPT ![d] = to]
    /\ UNCHANGED <<down, event, job, start, stopping, crashes>>

\* Mutation: the file is opened with "w", which empties it before the flock.
AcquireEmpties(d) ==
    /\ IF lock = Nobody
       THEN Goto(d, "spawned", "locked") /\ lock' = Daemon(d)
       ELSE Goto(d, "spawned", "refused") /\ UNCHANGED lock
    /\ meta' = Nobody
    /\ UNCHANGED port

\* _acquire_daemon_lock: without waiting, whoever it is that holds the lock.
Acquire(d) ==
    /\ IF lock = Nobody
       THEN Goto(d, "spawned", "locked") /\ lock' = Daemon(d)
       ELSE Goto(d, "spawned", "refused") /\ UNCHANGED lock
    /\ UNCHANGED <<meta, port>>

TruncateOld(d) == Goto(d, "locked", "blank") /\ meta' = Nobody /\ UNCHANGED <<lock, port>>

Record(d) == Goto(d, "blank", "recovering") /\ meta' = d /\ UNCHANGED <<lock, port>>

\* Once jobs and incidents are recovered, SocketServer.start: SystemExit if the endpoint
\* answers ...
TryPort(d) ==
    /\ IF port = Nobody
       THEN Goto(d, "recovering", "binding") /\ UNCHANGED lock
       ELSE Goto(d, "recovering", "refused") /\ lock' = Nobody
    /\ UNCHANGED <<meta, port>>

\* ... and an OSError if the address is in use after all.
Bind(d) ==
    /\ IF port = Nobody
       THEN Goto(d, "binding", "serving") /\ port' = d /\ UNCHANGED lock
       ELSE Goto(d, "binding", "refused") /\ lock' = Nobody /\ UNCHANGED port
    /\ UNCHANGED meta

\* SIGINT and SIGTERM set the event.
Signal(d) ==
    /\ at[d] = "serving"
    /\ event' = [event EXCEPT ![d] = TRUE]
    /\ UNCHANGED <<files, port, at, down, job, start, stopping, crashes>>

\* run() wakes, refuses starts and asks for _job_start_lock.
Wake(d) ==
    /\ at[d] = "serving" /\ event[d]
    /\ at' = [at EXCEPT ![d] = "closing"]
    /\ down' = [down EXCEPT ![d] = TRUE]
    /\ UNCHANGED <<files, port, event, job, start, stopping, crashes>>

\* Who holds _job_start_lock: a start, run() itself, a shutdown handler.
StartLockFree(d) ==
    /\ job[d] \notin {"checking", "launching"}
    /\ at[d] # "closed"
    /\ \A s \in Stopper : asked[s] = d => request[s] # "closing"

\* stop_accepting() of the daemon, from run() or from the handler.
CloseListener(d) == port' = IF port = d THEN Nobody ELSE port

\* Mutation: without _job_start_lock.
StopAcceptingAtOnce(d) ==
    /\ Goto(d, "closing", "closed")
    /\ CloseListener(d)
    /\ UNCHANGED files

StopAccepting(d) ==
    /\ StartLockFree(d)
    /\ Goto(d, "closing", "closed")
    /\ CloseListener(d)
    /\ UNCHANGED files

\* Mutation: the flock goes with the listener.
CloseClientsUnlocks(d) ==
    Goto(d, "closed", "sweeping") /\ lock' = Nobody /\ UNCHANGED <<meta, port>>

\* The lock is free again; server.stop() closes the writers, close() of the coordinator
\* ends its coroutines.
CloseClients(d) == Goto(d, "closed", "sweeping") /\ UNCHANGED <<files, port>>

\* The active jobs are listed and cancelled: those the supervisor knows a process of.
Sweep(d) ==
    /\ at[d] = "sweeping"
    /\ at' = [at EXCEPT ![d] = "clearing"]
    /\ job' = [job EXCEPT ![d] = IF @ = "running" THEN "over" ELSE @]
    /\ UNCHANGED <<files, port, down, event, start, stopping, crashes>>

Truncate(d) == Goto(d, "clearing", "unlocking") /\ meta' = Nobody /\ UNCHANGED <<lock, port>>

Unlock(d) == Goto(d, "unlocking", "exited") /\ lock' = Nobody /\ UNCHANGED <<meta, port>>

\* A kill, or an exception that ends the process: the system gives back lock and port,
\* the record stays, its memory is gone.
Die(d) ==
    /\ Alive(d)
    /\ crashes < MaxCrashes
    /\ crashes' = crashes + 1
    /\ at' = [at EXCEPT ![d] = "dead"]
    /\ lock' = IF lock = Daemon(d) THEN Nobody ELSE lock
    /\ CloseListener(d)
    /\ down' = [down EXCEPT ![d] = FALSE]
    /\ event' = [event EXCEPT ![d] = FALSE]
    /\ job' = [job EXCEPT ![d] = "none"]
    /\ UNCHANGED <<meta, start, stopping>>

RunStep(d) ==
    \/ Acquire(d) \/ TruncateOld(d) \/ Record(d) \/ TryPort(d) \/ Bind(d)
    \/ Wake(d) \/ StopAccepting(d) \/ CloseClients(d) \/ Sweep(d)
    \/ Truncate(d) \/ Unlock(d)

(***************************************************************************)
(* The handlers of job.start and launch.start: one request per daemon.     *)
(***************************************************************************)
JobGoto(d, from, to) ==
    /\ Alive(d)
    /\ job[d] = from
    /\ job' = [job EXCEPT ![d] = to]
    /\ UNCHANGED <<files, port, at, down, event, start, stopping, crashes>>

\* A connection made earlier still carries requests when the listener is closed.
JobRequest(d) == d \in Busy /\ Handles(d) /\ JobGoto(d, "none", "waiting")

\* _start_job: under the start lock, unless _shutting_down.
JobLock(d) ==
    /\ StartLockFree(d)
    /\ JobGoto(d, "waiting", IF down[d] THEN "refused" ELSE "checking")

\* JobSupervisor.start, under the supervisor's lock, unless it is not _accepting_starts.
JobLaunch(d) == JobGoto(d, "checking", IF down[d] THEN "refused" ELSE "launching")

\* create_subprocess_exec returns and the attempt is in _running, or it fails.
JobRuns(d)  == JobGoto(d, "launching", "running")
JobFails(d) == JobGoto(d, "launching", "over")
JobExits(d) == JobGoto(d, "running", "over")

JobStep(d) == JobLock(d) \/ JobLaunch(d) \/ JobRuns(d) \/ JobFails(d)

(***************************************************************************)
(* cmd_core_stop and _shutdown_handler                                     *)
(***************************************************************************)
StopGoto(s, to) == stop' = [stop EXCEPT ![s] = to]

Connect(s) ==
    /\ stop[s] = "idle"
    /\ IF port # Nobody
       THEN /\ StopGoto(s, "asked")
            /\ asked' = [asked EXCEPT ![s] = port]
            /\ request' = [request EXCEPT ![s] = "sent"]
       ELSE StopGoto(s, "not_running") /\ UNCHANGED <<asked, request>>
    /\ UNCHANGED <<files, port, daemon, start, crashes>>

RequestGoto(s, from, to) ==
    /\ request[s] = from
    /\ Alive(asked[s])
    /\ request' = [request EXCEPT ![s] = to]
    /\ UNCHANGED <<files, at, job, start, stop, asked, crashes>>

\* Mutation: the handler leaves _shutting_down to run().
HandleShutdownLater(s) ==
    /\ RequestGoto(s, "sent", "locking")
    /\ Handles(asked[s])
    /\ UNCHANGED <<port, down, event>>

\* The handler refuses starts and asks for _job_start_lock ...
HandleShutdown(s) ==
    /\ RequestGoto(s, "sent", "locking")
    /\ Handles(asked[s])
    /\ down' = [down EXCEPT ![asked[s]] = TRUE]
    /\ UNCHANGED <<port, event>>

\* ... closes the listener under it ...
HandlerCloses(s) ==
    /\ RequestGoto(s, "locking", "closing")
    /\ StartLockFree(asked[s])
    /\ CloseListener(asked[s])
    /\ UNCHANGED <<down, event>>

\* ... and answers; the event follows 0.05 s later.
Answer(s) == RequestGoto(s, "closing", "answered") /\ UNCHANGED <<port, down, event>>

\* Mutation: the event is never set.
TimerLost(s) == RequestGoto(s, "answered", "armed") /\ UNCHANGED <<port, down, event>>

Timer(s) ==
    /\ RequestGoto(s, "answered", "armed")
    /\ event' = [event EXCEPT ![asked[s]] = TRUE]
    /\ UNCHANGED <<port, down>>

HandlerStep(s) == HandleShutdown(s) \/ HandlerCloses(s) \/ Answer(s) \/ Timer(s)

StopReads(s) ==
    /\ stop[s] = "asked" /\ request[s] \in {"answered", "armed"}
    /\ StopGoto(s, "wait")
    /\ UNCHANGED <<files, port, daemon, start, asked, request, crashes>>

\* The connection ends before the answer, or 3 s pass: a TimeoutError is an OSError.
StopGivesUp(s) ==
    /\ stop[s] = "asked"
    /\ StopGoto(s, "not_running")
    /\ UNCHANGED <<files, port, daemon, start, asked, request, crashes>>

\* _wait_for_stopped: the endpoint refuses.
StopPing(s) ==
    /\ stop[s] = "wait" /\ port = Nobody
    /\ StopGoto(s, "stopped")
    /\ UNCHANGED <<files, port, daemon, start, asked, request, crashes>>

StopTimeout(s) ==
    /\ stop[s] = "wait"
    /\ StopGoto(s, "error")
    /\ UNCHANGED <<files, port, daemon, start, asked, request, crashes>>

StopStep(s) == Connect(s) \/ StopReads(s) \/ StopGivesUp(s) \/ StopPing(s) \/ StopTimeout(s)

-----------------------------------------------------------------------------
\* What the daemons' own coroutines do.
DaemonStep ==
    \/ \E d \in Starter : RunStep(d) \/ JobStep(d)
    \/ \E s \in Stopper : HandlerStep(s)

Next ==
    \/ \E c \in Starter : StartStep(c) \/ StartTimeout(c)
    \/ DaemonStep
    \/ \E d \in Starter : Signal(d) \/ Die(d) \/ JobRequest(d) \/ JobExits(d)
    \/ \E s \in Stopper : StopStep(s)

Spec == Init /\ [][Next]_vars

\* Processes run and handlers end: no daemon repeats a step, so one fairness condition
\* serves all of theirs.  Requests, signals, crashes, the end of a training and the
\* timeouts come or do not.
FairSpec == Spec /\ WF_vars(DaemonStep) /\ \A c \in Starter : WF_vars(StartStep(c))

-----------------------------------------------------------------------------
(***************************************************************************)
(* Properties                                                              *)
(***************************************************************************)
\* What is under ~/.cyan has one owner: a daemon from its flock to its unlock, recovery
\* and cleanup included, is alone, and nobody but it listens.
OneDaemon ==
    /\ \A d \in Starter : at[d] \in Inside => lock = Daemon(d)
    /\ port # Nobody => at[port] \in {"serving", "closing"}

\* Who finds the endpoint listening finds the record of the daemon that listens: no daemon
\* that comes or goes empties or overwrites the record of another.
ServingIsRecorded == port # Nobody => meta = port

\* A daemon that has exited in order leaves no training it started: none was still being
\* launched when the active jobs were listed.
NoOrphan ==
    \A d \in Starter : at[d] \in {"clearing", "unlocking", "exited"} =>
        job[d] \notin {"checking", "launching", "running"}

\* A daemon whose stop was reported starts nothing more, not even a request that was
\* waiting for the start lock, or came over a connection that outlived the listener.
NothingStartsAfterStop ==
    [][\A s \in Stopper : stop[s] = "stopped" =>
        (job'[asked[s]] = "launching" => job[asked[s]] = "launching")]_vars

\* A start command comes to its end without its timeout: it finds a daemon, has one, or
\* sees its child exit and the lock free.
StartEnds == \A c \in Starter : start[c] = "discover" ~> start[c] \in StartEnd

\* A daemon that refuses starts because it is to stop gives the lock back.
ShutdownCompletes == \A d \in Starter : down[d] ~> at[d] \in Gone
=============================================================================
