--------------------------- MODULE JobSupervisor ---------------------------
(***************************************************************************)
(* The supervisor of training processes (training/jobs/supervisor.py), the *)
(* records it keeps of them (training/jobs/store.py), the process groups   *)
(* themselves, and what a daemon does about those it finds recorded as     *)
(* active when it starts (recover_interrupted, training/processes.py).     *)
(*                                                                         *)
(* Coroutines interleave at their awaits only, but the daemon may die, and *)
(* a write may raise OSError, between any two writes of one coroutine: an  *)
(* action that writes several files takes how many of them it has written. *)
(***************************************************************************)
EXTENDS Integers, Sequences, FiniteSets

CONSTANTS
    Job,            \* jobs a client may start
    MaxAttempts,    \* bound: attempts of one job
    MaxLives,       \* bound: daemons that come to serve, one after the other
    MaxErrors       \* bound: writes that raise OSError

ASSUME SupervisorAssumption ==
    MaxAttempts \in Nat \ {0} /\ MaxLives \in Nat \ {0} /\ MaxErrors \in Nat

Attempts == 1..MaxAttempts
Active   == {"starting", "running"}
Final    == {"succeeded", "failed", "cancelled", "interrupted"}
Canceller == {"request", "sweep"}

VARIABLES
    (* on disk *)
    job,          \* job.json: its status and its current attempt, the last of attempt_ids
    attempt,      \* attempt.json: its status, and whether a restart can find its process
    failure,      \* the attempts that have a failure.json
    events,       \* events.jsonl
    (* the operating system's *)
    group,        \* the process group of each attempt
    (* the daemon's *)
    daemon,
    todo,         \* recovery: the jobs to terminate and the jobs to seal
    accepting,    \* _accepting_starts
    launch,       \* who holds _lock, in _launch
    monitor,      \* _running: the monitor of each job, also one that has died of an exception
    requested,    \* cancel_requested of the running attempt
    logError,     \* its persistence_errors are not empty
    handling,     \* the attempts whose failure callback has not returned
    cancel,       \* the calls of cancel
    (* counters and history *)
    lives, errors,
    damaged       \* history: the jobs of which this daemon has failed to write a file

disk   == <<job, attempt, failure, events>>
tasks  == <<monitor, requested, logError, handling>>
vars == <<job, attempt, failure, events, group, daemon, todo, accepting, launch, monitor,
          requested, logError, handling, cancel, lives, errors, damaged>>

NoLaunch == [at |-> "idle"]
NoCancel == [at |-> "none"]
NoTodo   == [kill |-> {}, seal |-> {}]

\* The leader: what start_new_session made the leader of its group, then what
\* it exited with.  rest: the descendants it has left, some that hold the output
\* pipes, or only strays, which have redirected it so that nobody waits for them.
\* adopted: the daemon that spawned it is gone, and nobody reads its exit code.
Leader  == {"none", "alive", "zero", "nonzero", "killed", "unread"}
Rest    == {"none", "pipes", "strays"}
Group   == [leader : Leader, rest : Rest, adopted : BOOLEAN]
NoGroup == [leader |-> "none", rest |-> "none", adopted |-> FALSE]

TypeOK ==
    /\ job \in [Job -> [status : {"none"} \cup Active \cup Final, cur : 0..MaxAttempts]]
    /\ attempt \in [Job -> [Attempts ->
            [status : {"none"} \cup Active \cup Final, known : BOOLEAN]]]
    /\ failure \in [Job -> SUBSET Attempts]
    /\ events \in [Job -> Seq([type : {"started"} \cup Final, att : 0..MaxAttempts])]
    /\ group \in [Job -> [Attempts -> Group]]
    /\ daemon \in {"down", "recovering", "up", "sweeping"}
    /\ todo \in [kill : SUBSET Job, seal : SUBSET Job]
    /\ accepting \in BOOLEAN
    /\ launch \in {NoLaunch} \cup
            [at : {"spawning", "identifying"}, by : {"start", "retry"}, job : Job, att : Attempts]
    /\ monitor \in [Job -> {"none", "watching", "died"}]
    /\ requested \in [Job -> BOOLEAN]
    /\ logError \in [Job -> BOOLEAN]
    /\ handling \in [Job -> SUBSET Attempts]
    /\ cancel \in [Job -> [Canceller -> {NoCancel} \cup [at : {"grace", "await"}, att : Attempts]]]
    /\ lives \in 1..MaxLives
    /\ errors \in 0..MaxErrors
    /\ damaged \in SUBSET Job

Everywhere(v) == [j \in Job |-> v]
NoCalls == [c \in Canceller |-> NoCancel]

Init ==
    /\ job     = Everywhere([status |-> "none", cur |-> 0])
    /\ attempt = Everywhere([a \in Attempts |-> [status |-> "none", known |-> FALSE]])
    /\ failure = Everywhere({})
    /\ events  = Everywhere(<<>>)
    /\ group   = Everywhere([a \in Attempts |-> NoGroup])
    /\ daemon = "up" /\ todo = NoTodo /\ accepting = TRUE /\ launch = NoLaunch
    /\ monitor = Everywhere("none") /\ requested = Everywhere(FALSE)
    /\ logError = Everywhere(FALSE) /\ handling = Everywhere({})
    /\ cancel = Everywhere(NoCalls)
    /\ lives = 1 /\ errors = 0 /\ damaged = {}

(***************************************************************************)
(* Processes                                                               *)
(***************************************************************************)
Alive(j, a) == group[j][a].leader = "alive"
Exited(j, a) == group[j][a].leader \notin {"none", "alive"}
Becomes(g, leader, rest) == [leader |-> leader, rest |-> rest, adopted |-> g.adopted]

\* SIGKILL to the group of a leader that lives: nobody is left who has not moved
\* to a session of its own.  SIGTERM leaves the processes to end as they may, or
\* not to end, which they may without it.
Killed(g) == Becomes(g, "killed", "none")

\* What a leader that was not killed is seen to exit with.
Codes(g) == IF g.adopted THEN {"unread"} ELSE {"zero", "nonzero"}

\* The leader ends by itself or of a SIGTERM, and may leave descendants behind.
LeaderExits(j, a) ==
    /\ Alive(j, a)
    /\ \E code \in Codes(group[j][a]), rest \in Rest :
            group' = [group EXCEPT ![j][a] = Becomes(@, code, rest)]
    /\ UNCHANGED <<disk, daemon, todo, accepting, launch, tasks, cancel, lives, errors, damaged>>

RestExits(j, a) ==
    /\ group[j][a].rest = "pipes"
    /\ \E rest \in {"none", "strays"} : group' = [group EXCEPT ![j][a].rest = rest]
    /\ UNCHANGED <<disk, daemon, todo, accepting, launch, tasks, cancel, lives, errors, damaged>>

StraysExit(j, a) ==
    /\ group[j][a].rest = "strays"
    /\ group' = [group EXCEPT ![j][a].rest = "none"]
    /\ UNCHANGED <<disk, daemon, todo, accepting, launch, tasks, cancel, lives, errors, damaged>>

(***************************************************************************)
(* The end of a daemon, and of a coroutine that could not write            *)
(***************************************************************************)
\* What is left when the daemon is gone: the disk and the processes.
Gone(left) ==
    /\ group' = [j \in Job |-> [a \in Attempts |->
            [leader  |-> IF left[j][a].leader \in {"zero", "nonzero"} THEN "unread"
                         ELSE left[j][a].leader,
             rest    |-> left[j][a].rest,
             adopted |-> left[j][a].leader # "none"]]]
    /\ daemon' = "down" /\ todo' = NoTodo /\ accepting' = TRUE /\ launch' = NoLaunch
    /\ monitor' = Everywhere("none") /\ requested' = Everywhere(FALSE)
    /\ logError' = Everywhere(FALSE) /\ handling' = Everywhere({})
    /\ cancel' = Everywhere(NoCalls)
    /\ damaged' = {}
    /\ UNCHANGED <<lives, errors>>

\* The daemon is killed, as often as it may be during recovery; the last one that
\* serves is not.
Dies == lives < MaxLives /\ Gone(group)

\* OSError in a write of j.
Raises(j) ==
    /\ errors < MaxErrors
    /\ errors' = errors + 1
    /\ damaged' = damaged \cup {j}

\* At an await, or inside a coroutine that writes nothing.
Crash == daemon # "down" /\ Dies /\ UNCHANGED disk

(***************************************************************************)
(* start, retry and _launch                                                *)
(***************************************************************************)
\* The first k of the writes: job.json (create_job), attempt.json, job.json.
WriteNew(j, a, k) ==
    /\ job' = [job EXCEPT ![j] =
            IF k = 3 THEN [status |-> "starting", cur |-> a]
            ELSE IF k > 0 /\ @.status = "none" THEN [status |-> "starting", cur |-> 0]
            ELSE @]
    /\ attempt' = [attempt EXCEPT ![j][a] =
            IF k >= 2 THEN [status |-> "starting", known |-> FALSE] ELSE @]
    /\ UNCHANGED <<failure, events>>

\* The way to the spawn.  Opening the logs, the last to raise, follows the writes.
Begin(j, by) ==
    LET a == job[j].cur + 1 IN
    /\ daemon = "up" /\ accepting /\ launch = NoLaunch
    /\ a \in Attempts
    /\ \/ /\ WriteNew(j, a, 3)
          /\ launch' = [at |-> "spawning", by |-> by, job |-> j, att |-> a]
          /\ UNCHANGED <<group, daemon, todo, accepting, tasks, cancel, lives, errors, damaged>>
       \/ \E k \in 0..3 :
            /\ WriteNew(j, a, k)
            /\ \/ Dies
               \/ /\ Raises(j)
                  /\ UNCHANGED <<group, daemon, todo, accepting, launch, tasks, cancel, lives>>

Start(j) == job[j].status = "none" /\ Begin(j, "start")

\* Mutation: the job may be running.
RetryAny(j) == job[j].status # "none" /\ Begin(j, "retry")

Retry(j) == job[j].status # "none" /\ monitor[j] = "none" /\ Begin(j, "retry")

\* create_subprocess_exec succeeds ...
Spawn ==
    /\ launch.at = "spawning"
    /\ group' = [group EXCEPT ![launch.job][launch.att] = [NoGroup EXCEPT !.leader = "alive"]]
    /\ launch' = [launch EXCEPT !.at = "identifying"]
    /\ UNCHANGED <<disk, daemon, todo, accepting, tasks, cancel, lives, errors, damaged>>

\* Mutation: the event is written before the job.
WriteEndEventFirst(j, a, s, k) ==
    /\ failure' = [failure EXCEPT ![j] = IF s = "failed" /\ k >= 1 THEN @ \cup {a} ELSE @]
    /\ attempt' = [attempt EXCEPT ![j][a] =
            IF k >= 2 THEN [status |-> s, known |-> @.known] ELSE @]
    /\ events'  = [events EXCEPT ![j] =
            IF k >= 3 THEN Append(@, [type |-> s, att |-> a]) ELSE @]
    /\ job'     = [job EXCEPT ![j].status = IF k = 4 THEN s ELSE @]

\* The first k of the writes that end attempt a: failure.json if it has failed,
\* attempt.json, job.json, the event.
WriteEnd(j, a, s, k) ==
    /\ failure' = [failure EXCEPT ![j] = IF s = "failed" /\ k >= 1 THEN @ \cup {a} ELSE @]
    /\ attempt' = [attempt EXCEPT ![j][a] =
            IF k >= 2 THEN [status |-> s, known |-> @.known] ELSE @]
    /\ job'     = [job EXCEPT ![j].status = IF k >= 3 THEN s ELSE @]
    /\ events'  = [events EXCEPT ![j] =
            IF k = 4 THEN Append(@, [type |-> s, att |-> a]) ELSE @]

\* ... or does not (_record_launch_failure); the callback is for process_exit only.
ExecFails ==
    /\ launch.at = "spawning"
    /\ \/ /\ WriteEnd(launch.job, launch.att, "failed", 4)
          /\ launch' = NoLaunch
          /\ UNCHANGED <<group, daemon, todo, accepting, tasks, cancel, lives, errors, damaged>>
       \/ \E k \in 0..3 :
            /\ WriteEnd(launch.job, launch.att, "failed", k)
            /\ \/ Dies
               \/ /\ Raises(launch.job)
                  /\ launch' = NoLaunch
                  /\ UNCHANGED <<group, daemon, todo, accepting, tasks, cancel, lives>>

\* The first k of: attempt.json with the pid, job.json, the event.
WriteRunning(j, a, identified, k) ==
    /\ attempt' = [attempt EXCEPT ![j][a] =
            IF k >= 1 THEN [status |-> "running", known |-> identified] ELSE @]
    /\ job'     = [job EXCEPT ![j].status = IF k >= 2 THEN "running" ELSE @]
    /\ events'  = [events EXCEPT ![j] =
            IF k = 3 THEN Append(@, [type |-> "started", att |-> a]) ELSE @]
    /\ UNCHANGED failure

\* ps has told the identity of the process, or has not.
Identify ==
    /\ launch.at = "identifying"
    /\ \E identified \in BOOLEAN :
        \/ /\ WriteRunning(launch.job, launch.att, identified, 3)
           /\ monitor' = [monitor EXCEPT ![launch.job] = "watching"]
           /\ launch' = NoLaunch
           /\ UNCHANGED <<group, daemon, todo, accepting, requested, logError, handling,
                          cancel, lives, errors, damaged>>
        \/ \E k \in 0..2 :
            /\ WriteRunning(launch.job, launch.att, identified, k)
            /\ \/ Dies
               \/ /\ Raises(launch.job)
                  /\ launch' = NoLaunch
                  /\ UNCHANGED <<group, daemon, todo, accepting, tasks, cancel, lives>>

(***************************************************************************)
(* _monitor and _drain                                                     *)
(***************************************************************************)
Watched(j) == monitor[j] = "watching"
Current(j) == job[j].cur

\* A chunk of output cannot be written to its log: SIGTERM, unless it has exited.
LogFails(j) ==
    /\ Watched(j) /\ ~logError[j]
    /\ errors < MaxErrors
    /\ errors' = errors + 1
    /\ logError' = [logError EXCEPT ![j] = TRUE]
    /\ UNCHANGED <<disk, group, daemon, todo, accepting, launch, monitor, requested, handling,
                   cancel, lives, damaged>>

\* ... and SIGKILL after five seconds.
LogGraceEnds(j) ==
    /\ Watched(j) /\ logError[j] /\ Alive(j, Current(j))
    /\ group' = [group EXCEPT ![j][Current(j)] = Killed(@)]
    /\ UNCHANGED <<disk, daemon, todo, accepting, launch, tasks, cancel, lives, errors, damaged>>

\* Mutation: the end of the output is not waited for.
OverAtExit(j) == Watched(j) /\ Exited(j, Current(j))

\* Both pipes are at their end: nobody who holds them lives.  Nothing else tells
\* the monitor of a descendant.
Over(j) == Watched(j) /\ Exited(j, Current(j)) /\ group[j][Current(j)].rest # "pipes"

Outcome(j) ==
    CASE requested[j] -> "cancelled"
      [] ~requested[j] /\ (logError[j] \/ group[j][Current(j)].leader # "zero") -> "failed"
      [] OTHER -> "succeeded"

MonitorEnds(j) ==
    LET a == Current(j)
        s == Outcome(j)
    IN
    /\ Over(j)
    /\ \/ /\ WriteEnd(j, a, s, 4)
          /\ monitor'   = [monitor EXCEPT ![j] = "none"]
          /\ requested' = [requested EXCEPT ![j] = FALSE]
          /\ logError'  = [logError EXCEPT ![j] = FALSE]
          /\ handling'  = [handling EXCEPT ![j] =
                            IF s = "failed" /\ ~logError[j] THEN @ \cup {a} ELSE @]
          /\ UNCHANGED <<group, daemon, todo, accepting, launch, cancel, lives, errors, damaged>>
       \/ \E k \in 0..3 :
            /\ WriteEnd(j, a, s, k)
            /\ \/ Dies
               \/ /\ Raises(j)
                  /\ monitor' = [monitor EXCEPT ![j] = "died"]
                  /\ UNCHANGED <<group, daemon, todo, accepting, launch, requested, logError,
                                 handling, cancel, lives>>

\* The failure callback, which the monitor awaits last, returns.
CallbackEnds(j, a) ==
    /\ a \in handling[j]
    /\ handling' = [handling EXCEPT ![j] = @ \ {a}]
    /\ UNCHANGED <<disk, group, daemon, todo, accepting, launch, monitor, requested, logError,
                   cancel, lives, errors, damaged>>

\* The monitor of attempt a is still a task.
MonitorRuns(j, a) == (Watched(j) /\ Current(j) = a) \/ a \in handling[j]

(***************************************************************************)
(* cancel                                                                  *)
(***************************************************************************)
\* A call of cancel for a job in _running: SIGTERM, or nothing if its process
\* has exited.  For a job that is not in _running the call returns at once.
CancelCall(j) ==
    [at |-> IF Alive(j, Current(j)) THEN "grace" ELSE "await", att |-> Current(j)]

Cancel(j) ==
    /\ daemon = "up"
    /\ Watched(j) /\ cancel[j]["request"] = NoCancel
    /\ cancel' = [cancel EXCEPT ![j]["request"] = CancelCall(j)]
    /\ requested' = [requested EXCEPT ![j] = @ \/ Alive(j, Current(j))]
    /\ UNCHANGED <<disk, group, daemon, todo, accepting, launch, monitor, logError, handling,
                   lives, errors, damaged>>

\* Mutation: no SIGKILL.
CancelGraceEndsMildly(j, c) ==
    /\ cancel[j][c].at = "grace"
    /\ MonitorRuns(j, cancel[j][c].att)
    /\ cancel' = [cancel EXCEPT ![j][c].at = "await"]
    /\ UNCHANGED <<disk, group, daemon, todo, accepting, launch, tasks, lives, errors, damaged>>

\* Five seconds later: SIGKILL unless the leader has exited, then wait.
CancelGraceEnds(j, c) ==
    LET a == cancel[j][c].att IN
    /\ cancel[j][c].at = "grace"
    /\ MonitorRuns(j, a)
    /\ group' = [group EXCEPT ![j][a] = IF @.leader = "alive" THEN Killed(@) ELSE @]
    /\ cancel' = [cancel EXCEPT ![j][c].at = "await"]
    /\ UNCHANGED <<disk, daemon, todo, accepting, launch, tasks, lives, errors, damaged>>

\* The monitor has ended, if of an exception.
CancelReturns(j, c) ==
    /\ cancel[j][c] # NoCancel
    /\ ~MonitorRuns(j, cancel[j][c].att)
    /\ cancel' = [cancel EXCEPT ![j][c] = NoCancel]
    /\ UNCHANGED <<disk, group, daemon, todo, accepting, launch, tasks, lives, errors, damaged>>

(***************************************************************************)
(* Shutdown (CoreApp.run)                                                  *)
(***************************************************************************)
StopStarting ==
    /\ daemon = "up" /\ accepting
    /\ accepting' = FALSE
    /\ UNCHANGED <<disk, group, daemon, todo, launch, tasks, cancel, lives, errors, damaged>>

\* The jobs recorded as active are cancelled, once no start is under way: _start_job
\* holds _job_start_lock, the retry of decide does not.
Sweep ==
    LET swept == {j \in Job : job[j].status \in Active /\ Watched(j)} IN
    /\ daemon = "up" /\ ~accepting
    /\ ~(launch.at # "idle" /\ launch.by = "start")
    /\ daemon' = "sweeping"
    /\ cancel' = [j \in Job |->
            IF j \in swept THEN [cancel[j] EXCEPT !["sweep"] = CancelCall(j)] ELSE cancel[j]]
    /\ requested' = [j \in Job |-> requested[j] \/ (j \in swept /\ Alive(j, Current(j)))]
    /\ UNCHANGED <<disk, group, todo, accepting, launch, monitor, logError, handling, lives,
                   errors, damaged>>

\* run() returns when the calls have, and asyncio.run cancels what is left.  A
\* leader nobody waits for may be killed when its transport is collected, its
\* descendants are not.
Exit ==
    /\ daemon = "sweeping"
    /\ \A j \in Job : cancel[j]["sweep"] = NoCancel
    /\ \E collected \in SUBSET {p \in Job \X Attempts :
                Alive(p[1], p[2]) /\ ~group[p[1]][p[2]].adopted} :
       \E rest \in [collected -> Rest] :
            Gone([j \in Job |-> [a \in Attempts |->
                IF <<j, a>> \in collected
                THEN Becomes(group[j][a], "killed", rest[<<j, a>>])
                ELSE group[j][a]]])
    /\ UNCHANGED disk

(***************************************************************************)
(* recover_interrupted                                                     *)
(***************************************************************************)
\* Mutation: a job that has no attempt yet is not sealed.
RestartWithAttempt ==
    /\ daemon = "down" /\ lives < MaxLives
    /\ daemon' = "recovering"
    /\ todo' = LET found == {j \in Job : job[j].status \in Active /\ Current(j) # 0}
               IN [kill |-> found, seal |-> found]
    /\ UNCHANGED <<disk, group, accepting, launch, tasks, cancel, lives, errors, damaged>>

\* The jobs recorded as active; one without an attempt has no process.
Restart ==
    /\ daemon = "down" /\ lives < MaxLives
    /\ daemon' = "recovering"
    /\ todo' = [kill |-> {j \in Job : job[j].status \in Active /\ Current(j) # 0},
                seal |-> {j \in Job : job[j].status \in Active}]
    /\ UNCHANGED <<disk, group, accepting, launch, tasks, cancel, lives, errors, damaged>>

\* What terminate_owned_process_group may leave of a group: all of it, if ps
\* cannot tell who it is or will not see it end, or if the leader has exited;
\* the descendants, if the leader ends of the SIGTERM; nothing, after a SIGKILL.
Terminated(g) ==
    {g} \cup IF g.leader = "alive"
             THEN {Killed(g)} \cup
                  {Becomes(g, code, rest) : code \in Codes(g), rest \in Rest}
             ELSE {}

\* A process whose pid or identity is not recorded is left alone; the result
\* of terminating the others is not looked at.
Terminate(j) ==
    LET a == Current(j) IN
    /\ daemon = "recovering" /\ j \in todo.kill
    /\ \E g \in IF attempt[j][a].known THEN Terminated(group[j][a]) ELSE {group[j][a]} :
            group' = [group EXCEPT ![j][a] = g]
    /\ todo' = [todo EXCEPT !.kill = @ \ {j}]
    /\ UNCHANGED <<disk, daemon, accepting, launch, tasks, cancel, lives, errors, damaged>>

\* The first k of the writes that seal a job: attempt.json, job.json, the event,
\* which a failure that was recorded may have already.
WriteSeal(j, k) ==
    LET a == Current(j)
        s == IF a \in failure[j] THEN "failed" ELSE "interrupted"
        told == s = "failed" /\ events[j] # <<>>
                    /\ events[j][Len(events[j])] = [type |-> "failed", att |-> a]
    IN
    /\ attempt' = [attempt EXCEPT ![j] = [b \in Attempts |->
            IF b = a /\ k >= 1 /\ (s = "failed" \/ @[b].status \in Active)
            THEN [status |-> s, known |-> @[b].known] ELSE @[b]]]
    /\ job'     = [job EXCEPT ![j].status = IF k >= 2 THEN s ELSE @]
    /\ events'  = [events EXCEPT ![j] =
            IF k = 3 /\ ~told THEN Append(@, [type |-> s, att |-> a]) ELSE @]
    /\ UNCHANGED failure

\* JobStore.recover_interrupted, of one job.  An OSError ends the daemon, as a crash.
Seal(j) ==
    /\ daemon = "recovering" /\ todo.kill = {} /\ j \in todo.seal
    /\ \/ /\ WriteSeal(j, 3)
          /\ todo' = [todo EXCEPT !.seal = @ \ {j}]
          /\ UNCHANGED <<group, daemon, accepting, launch, tasks, cancel, lives, errors, damaged>>
       \/ \E k \in 0..2 : WriteSeal(j, k) /\ Dies

Serve ==
    /\ daemon = "recovering" /\ todo = NoTodo
    /\ daemon' = "up"
    /\ lives' = lives + 1
    /\ UNCHANGED <<disk, group, todo, accepting, launch, tasks, cancel, errors, damaged>>

-----------------------------------------------------------------------------
Process(j, a) == LeaderExits(j, a) \/ RestExits(j, a) \/ StraysExit(j, a)
Launching     == Spawn \/ ExecFails \/ Identify
Monitor(j)    == LogGraceEnds(j) \/ MonitorEnds(j) \/ \E a \in Attempts : CallbackEnds(j, a)
Cancelling(j, c) == CancelGraceEnds(j, c) \/ CancelReturns(j, c)
Recovery      == Serve \/ \E j \in Job : Terminate(j) \/ Seal(j)

\* What CoreApp.run does in turn.
Running       == Sweep \/ Exit \/ Recovery

Next ==
    \/ \E j \in Job : Start(j) \/ Retry(j) \/ Cancel(j) \/ LogFails(j) \/ Monitor(j)
    \/ \E j \in Job, a \in Attempts : Process(j, a)
    \/ \E j \in Job, c \in Canceller : Cancelling(j, c)
    \/ Launching \/ StopStarting \/ Running \/ Restart \/ Crash

Spec == Init /\ [][Next]_vars

\* A coroutine that can run is resumed, and a wait that has a timeout ends.  No
\* leader needs to end by itself.  A descendant that has outlived its leader and
\* holds the pipes ends at some time: nothing in the code makes it end.  One that
\* does not hold them need not.
FairSpec ==
    /\ Spec
    /\ WF_vars(Launching) /\ WF_vars(Running)
    /\ \A j \in Job : WF_vars(Monitor(j))
    /\ \A j \in Job, c \in Canceller : WF_vars(Cancelling(j, c))
    /\ \A j \in Job : WF_vars(\E a \in Attempts : RestExits(j, a))

-----------------------------------------------------------------------------
(***************************************************************************)
(* Properties                                                              *)
(***************************************************************************)
\* An attempt that is recorded as succeeded, failed or cancelled has no leader and
\* nobody who could still write to its log, whoever has recorded it and whatever
\* crashed before; and nobody at all if it had to be killed.  A descendant that
\* has redirected its output may outlive a leader that ends in another way.
SealedIsOver ==
    \A j \in Job, a \in Attempts :
        attempt[j][a].status \in {"succeeded", "failed", "cancelled"} =>
            /\ ~Alive(j, a) /\ group[j][a].rest # "pipes"
            /\ group[j][a].leader = "killed" => group[j][a].rest = "none"

\* One daemon never has two leaders of a job alive, whichever of start, retry,
\* cancel, the monitor and its callback run at the same time.  Of jobs whose
\* files it could write: one whose pid was not written is nobody's.
OneLiveAttempt ==
    \A j \in Job \ damaged : \A a, b \in Attempts :
        Alive(j, a) /\ Alive(j, b) /\ ~group[j][a].adopted /\ ~group[j][b].adopted => a = b

\* A job a serving daemon shows as starting or running is being launched or
\* watched, and the other way round: no crash, in the recovery of another crash
\* as well, and no cancellation leaves a record active for ever.
ActiveIsWatched ==
    daemon \in {"up", "sweeping"} =>
        \A j \in Job \ damaged :
            /\ job[j].status = "running" <=> Watched(j)
            /\ job[j].status = "starting" <=> launch.at # "idle" /\ launch.job = j

\* What a serving daemon has recorded of a job agrees: its current attempt has a
\* failure on disk exactly if it failed, the job ends as that attempt did unless
\* it was interrupted, and the events tell at most one end of every attempt, the
\* one in its record or the interruption of its job.
Ends(j, a) == {i \in DOMAIN events[j] : events[j][i].att = a /\ events[j][i].type # "started"}
RecordsAgree ==
    daemon \in {"up", "sweeping"} =>
        \A j \in Job \ damaged :
            /\ \A a \in 1..Current(j) :
                /\ Cardinality(Ends(j, a)) <= 1
                /\ \A i \in Ends(j, a) :
                    events[j][i].type \in {attempt[j][a].status, "interrupted"}
            /\ Current(j) # 0 =>
                LET status == attempt[j][Current(j)].status IN
                /\ Current(j) \in failure[j] <=> status = "failed"
                /\ job[j].status \in {status, "interrupted"}

\* The end of an attempt is recorded once: no recovery, no late monitor and no
\* cancellation changes it.
FinalIsForever ==
    [][\A j \in Job, a \in Attempts : attempt[j][a].status \in Final =>
            attempt'[j][a].status = attempt[j][a].status]_vars

\* A cancellation that a client asked for returns, and a daemon that has stopped
\* starting jobs exits, also if a training ignores the SIGTERM: the daemon comes
\* to have neither before it.
Ending ==
    \/ \E j \in Job : cancel[j]["request"] # NoCancel
    \/ daemon = "up" /\ ~accepting
    \/ daemon = "sweeping"
RequestsEnd == Ending ~> ~Ending
=============================================================================
