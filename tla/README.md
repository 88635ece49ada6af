# TLA+ models of cyan

cyan supervises local machine-learning training jobs. A daemon starts the training
process, keeps its logs, and when the process fails opens an *incident*: a restricted
agent reads logs and sources, submits a diagnosis and may propose a patch; the user
approves or rejects it; an approved patch is applied with `git apply`, verified by an
optional smoke command, rolled back if that fails, and finally judged by the exit code of
the original command, run again. Everything that has to survive the daemon is a small set
of JSON files written one at a time.

This directory models that program in TLA+, checks the models with TLC and proves the
results that matter most with TLAPS. Source paths below are relative to `src/src/cyan/`.

## 1. Inventory

| Part | State it keeps | Operations | Talks to |
|---|---|---|---|
| `training/incidents/fsm.py` | two constant tables | `accepts`, `transition`, `recover_action` | coordinator |
| `training/incidents/coordinator.py` | set of tasks, one decision lock per incident | `decide`, `follow_up`, `handle_failure`, `_run_smoke`, `_run_diagnosis`, `_observe_retry`, `recover`, `close` | all of the below |
| `training/incidents/store.py` | `incident.json`, `proposal.diff`, `runs/*/run.json` | one atomic file replacement per write | coordinator, runtime, tools |
| `training/incidents/runtime.py`, `profile.py`, `tools.py` | the run's status; the agent's two writing tools | run, `submit_diagnosis`, `propose_patch` | agent loop, patch service, store |
| `training/incidents/patch.py` | none; changes the workspace | `check`, `apply`, `reverse` | git |
| `training/incidents/smoke.py`, `processes.py` | a process group | run with timeout; terminate an owned group | operating system |
| `training/jobs/supervisor.py` | `_running`, `_accepting_starts`, one monitor task per attempt | `start`, `retry`, `wait`, `cancel`, `recover_interrupted` | job store, failure callback |
| `training/jobs/store.py` | `job.json`, `attempt.json`, `failure.json`, `events.jsonl`, logs | record writes, event append and repair, log reads | supervisor, app |
| `service/transport/ipc_broadcaster.py` | subscriptions, one bounded queue and writer task each | `subscribe`, `replay`, `activate`, `handle`, `unsubscribe` | event bus, sockets |
| `service/transport/socket_server.py`, `socket_client.py` | connections | framing, one task per request | app, TUI, CLI |
| `service/app.py` | lock file, start lock, shutdown flag | the RPC handlers, start-up and shutdown | everything |
| `agent/loop.py`, `runner.py`, `context.py`, `tools/invocation.py` | message history, counters | steps, budgets, tool calls | provider, tools |
| `agent/events/*` | handlers, `events.jsonl` of a run | publish, write | broadcaster, TUI |
| `cli/commands/core.py` | none | start, stop, status of the daemon | lock file, socket |
| `selector.py`, `evidence.py`, `log_tool.py`, the workspace tools | what was observed in this run (`ObservedEvidence`) | select, read, search; the references of a diagnosis | runtime, agent loop |
| `launch.py`, configuration, schemas | none | parsing | app |

### What is hard here

* **Coroutines on one event loop.** Requests of several clients, the monitor of the
  running attempt, the observer of a retry and the diagnosis task share one
  `incident.json` and are interleaved wherever one of them awaits (git, a subprocess, the
  model, the lock). Only `decide`, `follow_up` and a failed retry take the decision lock.
* **Crashes between two writes.** One logical step writes up to four files, and the daemon
  rebuilds everything from whatever it finds.
* **Processes that outlive the daemon, or each other.** The smoke command and the training
  run in process groups of their own and may still be alive after a crash; what they have
  started may outlive them, with their output in hand or without.
* **Processes that meet at a file.** Start commands, stop commands and daemons are
  processes of their own; what they know of each other is a lock, a record in the locked
  file and an endpoint, none of which changes together with the others.
* **A workspace it does not own.** The user may edit the patched file at any moment, also
  while git is awaited; git may refuse, fail after having written, or be killed by its
  timeout.
* **A line is not a line.** `str.splitlines`, text mode, the parser of the diff and git cut
  the same file in different ways, and a line of the file may look like a header of the diff.
* **Budgets.** Evidence is cut to bytes, before and after it is decoded; a slice of a log
  begins and ends anywhere; what was cut was not read, and what was read may be replaced by
  an error before the agent sees it.
* **One transport.** Events, replays and responses of all commands of a client share one
  connection, and only the first two share a lock.
* **Late answers.** A smoke that exits as its timeout fires, a cancelled attempt that
  exited with zero, a follow-up sent while a decision is under way, a client that decides
  on a proposal it was shown earlier.

### What makes each part correct

* *Lifecycle of an incident*: the status moves only along the edges of the table, and
  across a restart only along the recovery edges; resolved and rejected are final;
  resolved means that the original command exited with zero.
* *Approval*: the patch in the workspace is one the user approved, and what is offered
  belongs to the latest run and passed its preflight.
* *Rollback*: only what the receipt records is rolled back; a patch that was rolled back is
  neither in the workspace nor offered.
* *Processes*: the smoke command never runs beside the retried training; a visible smoke can
  be found and killed by a restarted daemon.
* *Failures*: one incident per job, no failure lost to a newer attempt, one diagnosis task
  at a time.
* *Progress*: a diagnosis, an approval and a retry come to an end.
* *Trainings*: an attempt recorded as over has no process left that is its leader or writes
  to its log; one live attempt of a job; a record that says running is watched by somebody;
  cancellation and shutdown return.
* *Evidence*: a diagnosis cites what was read; the exception of a long traceback survives
  every cut; a search finds the first match.
* *Patches*: what git applies, what the user reviewed and what the agent asked for are one
  text, and a rollback restores the file, unless it was edited under git's hands.
* *Event delivery*: the events of a job are numbered without a gap; state events reach each
  subscriber in order and complete, or its connection is closed and the next one repeats
  what it missed.
* *Agent loop*: each tool call gets exactly one result before the next request; the
  finalisation runs the required tool alone; a direct diagnosis does not succeed without its
  patch; budgets and steps end the run with one verdict.
* *Daemon*: one daemon at a time owns what is under `~/.cyan`, and the record names it;
  start and stop commands come to an end; a daemon that stops gives the lock back, starts
  nothing more and leaves no training behind.

The hazards, each at its line, are in `PROJECT.json`.

## 2. Plan

| # | Module | Contents | Status |
|---|---|---|---|
| 1 | `IncidentFSM` | the two tables and their accessors | done |
| 2 | `IncidentLifecycle` | abstract specification: the status a reader may see | done |
| 3 | `IncidentCoordinator` | all coroutines of one incident over one disk and one workspace; implements 2 | done |
| 4 | `IncidentLifecycle_proofs` | types; lock invariant, refinement of 2 | done |
| 4 | `IncidentRecovery_proofs` | what every crash leaves: smoke record, diagnosis task, diff, stack of patches | done |
| 4 | `IncidentApproval_proofs` | what holds until a crash: who is where, offers, approvals, receipts | done |
| 5 | `JobEventLog` | the append-only event log: numbering, torn tail, repair | done |
| 5 | `EventChannel` | abstract specification: each reader sees each stream one event after the other | done |
| 5 | `EventDelivery` | broadcaster, subscribe and replay, connections, clients over 5's log; implements the channel | done |
| 5 | `EventDelivery_proofs` | numbering, barriers, buffers, nothing lost, refinement of the channel | done |
| 6 | `JobSupervisor` | several jobs, start/retry/cancel/shutdown races, a crash or an OSError after each write, processes that outlive daemon or leader | done |
| 6 | `JobSupervisor_proofs` | types, ends and processes, one live attempt; records, watched jobs | done |
| 7 | `AgentLoop` | one run of the agent: steps, budget, finalisation, tool invocation with retries, pairing of calls and results | done |
| 7 | `AgentLoop_proofs` | types and steps, stages, proposals, verdict; the pairing | done |
| 8 | `DaemonLifecycle` | start and stop commands and the daemons they start: lock file, record, endpoint, start lock, start-up and shutdown order | done |
| 8 | `DaemonLifecycle_proofs` | types, one owner, record, shutdown | done |
| 9 | `LogEvidence`, `ReplacementDiff` | pure algorithms: evidence of a prompt, reads and searches of a log; the diff of a replacement, its review, git | done |
| 9 | `AgentTools` | one investigation over 9's algorithms: what was read, shown, cited, proposed, applied, rolled back | done |
| 9 | `AgentTools_proofs` | the search in a log, the evidence, what is cited | done |

Composition: `EventDelivery` EXTENDS `JobEventLog` and maps to `EventChannel`; `AgentTools`
EXTENDS `LogEvidence` and `ReplacementDiff`; `IncidentCoordinator` EXTENDS `IncidentFSM` and
maps to `IncidentLifecycle`. The others stand beside each other, each with what it takes of
its neighbours in the weakest form that they promise:

* `IncidentCoordinator` seals an attempt in one action. `JobSupervisor` takes that action
  apart; `RecordsAgree` and `ActiveIsWatched` say that a serving daemon sees the writes
  together, unless one of them raised.
* `IncidentCoordinator` takes the agent for any sequence of the two writing tools, which
  allows more than `AgentLoop` does; `AgentLoop` takes the answer of a tool for any answer,
  which allows more than `AgentTools` does.
* `IncidentCoordinator` takes a proposal that is applied for the proposal; that git, review
  and agent mean the same text by it is `OfferIsExact`.
* `DaemonLifecycle` has one job per daemon and no recovery; what recovery does is in
  `IncidentCoordinator` and `JobSupervisor`, and `OneDaemon` is why these and
  `EventDelivery` may take the daemon for a single process that starts again.

A theorem still worth having: `OfferIsExact` for every file and every script of edits.
Section 6 says what it takes.

## 3. The modules

### IncidentFSM
`Transitions` and `RecoverAction` are `_TRANSITIONS` and `RECOVERY`; a missing key of the
dictionary is a missing field of the record, so `Accepts` is `accepts()` and `Target` is
`transition()` where it does not raise.

### IncidentLifecycle
Two variables: the status and the daemon's phase (serving, down, recovering). Serving, the
status takes edges of the table; down, it does not move; recovering, it takes the recovery
edges (`Settle`), is opened, or goes from retry_running back to diagnosing.

### IncidentCoordinator
One job, its attempts and its incident.

* **Disk**: `job`, `attempt` (with `failure.json`), `inc` (`incident.json`), `diff`
  (`proposal.diff`: the proposal whose text it holds), `run`. **Outside**: `file`, the one
  workspace file patches change, as the pair of the patch standing in it and the number of
  user edits; `smokeProc`, the smoke command; `smokeRest`, whether something it has started
  runs on although the command itself has ended.
* **Coroutines**: `co[p]` gives for each client request, for the monitor and for each
  diagnosis task the line it stands at and its local variables. `Await` holds the labels at
  which the code is suspended in an `await`. A coroutine at any other label is between two
  writes of one synchronous stretch: `CanRun` lets nobody else step then, except the crash,
  the user and the processes. So a crash may fall between any two writes while an
  interleaving may happen only where the code allows it. `EventBus.publish` and the
  broadcaster never suspend, and so an `await self._bus.publish(...)` is no such point.
* **Lock**: `LockFree` is derived from where the holders stand; the lock itself does not
  survive a crash.
* **Dispatch** is `_dispatch`: an event the current status does not accept raises, which
  ends the coroutine and is recorded in `fault`.

| Actions | Code |
|---|---|
| `SendRequest`, `DecideRefused`, `Reject`, `Invalidate`, `Approve` | `decide` up to its first await, and what a client may send |
| `ApplyCheck`, `GitApply`, `WriteReceipt`, `SkipSmoke` | `PatchService.apply`, receipt |
| `SmokeSpawn`, `SmokeIdentity`, `SmokeVisible`, `SmokeEnd`, `SmokeFinished`, `SmokePassed`, `SmokeFailed` | `_run_smoke`, the smoke executor |
| `ReverseCheck`, `GitReverse` | `PatchService.reverse` |
| `FollowUp`, `ClearArtifacts`, `UnlinkDiff`, `Reinvestigate`, `CreateRun`, `MarkRun` | `follow_up` and the part it shares with a rolled-back smoke and a failed retry |
| `RetryStart`, `RetryRefused`, `Launch`, `Launched`, `LaunchFailed` | the end of `decide`, `JobSupervisor.retry`, `_launch` |
| `LogFails`, `Cancel`, `TrainingExit`, `MonitorFailure`, `MonitorSeal` | `_drain`, `cancel`, `_monitor` |
| `Observe` | `_observe_retry` |
| `WriteCapsule`, `HandleFailure`, `RetryFailed` | `handle_failure` |
| `TaskStart` ... `TaskDone`, `TaskRaises` | `_run_diagnosis`, `IncidentRuntime.run`, the two tools |
| `Crash`, `StopStarting`, `Close`, `Restart`, `RecoverInterrupted`, `RecoverFailure`, `RecoverIncident`, `RecoverDiagnosing`, `RecoverSmoke`, `Unresolve` | start-up, shutdown, `recover` |
| `UserEdit`, `SmokeExit`, `SmokeRestExit` | the world |

Abstractions: prompt, evidence and diff contents are data; a proposal is a number with the
file it was made from, its run, and three history bits (passed its preflight, approved by a
user, rolled back). Proposals and edits have pairwise distinct contents, so a hash test is
a test of equality. git may refuse at any time. The monitor's last writes
(`attempt.json`, `job.json`, event, pop) are one action. The observer may wake late, which
allows more than the code. `smoke_result` and `last_outcome` are read by no decision and
left out. A git command that survives a crash of the daemon is not modelled. The executor
waits for the command only, the leader of its group, and sends `SIGKILL` to the group only if
the leader outlives `SIGTERM` (`smoke.py:91-107`): whatever ends the command may leave
`smokeRest` behind (`LeavesRest`), and nothing waits for that.

### JobEventLog
The file is its rows that parse and what its end looks like: after a newline, after a row
without one, or torn. A row appended after an end that is not clean makes one line of both,
and everything from there on is invisible to readers; this is what the repair before the
first append of a daemon prevents. A crash inside `append_event` leaves any of the files of
`Interrupted`.

### EventDelivery
One job, one run, its clients. `sub[c][f]` is the subscription of client `c` for a scope
family `f` with its queue, the event its writer task has in hand, and its barrier; the
write lock is derived from who stands between write and drain. `request[c][r]` is an
`event.subscribe` command from the moment it is sent, with the cursor it was sent with.
`wire[c]` is what is written and not yet read: frames of the subscriptions, which share a
lock, and responses, which `SocketServer._send` writes beside it. `shown[c]` are the run
events a terminal has shown and `again[c]` those it has shown more than once: a terminal
knows an event of the job by its number and most of a run's by what they name, but
`step.started`, `llm.model_selected` and `llm.usage` (the numbers in `Plain`) it shows
whenever they come (`tui/app.py:1429-1446`).

| Actions | Code |
|---|---|
| `Publish` (in the publishers below), `WriterGet`, `WriterWrite`, `WriterDrained` | `handle`, `_evict_droppable`, `_disconnect`, `_write_loop` |
| `SendSubscribe`, `Subscribe`, `ReplayStep` | the client's command, `_subscribe_handler` up to its first await, `replay` and `activate`, the response |
| `Respond` | the answer to any other command |
| `Connect`, `Receive`, `SeeClosed`, `Drop` | `_connection_loop`, `_handle_event`, end of file, a broken connection |
| `JobStarts`, `JobEnds`, `PublishEnd` | `_launch` with the publication of job.started; `_monitor`, `_record_launch_failure`; `_watch_job`, `_observe_retry` |
| `PublishNote`, `PublishRun`, `PublishToken` | incident events, events of the run, display events |
| `Stop`, `Exit`, `Crash`, `Restart`, `Recover` | shutdown, death anywhere, start-up |

Abstractions: an event is its kind and number; "run" stands for the events of a run that
are not droppable, "token" for those that are (a droppable `tool.call_finished` is also in
the run's file; its replay is left out). A terminal that loses its connection comes back or
does not (`Lost`): `close()` lets the connection error of `wait_closed()` out of the `finally`
of `_connection_loop`, and then the worker that reconnects is over (`socket_client.py:42`,
`tui/app.py:641`). What a handler does besides answering is in the other modules. A connection is gone for daemon and client at
once: what a daemon does with a connection whose peer has already left reaches nobody. A
command that the daemon reads and its connection's end before it is handled is dropped with
the connection. A job that died before its first attempt was recorded ("dead") has one
event that names no attempt and is replayed to nobody. A new attempt starts after the
watcher of the attempt before has published its end: between them lies a diagnosis by the
model and an approval by the user, while the watcher needs two turns of the event loop.

### AgentLoop
One call of `AgentRunner.run_and_capture` with the profile of an incident. `messages` is
the conversation with the ids of its tool calls and results, `used` its serialised size;
`active`, `required`, `stage`, `called`, `succeeded` are `finalization_active`,
`required_tool`, `finalization_tool`, `required_called` and `required_succeeded`; `offered`
says which schemas the request carried. `diagnosis` and `proposal` are what
`incident.json` holds.

| Actions | Code |
|---|---|
| `StepBegins` | the head of the loop: last steps, reserve, hard limit |
| `NoProvider` | `AnthropicProvider.__init__` without a key |
| `Respond`, `StreamDropped`, `ProviderFails` | `AnthropicProvider.chat` and the handling of its result |
| `Refuse`, `Unrunnable`, `Invoke` | `_stage_error`, the checks of `invoke_tool`, its call |
| `ToolFailsOnce`, `Backoff`, `ToolFails`, `ReadDone` | the retries of `invoke_tool` |
| `SubmitDirect`, `SubmitFinal` | `SubmitDiagnosisTool.invoke`, `_advance_finalization` |
| `Propose`, `ProposeUnchecked`, `CheckPasses`, `CheckFails` | `ProposePatchTool.invoke` around its one await |
| `CutOff` | the branch for `max_tokens` |
| `StepEnds`, `RunEnds`, `Cancel` | the verdict, the runner's end, `CancelledError` |

`add_tool_result` is `AddResult`: a result that would reach the reserve (read-only tools
only) or exceed the limit gives way to a small structured error. Each branch is followed to
the end of the call, so an action is one call's whole treatment: result, reserve, stage and
the next call. The `SystemExit` of a provider without a key is no `Exception`, so none of the
handlers above it takes it (`runner.py:124`, `coordinator.py:273`): the daemon exits with the
run undecided (`pc` "dead"), and the next one starts it again.

Abstractions: sizes are in units of the smallest message (an answer, an error, a prompt to
go on), and a read-only result is one or several; the schemas of all tools weigh more than
the schema of one. `read_file` stands for the four read-only tools. A stop reason other than the three
named ones comes without tool calls and takes the branch of a text that was cut off. The
tool timeout of 120 s does not fall on the git check, whose commands are cut off after
30 s each. A cancellation arrives at an await that suspends. A run that recovery starts
again may find a direct diagnosis and an unchecked proposal of its first start. A failing
disk inside `clear_proposal` is left out. The search and evidence tests of the two tools
only decide whether the call returns an error, which it may always do.

### DaemonLifecycle
Several `cyan core start` and `cyan core stop` commands and the daemons. `lock` is the
holder of the flock on `cyan-core.lock`, a daemon or a command that probes it; `meta` says
whose record the file holds; `port` whose daemon listens. `at[d]` is where `CoreApp.run` of
the daemon spawned by start command `d` stands, `down` and `event` are its
`_shutting_down` and `_shutdown_event`, `job` its one `job.start` request. `start[c]` and
`stop[s]` are where the commands stand or what they printed; `asked` and `request` are a
stop command's connection and its `core.shutdown` in the daemon.

| Actions | Code |
|---|---|
| `FirstPing`, `DiscoverProbe`, `DiscoverRelease`, `Look` | `_ping_check`, `_discover_running_daemon` |
| `SlotPing`, `SlotProbe`, `SlotRelease`, `Spawn` | `_wait_for_start_slot`, `Popen` |
| `WaitPing`, `WaitProbe`, `WaitRelease`, `Confirm`, `StartTimeout` | `_wait_for_started`, the deadline |
| `Acquire`, `TruncateOld`, `Record` | `_acquire_daemon_lock` |
| `TryPort`, `Bind` | `SocketServer.start` |
| `Signal`, `Wake`, `StopAccepting`, `CloseClients`, `Sweep`, `Truncate`, `Unlock` | the end of `CoreApp.run` |
| `JobRequest`, `JobLock`, `JobLaunch`, `JobRuns`, `JobFails`, `JobExits` | `_start_job`, `JobSupervisor.start` |
| `HandleShutdown`, `HandlerCloses`, `Answer`, `Timer` | `_shutdown_handler` |
| `Connect`, `StopReads`, `StopGivesUp`, `StopPing`, `StopTimeout` | `cmd_core_stop` |
| `Die` | a kill, or an exception that ends the process |

A probe is two actions, as it holds the lock in between. The start lock is derived from who
is inside it. Abstractions: all read one configuration, so there is one endpoint; nobody but
a daemon listens there or takes the lock. Recovery lies between `Record` and `TryPort` and
changes none of this state. `poll()` and the ping of one round of `_wait_for_started` are
one action: only a refused ping uses the poll, and a child found dead by it had exited
before. A process that dies takes its memory along (`job` is "none" again): the training it
leaves behind is found by the recovery of the next daemon, which is `IncidentCoordinator`'s
subject. A record that cannot be parsed counts as none.

### JobSupervisor
Any number of jobs of one supervisor. **Disk**: `job`, `attempt`, `failure`, `events`, as the
supervisor leaves them. **Processes**: `group[j][a]` is the process group of an attempt: its
leader, alive or what it exited with, and what else lives of it: nothing, some that hold the
output pipes, or only strays, which have redirected their output. The supervisor waits for
the leader and the pipes, and signals the group only while the leader lives
(`supervisor.py:131-137`, `268-271`), so that strays outlive it unless it is killed. A process
that has moved to a session of its own is not in the group and left out.
**Daemon**: `monitor` is `_running` (a monitor that has died of an exception stays in it),
`launch` the holder of `_lock`, `handling` the attempts whose failure callback has not
returned, `cancel[j][c]` the calls of `cancel`, of a client and of the shutdown.

| Actions | Code |
|---|---|
| `Start`, `Retry`, `Spawn`, `ExecFails`, `Identify` | `start`, `retry`, `_launch`, `_record_launch_failure` |
| `LogFails`, `LogGraceEnds`, `MonitorEnds`, `CallbackEnds` | `_drain`, `_monitor` and what it awaits last |
| `Cancel`, `CancelGraceEnds`, `CancelReturns` | `cancel`, `_cancel` and their five seconds |
| `StopStarting`, `Sweep`, `Exit` | the end of `CoreApp.run` |
| `Restart`, `Terminate`, `Seal`, `Serve` | `recover_interrupted` of supervisor and store, `terminate_owned_process_group` |
| `LeaderExits`, `RestExits`, `StraysExit`, `Crash` | the world |

A stretch of writes is one action that takes how many of its writes were made, `k`: all of
them, or fewer and then the daemon dies or the write raises. An OSError of a write ends the
coroutine as it does in the code: `_launch` gives its lock back, `_monitor` leaves its entry
in `_running`, recovery ends the daemon. The history variable `damaged` has the jobs of
which this daemon has failed to write a file: what their records say is stale until a
recovery. Abstractions: the failure callback and the watcher are only times that pass; of
the identity (pid, start time, command) it matters whether a recovery can tell the process;
`SIGTERM` ends a process when it wants to.

### LogEvidence
Pure algorithms, no variables. A log is a sequence of lines, a line of bytes; letters stand
for what the expressions of the selector look for ("T" opens a traceback, "F" is a frame in
the workspace, "E" the name of an exception, "?" a byte that is not UTF-8 and takes three when
it is rendered). `SelectEvidence` is `select_evidence` with `_scan` (`Candidates`), the order
(`Precedes`), the room a traceback leaves (`Reserved`) and the cutting (`Fitted`, whose
loop is a recursive function); `SmokeBlocks` is `select_smoke_evidence`, `Snapshots` the tails
of the failure capsule, `SearchFile` `_search_file` with its chunks and overlap.
Abstractions: the header of a block has a constant length; hashes and metrics are left out.

### ReplacementDiff
Pure algorithms, no variables. A text is a sequence of characters, some of which end a line
for git, or only for Python, or make a line look like a header (`--`, `++`). `Unique`,
`Replaced` and `Diff` are `propose_patch` and `build_replacement_diff`; `Parses` and
`AppliedToText` are the parser and `apply_unified_diff_to_text`; `Review` is what the user
is shown; `GitApply` and `GitReverse` are git's, external. What difflib's `SequenceMatcher`
finds alike in the two texts is a constant, `Script`: any sequence of lines kept, taken out
and put in that makes one text of the other (`IsScript`). `Near` and `Hunk` group it as
`get_grouped_opcodes` does, so that a diff has as many hunks as there are changes more than
twice the context apart. git takes the hunks in turn, each to the place that costs least
(`Placed`), never over lines that an earlier one has put there, and refuses all if one fits
nowhere (`Patched`). The operators were compared with the functions of the code and with git
on some thousand texts, with one hunk and with several.

### AgentTools
One investigation: the logs and the smoke logs do not change, `file` is the one file of the
workspace, `observed` is `ObservedEvidence`, `shown` the bytes and lines the agent was in fact
shown, `withheld` those of the one result that `add_tool_result` has replaced by an error
after its tool had registered it.

| Actions | Code |
|---|---|
| `Init` | `build_incident_profile`: the prompt |
| `ReadTail`, `ReadRange`, `SearchLog` | `ReadJobLogTool` |
| `ReadFile`, `SearchText` | `read_file`, `search_text` |
| `Show` (in each of these) | the references a tool registers, `add_tool_result`, the stage after the reserve |
| `SubmitDiagnosis` | `SubmitDiagnosisTool` with its references |
| `Propose`, `ProposeInVain`, `Mismatch` | `ProposePatchTool` |
| `Approve`, `Apply`, `BuildReceipt` | `PatchService.apply`: the last comparison of the hash, git's run, the receipt |
| `Withdraw`, `Undo`, `RolledBack` | `reverse`: the comparison, git's run, the comparison after it |
| `Edit` | the user, between any two of these |

References are of ranges of one source, and `Observed` accepts what lies within one that was
observed. A result that does not leave the reserve is the last of a tool that reads: `reading`
is then false, as `_stage_error` refuses such tools. `pending` says what apply or reverse will
do next, after its await; `raced` that the user has edited the file during one of these awaits. A
user edit adds a line at the beginning, once: the hash differs, and each hunk would fit one
line lower. `Replaces` changes one character of SEARCH, there or at each place of the same
character, which is how a diff gets two hunks.

## 4. Runs

The incident runs use `MCIncident`, those of `AgentTools` `MCTools`, and `MCStreams` its own
module, for its symmetry; the other modules need none. `CHECK_DEADLOCK FALSE` everywhere:
when the bounds on requests are used up the daemon waits for its user, as it should.

Bounds: `MaxCalls` client requests, `MaxCrashes`, `MaxEdits`, `MaxProposals`; the numbers of
attempts and runs follow from them. Two slots for diagnosis tasks are enough to see two
tasks on one incident; a third needs another crash between open and recovery. `GitHead`
says whether the workspace is a git repository when the capsule is taken.

| Run | Instance | Shows |
|---|---|---|
| `MCApproval` | 2 clients, 3 requests, 1 edit, 2 proposals, git or not, no crash (1.0 M states) | approve, reject and follow up race in every order, through apply, smoke, rollback and retry: a second request arrives while the first is anywhere in `decide`, a follow-up replaces the proposal a client was shown |
| `MCRecovery` | 1 client, 1 request, 2 proposals, 2 crashes (0.8 M states) | the first crash falls anywhere, the second anywhere in the recovery or after it |
| `MCProgress` | 1 client, 2 requests, 1 edit, 2 proposals, fair | the three liveness properties |
| `MCUnapproved` | 1 crash | finding 1 |
| `MCStuckRetry` | no crash, fair | finding 2 |
| `MCDelivery` | 1 terminal, 2 subscriptions to its job on a connection, queue of 1, 1 attempt, 1 run event, a plain one, 1 crash, stop or broken connection, fair | replay against live events, replacement, overflow, reconnection with a cursor, torn tails; everything on disk arrives |
| `MCStreams` | 1 terminal with job and run, 2 commands under way and the response of another, 1 VS Code window, queue of 2, one display and one incident event, two run events | one transport for two subscriptions and the responses, two commands that replace each other, barriers, eviction, a subscription without replay |
| `MCAgent` | 4 steps, the last 2 reserved, 2 calls in a response, limit 14, reserve 5, first prompt of 1, 6 or 12 units, results of 1 or 4, git or not, fair (0.68 M states) | every way into the finalisation: the last steps, the head of a step, a result in the middle of a response, a response that was cut off; a prompt that is too long from the start; every run ends with a verdict |
| `MCDaemon` | 2 start commands, 1 stop command, 1 death, 1 daemon with a training, fair (0.2 M states) | start against start, start against stop, a stop or a signal while a training is being launched, a daemon that dies at any step |
| `MCJobs` | 1 job, 2 attempts, 2 daemons that serve with any number of crashes before the last serves, 1 OSError, fair (0.3 M states) | a crash or an error after each write of launch, monitor and recovery; cancel, shutdown and recovery against processes that ignore `SIGTERM` or leave descendants |
| `MCTools` | every log of up to 4 lines of 5 kinds with 3 other streams, a log of two streams to read and search, every file of up to 2 lines of 3 kinds with 3 ends and two of five lines that repeat, up to 3 calls (0.65 M states) | selection, citation, search, results that are replaced; each replacement of each part of a file, in one hunk or two, proposed, edited, applied, rolled back, and edited meanwhile |
| `MCDiff` | a file with a form feed | finding 3 |

The two runs of `EventDelivery` share the work: with one command under way and a crash, a
stop or a broken connection anywhere, `MCDelivery` is about what arrives; with two commands
and responses, without failures, `MCStreams` is about what the daemon holds. The proofs of
section 6 are about both at once. A queue of one or two overflows with as many events as
these instances publish; the code's 256 differs only in how long it takes. `HighWater` 0 makes every drain wait for the reader,
which is the slowest client there is. Clients do not influence each other except through
`handle`, which treats them one by one, so one client per run is enough.

Four steps of the agent are two before the reserved ones, room for a read that leads to the
finalisation and a step after it; the code's twelve repeat these. Two calls in a response
are a call that changes the stage and one that was chosen before. The sizes are such that
each of soft limit and hard limit can be met at each place where it is tested.

Two start commands make two daemons, so that one comes while the other starts, serves,
stops or is dead. A third would find the same three things (lock, record, endpoint) in the
same states; the proofs of section 6 need no bound. One death is enough to leave a stale
record and a lock that the system gave back, and one stop command races the signal, whose
effect is that of a second stop.

One job is enough for `MCJobs` because jobs share no more than the launch lock and the sweep,
which treats them one by one; the proofs of section 6 are about any number. The second
attempt is needed for a retry while the callback of the first is out, the second daemon for
what recovery finds. The descendant of a leader, the crash inside recovery and the daemon
after that need no bound.

The constants of `MCTools` keep the order of the code's: the tail is shorter than a block,
a block shorter than the evidence, a chunk of a search shorter than a query, the half of a
slice shorter than some queries. A traceback of four lines is already longer than `BlockBytes`
and leaves too little of the evidence for its exception, unless room was kept. One line of
context is enough to have files in which a hunk begins at the top, ends at the end, fits in
a second place, or is followed by another. `MCScript` is `SequenceMatcher` without its
heuristic for popular lines: the longest block, the first of them, and so before and behind
it.

`MCApproval` has no crash because one crash breaks part of what it states: recovery may
start two tasks for one incident (finding 1), and then `ApprovedOnly`, `OfferIsFresh`,
`OneRuntime`, `NoFault` and `ReceiptMatches` fail too. The properties of
`MCRecovery` hold in spite of it.

Safety (what is checked, and what it is about):

* `ApprovedOnly`, `OfferIsFresh`: what stands in the workspace was approved; what is offered
  is complete, of the latest run and, in a git workspace, passed its preflight.
* `ReceiptMatches`, `RolledBackIsGone`: the receipt that licenses a rollback names the
  patch that is there; after a rollback that patch is gone from file and offer.
* `NoFault`: every status test before an await still holds when the event is sent.
* `OneRuntime`: one investigation at a time.
* `SmokeBeforeRetry`, `SmokeIsRecorded`: the smoke command is dead before the retry runs,
  and known on disk before it is shown. (What it has started and left may run on.)
* `ProposalHasDiff`: the snapshot never points at a deleted diff.
* `DiagnosingHasTask`: a serving daemon never shows diagnosing with nobody at work.
* `LifecycleSpec`: the refinement, of which `TerminalForever` is a theorem.
* `InvestigationEnds`, `ApprovalIsCarriedOut`, `RetryIsSettledByExit`: a diagnosis, an
  approval and a retry whose training exits come to an end.
* `SeqsAreContiguous`: row i has number i, and no acknowledged event becomes unreadable.
* `NoStateLost`: what a live subscription holds is exactly what was published to it and not
  yet written.
* `BarrierWillLift`: a held back subscription has a command that will release it.
* `BufferIsBounded`: one frame past the high-water mark, one more for each subscription
  that was replaced while its writer waited in drain, and one response for each command of
  the client, which nothing bounds but the client itself.
* `ChannelSpec`: what a terminal has seen of a stream grows by one, never past the disk; only
  plain events of a run are shown again.
* `JobEventsArrive`: liveness, as long as the daemon serves and the terminal's connection
  loop goes on.
* `RequestsArePaired`: in every request each call of an earlier response is answered once, in
  order, by the next message, and nothing else is.
* `OnlyRequiredRuns`: once in its finalisation, a run runs no other tool.
* `DirectNeedsProposal`: what is on disk fits the verdict (`ProposalsHold` proves it together
  with `ReadyIsFinal`: a patch that is ready ends the run).
* `StatusIsFinal`, `RunIsDecided`: one verdict, and it comes, unless the provider's
  constructor takes the daemon down before the first step.
* `OneDaemon`: from its flock to its unlock a daemon is alone, and only it listens.
* `ServingIsRecorded`: who finds the endpoint open finds the right record.
* `NoOrphan`, `NothingStartsAfterStop`: the list of jobs to cancel misses no training, and
  none starts after the stop was reported.
* `StartEnds`, `ShutdownCompletes`: a start command ends without its timeout; a daemon that
  refuses starts ends.
* `SealedIsOver`: of an attempt recorded as succeeded, failed or cancelled no leader is left
  and nobody who holds its output; nobody at all, if the leader was killed. Strays may be left
  of the others, and anything of an interrupted one: finding list below.
* `OneLiveAttempt`: one daemon never has two living leaders of a job whose files it could
  write.
* `ActiveIsWatched`: what a serving daemon shows as starting or running is being launched or
  watched, and the other way round; so no crash leaves a job active for ever.
* `RecordsAgree`: the four files of a job tell the same end of each attempt, once.
* `RequestsEnd`: liveness, a cancellation returns and a daemon that stops exits.
* `CitedWasRead`: what a diagnosis cites was read, as it is in the log or file cited, and shown
  unless it is of the one result that was replaced.
* `ExceptionIsKept`: the budget holds, and the last exception of the only traceback is in it.
* `SearchFinds`: a search answers with the first match from the offset on, and shows it.
* `OfferIsExact`: file after apply, review and request are one text, and a rollback restores
  the file, whatever the hunks, for files that git and Python cut into the same lines and that
  nobody edits between a comparison of the hash and the end of git's run.

### Fairness
Each coroutine is weakly fair: asyncio resumes what is ready, git is bounded by a 30 s
timeout, the smoke by `timeout_s`. `AgentEnd` is strongly fair: the agent has a finite
number of steps and a token budget, so it cannot go on proposing for ever. `TrainingExit`
is weakly fair: the liveness of a retry is claimed only of trainings that end. Clients,
users, log failures, crashes and restarts have no fairness. In `EventDelivery` the writer
tasks and handlers are weakly fair (the event loop resumes what is ready, and asyncio's
lock is first come, first served), and so is a terminal as long as its connection loop goes
on: it retries every half second, subscribes on each connection and reads. When a connection
is lost the loop may be over instead (`Lost`), and no fairness brings it back. In `AgentLoop` the program is weakly
fair as a whole: the provider's client has a timeout, and so have `invoke_tool`
and the git commands, so that every await ends in an answer or an error, whichever comes.
In the incident runs the `SystemExit` of a provider without a key counts as a crash, of
which `MCProgress` has none. In `DaemonLifecycle`
each start command is weakly fair, as a process that the system runs, and so are the daemons;
one condition serves all their steps, because no daemon repeats one and so none of them can
be put off for ever by the others. Stop commands, deadlines, signals, deaths, requests and
the end of a training have no fairness: `StartEnds` and `ShutdownCompletes` do without. In `JobSupervisor` a coroutine that can run is
resumed and a wait with a timeout ends: launch, monitor, cancel, sweep, exit and recovery
are weakly fair. No leader needs to end, of `SIGTERM` or by itself. That a descendant which has
outlived its leader and holds the pipes ends at some time (`RestExits`) is an assumption, which
nothing in the code makes true: without it `RequestsEnd` fails, as section 5 says. Strays need
not end.

## 5. Findings

Each has a run that ends with a counterexample.

1. *Two tasks after a crash* (`MCUnapproved`). `recover()` starts the run of a fresh failure
   twice, and `decide` compares the request with `active_proposal_id` but applies
   `incident.proposal`, so that a patch is applied which nobody approved; the repository's
   `README.md:5` says that the user must approve a patch explicitly.
2. *Stuck retry* (`MCStuckRetry`). A `supervisor_error` has a return code and no callback.
3. *Another text than the one proposed* (`MCDiff`). `build_replacement_diff` cuts the file
   with `splitlines(keepends=True)`, which ends a line at a form feed too (or `\v`, `\x1c`,
   U+2028...). Such a piece does not end with a line feed and gets a marker that says the file
   ends there without one, in the middle of a hunk. git accepts the hunk and drops the line
   end, which neither the proposal nor the review shows.

Smaller disagreements with a document or the comment of a test, which the models reach and
no run is kept for:

* A read that is refused after a direct diagnosis in the same response can still hit the
  reserve, and the run must diagnose again (`agent/loop.py:193`).
* Two start commands spawn; the ping of one is answered by the other's daemon while its own
  child has not come to the lock yet, and it prints "started" with the pid of a child that is
  about to exit (`cli/commands/core.py:156`). The two are told apart by a wait of 0.05 s,
  less than the import of the program may take.
* A crash during a preflight leaves a proposal that has not passed it; the resumed run may
  end without another, and that one is offered (`training/incidents/tools.py:294`;
  `RUNBOOK.md:70` says the diff is preflight-valid). `OfferIsFresh` is therefore
  checked without crashes.
* A `git apply` that changes the file and then fails or is killed leaves the patch in the
  workspace under `stale` (`training/incidents/patch.py:431`; `RUNBOOK.md:74` says not
  applied).
* A crash inside `follow_up`, after the artifacts were cleared and before the status moved,
  leaves an incident awaiting approval with nothing to approve, and recovery keeps it
  (`training/incidents/coordinator.py:656`; `RUNBOOK.md:70` says that diagnosis and diff
  are ready).
* `core stop` prints "stopped" when the endpoint refuses, which is before the coroutines
  and jobs are cleaned up and the lock is released (`cli/commands/core.py:227`; line 318
  says that it confirms the end of the cleanup).
* `core stop` prints "not running" when the answer takes longer than 3 s, as it may while a
  start holds the start lock: the `TimeoutError` is an `OSError` and is caught with the
  refused connections (`cli/commands/core.py:322`).
* The probe of the lock is said to only look whether a daemon may start
  (`cli/commands/core.py:44`), but while it lasts a daemon that asks for the lock exits as
  already running (`service/app.py:167`).
* A text that was cut off at `max_tokens` is followed by nothing, so that the next request
  ends with an assistant message and a second one follows it (`agent/loop.py:229`;
  `tests/unit/test_context.py:97` says that the roles alternate).
* A step whose model call fails publishes no `step.finished` (`agent/loop.py:146`;
  `tests/unit/test_loop.py:254` says that each step does). The model has no events.
* A crash between the spawn of a training and the writing of its pid leaves a process that
  no recovery can find: the attempt is sealed as interrupted and the process runs on, beside
  a later retry (`training/jobs/supervisor.py:110`). So does one whose group
  `terminate_owned_process_group` cannot identify or end: its result is not looked at.
  `SealedIsOver` is therefore not about "interrupted", `OneLiveAttempt` not about processes
  of a former daemon.
* An OSError after the first write of a launch leaves job and attempt active on disk with
  nobody who watches them, and a process if it comes after the spawn; a restart seals them
  (`training/jobs/supervisor.py:159`). One inside the monitor leaves the job in `_running`, so
  that a retry is refused until then (`supervisor.py:331`).
* A retry that has passed `_accepting_starts` when the shutdown begins is launched after the
  sweep has looked, and its process outlives the daemon or is killed with its transport
  (`service/app.py:586`): the retry of `decide` does not take the start lock.
* The monitor, and with it `cancel` and the shutdown, waits for the end of the output; a
  descendant that has inherited the pipes keeps them all waiting unless the leader has to be
  killed (`supervisor.py:271`). One that has redirected its output is waited for by nobody: it
  outlives a sealed attempt, a cancelled one too if the leader ends of the `SIGTERM`, and runs
  beside the retry.
* A smoke command that ends leaves its descendants running beside the retried training in the
  same workspace (`smoke.py:91-107`).
* An edit between the last comparison of the hash and git's run is patched with the rest: the
  receipt takes the edited file for the patched one (`patch.py:426-432`), and a rollback may
  reverse in an edited file and then report that it is blocked (`patch.py:447-449`).
* A range that was read, and whose result was replaced by an error, can be cited although the
  agent never saw it (`log_tool.py:243`, `context.py:71-95`; `profile.py:54` speaks of what a
  tool returned).
* A terminal whose daemon goes away with the connection broken may not reconnect
  (`socket_client.py:42` catches a `TimeoutError` only; `tui/app.py:641`), and one that does
  shows the steps, models and token counts of the run again (`tui/app.py:1429-1446`).
* Responses are not held back by the lock of the subscriptions (`socket_server.py:383`): what
  the daemon buffers for a client that sends commands and does not read grows with each.
* A daemon without `ANTHROPIC_API_KEY` dies of the first incident, and again at each start, as
  recovery starts its run (`agent/llm/provider.py:51`).
* A daemon that dies between `job.json` and the event of an end leaves a job whose events
  never tell it: recovery looks at active jobs only. `RecordsAgree` says "at most one end".
* The review of a file with CRLF ends is refused, because `read_text` translates them and the
  diff does not (`training/incidents/patch.py:414`;
  `tests/unit/test_incident_patch.py:136` proposes for one), though git applies it.
* A line that begins with `++ ` is added by git but its review is refused; one that begins
  with `-- ` cannot be removed, because the parser takes it for a header, though git would do it;
  a `-- q` that is replaced by `++ q` makes the proposal name another file.
* A SEARCH whose two matches overlap counts as unique, because `str.count` counts those that
  do not; the first is replaced.
* The evidence of a smoke test exceeds its budget if it is not UTF-8: the bytes are measured
  before they are decoded. `ExceptionIsKept` leaves that out, and, for its second part, the
  case of two tracebacks: the first may use up the room that was kept for the exception of
  the second.
* `read_file` numbers lines as git does, `search_text` and the snippets as `splitlines` does, so
  that the two name different lines of a file with a form feed. `CitedWasRead` leaves
  such files out.

## 6. Proofs

The theorems hold for every value of the constants that satisfies `ConstantsAssumption`
(finite disjoint sets of clients and task slots, natural bounds), crashes included.

* `IncidentLifecycle_proofs`: `TypeCorrect`, `LockHolds`, `Refinement`, `TerminalStays`. The
  types have one lemma per group of actions; `Dispatch`, `Spawn` and `Goto` are proved once
  and cited, here and in the modules after it. The refinement is
  not inductive by itself: an unchecked write such as `Unresolve`, or `Target` in `Approve`
  and `Observe`, is an edge of the table only because of where the incident stands when it
  happens. `LInv` says so: nobody is served while the daemon is down or recovering, what a
  coroutine that holds the lock finds (`LockPins`), that the lock has one holder
  (`LockExclusive`), that no task runs before recovery has spawned it, and which records are
  left of a smoke and of a quarantine. Every step is then a step of `IncidentLifecycle` or a
  stutter.

* `IncidentRecovery_proofs`: `EventsCarried`, `SmokeRecorded`, `DiagnosingIsServed`,
  `PatchesStack`, `RolledBackStaysGone`, `SnapshotHasDiff`, all with crashes between any two
  writes. A section of frames first says what each kind of step leaves alone; then each
  invariant is proved with the steps that do not leave its variables alone.
  * `EInv`: the event a coroutine carries to its dispatch is one its label allows. Without it
    nothing ties the outcome of a smoke to the end of its process.
  * `SInv` for `SmokeIsRecorded`: a visible smoke has a persisted identity, and a coroutine
    past the end of the smoke has seen the process dead.
  * `DiagnosingHasTask` needs that recovery is over only when each incident it found
    diagnosing has been given its task.
  * `RInv` for `RolledBackIsGone` and `ProposalHasDiff`: proposals build on one another in
    the order of their numbers, only the top one is in the file or can be reversed, one that
    was reversed is not above what is active; and a coroutine between the clearing of the
    metadata and the unlink, or between the writing of the diff and of its metadata, is the
    only one between two awaits.

* `IncidentApproval_proofs`: `ControlHolds`, `EventsAccepted`, `OneInvestigates`,
  `SmokeHasOwner`, `SmokeThenRetry`, `OffersHold`, `OfferStaysFresh`, `ApprovalHolds`,
  `AppliedWasApproved`, `ReceiptNamesPatch`. They are of the form
  `Spec => [](crashes = 0 => P)`: for any number of clients, tasks, runs, retries and edits,
  in the life of one daemon. `crashes` counts the crashes and never falls. The hypothesis is
  not a convenience. After a crash recovery may spawn a second task for an incident that has
  one (section 5), a preflight may be skipped, and some of these are then false, which
  `MCUnapproved` shows. Where no counterexample is known after a crash the property that
  survives is in `IncidentRecovery_proofs`. Four invariants, each used by the next:
  `NInv` (the status tells which coroutine may be at which label, and one task is alive),
  `SmokeOwned` (a smoke that runs is waited for by a request with the lock), `OInv` (what a
  task has in hand is what the artifacts of its run say) and `PInv` (what a request past its
  approval knows of the patch and of what it was built on).

* `EventDelivery_proofs`: `NumberingHolds`, `SubscriptionIsServed`, `BufferHolds`,
  `NothingLost`, and `SeenInOrder`, the refinement of `EventChannel`, for any number of
  clients, commands, attempts, crashes and every size of the queues.
  * `LogInv`: an append takes its number from the cache, so the invariant adds that a filled
    cache agrees with a file that ends cleanly.
  * `DInv` is about each subscription: nothing is left of a connection that is gone
    (`Connected`), a barrier has a command that will lift it (`Barred`), a command in replay
    owns the subscription it made or has been replaced (`OwnIds`), what is owed is what the
    writer holds, then what is queued (`Lossless`); for the bound on the buffer, how many
    commands were answered and how many frames may be under way (`Single`, `Counted`,
    `Bounded`).
  * `CInv` is about a stream and a terminal: what the terminal knows, what is on the wire, what
    the writer has in hand, what the replay has yet to write and what is queued follow each
    other without a gap (`Feed`), and if the subscription lives they reach to the last number
    published; a command still under way asks from no later than what the terminal knows
    (`Asks`); an end that was published is the end of the log (`Ended`). What is read next is
    then the next number, or known already, which is the step of the channel, or one of the
    plain events again, which is the other.
  * The few facts that need induction on numbers (of `EventsAfter`, the frames of a replay)
    are stated for a set of numbers, not for a predicate, so that they need no operator as a
    parameter: a set that contains 0 and with each number the next contains all, from the
    least number outside it.

* `AgentLoop_proofs`: `TypesHold`, `RequiredRuns`, `ProposalsHold`, `VerdictIsFinal`, from
  `AgentAssumption` (natural numbers, at least one step). They share one inductive
  invariant, because they rest on each other: `step <= MaxSteps` on the verdict at the end
  of each step, the verdict on the stage, the stage on the response being worked on
  (`StageInv`: it is the required one, except in a response that was cut off, which runs
  nothing), and `DirectNeedsProposal` on the finalisation that a direct diagnosis keeps
  going. `CutOffHolds`, proved first, makes the last branch of the loop ("keep the stage")
  a branch that changes nothing: `CorrectedIsRequired`.
  In the same module `RequestsHold`: between two requests the conversation is settled.
  While a response is worked on, either none of its calls is answered, or the last message
  answers some and what is pending is the rest (`Fresh`, `Partial`); `JoinedPairs` says
  that one more result keeps this, whatever its content, and `PartialSettles` that after
  the last one the conversation is settled again.

* `DaemonLifecycle_proofs`: `TypesHold`, `LockProtects`, `RecordIsRight`, `ShutdownSweeps`,
  `StopIsFinal`, from `LifecycleAssumption` (natural bounds, and
  nobody is not a process). `OneDaemon` needs that a command that probes holds the lock
  (`CliInv`), or its release could give back a daemon's. `RecordInv` says that the record is
  a daemon's own from its writing to its emptying, because nobody writes without the lock.
  `JobInv` ties a start inside the start lock to a daemon that has not closed its listener
  under that lock, from which `NoOrphan` follows; `RequestInv` says that a stop command with
  an answer, or a handler past its first line, belongs to a daemon that is down or dead, from
  which `StopIsFinal` follows for each step.

* `JobSupervisor_proofs`: `TypesHold`, `SealedOver`, `OneLive`, `EndIsForever`, from
  `SupervisorAssumption` (natural bounds) for any set of jobs. `SealedIsOver` is broken by
  whoever writes an end too early, and there are four who write ends. Of the invariant,
  `LaunchInv` says what the holder of the lock has found and left (no monitor, the attempt is
  the job's current one, without a failure, and has no process before the spawn), `WatchInv`
  that a monitor watches the current attempt, recorded as running without a failure,
  `SealInv` that an attempt with an end or a failure on disk has no leader and no holder of the
  pipes left, which is why recovery may call it failed, and that one not yet begun has neither;
  `LiveInv` adds for `OneLiveAttempt` that a leader of this daemon is the one of its launch or
  of its monitor. Each lemma about an action proves the
  invariant and `EndsStay`, the step of `EndIsForever`, together, since both are about the
  same writes.
  A second invariant, `BInv`, rests on the first and gives `RecordsHold` and `ActiveWatched`.
  `Books` says what the files say of one another after each prefix of the writes of a launch,
  an end and a recovery, with a write that raised among them; `Shown` what a serving daemon
  then knows of the jobs recorded as starting or running.

* `AgentTools_proofs`: `SearchIsExact`, `ExceptionStays`, `CitationsHold`, for every log, file,
  budget, chunk size, size of the context and script of edits, from `EvidenceAssumption`,
  `DiffAssumption` and `ToolsAssumption` (the schemas of the tools refuse an empty query,
  `log_tool.py:107`, and a line or a count below 1, `read_file.py:23`; logs and files are
  texts).
  * The loop of `_search_file` is a recursive function, and TLA+ gives such a function a value
    only if one exists: `RoundsExist` shows that, and `RoundsFind` what it returns, both by
    induction on the bytes that are left. `WindowMoves` is why no match is missed: the next
    window begins where this one does, or one byte less than a query before its end.
  * A fold of the community modules is a recursive function too: `FoldingExists` and
    `FoldOfFolding` turn one into a function on the lines or candidates seen so far. So
    `ScanInv` says of `_scan` that what it has found after each line is a piece of the log,
    `SortedIs` that the candidates are taken in the order of their kinds, and `Selection` that
    the blocks chosen keep to the budget. For `ExceptionIsKept`, `Leaves` is the invariant of
    the selection: what is taken before the exception leaves it room, because `_reserved`
    kept that room when the traceback was cut (`TracebackTaken`, `ExceptionTaken`).
  * `ReferenceInv` says that what each registered reference names was read, as it is in the
    log or file, and so what a diagnosis cites: it is among what was shown and what was withheld.
    For a log, a tool reads a slice of the bytes and registers where it is (`SliceCovered`); for
    a file, the lines of a slice that begins with a line are the lines of the file, the last
    perhaps cut (`LinesOfSlice`), and Python and git number them alike without a form feed
    (`PythonAsGit`). `CoveredWithin` is the step of `submit_diagnosis`. `FileInv` keeps the file a
    text through edits, git's run and rollback, which needs that each hunk git takes leaves lines
    (`GitFolds`, by induction on the hunks).

Only model-checked: all liveness, which the proof system does not reach (fairness, ENABLED):
`JobEventsArrive`, `RequestsEnd`, `StartEnds`, `ShutdownCompletes`, `RunIsDecided` and the
properties of `MCProgress`; and `OfferIsExact`, whose proof would have to follow git's search
for a place over any number of hunks in a file that moves under it: after k hunks the file is
the new text as far as the k-th, and the old one behind it, where the next hunk fits at the
line it names. Only proved: the type invariants, `TerminalForever` and
`FinalIsForever`, which no run repeats.

## 7. Not modelled, and why

Listed with the reason in `PROJECT.json`. Tracing, the provider's protocol, configuration and
the schemas of messages are I/O and conversion without decisions that outlive a call; the TUI and
the VS Code extension are presentation, but for the cursor and reconnection in
`EventDelivery`; `launch.py` is a parser of command lines, whose result is data to all that
is modelled; benchmarks and scripts are not part of the daemon. Inside the modelled parts
these are left out: a git command that survives a crash of the daemon; a failing disk
outside the supervisor; several changed files in one proposal, which `propose_patch` does not
make; a process that has left the group of its training or smoke command (`setsid`), which
nobody can signal; what git does to a file that is edited between its reading and its
writing, within its run; logs that grow while they are read, which a failed attempt's do
not.
