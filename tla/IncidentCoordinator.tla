------------------------ MODULE IncidentCoordinator ------------------------
(***************************************************************************)
(* One training job, its attempts, and the incident the daemon keeps for   *)
(* it: IncidentCoordinator with the parts of IncidentRuntime, the agent's  *)
(* two writing tools, PatchService, the smoke executor and the job         *)
(* supervisor that change the state it reads.                              *)
(*                                                                         *)
(* The daemon is one asyncio event loop.  A process of the model is a      *)
(* coroutine: a client request, the monitor of the current attempt (which  *)
(* also runs start-up recovery), or one diagnosis task.  A coroutine can   *)
(* be interleaved only where it awaits, but the daemon can crash between   *)
(* any two writes to disk.  So every persistent write is an action, and    *)
(* while some coroutine is at a label outside Await no other may step.     *)
(***************************************************************************)
EXTENDS IncidentFSM, Integers, FiniteSets

CONSTANTS
    Client,         \* connections that may send decide and follow_up
    Runtime,        \* slots for diagnosis tasks alive at the same time
    GitHead,        \* what capturing git_head may yield: subset of {"git", "plain"}
    MaxCalls,       \* bound: client requests in a behaviour
    MaxCrashes,     \* bound: crashes or stops of the daemon
    MaxEdits,       \* bound: edits of the target file by the user
    MaxProposals    \* bound: patches the agent proposes

Monitor == "monitor"
Caller == Client \cup {Monitor}
Proc == Caller \cup Runtime

ASSUME ConstantsAssumption ==
    /\ IsFiniteSet(Client) /\ IsFiniteSet(Runtime)
    /\ Client \cap Runtime = {} /\ Monitor \notin Client \cup Runtime
    /\ GitHead \subseteq {"git", "plain"} /\ GitHead # {}
    /\ MaxCalls \in Nat /\ MaxCrashes \in Nat /\ MaxEdits \in Nat
    /\ MaxProposals \in Nat

MaxAttempts == 1 + MaxCalls
MaxRuns     == 1 + MaxCalls + MaxCrashes
Attempts    == 1 .. MaxAttempts
Runs        == 1 .. MaxRuns
Proposals   == 1 .. MaxProposals

VARIABLES
    daemon,     \* "up", "stopping", "down" or "recovering"
    co,         \* the coroutines: where each is, and its local variables
    mon,        \* the attempt the monitor watches, its cancel and log-error flags
    observers,  \* attempts with an _observe_retry task
    job,        \* disk: job.json
    attempt,    \* disk: attempt.json and failure.json of each attempt
    inc,        \* disk: incident.json ("none" before it exists)
    diff,       \* disk: proposal.diff, the proposal whose text it holds, 0 absent
    run,        \* disk: run.json of each run
    file,       \* the one workspace file patches change
    smokeProc,  \* the smoke process, leader of its group, as the operating system sees it
    smokeRest,  \* a process that one started runs on although it has ended
    proposal,   \* the proposals made: base hash, and history used by properties
    nProposals, \* how many there are
    calls, crashes, \* counters for the bounds
    fault       \* exceptions that reached a coroutine's top: history

supervisor == <<mon, observers, job, attempt>>
workspace  == <<file, smokeProc, smokeRest>>
patches    == <<proposal, nProposals>>
bounds     == <<calls, crashes>>
vars == <<daemon, co, mon, observers, job, attempt, inc, diff, run,
          file, smokeProc, smokeRest, proposal, nProposals, calls, crashes, fault>>
-----------------------------------------------------------------------------
(* Types *)

\* Labels at which a coroutine is suspended in an await (or does not exist).
Await ==
    {"idle", "wait", "check", "apply", "spawning", "launching", "smoking",
     "revcheck", "reverse", "watch", "capsule", "lock", "reap", "terminate",
     "start", "agent", "preflight", "finish"}

Label == Await \cup
    {"receipt", "skip", "exec", "visible", "ended", "verdict", "retry", "launch",
     "clear", "unlink", "dispatch", "create", "mark",
     "seal", "failure", "reopen", "incidents", "unresolve",
     "meta", "undiff", "tail", "done"}

File    == [patch : 0 .. MaxProposals, edit : 0 .. MaxEdits]
Clean   == [patch |-> 0, edit |-> 0]
Receipt == [prop : 0 .. MaxProposals, file : File]
Local   == [at : Label, kind : {"none", "approve", "reject", "follow_up"},
            pid : 0 .. MaxProposals, smoke : BOOLEAN, ev : Event \cup {"none"},
            prop : 0 .. MaxProposals, run : 0 .. MaxRuns, git : BOOLEAN]
Idle    == [at |-> "idle", kind |-> "none", pid |-> 0, smoke |-> FALSE,
            ev |-> "none", prop |-> 0, run |-> 0, git |-> FALSE]

Attempt == [exit : {"none", "zero", "nonzero"}, returncode : BOOLEAN,
            failure : {"none", "process_exit", "supervisor_error", "launch_error"},
            capsule : {"none", "git", "plain"}]
Job     == [status : {"starting", "running", "succeeded", "failed", "cancelled",
                      "interrupted"}, cur : Attempts]
Incident == [status : Status \cup {"none"}, attempt : Attempts, run : 0 .. MaxRuns,
             diag : {"none", "direct", "weak"}, prop : 0 .. MaxProposals,
             active : 0 .. MaxProposals, receipt : Receipt,
             smoke : {"none", "running", "finished", "interrupted"}]
Proposal == [base : File, run : 0 .. MaxRuns, checked : BOOLEAN,
             approved : BOOLEAN, reverted : BOOLEAN]
Fault   == {"illegal_transition", "second_incident"}

TypeOK ==
    /\ daemon \in {"up", "stopping", "down", "recovering"}
    /\ co \in [Proc -> Local]
    /\ mon \in [att : Attempts, cancel : BOOLEAN, perr : BOOLEAN]
    /\ observers \subseteq Attempts
    /\ job \in Job /\ attempt \in [Attempts -> Attempt]
    /\ inc \in Incident /\ diff \in 0 .. MaxProposals
    /\ run \in [Runs -> {"absent", "prepared", "running", "ended"}]
    /\ file \in File /\ smokeProc \in {"none", "alive", "zero", "nonzero"}
    /\ smokeRest \in BOOLEAN
    /\ proposal \in [Proposals -> Proposal] /\ nProposals \in 0 .. MaxProposals
    /\ calls \in 0 .. MaxCalls /\ crashes \in 0 .. MaxCrashes
    /\ fault \subseteq Fault
-----------------------------------------------------------------------------
(* The event loop, the decision lock and the dispatch of FSM events *)

\* p may run: the daemon lives and no other coroutine is between two awaits.
CanRun(p) == daemon # "down" /\ \A q \in Proc \ {p} : co[q].at \in Await
At(p, l) == co[p].at = l /\ CanRun(p)
Moved(c, l) == IF l = "idle" THEN Idle ELSE [c EXCEPT !.at = l]
Goto(p, l) == co' = [co EXCEPT ![p] = Moved(@, l)]

\* _decision_locks[incident]: decide, follow_up and a failed retry hold it.
LockFree ==
    /\ \A c \in Client : co[c].at \in {"idle", "wait"}
    /\ co[Monitor].at \notin {"clear", "unlink", "dispatch", "create", "mark"}

\* _dispatch: validate the event, persist the target status, go on at "next";
\* an event the status does not accept raises, and the caller goes to "bad".
Dispatch(p, event, next, bad) ==
    \/ /\ Accepts(inc.status, event)
       /\ inc' = [inc EXCEPT !.status = Target(inc.status, event)]
       /\ Goto(p, next)
       /\ UNCHANGED fault
    \/ /\ ~Accepts(inc.status, event)
       /\ fault' = fault \cup {"illegal_transition"}
       /\ Goto(p, bad)
       /\ UNCHANGED inc

Init ==
    /\ daemon = "up"
    /\ co = [p \in Proc |-> IF p = Monitor THEN [Idle EXCEPT !.at = "watch"] ELSE Idle]
    /\ mon = [att |-> 1, cancel |-> FALSE, perr |-> FALSE]
    /\ observers = {}
    /\ job = [status |-> "running", cur |-> 1]
    /\ attempt = [a \in Attempts |-> [exit |-> "none", returncode |-> FALSE,
                                      failure |-> "none", capsule |-> "none"]]
    /\ inc = [status |-> "none", attempt |-> 1, run |-> 0, diag |-> "none",
              prop |-> 0, active |-> 0, smoke |-> "none",
              receipt |-> [prop |-> 0, file |-> Clean]]
    /\ diff = 0
    /\ run = [r \in Runs |-> "absent"]
    /\ file = Clean
    /\ smokeProc = "none" /\ smokeRest = FALSE
    /\ proposal = [p \in Proposals |-> [base |-> Clean, run |-> 0, checked |-> FALSE,
                                        approved |-> FALSE, reverted |-> FALSE]]
    /\ nProposals = 0 /\ calls = 0 /\ crashes = 0 /\ fault = {}
-----------------------------------------------------------------------------
(* Requests: decide and follow_up *)

\* A client sends a decision on a proposal it was shown, or a follow-up.  Its
\* view may be old, so the proposal may be any that was ever made; both
\* clients offer a decision only while they see "awaiting_approval".
SendRequest(c) ==
    /\ daemon = "up" /\ co[c].at = "idle" /\ calls < MaxCalls
    /\ \E r \in [kind : {"approve", "reject"}, pid : 1 .. nProposals, smoke : BOOLEAN]
            \cup [kind : {"follow_up"}, pid : {0}, smoke : {FALSE}] :
        /\ IF r.kind = "follow_up"
           THEN inc.status # "none"
           ELSE inc.status = "awaiting_approval" /\ (r.kind = "reject" => ~r.smoke)
        /\ co' = [co EXCEPT ![c] = [Idle EXCEPT !.at = "wait", !.kind = r.kind,
                                               !.pid = r.pid, !.smoke = r.smoke]]
        /\ proposal' = IF r.kind = "approve"
                       THEN [proposal EXCEPT ![r.pid].approved = TRUE]
                       ELSE proposal
    /\ calls' = calls + 1
    /\ UNCHANGED <<daemon, supervisor, inc, diff, run, workspace, nProposals,
                   crashes, fault>>

\* _can_apply
CanApply ==
    /\ inc.diag # "none" /\ inc.prop # 0
    /\ attempt[inc.attempt].capsule = "git"

\* decide() under the lock, up to its first write or return: a status other
\* than awaiting_approval, an inactive proposal, a review-only one and a
\* verifier that cannot be read return or raise without a write.
DecideRefused(c) ==
    /\ At(c, "wait") /\ LockFree /\ co[c].kind \in {"approve", "reject"}
    /\ \/ inc.status # "awaiting_approval"
       \/ inc.active # co[c].pid \/ inc.prop = 0
       \/ co[c].kind = "approve" /\ (~CanApply \/ co[c].smoke)
    /\ Goto(c, "idle")
    /\ UNCHANGED <<daemon, supervisor, inc, diff, run, workspace, patches,
                   bounds, fault>>

\* Mutation: any proposal ever shown may be decided on.
DecidableAny(c) ==
    /\ At(c, "wait") /\ LockFree
    /\ inc.status = "awaiting_approval" /\ inc.prop # 0

\* The proposal the request names is the active one.
Decidable(c) ==
    /\ At(c, "wait") /\ LockFree
    /\ inc.status = "awaiting_approval"
    /\ inc.active = co[c].pid /\ inc.prop # 0

Reject(c) ==
    /\ Decidable(c) /\ co[c].kind = "reject"
    /\ Dispatch(c, "REJECT", "idle", "idle")
    /\ UNCHANGED <<daemon, supervisor, diff, run, workspace, patches, bounds>>

\* The smoke configuration read now has another fingerprint than the client saw.
Invalidate(c) ==
    /\ Decidable(c) /\ co[c].kind = "approve" /\ co[c].smoke /\ CanApply
    /\ Dispatch(c, "APPROVE_INVALIDATED", "idle", "idle")
    /\ UNCHANGED <<daemon, supervisor, diff, run, workspace, patches, bounds>>

\* The proposal applied is the one in incident.json, not the one in the request.
Approve(c) ==
    /\ Decidable(c) /\ co[c].kind = "approve" /\ CanApply
    /\ inc' = [inc EXCEPT !.status = Target(@, "APPROVE")]
    /\ co' = [co EXCEPT ![c].at = "check", ![c].prop = inc.prop]
    /\ UNCHANGED <<daemon, supervisor, diff, run, workspace, patches, bounds, fault>>

\* PatchService.check: the diff on disk is this proposal's and the file still
\* has its base hash.  git itself may refuse or time out whatever the state.
BaseHolds(p) == diff = p /\ file = proposal[p].base

ApplyCheck(c) ==
    /\ At(c, "check")
    /\ \/ BaseHolds(co[c].prop) /\ Goto(c, "apply") /\ UNCHANGED <<inc, fault>>
       \/ Dispatch(c, "APPLY_FAILED", "idle", "idle")
    /\ UNCHANGED <<daemon, supervisor, diff, run, workspace, patches, bounds>>

\* git apply patches the file from the diff that is on disk when it runs.  An
\* edit since the check may or may not be in its way, and the command may be
\* killed by its timeout, or the receipt fail, after the file changed.
GitApply(c) ==
    /\ At(c, "apply")
    /\ \/ UNCHANGED file /\ Dispatch(c, "APPLY_FAILED", "idle", "idle")
       \/ /\ diff # 0
          /\ file.patch = proposal[diff].base.patch
          /\ file' = [file EXCEPT !.patch = diff]
          /\ \/ Goto(c, "receipt") /\ UNCHANGED <<inc, fault>>
             \/ Dispatch(c, "APPLY_FAILED", "idle", "idle")
    /\ UNCHANGED <<daemon, supervisor, diff, run, smokeProc, smokeRest, patches, bounds>>

\* Mutation: the receipt is not persisted.
NoReceipt(c) ==
    /\ At(c, "receipt")
    /\ Goto(c, IF co[c].smoke THEN "spawning" ELSE "skip")
    /\ UNCHANGED <<daemon, supervisor, inc, diff, run, workspace, patches, bounds, fault>>


WriteReceipt(c) ==
    /\ At(c, "receipt")
    /\ inc' = [inc EXCEPT !.receipt = [prop |-> co[c].prop, file |-> file]]
    /\ Goto(c, IF co[c].smoke THEN "spawning" ELSE "skip")
    /\ UNCHANGED <<daemon, supervisor, diff, run, workspace, patches,
                   bounds, fault>>

SkipSmoke(c) ==
    /\ At(c, "skip")
    /\ Dispatch(c, "APPLY_OK_NO_SMOKE", "retry", "idle")
    /\ UNCHANGED <<daemon, supervisor, diff, run, workspace, patches, bounds>>
-----------------------------------------------------------------------------
(* _run_smoke and SubprocessSmokeExecutor.run *)

\* What a finished smoke means.  For a failure the evidence read from the two
\* logs, usable or not, picks the event a successful rollback will send.
SmokeResult(exit) ==
    IF exit = "zero" THEN {"SMOKE_PASSED"}
    ELSE {"SMOKE_FAILED_ROLLED_BACK", "SMOKE_FAILED_ROLLED_BACK_NO_EVIDENCE"}

\* The smoke process has ended.  Only it is waited for, and its group gets
\* SIGKILL only if it outlives SIGTERM (_terminate_group): what it started may
\* go on.
LeavesRest == smokeRest' \in {smokeRest, TRUE}

\* The process is created and its identity read, or it could not be created,
\* or it was gone (or had to be killed) before it had an identity: then nothing
\* of it is persisted and the incident stays "applying".
SmokeSpawn(c) ==
    /\ At(c, "spawning")
    /\ \/ smokeProc' = "alive" /\ UNCHANGED smokeRest /\ Goto(c, "exec")
       \/ \E exit \in {"zero", "nonzero"} : \E e \in SmokeResult(exit) :
             /\ smokeProc' = exit /\ LeavesRest
             /\ co' = [co EXCEPT ![c].at = "ended", ![c].ev = e]
    /\ UNCHANGED <<daemon, supervisor, inc, diff, run, file, patches, bounds, fault>>

\* Mutation: the status is shown although the identity was not written.
SmokeUnrecorded(c) ==
    /\ At(c, "exec")
    /\ Goto(c, "visible")
    /\ UNCHANGED <<daemon, supervisor, inc, diff, run, workspace, patches, bounds, fault>>

\* smoke_started: the identity is persisted first, then the status shown.
SmokeIdentity(c) ==
    /\ At(c, "exec")
    /\ inc' = [inc EXCEPT !.smoke = "running"]
    /\ Goto(c, "visible")
    /\ UNCHANGED <<daemon, supervisor, diff, run, workspace, patches,
                   bounds, fault>>

SmokeVisible(c) ==
    /\ At(c, "visible")
    /\ Dispatch(c, "APPLY_OK_SMOKE", "smoking", "idle")
    /\ UNCHANGED <<daemon, supervisor, diff, run, workspace, patches, bounds>>

\* Mutation: the timeout reports a failure and leaves the group running.
SmokeEndNoKill(c) ==
    /\ At(c, "smoking")
    /\ \E e \in SmokeResult("zero") \cup SmokeResult("nonzero") :
          /\ e = "SMOKE_PASSED" => smokeProc = "zero"
          /\ co' = [co EXCEPT ![c].at = "ended", ![c].ev = e]
    /\ UNCHANGED <<daemon, supervisor, inc, diff, run, workspace, patches, bounds, fault>>

\* Mutation: there is no timeout.
SmokeEndNoTimeout(c) ==
    /\ At(c, "smoking") /\ smokeProc # "alive"
    /\ \E e \in SmokeResult(smokeProc) : co' = [co EXCEPT ![c].at = "ended", ![c].ev = e]
    /\ UNCHANGED <<daemon, supervisor, inc, diff, run, workspace, patches, bounds, fault>>

\* The executor sees the exit code, or its timeout ends the process; a timeout
\* that fires as the process exits by itself is still a timeout.
SmokeEnd(c) ==
    /\ At(c, "smoking")
    /\ \E e \in SmokeResult("zero") \cup SmokeResult("nonzero") :
          /\ e = "SMOKE_PASSED" => smokeProc = "zero"
          /\ co' = [co EXCEPT ![c].at = "ended", ![c].ev = e]
    /\ IF smokeProc = "alive" THEN smokeProc' = "nonzero" /\ LeavesRest
                              ELSE UNCHANGED <<smokeProc, smokeRest>>
    /\ UNCHANGED <<daemon, supervisor, inc, diff, run, file, patches, bounds, fault>>

\* The execution record, where there is one, gets its final status, and the
\* result is written.
SmokeFinished(c) ==
    /\ At(c, "ended")
    /\ inc' = [inc EXCEPT !.smoke = IF @ = "none" THEN @ ELSE "finished"]
    /\ Goto(c, "verdict")
    /\ UNCHANGED <<daemon, supervisor, diff, run, workspace, patches,
                   bounds, fault>>

SmokePassed(c) ==
    /\ At(c, "verdict") /\ co[c].ev = "SMOKE_PASSED"
    /\ Dispatch(c, "SMOKE_PASSED", "retry", "idle")
    /\ UNCHANGED <<daemon, supervisor, diff, run, workspace, patches, bounds>>

\* A failed smoke rolls back the proposal and receipt found on disk now.
SmokeFailed(c) ==
    /\ At(c, "verdict") /\ co[c].ev # "SMOKE_PASSED"
    /\ \/ /\ inc.prop # 0 /\ inc.receipt.prop # 0
          /\ co' = [co EXCEPT ![c].at = "revcheck", ![c].prop = inc.prop]
          /\ UNCHANGED <<inc, fault>>
       \/ /\ inc.prop = 0 \/ inc.receipt.prop = 0
          /\ Dispatch(c, "SMOKE_FAILED_ROLLBACK_BLOCKED", "idle", "idle")
    /\ UNCHANGED <<daemon, supervisor, diff, run, workspace, patches, bounds>>

\* reverse() up to its last command: the receipt is this proposal's and the
\* file still has the hash it records.
AppliedHolds(p) == inc.receipt = [prop |-> p, file |-> file]

ReverseCheck(c) ==
    /\ At(c, "revcheck")
    /\ \/ AppliedHolds(co[c].prop) /\ Goto(c, "reverse") /\ UNCHANGED <<inc, fault>>
       \/ Dispatch(c, "SMOKE_FAILED_ROLLBACK_BLOCKED", "idle", "idle")
    /\ UNCHANGED <<daemon, supervisor, diff, run, workspace, patches, bounds>>

\* git apply --reverse, then the base hash must be back; an edit between the
\* check and the command survives the command but not that last test.
GitReverse(c) ==
    LET p    == co[c].prop
        back == [file EXCEPT !.patch = proposal[diff].base.patch]
    IN  /\ At(c, "reverse")
        /\ \/ /\ UNCHANGED <<file, proposal>>
              /\ Dispatch(c, "SMOKE_FAILED_ROLLBACK_BLOCKED", "idle", "idle")
           \/ /\ diff # 0 /\ file.patch = diff
              /\ file' = back
              /\ \/ /\ diff = p /\ back = proposal[p].base
                    /\ proposal' = [proposal EXCEPT ![p].reverted = TRUE]
                    /\ Goto(c, "clear")
                    /\ UNCHANGED <<inc, fault>>
                 \/ /\ Dispatch(c, "SMOKE_FAILED_ROLLBACK_BLOCKED", "idle", "idle")
                    /\ UNCHANGED proposal
        /\ UNCHANGED <<daemon, supervisor, diff, run, smokeProc, smokeRest, nProposals, bounds>>
-----------------------------------------------------------------------------
(* A new investigation: follow_up, a rolled-back smoke and a failed retry all
   clear the artifacts, dispatch their event and start a run, one write at a
   time and without an await in between *)

\* Mutation: the status is not checked before the artifacts are cleared.
FollowUpUnchecked(c) ==
    /\ At(c, "wait") /\ LockFree /\ co[c].kind = "follow_up"
    /\ co' = [co EXCEPT ![c].at = "clear", ![c].ev = "FOLLOW_UP"]
    /\ UNCHANGED <<daemon, supervisor, inc, diff, run, workspace, patches, bounds, fault>>


FollowUp(c) ==
    /\ At(c, "wait") /\ LockFree /\ co[c].kind = "follow_up"
    /\ IF Accepts(inc.status, "FOLLOW_UP")
       THEN co' = [co EXCEPT ![c].at = "clear", ![c].ev = "FOLLOW_UP"]
       ELSE Goto(c, "idle")
    /\ UNCHANGED <<daemon, supervisor, inc, diff, run, workspace, patches,
                   bounds, fault>>

\* Mutation: only the active id is cleared.
ClearActiveOnly(p) ==
    /\ At(p, "clear")
    /\ inc' = [inc EXCEPT !.active = 0]
    /\ Goto(p, "unlink")
    /\ UNCHANGED <<daemon, supervisor, diff, run, workspace, patches, bounds, fault>>

\* clear_agent_artifacts: incident.json first, then the diff is unlinked.
ClearArtifacts(p) ==
    /\ At(p, "clear")
    /\ inc' = [inc EXCEPT !.diag = "none", !.prop = 0, !.active = 0]
    /\ Goto(p, "unlink")
    /\ UNCHANGED <<daemon, supervisor, diff, run, workspace, patches,
                   bounds, fault>>

UnlinkDiff(p) ==
    /\ At(p, "unlink")
    /\ diff' = 0
    /\ Goto(p, "dispatch")
    /\ UNCHANGED <<daemon, supervisor, inc, run, workspace, patches,
                   bounds, fault>>

\* Where a coroutine goes when it has nothing more to do: recovery, which runs
\* as the monitor, goes on with the list of incidents.
Return(p) == IF p = Monitor /\ daemon = "recovering" THEN "incidents" ELSE "idle"

\* Mutation: a run is started although the incident was left unresolved.
ReinvestigateAlways(p) ==
    /\ At(p, "dispatch")
    /\ Dispatch(p, co[p].ev, "create", Return(p))
    /\ UNCHANGED <<daemon, supervisor, diff, run, workspace, patches, bounds>>


Reinvestigate(p) ==
    /\ At(p, "dispatch")
    /\ Dispatch(p, co[p].ev,
                IF co[p].ev = "SMOKE_FAILED_ROLLED_BACK_NO_EVIDENCE"
                THEN "idle" ELSE "create",
                Return(p))
    /\ UNCHANGED <<daemon, supervisor, diff, run, workspace, patches, bounds>>

\* _start_run: run.json "prepared", then active_run_id, then the task.
CreateRun(p) ==
    /\ At(p, "create")
    /\ \E r \in Runs :
          /\ run[r] = "absent" /\ \A q \in Runs : q < r => run[q] # "absent"
          /\ run' = [run EXCEPT ![r] = "prepared"]
          /\ co' = [co EXCEPT ![p].at = "mark", ![p].run = r]
    /\ UNCHANGED <<daemon, supervisor, inc, diff, workspace, patches, bounds, fault>>

\* p goes to "next" and a new diagnosis task for run r starts in a free slot.
Spawn(p, next, r) ==
    \E t \in Runtime :
        /\ co[t].at = "idle"
        /\ co' = [co EXCEPT ![p] = [Idle EXCEPT !.at = next],
                            ![t] = [Idle EXCEPT !.at = "start", !.run = r]]

MarkRun(p) ==
    /\ At(p, "mark")
    /\ inc' = [inc EXCEPT !.run = co[p].run]
    /\ Spawn(p, Return(p), co[p].run)
    /\ UNCHANGED <<daemon, supervisor, diff, run, workspace, patches, bounds, fault>>
-----------------------------------------------------------------------------
(* The retry of the original command, its monitor and its observer *)

RetryStart(c) ==
    /\ At(c, "retry")
    /\ Dispatch(c, "RETRY_STARTED", "launch", "idle")
    /\ UNCHANGED <<daemon, supervisor, diff, run, workspace, patches, bounds>>

\* supervisor.retry raises RuntimeError when starts are refused or the job is
\* still in _running.
RetryRefused(c) ==
    /\ At(c, "launch")
    /\ daemon = "stopping" \/ co[Monitor].at \in {"watch", "seal"}
    /\ Dispatch(c, "RETRY_ABORTED", "idle", "idle")
    /\ UNCHANGED <<daemon, supervisor, diff, run, workspace, patches, bounds>>

\* _launch writes the new attempt; the subprocess is awaited, unless a log file
\* cannot be opened: that OSError is not caught by decide.
Launch(c) ==
    /\ At(c, "launch")
    /\ daemon = "up" /\ co[Monitor].at \notin {"watch", "seal"}
    /\ job.cur < MaxAttempts
    /\ job' = [status |-> "starting", cur |-> job.cur + 1]
    /\ \E next \in {"launching", "idle"} : Goto(c, next)
    /\ UNCHANGED <<daemon, mon, observers, attempt, inc, diff, run, workspace,
                   patches, bounds, fault>>

\* The process runs: job.started, a monitor, and an observer of the retry.
Launched(c) ==
    /\ At(c, "launching")
    /\ job' = [job EXCEPT !.status = "running"]
    /\ mon' = [att |-> job.cur, cancel |-> FALSE, perr |-> FALSE]
    /\ observers' = observers \cup {job.cur}
    /\ co' = [co EXCEPT ![c] = Idle, ![Monitor] = [Idle EXCEPT !.at = "watch"]]
    /\ UNCHANGED <<daemon, attempt, inc, diff, run, workspace, patches,
                   bounds, fault>>

\* The executable could not be started: a launch_error, which notifies nobody.
LaunchFailed(c) ==
    /\ At(c, "launching")
    /\ job' = [job EXCEPT !.status = "failed"]
    /\ attempt' = [attempt EXCEPT ![job.cur].failure = "launch_error"]
    /\ observers' = observers \cup {job.cur}
    /\ Goto(c, "idle")
    /\ UNCHANGED <<daemon, mon, inc, diff, run, workspace, patches,
                   bounds, fault>>

\* Writing a log failed while the attempt ran; the monitor kills the process.
LogFails ==
    /\ daemon # "down" /\ co[Monitor].at = "watch" /\ ~mon.perr
    /\ mon' = [mon EXCEPT !.perr = TRUE]
    /\ UNCHANGED <<daemon, co, observers, job, attempt, inc, diff, run,
                   workspace, patches, bounds, fault>>

\* A user cancels an attempt whose exit the daemon has not seen yet.
Cancel ==
    /\ daemon = "up" /\ co[Monitor].at = "watch" /\ ~mon.cancel
    /\ mon' = [mon EXCEPT !.cancel = TRUE]
    /\ UNCHANGED <<daemon, co, observers, job, attempt, inc, diff, run,
                   workspace, patches, bounds, fault>>

\* The training process exits, by itself or because it was signalled.
TrainingExit ==
    /\ co[Monitor].at = "watch" /\ attempt[mon.att].exit = "none"
    /\ \E e \in {"zero", "nonzero"} : attempt' = [attempt EXCEPT ![mon.att].exit = e]
    /\ UNCHANGED <<daemon, co, mon, observers, job, inc, diff, run,
                   workspace, patches, bounds, fault>>

\* The status _monitor decides on: a requested cancel first, then a log that
\* could not be kept, then the exit code.
Outcome ==
    IF mon.cancel THEN "cancelled"
    ELSE IF mon.perr \/ attempt[mon.att].exit # "zero" THEN "failed"
    ELSE "succeeded"

\* A failed attempt writes failure.json before its own record.
MonitorFailure ==
    /\ At(Monitor, "watch") /\ attempt[mon.att].exit # "none"
    /\ attempt' = IF Outcome = "failed"
                  THEN [attempt EXCEPT ![mon.att].failure =
                            IF mon.perr THEN "supervisor_error" ELSE "process_exit"]
                  ELSE attempt
    /\ Goto(Monitor, "seal")
    /\ UNCHANGED <<daemon, mon, observers, job, inc, diff, run, workspace,
                   patches, bounds, fault>>

\* attempt.json, job.json, the job event and the pop from _running; then only a
\* process_exit goes on to the coordinator, which first builds the capsule.
MonitorSeal ==
    /\ At(Monitor, "seal")
    /\ attempt' = [attempt EXCEPT ![mon.att].returncode = TRUE]
    /\ job' = [job EXCEPT !.status = Outcome]
    /\ Goto(Monitor, IF attempt[mon.att].failure = "process_exit"
                     THEN "capsule" ELSE "idle")
    /\ mon' = [mon EXCEPT !.cancel = FALSE, !.perr = FALSE]
    /\ UNCHANGED <<daemon, observers, inc, diff, run, workspace,
                   patches, bounds, fault>>

\* Mutation: an attempt that never ran is not told from one that failed.
ObserveNoLaunchError(a) ==
    /\ a \in observers /\ daemon # "down" /\ \A q \in Proc : co[q].at \in Await
    /\ ~(mon.att = a /\ co[Monitor].at # "idle")
    /\ observers' = observers \ {a}
    /\ inc' =
         IF inc.status # "retry_running" THEN inc
         ELSE IF job.status = "succeeded"
              THEN [inc EXCEPT !.status = Target(inc.status, "RETRY_SUCCEEDED")]
         ELSE IF job.status \in {"cancelled", "interrupted"}
              THEN [inc EXCEPT !.status = Target(inc.status, "RETRY_ABORTED")]
         ELSE inc
    /\ UNCHANGED <<daemon, co, mon, job, attempt, diff, run, workspace, patches, bounds, fault>>

\* _observe_retry wakes when the monitor task, failure callback included, is
\* over, and judges by the job's status.
Observe(a) ==
    /\ a \in observers /\ daemon # "down" /\ \A q \in Proc : co[q].at \in Await
    /\ ~(mon.att = a /\ co[Monitor].at # "idle")
    /\ observers' = observers \ {a}
    /\ inc' =
         IF inc.status # "retry_running" THEN inc
         ELSE IF job.status = "succeeded"
              THEN [inc EXCEPT !.status = Target(inc.status, "RETRY_SUCCEEDED")]
         ELSE IF \/ job.status \in {"cancelled", "interrupted"}
                 \/ job.status = "failed" /\ ~attempt[job.cur].returncode
              THEN [inc EXCEPT !.status = Target(inc.status, "RETRY_ABORTED")]
         ELSE inc
    /\ UNCHANGED <<daemon, co, mon, job, attempt, diff, run, workspace,
                   patches, bounds, fault>>
-----------------------------------------------------------------------------
(* handle_failure *)

\* _persist_capsule: built in an await, written into failure.json.
WriteCapsule ==
    /\ At(Monitor, "capsule")
    /\ \E g \in GitHead : attempt' = [attempt EXCEPT ![mon.att].capsule = g]
    /\ Goto(Monitor, "failure")
    /\ UNCHANGED <<daemon, mon, observers, job, inc, diff, run, workspace,
                   patches, bounds, fault>>

\* The incident of this attempt exists: nothing to do; its retry failed: take
\* the lock; none exists: open one.  Any other would be a second incident,
\* which the model only records.
HandleFailure ==
    /\ At(Monitor, "failure")
    /\ \/ inc.status # "none" /\ inc.attempt = mon.att
          /\ Goto(Monitor, Return(Monitor)) /\ UNCHANGED <<inc, fault>>
       \/ inc.status = "retry_running" /\ inc.attempt # mon.att
          /\ Goto(Monitor, "lock") /\ UNCHANGED <<inc, fault>>
       \/ inc.status = "none"
          /\ inc' = [inc EXCEPT !.status = "diagnosing", !.attempt = mon.att]
          /\ Goto(Monitor, "create") /\ UNCHANGED fault
       \/ inc.status \notin {"none", "retry_running"} /\ inc.attempt # mon.att
          /\ fault' = fault \cup {"second_incident"}
          /\ Goto(Monitor, Return(Monitor)) /\ UNCHANGED inc
    /\ UNCHANGED <<daemon, supervisor, diff, run, workspace, patches, bounds>>

\* Under the lock the incident moves to the new attempt, then reinvestigates.
RetryFailed ==
    /\ At(Monitor, "lock") /\ LockFree
    /\ inc' = [inc EXCEPT !.attempt = mon.att]
    /\ co' = [co EXCEPT ![Monitor].at = "clear", ![Monitor].ev = "RETRY_FAILED"]
    /\ UNCHANGED <<daemon, supervisor, diff, run, workspace, patches,
                   bounds, fault>>
-----------------------------------------------------------------------------
(* A diagnosis task: _run_diagnosis around IncidentRuntime.run *)

\* The run cannot start without a capsule, with logs or smoke evidence that
\* changed: then it ends at once.  git_head decides if proposals are preflighted.
TaskStart(t) ==
    LET capsule == attempt[inc.attempt].capsule
    IN  /\ At(t, "start")
        /\ \/ /\ capsule # "none"
              /\ run' = [run EXCEPT ![co[t].run] = "running"]
              /\ co' = [co EXCEPT ![t].at = "agent", ![t].git = (capsule = "git")]
           \/ /\ run' = [run EXCEPT ![co[t].run] = "ended"]
              /\ Goto(t, "tail")
        /\ UNCHANGED <<daemon, supervisor, inc, diff, workspace, patches,
                       bounds, fault>>

\* submit_diagnosis: an inferred one, or one without a patch, ends the run.
SubmitDiagnosis(t) ==
    /\ At(t, "agent")
    /\ \E d \in {"direct", "weak"} :
          /\ inc' = [inc EXCEPT !.diag = d]
          /\ Goto(t, IF d = "weak" THEN "finish" ELSE "agent")
    /\ UNCHANGED <<daemon, supervisor, diff, run, workspace, patches,
                   bounds, fault>>

\* propose_patch: allowed by a direct diagnosis on disk; writes the diff first.
ProposeDiff(t) ==
    LET p == nProposals + 1
    IN  /\ At(t, "agent") /\ inc.diag = "direct" /\ nProposals < MaxProposals
        /\ proposal' = [proposal EXCEPT ![p].base = file, ![p].run = co[t].run]
        /\ nProposals' = p
        /\ diff' = p
        /\ co' = [co EXCEPT ![t].at = "meta", ![t].prop = p]
        /\ UNCHANGED <<daemon, supervisor, inc, run, workspace, bounds, fault>>

ProposeMeta(t) ==
    /\ At(t, "meta")
    /\ inc' = [inc EXCEPT !.prop = co[t].prop]
    /\ Goto(t, IF co[t].git THEN "preflight" ELSE "finish")
    /\ UNCHANGED <<daemon, supervisor, diff, run, workspace, patches,
                   bounds, fault>>

\* The preflight passes and the run may end, or the proposal is cleared
\* (metadata first, then the diff) and the agent goes on.
Preflight(t) ==
    /\ At(t, "preflight")
    /\ \/ /\ BaseHolds(co[t].prop)
          /\ proposal' = [proposal EXCEPT ![co[t].prop].checked = TRUE]
          /\ Goto(t, "finish")
          /\ UNCHANGED inc
       \/ /\ inc' = [inc EXCEPT !.prop = 0]
          /\ Goto(t, "undiff")
          /\ UNCHANGED proposal
    /\ UNCHANGED <<daemon, supervisor, diff, run, workspace, nProposals,
                   bounds, fault>>

Unpropose(t) ==
    /\ At(t, "undiff")
    /\ diff' = 0
    /\ Goto(t, "agent")
    /\ UNCHANGED <<daemon, supervisor, inc, run, workspace, patches,
                   bounds, fault>>

\* The agent ends its turn, exhausts its steps or its budget, or fails.
AgentEnd(t) ==
    /\ At(t, "agent")
    /\ Goto(t, "finish")
    /\ UNCHANGED <<daemon, supervisor, inc, diff, run, workspace, patches,
                   bounds, fault>>

FinishRun(t) ==
    /\ At(t, "finish")
    /\ run' = [run EXCEPT ![co[t].run] = "ended"]
    /\ Goto(t, "tail")
    /\ UNCHANGED <<daemon, supervisor, inc, diff, workspace, patches,
                   bounds, fault>>

\* Mutation: the exception is logged and the incident left as it is.
GiveUpSilently(t) == Goto(t, "idle") /\ UNCHANGED <<inc, fault>>

\* Mutation: the status is set without asking the state machine.
GiveUpAlways(t) ==
    /\ inc' = [inc EXCEPT !.status = "unresolved"]
    /\ Goto(t, "idle")
    /\ UNCHANGED fault

\* INVESTIGATION_FAILED is sent only to an incident still "diagnosing".
GiveUp(t) ==
    IF inc.status = "diagnosing"
    THEN Dispatch(t, "INVESTIGATION_FAILED", "idle", "idle")
    ELSE Goto(t, "idle") /\ UNCHANGED <<inc, fault>>

\* The runtime raised: no outcome, and run.json keeps its status.
TaskRaises(t) ==
    /\ co[t].at \in {"start", "agent", "finish"} /\ CanRun(t)
    /\ GiveUp(t)
    /\ UNCHANGED <<daemon, supervisor, diff, run, workspace, patches, bounds>>

\* The incident on disk decides: with a diagnosis and a proposal, that proposal
\* becomes the active one.
TaskTail(t) ==
    /\ At(t, "tail")
    /\ \/ (inc.diag = "none" \/ inc.prop = 0) /\ GiveUp(t)
       \/ /\ inc.diag # "none" /\ inc.prop # 0
          /\ inc' = [inc EXCEPT !.active = inc.prop]
          /\ Goto(t, "done")
          /\ UNCHANGED fault
    /\ UNCHANGED <<daemon, supervisor, diff, run, workspace, patches, bounds>>

TaskDone(t) ==
    /\ At(t, "done")
    /\ Dispatch(t, "INVESTIGATION_DONE", "idle", "idle")
    /\ UNCHANGED <<daemon, supervisor, diff, run, workspace, patches, bounds>>
-----------------------------------------------------------------------------
(* Crash, shutdown and recovery *)

\* Everything in memory is lost; the smoke process and the disk survive.  A
\* stopped daemon ends the same way.
Crash ==
    /\ daemon # "down" /\ crashes < MaxCrashes
    /\ daemon' = "down"
    /\ crashes' = crashes + 1
    /\ co' = [p \in Proc |-> Idle]
    /\ observers' = {}
    /\ UNCHANGED <<mon, job, attempt, inc, diff, run, workspace, patches, calls, fault>>

\* core.shutdown: starts are refused from now on, what runs goes on.
StopStarting ==
    /\ daemon = "up" /\ crashes < MaxCrashes
    /\ daemon' = "stopping"
    /\ UNCHANGED <<co, supervisor, inc, diff, run, workspace, patches,
                   bounds, fault>>

\* close(): diagnosis tasks and observers are cancelled where they await, and
\* then the running attempt is.
Close ==
    /\ daemon = "stopping" /\ \A p \in Proc : co[p].at \in Await
    /\ co' = [p \in Proc |-> IF p \in Runtime THEN Idle ELSE co[p]]
    /\ observers' = {}
    /\ mon' = [mon EXCEPT !.cancel = @ \/ co[Monitor].at = "watch"]
    /\ UNCHANGED <<daemon, job, attempt, inc, diff, run, workspace, patches,
                   bounds, fault>>

Restart ==
    /\ daemon = "down"
    /\ daemon' = "recovering"
    /\ Goto(Monitor, "reap")
    /\ UNCHANGED <<supervisor, inc, diff, run, workspace, patches,
                   bounds, fault>>

\* recover_interrupted: the process is terminated; an active job is sealed as
\* failed if its failure record exists, as interrupted otherwise.
RecoverInterrupted ==
    /\ At(Monitor, "reap")
    /\ job' = IF job.status \in {"starting", "running"}
              THEN [job EXCEPT !.status =
                       IF attempt[job.cur].failure # "none" THEN "failed" ELSE "interrupted"]
              ELSE job
    /\ mon' = [att |-> job.cur, cancel |-> FALSE, perr |-> FALSE]
    /\ Goto(Monitor, "reopen")
    /\ UNCHANGED <<daemon, observers, attempt, inc, diff, run, workspace,
                   patches, bounds, fault>>

\* recover(), before its loop: a real failure no incident knows is handled now.
RecoverFailure ==
    /\ At(Monitor, "reopen")
    /\ Goto(Monitor,
            IF /\ job.status = "failed" /\ attempt[job.cur].failure = "process_exit"
               /\ inc.status = "none" \/ inc.attempt # job.cur
            THEN "capsule" ELSE "incidents")
    /\ UNCHANGED <<daemon, supervisor, inc, diff, run, workspace, patches,
                   bounds, fault>>

\* recover() is over and the server starts.
Serve(incident) ==
    /\ daemon' = "up"
    /\ Goto(Monitor, "idle")
    /\ inc' = incident

Resumable == inc.run # 0 /\ run[inc.run] \in {"prepared", "running"}

\* A retry that nobody observes any more is judged by the sealed job.
RetryVerdict ==
    IF job.status = "succeeded" THEN "resolved"
    ELSE IF job.status \notin {"starting", "running"} THEN "unresolved"
    ELSE inc.status

\* The loop over incidents, in the order of its branches: a recorded smoke
\* still "running" goes to _recover_smoke, quarantine drops the active
\* proposal, a finished or dead retry is settled, the rest is kept.
RecoverIncident ==
    /\ At(Monitor, "incidents")
    /\ \/ inc.smoke = "running" /\ Goto(Monitor, "terminate") /\ UNCHANGED <<daemon, inc>>
       \/ /\ inc.smoke # "running" /\ RecoverAction(inc.status) = "quarantine"
          /\ inc' = [inc EXCEPT !.active = 0]
          /\ Goto(Monitor, "unresolve")
          /\ UNCHANGED daemon
       \/ /\ inc.smoke # "running" /\ inc.status = "retry_running"
          /\ Serve([inc EXCEPT !.status = RetryVerdict])
       \/ /\ inc.smoke # "running"
          /\ inc.status = "none" \/ inc.status = "awaiting_approval"
             \/ RecoverAction(inc.status) = "keep"
          /\ Serve(inc)
    /\ UNCHANGED <<supervisor, diff, run, workspace, patches, bounds, fault>>

\* Mutation: only a run that can be resumed is.
RecoverOnlyResumable ==
    /\ At(Monitor, "incidents") /\ inc.smoke # "running" /\ inc.status = "diagnosing"
    /\ IF Resumable
       THEN /\ run' = [run EXCEPT ![inc.run] = "prepared"]
            /\ Spawn(Monitor, "idle", inc.run)
       ELSE Goto(Monitor, "idle") /\ UNCHANGED run
    /\ daemon' = "up"
    /\ UNCHANGED <<supervisor, inc, diff, workspace, patches, bounds, fault>>

\* _resume_active_run, or a new run when there is none to resume.  Nothing of
\* recover() follows, so the daemon serves once this section is over.
RecoverDiagnosing ==
    /\ At(Monitor, "incidents") /\ inc.smoke # "running" /\ inc.status = "diagnosing"
    /\ IF Resumable
       THEN /\ run' = [run EXCEPT ![inc.run] = "prepared"]
            /\ Spawn(Monitor, "idle", inc.run)
       ELSE Goto(Monitor, "create") /\ UNCHANGED run
    /\ daemon' = "up"
    /\ UNCHANGED <<supervisor, inc, diff, workspace, patches, bounds, fault>>

\* _recover_smoke: a process whose end cannot be confirmed leaves the incident
\* as it is.
RecoverSmoke ==
    /\ At(Monitor, "terminate")
    /\ \/ /\ IF smokeProc = "alive" THEN smokeProc' = "nonzero" /\ LeavesRest
                                    ELSE UNCHANGED <<smokeProc, smokeRest>>
          /\ inc' = [inc EXCEPT !.smoke = "interrupted"]
          /\ Goto(Monitor, "unresolve")
          /\ UNCHANGED daemon
       \/ smokeProc = "alive" /\ Serve(inc) /\ UNCHANGED <<smokeProc, smokeRest>>
    /\ UNCHANGED <<supervisor, diff, run, file, patches, bounds, fault>>

Unresolve ==
    /\ At(Monitor, "unresolve")
    /\ Serve([inc EXCEPT !.status = "unresolved"])
    /\ UNCHANGED <<supervisor, diff, run, workspace, patches, bounds, fault>>
-----------------------------------------------------------------------------
(* The world outside the daemon *)

UserEdit ==
    /\ file.edit < MaxEdits
    /\ file' = [file EXCEPT !.edit = @ + 1]
    /\ UNCHANGED <<daemon, co, supervisor, inc, diff, run, smokeProc, smokeRest,
                   patches, bounds, fault>>

SmokeExit ==
    /\ smokeProc = "alive"
    /\ smokeProc' \in {"zero", "nonzero"} /\ LeavesRest
    /\ UNCHANGED <<daemon, co, supervisor, inc, diff, run, file,
                   patches, bounds, fault>>

SmokeRestExit ==
    /\ smokeRest
    /\ smokeRest' = FALSE
    /\ UNCHANGED <<daemon, co, supervisor, inc, diff, run, file, smokeProc,
                   patches, bounds, fault>>
-----------------------------------------------------------------------------
ClientStep(c) ==
    \/ DecideRefused(c) \/ Reject(c) \/ Invalidate(c) \/ Approve(c) \/ FollowUp(c)
    \/ ApplyCheck(c) \/ GitApply(c) \/ WriteReceipt(c) \/ SkipSmoke(c)
    \/ SmokeSpawn(c) \/ SmokeIdentity(c) \/ SmokeVisible(c) \/ SmokeEnd(c)
    \/ SmokeFinished(c) \/ SmokePassed(c) \/ SmokeFailed(c)
    \/ ReverseCheck(c) \/ GitReverse(c)
    \/ RetryStart(c) \/ RetryRefused(c) \/ Launch(c) \/ Launched(c) \/ LaunchFailed(c)

CallerStep(p) ==
    ClearArtifacts(p) \/ UnlinkDiff(p) \/ Reinvestigate(p) \/ CreateRun(p) \/ MarkRun(p)

MonitorStep ==
    MonitorFailure \/ MonitorSeal \/ WriteCapsule \/ HandleFailure \/ RetryFailed

RecoveryStep ==
    \/ RecoverInterrupted \/ RecoverFailure \/ RecoverIncident \/ RecoverDiagnosing
    \/ RecoverSmoke \/ Unresolve

TaskStep(t) ==
    \/ TaskStart(t) \/ SubmitDiagnosis(t) \/ ProposeDiff(t) \/ ProposeMeta(t)
    \/ Preflight(t) \/ Unpropose(t) \/ AgentEnd(t) \/ FinishRun(t)
    \/ TaskRaises(t) \/ TaskTail(t) \/ TaskDone(t)

Environment ==
    \/ \E c \in Client : SendRequest(c)
    \/ Cancel \/ LogFails \/ TrainingExit \/ SmokeExit \/ SmokeRestExit \/ UserEdit
    \/ Crash \/ StopStarting \/ Close \/ Restart

Next ==
    \/ \E c \in Client : ClientStep(c)
    \/ \E p \in Caller : CallerStep(p)
    \/ MonitorStep \/ RecoveryStep
    \/ \E a \in Attempts : Observe(a)
    \/ \E t \in Runtime : TaskStep(t)
    \/ Environment

Spec == Init /\ [][Next]_vars
-----------------------------------------------------------------------------
(* Safety, with and without crashes *)

\* README: a patch must be approved by the user.  What stands in the workspace
\* is a patch whose own proposal a user approved.  Holds without crashes.
ApprovedOnly == file.patch # 0 => proposal[file.patch].approved

\* What another request may read: no coroutine is between two awaits.
Observable == \A p \in Proc : co[p].at \in Await

\* The proposal a user is asked to decide on was made by the incident's latest
\* run, is the one decide() compares with, and has passed its preflight, as the
\* RUNBOOK says of awaiting_approval; one outside git is never applied and has
\* none.  Holds without crashes.
OfferIsFresh ==
    inc.status = "awaiting_approval" =>
        /\ CanApply => proposal[inc.prop].checked
        /\ Observable =>
            inc.prop # 0 /\ inc.active = inc.prop /\ proposal[inc.prop].run = inc.run

\* Once the workspace is verified (by the smoke, or by the retry), the receipt
\* that would license a rollback names the approved patch that was written.
\* Holds without crashes.
ReceiptMatches ==
    inc.status \in {"smoke_running", "smoke_passed", "smoke_skipped", "retry_running"} =>
        /\ inc.receipt.prop # 0
        /\ inc.receipt.file.patch = inc.receipt.prop
        /\ proposal[inc.receipt.prop].approved

\* No coroutine sends an event the incident's status does not accept: every
\* status check before an await still holds when the event is sent.  No failure
\* of a job opens a second incident.  Holds without crashes.
NoFault == fault = {}

\* At most one diagnosis task investigates.  Holds without crashes.
OneRuntime == \A t, u \in Runtime : co[t].at # "idle" /\ co[u].at # "idle" => t = u

\* The smoke process and the retried training never run side by side in the
\* workspace.  This is about the leader of the group, the process the executor
\* waits for: what it has started and left behind (smokeRest) may run on beside
\* the training.  Holds without crashes.
SmokeBeforeRetry ==
    (co[Monitor].at = "watch" /\ attempt[mon.att].exit = "none") => smokeProc # "alive"

\* store.py: the process identity is persisted before smoke_running can be seen,
\* so a restarted daemon can stop every smoke the user was shown.
SmokeIsRecorded ==
    (inc.status = "smoke_running" /\ smokeProc = "alive") => inc.smoke = "running"

\* store.py: the snapshot never points at a diff that was deleted.
ProposalHasDiff == inc.prop # 0 => diff # 0

\* A patch that was rolled back is not in the workspace, and is not offered.
RolledBackIsGone ==
    \A p \in Proposals : proposal[p].reverted =>
        file.patch # p /\ (inc.status = "awaiting_approval" => inc.prop # p)

\* A serving daemon never shows "diagnosing" with nobody diagnosing.
DiagnosingHasTask ==
    (daemon = "up" /\ inc.status = "diagnosing") =>
        \/ \E t \in Runtime : co[t].at # "idle"
        \/ \E p \in Caller : co[p].at \in {"create", "mark"}

\* A resolved or rejected incident stays so, whatever crashes or comes late.
TerminalForever == [][inc.status \in Terminal => inc'.status = inc.status]_vars

\* The status moves only as IncidentLifecycle allows.
Lifecycle ==
    INSTANCE IncidentLifecycle WITH
        status <- inc.status,
        phase  <- IF daemon \in {"up", "stopping"} THEN "serving" ELSE daemon

LifecycleSpec == Lifecycle!Spec
-----------------------------------------------------------------------------
(* Liveness *)

\* Every coroutine that can run is resumed, requests are bounded by their
\* timeouts (git 30 s, smoke timeout_s) and the agent by its twelve steps;
\* what clients, users and the environment do is never assumed, except that a
\* training process exits.
Fairness ==
    /\ \A c \in Client : WF_vars(ClientStep(c))
    /\ \A p \in Caller : WF_vars(CallerStep(p))
    /\ WF_vars(MonitorStep) /\ WF_vars(RecoveryStep) /\ WF_vars(TrainingExit)
    /\ \A a \in Attempts : WF_vars(Observe(a))
    /\ \A t \in Runtime : WF_vars(TaskStep(t)) /\ SF_vars(AgentEnd(t))

FairSpec == Spec /\ Fairness

\* An investigation ends, with a proposal to decide on or without.
InvestigationEnds == inc.status = "diagnosing" ~> inc.status # "diagnosing"

\* An approved patch is applied, verified and retried, or given up.
ApprovalIsCarriedOut ==
    inc.status \in {"applying", "smoke_running", "smoke_passed", "smoke_skipped"} ~>
    inc.status \notin {"applying", "smoke_running", "smoke_passed", "smoke_skipped"}

\* A retry that was launched, and not only announced, is over.
RetryIsOverWith(statuses, failures) ==
    /\ inc.status = "retry_running" /\ job.cur \in observers
    /\ \A c \in Client : co[c].at # "launch"
    /\ job.status \in statuses \/ attempt[job.cur].failure \in failures

\* A launched retry that succeeded, was cancelled, exited by itself or could not
\* be started is settled by the observer or by the failure callback.
RetryIsSettledByExit ==
    RetryIsOverWith({"succeeded", "cancelled"}, {"process_exit", "launch_error"}) ~>
    inc.status # "retry_running"

\* coordinator.py, _observe_retry: waits for the retry to end and decides, by
\* the exit code, between "resolved" and the failure callback's investigation.
RetryIsSettled ==
    RetryIsOverWith({"succeeded", "cancelled", "failed"}, {}) ~>
    inc.status # "retry_running"
=============================================================================
