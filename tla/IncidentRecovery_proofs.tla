------------------------ MODULE IncidentRecovery_proofs ------------------------
(***************************************************************************)
(* What a crash between any two writes cannot break: a smoke that was      *)
(* shown can be found and stopped, a patch that was rolled back is neither *)
(* in the workspace nor offered again, the snapshot names no deleted diff, *)
(* and an incident that is served as "diagnosing" has its diagnosis.       *)
(*                                                                         *)
(* Each invariant concerns a few variables, and most actions leave those   *)
(* alone.  The first section says what each kind of step leaves alone;     *)
(* each of the others then names the steps that do not.                    *)
(***************************************************************************)
EXTENDS IncidentLifecycle_proofs

(* Frames *)

\* What a step of a client's request leaves alone: everything of the agent's,
\* and every other coroutine, save that a launched retry starts its monitor.
LEMMA ClientLeaves ==
    ASSUME TypeOK, NEW c \in Client, ClientStep(c)
    PROVE  /\ daemon' = daemon /\ diff' = diff /\ run' = run /\ nProposals' = nProposals
           /\ calls' = calls /\ crashes' = crashes
           /\ inc'.attempt = inc.attempt /\ inc'.run = inc.run /\ inc'.diag = inc.diag
           /\ inc'.prop = inc.prop /\ inc'.active = inc.active
           /\ \A q \in Proc \ {c} : co'[q] = co[q] \/ (q = Monitor /\ Launched(c))
<1>a. c \in Proc
  BY ProcFacts
<1>1. /\ daemon' = daemon /\ diff' = diff /\ run' = run /\ nProposals' = nProposals
      /\ calls' = calls /\ crashes' = crashes
  BY DEF ClientStep, DecideRefused, Reject, Invalidate, Approve, FollowUp, ApplyCheck, GitApply,
     WriteReceipt, SkipSmoke, SmokeSpawn, SmokeIdentity, SmokeVisible, SmokeEnd, SmokeFinished,
     SmokePassed, SmokeFailed, ReverseCheck, GitReverse, RetryStart, RetryRefused, Launch,
     Launched, LaunchFailed, patches, bounds
<1>2. /\ inc'.attempt = inc.attempt /\ inc'.run = inc.run /\ inc'.diag = inc.diag
      /\ inc'.prop = inc.prop /\ inc'.active = inc.active
  <2>1. CASE \E e, next, bad : Dispatch(c, e, next, bad)
    BY <2>1 DEF Dispatch, TypeOK, Incident
  <2>2. CASE ~\E e, next, bad : Dispatch(c, e, next, bad)
    BY <2>2 DEF ClientStep, DecideRefused, Reject, Invalidate, Approve, FollowUp, ApplyCheck,
       GitApply, WriteReceipt, SkipSmoke, SmokeSpawn, SmokeIdentity, SmokeVisible, SmokeEnd,
       SmokeFinished, SmokePassed, SmokeFailed, ReverseCheck, GitReverse, RetryStart,
       RetryRefused, Launch, Launched, LaunchFailed, TypeOK, Incident
  <2> QED
    BY <2>1, <2>2
<1>3. ASSUME NEW q \in Proc \ {c}
      PROVE  co'[q] = co[q] \/ (q = Monitor /\ Launched(c))
  BY <1>a, GotoEffect
  DEF ClientStep, DecideRefused, Reject, Invalidate, Approve, FollowUp, ApplyCheck, GitApply,
     WriteReceipt, SkipSmoke, SmokeSpawn, SmokeIdentity, SmokeVisible, SmokeEnd, SmokeFinished,
     SmokePassed, SmokeFailed, ReverseCheck, GitReverse, RetryStart, RetryRefused, Launch,
     Launched, LaunchFailed, Dispatch, TypeOK, Goto
<1> QED
  BY <1>1, <1>2, <1>3

\* What a diagnosis task leaves alone: the workspace, the jobs and every other coroutine.
LEMMA TaskLeaves ==
    ASSUME TypeOK, NEW t \in Runtime, TaskStep(t)
    PROVE  /\ daemon' = daemon /\ UNCHANGED <<mon, observers, job, attempt, file, smokeProc>>
           /\ calls' = calls /\ crashes' = crashes
           /\ inc'.attempt = inc.attempt /\ inc'.run = inc.run
           /\ inc'.receipt = inc.receipt /\ inc'.smoke = inc.smoke
           /\ \A q \in Proc \ {t} : co'[q] = co[q]
           /\ co[t].at \notin {"idle", "watch"}
           /\ \/ inc'.status = inc.status
              \/ inc.status = "diagnosing" /\ inc'.status \in {"awaiting_approval", "unresolved"}
<1>a. t \in Proc
  BY ProcFacts
<1>1. /\ daemon' = daemon /\ UNCHANGED <<mon, observers, job, attempt, file, smokeProc>>
      /\ calls' = calls /\ crashes' = crashes /\ co[t].at \notin {"idle", "watch"}
  BY DEF TaskStep, TaskStart, SubmitDiagnosis, ProposeDiff, ProposeMeta, Preflight, Unpropose,
     AgentEnd, FinishRun, TaskRaises, TaskTail, TaskDone, At, supervisor, workspace, bounds
<1>2. /\ inc'.attempt = inc.attempt /\ inc'.run = inc.run
      /\ inc'.receipt = inc.receipt /\ inc'.smoke = inc.smoke
  BY DEF TaskStep, TaskStart, SubmitDiagnosis, ProposeDiff, ProposeMeta, Preflight, Unpropose,
     AgentEnd, FinishRun, TaskRaises, TaskTail, TaskDone, GiveUp, Dispatch, TypeOK, Incident
<1>3. ASSUME NEW q \in Proc \ {t}
      PROVE  co'[q] = co[q]
  BY <1>a, GotoEffect
  DEF TaskStep, TaskStart, SubmitDiagnosis, ProposeDiff, ProposeMeta, Preflight, Unpropose,
     AgentEnd, FinishRun, TaskRaises, TaskTail, TaskDone, GiveUp, Dispatch, TypeOK
<1>4. \/ inc'.status = inc.status
      \/ inc.status = "diagnosing" /\ inc'.status \in {"awaiting_approval", "unresolved"}
  <2>1. CASE TaskRaises(t) \/ TaskTail(t) \/ TaskDone(t)
    BY <2>1, EdgeFacts
    DEF TaskRaises, TaskTail, TaskDone, GiveUp, Dispatch, TypeOK, Incident, Target, Transitions
  <2>2. CASE ~(TaskRaises(t) \/ TaskTail(t) \/ TaskDone(t))
    BY <2>2 DEF TaskStep, TaskStart, SubmitDiagnosis, ProposeDiff, ProposeMeta, Preflight,
       Unpropose, AgentEnd, FinishRun, TypeOK, Incident
  <2> QED
    BY <2>1, <2>2
<1> QED
  BY <1>1, <1>2, <1>3, <1>4

\* What a new investigation leaves alone.
LEMMA CallerLeaves ==
    ASSUME TypeOK, NEW p \in Caller, CallerStep(p)
    PROVE  /\ daemon' = daemon /\ UNCHANGED <<mon, observers, job, attempt, file, smokeProc>>
           /\ proposal' = proposal /\ nProposals' = nProposals
           /\ calls' = calls /\ crashes' = crashes
           /\ inc'.attempt = inc.attempt /\ inc'.receipt = inc.receipt /\ inc'.smoke = inc.smoke
           /\ \A q \in Caller \ {p} : co'[q] = co[q]
           /\ \A t \in Runtime : co'[t] = co[t] \/ MarkRun(p)
<1>a. p \in Proc /\ \A t \in Runtime : t \in Proc /\ t \notin Caller
  BY ProcFacts DEF Proc, Caller
<1>1. /\ daemon' = daemon /\ UNCHANGED <<mon, observers, job, attempt, file, smokeProc>>
      /\ proposal' = proposal /\ nProposals' = nProposals
      /\ calls' = calls /\ crashes' = crashes
  BY DEF CallerStep, ClearArtifacts, UnlinkDiff, Reinvestigate, CreateRun, MarkRun, supervisor,
     workspace, patches, bounds
<1>2. inc'.attempt = inc.attempt /\ inc'.receipt = inc.receipt /\ inc'.smoke = inc.smoke
  BY DEF CallerStep, ClearArtifacts, UnlinkDiff, Reinvestigate, CreateRun, MarkRun, Dispatch,
     TypeOK, Incident
<1>3. ASSUME NEW q \in Proc \ {p}, q \in Caller \/ ~MarkRun(p)
      PROVE  co'[q] = co[q]
  BY <1>3, <1>a, GotoEffect
  DEF CallerStep, ClearArtifacts, UnlinkDiff, Reinvestigate, CreateRun, MarkRun, Spawn, Dispatch,
     TypeOK
<1> QED
  BY <1>1, <1>2, <1>3, <1>a DEF Proc

\* What the monitor and the failure it handles leave alone.
LEMMA MonitorLeaves ==
    ASSUME TypeOK, MonitorStep
    PROVE  /\ daemon' = daemon /\ UNCHANGED <<observers, diff, run, file, smokeProc>>
           /\ proposal' = proposal /\ nProposals' = nProposals
           /\ calls' = calls /\ crashes' = crashes
           /\ inc'.run = inc.run /\ inc'.diag = inc.diag /\ inc'.prop = inc.prop
           /\ inc'.active = inc.active /\ inc'.receipt = inc.receipt /\ inc'.smoke = inc.smoke
           /\ \A q \in Proc \ {Monitor} : co'[q] = co[q]
<1>a. Monitor \in Proc
  BY ProcFacts
<1>1. /\ daemon' = daemon /\ UNCHANGED <<observers, diff, run, file, smokeProc>>
      /\ proposal' = proposal /\ nProposals' = nProposals
      /\ calls' = calls /\ crashes' = crashes
  BY DEF MonitorStep, MonitorFailure, MonitorSeal, WriteCapsule, HandleFailure, RetryFailed,
     supervisor, workspace, patches, bounds
<1>2. /\ inc'.run = inc.run /\ inc'.diag = inc.diag /\ inc'.prop = inc.prop
      /\ inc'.active = inc.active /\ inc'.receipt = inc.receipt /\ inc'.smoke = inc.smoke
  BY DEF MonitorStep, MonitorFailure, MonitorSeal, WriteCapsule, HandleFailure, RetryFailed,
     TypeOK, Incident
<1>3. ASSUME NEW q \in Proc \ {Monitor}
      PROVE  co'[q] = co[q]
  BY <1>a, GotoEffect
  DEF MonitorStep, MonitorFailure, MonitorSeal, WriteCapsule, HandleFailure, RetryFailed, TypeOK
<1> QED
  BY <1>1, <1>2, <1>3

\* What start-up recovery leaves alone.
LEMMA RecoveryLeaves ==
    ASSUME TypeOK, LInv, RecoveryStep
    PROVE  /\ daemon = "recovering" /\ daemon' \in {"recovering", "up"}
           /\ UNCHANGED <<observers, attempt, diff, file>>
           /\ proposal' = proposal /\ nProposals' = nProposals
           /\ calls' = calls /\ crashes' = crashes
           /\ inc'.attempt = inc.attempt /\ inc'.run = inc.run /\ inc'.diag = inc.diag
           /\ inc'.prop = inc.prop /\ inc'.receipt = inc.receipt
           /\ \A q \in Caller \ {Monitor} : co'[q] = co[q]
           /\ \A c \in Client : co[c].at = "idle"
<1>a. Monitor \in Proc
  BY ProcFacts
<1>1. /\ co[Monitor].at \in RecoveryLabel
      /\ UNCHANGED <<observers, attempt, diff, file>>
      /\ proposal' = proposal /\ nProposals' = nProposals
      /\ calls' = calls /\ crashes' = crashes /\ (daemon' = daemon \/ daemon' = "up")
  BY DEF RecoveryStep, RecoverInterrupted, RecoverFailure, RecoverIncident, RecoverDiagnosing,
     RecoverSmoke, Unresolve, Serve, At, RecoveryLabel, supervisor, workspace, patches, bounds
<1>2. daemon = "recovering"
  BY <1>1 DEF LInv, RecoveryRuns
<1>3. /\ inc'.attempt = inc.attempt /\ inc'.run = inc.run /\ inc'.diag = inc.diag
      /\ inc'.prop = inc.prop /\ inc'.receipt = inc.receipt
  BY DEF RecoveryStep, RecoverInterrupted, RecoverFailure, RecoverIncident, RecoverDiagnosing,
     RecoverSmoke, Unresolve, Serve, TypeOK, Incident
<1>4. ASSUME NEW q \in Caller \ {Monitor}
      PROVE  co'[q] = co[q]
  <2>1. q \in Proc /\ q \notin Runtime
    BY ProcFacts DEF Caller
  <2> QED
    BY <2>1, <1>a, GotoEffect
    DEF RecoveryStep, RecoverInterrupted, RecoverFailure, RecoverIncident, RecoverDiagnosing,
        RecoverSmoke, Unresolve, Serve, Spawn, TypeOK
<1>5. \A c \in Client : co[c].at = "idle"
  BY <1>2 DEF LInv, NobodyServed
<1> QED
  BY <1>1, <1>2, <1>3, <1>4, <1>5

\* What the environment leaves alone: the incident, the diff and the runs.
LEMMA EnvironmentLeaves ==
    ASSUME TypeOK, Environment
    PROVE  /\ UNCHANGED <<inc, diff, run, nProposals, job, fault>>
           /\ \A p \in Proc :
                 \/ co'[p] = co[p]
                 \/ co'[p] = Idle
                 \/ p \in Client /\ co[p].at = "idle" /\ co'[p].at = "wait"
                 \/ p = Monitor /\ co'[p].at = "reap"
<1>a. Monitor \in Proc
  BY ProcFacts
<1>1. UNCHANGED <<inc, diff, run, nProposals, job, fault>>
  BY DEF Environment, SendRequest, Cancel, LogFails, TrainingExit, SmokeExit, SmokeRestExit, UserEdit, Crash,
     StopStarting, Close, Restart, supervisor, patches
<1>2. CASE \E c \in Client : SendRequest(c)
  BY <1>1, <1>2, ProcFacts DEF SendRequest, TypeOK, Idle
<1>3. CASE Crash \/ Close \/ Restart
  BY <1>1, <1>3, <1>a, GotoEffect DEF Crash, Close, Restart, TypeOK
<1>4. CASE Cancel \/ LogFails \/ TrainingExit \/ SmokeExit \/ SmokeRestExit \/ UserEdit \/ StopStarting
  BY <1>1, <1>4 DEF Cancel, LogFails, TrainingExit, SmokeExit, SmokeRestExit, UserEdit, StopStarting
<1> QED
  BY <1>2, <1>3, <1>4 DEF Environment
-----------------------------------------------------------------------------
(* The events of a request *)

\* What a smoke left a client to report, and what its rollback will report.
SmokeVerdict == {"SMOKE_PASSED", "SMOKE_FAILED_ROLLED_BACK", "SMOKE_FAILED_ROLLED_BACK_NO_EVIDENCE"}
RolledBack   == SmokeVerdict \ {"SMOKE_PASSED"}

\* The event a client carries to the end of its request.
Carries(c) ==
    /\ co[c].at \in {"ended", "verdict"} => co[c].ev \in SmokeVerdict
    /\ co[c].at \in {"revcheck", "reverse"} => co[c].ev \in RolledBack
    /\ co[c].at \in {"clear", "unlink", "dispatch"} => co[c].ev \in RolledBack \cup {"FOLLOW_UP"}
EInv == \A c \in Client : Carries(c)

LEMMA CarriesKeeps ==
    ASSUME TypeOK, NEW c \in Client, Carries(c), ClientStep(c) \/ CallerStep(c)
    PROVE  Carries(c)'
<1>a. c \in Proc /\ c # Monitor /\ Return(c) = "idle"
  BY ProcFacts
<1>1. CASE SmokeSpawn(c) \/ SmokeEnd(c) \/ FollowUp(c) \/ SmokeFailed(c)
  BY <1>1, <1>a, GotoEffect
  DEF SmokeSpawn, SmokeEnd, FollowUp, SmokeFailed, Dispatch, At, SmokeResult, Carries,
      SmokeVerdict, RolledBack, TypeOK, Local
<1>2. CASE GitReverse(c) \/ ReverseCheck(c) \/ SmokeFinished(c) \/ ClearArtifacts(c) \/ UnlinkDiff(c)
  BY <1>2, <1>a, GotoEffect
  DEF GitReverse, ReverseCheck, SmokeFinished, ClearArtifacts, UnlinkDiff, Dispatch, At, Carries,
      SmokeVerdict, RolledBack, TypeOK
<1>3. CASE \/ DecideRefused(c) \/ Reject(c) \/ Invalidate(c) \/ Approve(c)
           \/ ApplyCheck(c) \/ GitApply(c) \/ WriteReceipt(c) \/ SkipSmoke(c)
           \/ SmokeIdentity(c) \/ SmokeVisible(c) \/ SmokePassed(c)
           \/ RetryStart(c) \/ RetryRefused(c) \/ Launch(c) \/ Launched(c) \/ LaunchFailed(c)
  <2>1. co'[c].at \in {"idle", "check", "apply", "receipt", "skip", "spawning", "visible",
                        "smoking", "retry", "launch", "launching"}
    BY <1>3, <1>a, GotoEffect
    DEF DecideRefused, Reject, Invalidate, Approve, ApplyCheck, GitApply, WriteReceipt, SkipSmoke,
        SmokeIdentity, SmokeVisible, SmokePassed, RetryStart, RetryRefused, Launch, Launched,
        LaunchFailed, Dispatch, TypeOK, Local, Idle
  <2> QED
    BY <2>1 DEF Carries
<1>4. CASE Reinvestigate(c) \/ CreateRun(c) \/ MarkRun(c)
  <2>1. co'[c].at \in {"idle", "create", "mark"}
    BY <1>4, <1>a, ProcFacts, GotoEffect
    DEF Reinvestigate, CreateRun, MarkRun, Spawn, Dispatch, TypeOK, Local, Idle
  <2> QED
    BY <2>1 DEF Carries
<1> QED
  BY <1>1, <1>2, <1>3, <1>4 DEF ClientStep, CallerStep

LEMMA NextEvent == TypeOK /\ LInv /\ EInv /\ [Next]_vars => EInv'
<1> SUFFICES ASSUME TypeOK, LInv, EInv, [Next]_vars, NEW c \in Client PROVE Carries(c)'
  BY DEF EInv
<1>a. c \in Proc /\ c # Monitor /\ c \in Caller /\ c \notin Runtime
  BY ProcFacts DEF Caller
<1>1. CASE co'[c] = co[c] \/ co'[c] = Idle
  BY <1>1 DEF EInv, Carries, Idle
<1>2. CASE \E d \in Client : ClientStep(d)
  BY <1>2, <1>1, <1>a, CarriesKeeps, ClientLeaves DEF EInv
<1>3. CASE \E p \in Caller : CallerStep(p)
  BY <1>3, <1>1, <1>a, CarriesKeeps, CallerLeaves DEF EInv
<1>4. CASE MonitorStep \/ RecoveryStep \/ \E t \in Runtime : TaskStep(t)
  BY <1>4, <1>1, <1>a, MonitorLeaves, RecoveryLeaves, TaskLeaves
<1>5. CASE Environment
  BY <1>5, <1>1, <1>a, EnvironmentLeaves DEF Carries
<1>6. CASE (\E a \in Attempts : Observe(a)) \/ UNCHANGED vars
  BY <1>6, <1>1 DEF Observe, vars
<1> QED
  BY <1>2, <1>3, <1>4, <1>5, <1>6 DEF Next

\* The event a request ends with is one its incident's state machine knows for it.
THEOREM EventsCarried == Spec => []EInv
<1>1. Init => EInv
  BY ProcFacts DEF Init, Idle, EInv, Carries
<1> QED
  BY <1>1, NextEvent, TypeCorrect, LockHolds, PTL DEF Spec
-----------------------------------------------------------------------------
(* A smoke is recorded before it is shown *)

\* Labels at which a client waits for a smoke process it has recorded.
Smoking == {"visible", "smoking", "ended"}

\* The record is on disk before the status shows it, and a smoke the executor
\* gave up is dead.
SInv ==
    /\ SmokeIsRecorded
    /\ \A c \in Client : co[c].at \in {"visible", "smoking"} => inc.smoke = "running"
    /\ \A c \in Client : co[c].at = "ended" => smokeProc # "alive"

\* A step that neither starts, records, shows nor settles a smoke.
SmokeTame ==
    /\ inc'.smoke = inc.smoke
    /\ smokeProc' = "alive" => smokeProc = "alive"
    /\ inc'.status = "smoke_running" => inc.status = "smoke_running"
    /\ \A c \in Client : co'[c].at \in Smoking => co'[c].at = co[c].at

LEMMA SmokeTameKeeps ==
    ASSUME SInv, SmokeTame
    PROVE  SInv'
BY DEF SInv, SmokeTame, Smoking, SmokeIsRecorded

\* Only APPLY_OK_SMOKE leads to smoke_running.
LEMMA NotToSmoke ==
    ASSUME NEW s, NEW e, e # "APPLY_OK_SMOKE", Accepts(s, e)
    PROVE  Target(s, e) # "smoke_running"
BY DEF Accepts, Target, Transitions, SmokeOutcome

LEMMA GotoSmoke ==
    ASSUME TypeOK, NEW p \in Proc, NEW l, l \notin Smoking, Goto(p, l)
    PROVE  \A c \in Client : co'[c].at \in Smoking => co'[c].at = co[c].at
BY GotoEffect, ProcFacts

LEMMA DispatchSmoke ==
    ASSUME TypeOK, NEW p \in Proc, NEW e, NEW next, NEW bad, e # "APPLY_OK_SMOKE",
           next \notin Smoking, bad \notin Smoking, Dispatch(p, e, next, bad),
           smokeProc' = smokeProc
    PROVE  SmokeTame
<1>1. inc'.smoke = inc.smoke
  BY DispatchEffect
<1>2. inc'.status = "smoke_running" => inc.status = "smoke_running"
  BY DispatchEffect, NotToSmoke
<1>3. Goto(p, next) \/ Goto(p, bad)
  BY DEF Dispatch
<1>4. \A c \in Client : co'[c].at \in Smoking => co'[c].at = co[c].at
  BY <1>3, GotoSmoke
<1> QED
  BY <1>1, <1>2, <1>4 DEF SmokeTame

LEMMA SpawnSmoke ==
    ASSUME TypeOK, NEW p \in Proc, NEW next, NEW r, next \notin Smoking, Spawn(p, next, r)
    PROVE  \A c \in Client : co'[c].at \in Smoking => co'[c].at = co[c].at
<1>1. PICK t \in Runtime :
         co' = [co EXCEPT ![p] = [Idle EXCEPT !.at = next],
                          ![t] = [Idle EXCEPT !.at = "start", !.run = r]]
  BY DEF Spawn
<1> QED
  BY <1>1, ProcFacts DEF TypeOK, Idle, Smoking

LEMMA ClientSmoke ==
    ASSUME TypeOK, LInv, SInv, NEW c \in Client, ClientStep(c)
    PROVE  SInv'
<1>a. c \in Proc
  BY ProcFacts
<1>1. CASE DecideRefused(c) \/ Launch(c) \/ LaunchFailed(c) \/ WriteReceipt(c)
  <2>1. SmokeTame
    BY <1>1, <1>a, GotoSmoke
    DEF DecideRefused, Launch, LaunchFailed, WriteReceipt, workspace, SmokeTame, Smoking, TypeOK, Incident
  <2> QED
    BY <2>1, SmokeTameKeeps
<1>3. CASE Reject(c) \/ Invalidate(c) \/ SkipSmoke(c)
           \/ SmokePassed(c) \/ RetryStart(c) \/ RetryRefused(c)
  <2>1. SmokeTame
    BY <1>3, <1>a, DispatchSmoke
    DEF Reject, Invalidate, SkipSmoke, SmokePassed, RetryStart, RetryRefused, Smoking, workspace
  <2> QED
    BY <2>1, SmokeTameKeeps
<1>4. CASE ApplyCheck(c) \/ GitApply(c) \/ ReverseCheck(c) \/ GitReverse(c)
  <2>1. SmokeTame
    BY <1>4, <1>a, GotoSmoke, DispatchSmoke
    DEF ApplyCheck, GitApply, ReverseCheck, GitReverse, SmokeTame, Smoking, workspace
  <2> QED
    BY <2>1, SmokeTameKeeps
<1>5. CASE SmokeFailed(c)
  <2>1. SmokeTame
    BY <1>5, <1>a, ProcFacts, DispatchSmoke
    DEF SmokeFailed, SmokeTame, Smoking, TypeOK, Local, workspace
  <2> QED
    BY <2>1, SmokeTameKeeps
<1>6. CASE Approve(c) \/ FollowUp(c) \/ Launched(c)
  <2>1. co'[c].at \notin Smoking /\ \A d \in Client \ {c} : co'[d] = co[d]
    BY <1>6, <1>a, ProcFacts, GotoEffect
    DEF Approve, FollowUp, Launched, Smoking, TypeOK, Local, Idle
  <2>2. /\ inc'.smoke = inc.smoke /\ smokeProc' = smokeProc
        /\ inc'.status = "smoke_running" => inc.status = "smoke_running"
    BY <1>6, NotToSmoke
    DEF Approve, FollowUp, Launched, Decidable, workspace, TypeOK, Incident, Target, Transitions
  <2>3. SmokeTame
    BY <2>1, <2>2 DEF SmokeTame
  <2> QED
    BY <2>3, SmokeTameKeeps
<1>b. ASSUME co[c].at \notin {"idle", "wait"}
      PROVE  \A d \in Client \ {c} : co[d].at \notin Smoking
  BY <1>b DEF LInv, LockExclusive, Locked, Smoking
<1>7. CASE SmokeSpawn(c)
  <2>1. /\ \A d \in Client \ {c} : co[d].at \notin Smoking /\ co'[d] = co[d]
        /\ \/ co'[c].at = "exec"
           \/ co'[c].at = "ended" /\ smokeProc' # "alive"
        /\ inc' = inc
    BY <1>7, <1>a, <1>b, ProcFacts, GotoEffect DEF SmokeSpawn, At, TypeOK, Local
  <2>2. inc.status # "smoke_running"
    BY <1>7 DEF SmokeSpawn, At, LInv, LockPins, Pins
  <2> QED
    BY <2>1, <2>2 DEF SInv, Smoking, SmokeIsRecorded
<1>8. CASE SmokeIdentity(c)
  <2>1. /\ \A d \in Client \ {c} : co[d].at \notin Smoking /\ co'[d] = co[d]
        /\ co'[c].at = "visible" /\ inc'.smoke = "running" /\ smokeProc' = smokeProc
    BY <1>8, <1>a, <1>b, ProcFacts, GotoEffect DEF SmokeIdentity, At, TypeOK, Incident, workspace
  <2> QED
    BY <2>1 DEF SInv, Smoking, SmokeIsRecorded
<1>9. CASE SmokeVisible(c)
  <2>1. /\ \A d \in Client \ {c} : co[d].at \notin Smoking /\ co'[d] = co[d]
        /\ co'[c].at \in {"smoking", "idle"} /\ inc'.smoke = inc.smoke /\ smokeProc' = smokeProc
    BY <1>9, <1>a, <1>b, ProcFacts, DispatchEffect DEF SmokeVisible, At, workspace
  <2>2. inc.smoke = "running"
    BY <1>9 DEF SmokeVisible, At, SInv
  <2> QED
    BY <2>1, <2>2 DEF SInv, Smoking, SmokeIsRecorded
<1>10. CASE SmokeEnd(c)
  <2>1. /\ \A d \in Client \ {c} : co[d].at \notin Smoking /\ co'[d] = co[d]
        /\ co'[c].at = "ended" /\ inc' = inc /\ smokeProc' # "alive"
    BY <1>10, <1>a, <1>b, ProcFacts DEF SmokeEnd, At, TypeOK, Local
  <2> QED
    BY <2>1 DEF SInv, Smoking, SmokeIsRecorded
<1>11. CASE SmokeFinished(c)
  <2>1. /\ \A d \in Client \ {c} : co[d].at \notin Smoking /\ co'[d] = co[d]
        /\ co'[c].at = "verdict" /\ smokeProc' = smokeProc
    BY <1>11, <1>a, <1>b, ProcFacts, GotoEffect DEF SmokeFinished, At, workspace
  <2>2. smokeProc # "alive"
    BY <1>11 DEF SmokeFinished, At, SInv
  <2> QED
    BY <2>1, <2>2 DEF SInv, Smoking, SmokeIsRecorded
<1> QED
  BY <1>1, <1>3, <1>4, <1>5, <1>6, <1>7, <1>8, <1>9, <1>10, <1>11 DEF ClientStep

\* A new investigation, a diagnosis task and a monitored failure leave the smoke alone.
LEMMA CallerSmoke ==
    ASSUME TypeOK, LInv, EInv, SInv, NEW p \in Caller, CallerStep(p)
    PROVE  SInv'
<1>a. p \in Proc /\ Return(p) \notin Smoking
  BY DEF Proc, Return, Smoking
<1>1. CASE ClearArtifacts(p) \/ UnlinkDiff(p)
  <2>1. SmokeTame
    BY <1>1, <1>a, GotoSmoke
    DEF ClearArtifacts, UnlinkDiff, workspace, SmokeTame, Smoking, TypeOK, Incident
  <2> QED
    BY <2>1, SmokeTameKeeps
<1>2. CASE Reinvestigate(p)
  <2>1. co[p].ev # "APPLY_OK_SMOKE"
    BY <1>2 DEF Reinvestigate, At, Caller, EInv, Carries, RolledBack, SmokeVerdict, LInv,
       MonitorEvent
  <2>2. SmokeTame
    BY <1>2, <2>1, <1>a, DispatchSmoke DEF Reinvestigate, workspace, Smoking
  <2> QED
    BY <2>2, SmokeTameKeeps
<1>3. CASE CreateRun(p)
  <2>1. SmokeTame
    BY <1>3, <1>a, ProcFacts DEF CreateRun, workspace, SmokeTame, Smoking, TypeOK, Local
  <2> QED
    BY <2>1, SmokeTameKeeps
<1>4. CASE MarkRun(p)
  <2>1. SmokeTame
    BY <1>4, <1>a, SpawnSmoke DEF MarkRun, workspace, SmokeTame, TypeOK, Incident
  <2> QED
    BY <2>1, SmokeTameKeeps
<1> QED
  BY <1>1, <1>2, <1>3, <1>4 DEF CallerStep

LEMMA TaskSmoke ==
    ASSUME TypeOK, LInv, SInv, NEW t \in Runtime, TaskStep(t)
    PROVE  SInv'
<1>1. /\ inc'.smoke = inc.smoke /\ smokeProc' = smokeProc
      /\ \A q \in Proc \ {t} : co'[q] = co[q]
      /\ \/ inc'.status = inc.status
         \/ inc.status = "diagnosing" /\ inc'.status \in {"awaiting_approval", "unresolved"}
  BY TaskLeaves
<1>2. SmokeTame
  BY <1>1, ProcFacts DEF SmokeTame
<1> QED
  BY <1>2, SmokeTameKeeps

\* Recovery marks a smoke interrupted only once its process is dead.
LEMMA MonitorSmoke ==
    ASSUME TypeOK, LInv, SInv, MonitorStep \/ RecoveryStep
    PROVE  SInv'
<1>a. Monitor \in Proc /\ Return(Monitor) \notin Smoking
  BY ProcFacts DEF Return, Smoking
<1>1. CASE MonitorFailure \/ MonitorSeal \/ WriteCapsule \/ HandleFailure \/ RecoverInterrupted
           \/ RecoverFailure
  <2>1. SmokeTame
    BY <1>1, <1>a, GotoSmoke
    DEF MonitorFailure, MonitorSeal, WriteCapsule, HandleFailure, RecoverInterrupted,
        RecoverFailure, workspace, SmokeTame, Smoking, TypeOK, Incident
  <2> QED
    BY <2>1, SmokeTameKeeps
<1>2. CASE RetryFailed
  <2>1. SmokeTame
    BY <1>2, <1>a, ProcFacts
    DEF RetryFailed, workspace, SmokeTame, Smoking, TypeOK, Local, Incident
  <2> QED
    BY <2>1, SmokeTameKeeps
<1>3. CASE RecoverIncident \/ Unresolve
  <2>1. SmokeTame
    BY <1>3, <1>a, GotoSmoke
    DEF RecoverIncident, Unresolve, Serve, RetryVerdict, workspace, SmokeTame, Smoking, TypeOK,
        Incident
  <2> QED
    BY <2>1, SmokeTameKeeps
<1>4. CASE RecoverDiagnosing
  <2>1. SmokeTame
    BY <1>4, <1>a, GotoSmoke, SpawnSmoke
    DEF RecoverDiagnosing, workspace, SmokeTame, Smoking
  <2> QED
    BY <2>1, SmokeTameKeeps
<1>5. CASE RecoverSmoke
  <2>1. \A c \in Client : co[c].at = "idle" /\ co'[c] = co[c]
    BY <1>5, <1>a, ProcFacts, GotoEffect
    DEF RecoverSmoke, At, Serve, LInv, NobodyServed, RecoveryRuns, RecoveryLabel
  <2>2. smokeProc' # "alive" \/ (inc' = inc /\ smokeProc' = smokeProc)
    BY <1>5 DEF RecoverSmoke, Serve
  <2> QED
    BY <2>1, <2>2 DEF SInv, SmokeIsRecorded
<1> QED
  BY <1>1, <1>2, <1>3, <1>4, <1>5 DEF MonitorStep, RecoveryStep

LEMMA EnvironmentSmoke ==
    ASSUME TypeOK, LInv, SInv, Environment \/ (\E a \in Attempts : Observe(a))
    PROVE  SInv'
<1>1. CASE \E c \in Client : SendRequest(c)
  <2>1. PICK c \in Client : SendRequest(c)
    BY <1>1
  <2>2. co'[c].at = "wait" /\ inc' = inc /\ smokeProc' = smokeProc
        /\ \A q \in Client \ {c} : co'[q] = co[q]
    BY <2>1, ProcFacts DEF SendRequest, workspace, TypeOK, Idle
  <2>3. SmokeTame
    BY <2>2 DEF SmokeTame, Smoking
  <2> QED
    BY <2>3, SmokeTameKeeps
<1>2. CASE Cancel \/ LogFails \/ TrainingExit \/ SmokeExit \/ SmokeRestExit \/ UserEdit \/ StopStarting
  <2>1. SmokeTame
    BY <1>2
    DEF Cancel, LogFails, TrainingExit, SmokeExit, SmokeRestExit, UserEdit, StopStarting, workspace, SmokeTame
  <2> QED
    BY <2>1, SmokeTameKeeps
<1>3. CASE Crash \/ Close \/ Restart
  <2>1. inc' = inc /\ smokeProc' = smokeProc
    BY <1>3 DEF Crash, Close, Restart, workspace
  <2>2. \A c \in Client : co'[c].at \in Smoking => co'[c].at = co[c].at
    BY <1>3, ProcFacts, GotoSmoke DEF Crash, Close, Restart, Idle, Smoking
  <2> QED
    BY <2>1, <2>2, SmokeTameKeeps DEF SmokeTame
<1>4. CASE \E a \in Attempts : Observe(a)
  <2>1. PICK a \in Attempts : Observe(a)
    BY <1>4
  <2>2. inc'.status = "smoke_running" => inc.status = "smoke_running"
    BY <2>1, ObserveEffect, NotToSmoke DEF Accepts, Transitions
  <2>3. co' = co /\ inc'.smoke = inc.smoke /\ smokeProc' = smokeProc
    BY <2>1, ObserveEffect DEF Observe, workspace
  <2> QED
    BY <2>2, <2>3, SmokeTameKeeps DEF SmokeTame
<1> QED
  BY <1>1, <1>2, <1>3, <1>4 DEF Environment

LEMMA InitSmoke == Init => SInv
BY ProcFacts DEF Init, Idle, SInv, SmokeIsRecorded

LEMMA NextSmoke == TypeOK /\ LInv /\ EInv /\ SInv /\ [Next]_vars => SInv'
<1> SUFFICES ASSUME TypeOK, LInv, EInv, SInv, [Next]_vars PROVE SInv'
  OBVIOUS
<1>1. CASE Next
  BY <1>1, ClientSmoke, CallerSmoke, MonitorSmoke, TaskSmoke, EnvironmentSmoke DEF Next
<1>2. CASE UNCHANGED vars
  BY <1>2 DEF vars, SInv, SmokeIsRecorded
<1> QED
  BY <1>1, <1>2

\* store.py: the process identity is persisted before smoke_running can be seen.
\* So wherever the daemon dies, the next one can stop every smoke that was shown.
THEOREM SmokeRecorded == Spec => []SmokeIsRecorded
<1>1. SInv => SmokeIsRecorded
  BY DEF SInv
<1> QED
  BY <1>1, InitSmoke, NextSmoke, TypeCorrect, LockHolds, EventsCarried, PTL DEF Spec
-----------------------------------------------------------------------------
(* Somebody diagnoses what is shown as "diagnosing" *)

\* A coroutine that will diagnose, or is about to start one that will.
Diagnosing ==
    \/ \E t \in Runtime : co[t].at # "idle"
    \/ \E p \in Caller : co[p].at \in {"create", "mark"}

LEMMA ToDiagnosing ==
    ASSUME NEW s, NEW e, Accepts(s, e), Target(s, e) = "diagnosing"
    PROVE  e \in {"FOLLOW_UP", "SMOKE_FAILED_ROLLED_BACK", "RETRY_FAILED"}
BY DEF Accepts, Target, Transitions, SmokeOutcome

\* A step that starts no investigation and ends none.
LEMMA DiagnosingStays ==
    ASSUME Diagnosing,
           \A t \in Runtime : co'[t].at = co[t].at,
           \A p \in Caller : co[p].at \in {"create", "mark"} => co'[p].at \in {"create", "mark"}
    PROVE  Diagnosing'
BY DEF Diagnosing

LEMMA ClientGuarded ==
    ASSUME TypeOK, DiagnosingHasTask, NEW c \in Client, ClientStep(c)
    PROVE  DiagnosingHasTask'
<1>a. c \in Proc /\ c \in Caller /\ c # Monitor /\ Caller \subseteq Proc /\ Runtime \subseteq Proc
      /\ c \notin Runtime /\ Monitor \notin Runtime
  BY ProcFacts DEF Caller, Proc
<1>1. inc'.status = "diagnosing" => inc.status = "diagnosing"
  <2>1. CASE \E e \in Event : \E next, bad :
                /\ e \notin {"FOLLOW_UP", "SMOKE_FAILED_ROLLED_BACK", "RETRY_FAILED"}
                /\ Dispatch(c, e, next, bad)
    BY <2>1, ToDiagnosing, <1>a, DispatchEffect
  <2>2. CASE Approve(c)
    BY <2>2 DEF Approve, Decidable, TypeOK, Incident, Target, Transitions
  <2>3. CASE inc'.status = inc.status
    BY <2>3
  <2>4. CASE ApplyCheck(c) \/ GitApply(c) \/ SmokeFailed(c) \/ ReverseCheck(c) \/ GitReverse(c)
    BY <2>4, <2>1, <2>3 DEF ApplyCheck, GitApply, SmokeFailed, ReverseCheck, GitReverse, Event
  <2>5. CASE \/ Reject(c) \/ Invalidate(c) \/ SkipSmoke(c) \/ SmokeVisible(c) \/ SmokePassed(c)
             \/ RetryStart(c) \/ RetryRefused(c)
    BY <2>5, <2>1
    DEF Reject, Invalidate, SkipSmoke, SmokeVisible, SmokePassed, RetryStart, RetryRefused, Event
  <2>6. CASE \/ DecideRefused(c) \/ FollowUp(c) \/ WriteReceipt(c) \/ SmokeSpawn(c)
             \/ SmokeIdentity(c) \/ SmokeEnd(c) \/ SmokeFinished(c)
             \/ Launch(c) \/ Launched(c) \/ LaunchFailed(c)
    BY <2>6, <2>3
    DEF DecideRefused, FollowUp, WriteReceipt, SmokeSpawn, SmokeIdentity, SmokeEnd,
        SmokeFinished, Launch, Launched, LaunchFailed, TypeOK, Incident
  <2> QED
    BY <2>2, <2>4, <2>5, <2>6 DEF ClientStep
<1>2. co[c].at \notin {"create", "mark"}
  BY DEF ClientStep, DecideRefused, Reject, Invalidate, Approve, FollowUp, ApplyCheck,
      GitApply, WriteReceipt, SkipSmoke, SmokeSpawn, SmokeIdentity, SmokeVisible, SmokeEnd,
      SmokeFinished, SmokePassed, SmokeFailed, ReverseCheck, GitReverse, RetryStart,
      RetryRefused, Launch, Launched, LaunchFailed, Decidable, At
<1>3. Launched(c) => co[Monitor].at \notin {"create", "mark"}
  BY <1>a, ProcFacts DEF Launched, At, CanRun, Await
<1>4. daemon' = daemon /\ \A q \in Proc \ {c} : co'[q] = co[q] \/ (q = Monitor /\ Launched(c))
  BY ClientLeaves
<1>5. \A t \in Runtime : co'[t] = co[t]
  BY <1>4, <1>a
<1>6. \A p \in Caller : co[p].at \in {"create", "mark"} => co'[p] = co[p]
  BY <1>2, <1>3, <1>4, <1>a
<1> QED
  BY <1>1, <1>4, <1>5, <1>6, DiagnosingStays DEF DiagnosingHasTask, Diagnosing

\* A dispatch that leads to "diagnosing" goes on to create a run.
LEMMA CallerGuarded ==
    ASSUME TypeOK, DiagnosingHasTask, NEW p \in Caller, CallerStep(p)
    PROVE  DiagnosingHasTask'
<1>a. p \in Proc /\ Caller \subseteq Proc /\ Runtime \subseteq Proc
      /\ p \notin Runtime /\ Runtime \cap Caller = {}
  BY ProcFacts DEF Caller, Proc
<1>1. CASE ClearArtifacts(p) \/ UnlinkDiff(p)
  <2>1. inc'.status = inc.status /\ co[p].at \notin {"create", "mark"}
        /\ \A q \in Proc \ {p} : co'[q] = co[q]
    BY <1>1, <1>a, GotoEffect DEF ClearArtifacts, UnlinkDiff, At, TypeOK, Incident
  <2> QED
    BY <1>1, <2>1, <1>a, DiagnosingStays
    DEF DiagnosingHasTask, Diagnosing, ClearArtifacts, UnlinkDiff
<1>2. CASE Reinvestigate(p)
  <2>1. \/ /\ Accepts(inc.status, co[p].ev) /\ inc'.status = Target(inc.status, co[p].ev)
           /\ co[p].ev # "SMOKE_FAILED_ROLLED_BACK_NO_EVIDENCE" => co'[p].at = "create"
        \/ inc'.status = inc.status /\ \A q \in Proc \ {p} : co'[q] = co[q]
    BY <1>2, <1>a, DispatchEffect DEF Reinvestigate
  <2>2. daemon' = daemon /\ co[p].at = "dispatch"
    BY <1>2 DEF Reinvestigate, At
  <2>3. CASE /\ Accepts(inc.status, co[p].ev) /\ inc'.status = Target(inc.status, co[p].ev)
             /\ co[p].ev # "SMOKE_FAILED_ROLLED_BACK_NO_EVIDENCE" => co'[p].at = "create"
    BY <2>3, ToDiagnosing DEF DiagnosingHasTask
  <2>4. CASE inc'.status = inc.status /\ \A q \in Proc \ {p} : co'[q] = co[q]
    BY <2>2, <2>4, <1>a, DiagnosingStays DEF DiagnosingHasTask, Diagnosing
  <2> QED
    BY <2>1, <2>3, <2>4
<1>3. CASE CreateRun(p)
  BY <1>3, <1>a DEF CreateRun, TypeOK, DiagnosingHasTask
<1>4. CASE MarkRun(p)
  <2>1. PICK t \in Runtime :
           co' = [co EXCEPT ![p] = [Idle EXCEPT !.at = Return(p)],
                            ![t] = [Idle EXCEPT !.at = "start", !.run = co[p].run]]
    BY <1>4 DEF MarkRun, Spawn
  <2>2. co'[t].at = "start"
    BY <2>1, <1>a DEF TypeOK, Idle
  <2> QED
    BY <2>2 DEF DiagnosingHasTask
<1> QED
  BY <1>1, <1>2, <1>3, <1>4 DEF CallerStep

LEMMA MonitorGuarded ==
    ASSUME TypeOK, DiagnosingHasTask, MonitorStep
    PROVE  DiagnosingHasTask'
<1>a. Monitor \in Proc /\ Monitor \in Caller /\ Caller \subseteq Proc /\ Runtime \subseteq Proc
      /\ Monitor \notin Runtime
  BY ProcFacts DEF Caller, Proc
<1>1. \/ inc'.status = inc.status
      \/ co'[Monitor].at = "create"
  BY <1>a, GotoEffect DEF MonitorStep, MonitorFailure, MonitorSeal, WriteCapsule, HandleFailure,
     RetryFailed, TypeOK, Incident
<1>2. co[Monitor].at \notin {"create", "mark"}
  BY DEF MonitorStep, MonitorFailure, MonitorSeal, WriteCapsule, HandleFailure, RetryFailed, At
<1>3. CASE inc'.status = inc.status
  BY <1>3, <1>2, <1>a, MonitorLeaves, DiagnosingStays DEF DiagnosingHasTask, Diagnosing
<1>4. CASE co'[Monitor].at = "create"
  BY <1>4, <1>a DEF DiagnosingHasTask
<1> QED
  BY <1>1, <1>3, <1>4

\* The daemon serves a "diagnosing" incident only once recovery has resumed or
\* created its run.
LEMMA RecoveryGuarded ==
    ASSUME TypeOK, LInv, RecoveryStep
    PROVE  DiagnosingHasTask'
<1>a. Monitor \in Proc /\ Monitor \in Caller /\ Runtime \subseteq Proc /\ Monitor \notin Runtime
  BY ProcFacts DEF Caller, Proc
<1>1. daemon = "recovering"
  BY RecoveryLeaves
<1>2. CASE RecoverInterrupted \/ RecoverFailure
  BY <1>1, <1>2 DEF RecoverInterrupted, RecoverFailure, DiagnosingHasTask
<1>3. CASE RecoverIncident
  BY <1>1, <1>3 DEF RecoverIncident, Serve, RetryVerdict, RecoverAction, DiagnosingHasTask, TypeOK,
     Incident
<1>4. CASE RecoverDiagnosing
  <2>1. CASE Resumable
    <3>1. PICK t \in Runtime :
             co' = [co EXCEPT ![Monitor] = [Idle EXCEPT !.at = "idle"],
                              ![t] = [Idle EXCEPT !.at = "start", !.run = inc.run]]
      BY <1>4, <2>1 DEF RecoverDiagnosing, Spawn
    <3>2. co'[t].at = "start"
      BY <3>1, <1>a DEF TypeOK, Idle
    <3> QED
      BY <3>2 DEF DiagnosingHasTask
  <2>2. CASE ~Resumable
    BY <1>4, <2>2, <1>a, GotoEffect DEF RecoverDiagnosing, DiagnosingHasTask
  <2> QED
    BY <2>1, <2>2
<1>5. CASE RecoverSmoke
  <2>1. inc.smoke = "running" /\ inc.status # "diagnosing"
    BY <1>5 DEF RecoverSmoke, At, LInv, QuarantineFits, SmokeRecordFits, InSmoke
  <2> QED
    BY <1>1, <1>5, <2>1 DEF RecoverSmoke, Serve, DiagnosingHasTask
<1>6. CASE Unresolve
  BY <1>6 DEF Unresolve, Serve, DiagnosingHasTask, TypeOK, Incident
<1> QED
  BY <1>2, <1>3, <1>4, <1>5, <1>6 DEF RecoveryStep

\* A task that ends leaves the incident in another status.
LEMMA TaskGuarded ==
    ASSUME TypeOK, DiagnosingHasTask, NEW t \in Runtime, TaskStep(t)
    PROVE  DiagnosingHasTask'
<1>a. t \in Proc
  BY ProcFacts
<1>1. CASE TaskRaises(t) \/ TaskTail(t) \/ TaskDone(t)
  <2>1. \A e \in {"INVESTIGATION_DONE", "INVESTIGATION_FAILED"} :
           /\ Accepts("diagnosing", e)
           /\ Target("diagnosing", e) # "diagnosing"
    BY DEF Accepts, Target, Transitions
  <2>2. ASSUME NEW e \in {"INVESTIGATION_DONE", "INVESTIGATION_FAILED"},
               Dispatch(t, e, "idle", "idle")
        PROVE  inc'.status # "diagnosing"
    BY <2>1, <2>2, <1>a, DispatchEffect, ToDiagnosing
  <2>3. inc'.status # "diagnosing" \/ co'[t].at # "idle"
    BY <1>1, <1>a, <2>2, GotoEffect DEF TaskRaises, TaskTail, TaskDone, GiveUp
  <2> QED
    BY <2>3 DEF DiagnosingHasTask
<1>2. CASE \/ TaskStart(t) \/ SubmitDiagnosis(t) \/ ProposeDiff(t) \/ ProposeMeta(t)
           \/ Preflight(t) \/ Unpropose(t) \/ AgentEnd(t) \/ FinishRun(t)
  <2>1. co'[t].at # "idle"
    BY <1>2, <1>a, GotoEffect
    DEF TaskStart, SubmitDiagnosis, ProposeDiff, ProposeMeta, Preflight, Unpropose, AgentEnd,
        FinishRun, TypeOK, Local
  <2> QED
    BY <2>1 DEF DiagnosingHasTask
<1> QED
  BY <1>1, <1>2 DEF TaskStep

LEMMA NextGuarded == TypeOK /\ LInv /\ DiagnosingHasTask /\ [Next]_vars => DiagnosingHasTask'
<1> SUFFICES ASSUME TypeOK, LInv, DiagnosingHasTask, [Next]_vars PROVE DiagnosingHasTask'
  OBVIOUS
<1>1. CASE Environment
  <2>1. CASE Crash \/ StopStarting \/ Restart \/ Close
    BY <2>1 DEF Crash, StopStarting, Restart, Close, DiagnosingHasTask
  <2>2. CASE \E c \in Client : SendRequest(c)
    <3>1. PICK c \in Client : SendRequest(c)
      BY <2>2
    <3>2. co[c].at = "idle" /\ inc' = inc /\ daemon' = daemon /\ \A q \in Proc \ {c} : co'[q] = co[q]
      BY <3>1, ProcFacts DEF SendRequest, TypeOK
    <3> QED
      BY <3>2, ProcFacts, DiagnosingStays DEF DiagnosingHasTask, Diagnosing, Caller, Proc
  <2>3. CASE Cancel \/ LogFails \/ TrainingExit \/ SmokeExit \/ SmokeRestExit \/ UserEdit
    BY <2>3 DEF Cancel, LogFails, TrainingExit, SmokeExit, SmokeRestExit, UserEdit, DiagnosingHasTask
  <2> QED
    BY <1>1, <2>1, <2>2, <2>3 DEF Environment
<1>2. CASE \E a \in Attempts : Observe(a)
  <2>1. PICK a \in Attempts : Observe(a)
    BY <1>2
  <2>2. inc'.status = "diagnosing" => inc.status = "diagnosing"
    BY <2>1, ObserveEffect DEF Target, Transitions
  <2> QED
    BY <2>1, <2>2, ObserveEffect DEF DiagnosingHasTask
<1>3. CASE UNCHANGED vars
  BY <1>3 DEF vars, DiagnosingHasTask
<1> QED
  BY <1>1, <1>2, <1>3, ClientGuarded, CallerGuarded, MonitorGuarded, RecoveryGuarded, TaskGuarded
  DEF Next

\* A serving daemon never shows "diagnosing" with nobody diagnosing, whatever the
\* crash it recovered from left on disk.
THEOREM DiagnosingIsServed == Spec => []DiagnosingHasTask
<1>1. Init => DiagnosingHasTask
  BY DEF Init, DiagnosingHasTask
<1> QED
  BY <1>1, NextGuarded, TypeCorrect, LockHolds, PTL DEF Spec
-----------------------------------------------------------------------------
(* Rolled-back patches, and the diff the snapshot names *)

Reverted(p) == p # 0 /\ proposal[p].reverted

\* The incident is unresolved, or is on its way out of a failed smoke: its
\* artifacts are being cleared, or the daemon died before they were and recovery
\* will quarantine it.
Discarded ==
    \/ inc.status = "unresolved"
    \/ /\ InSmoke /\ inc.smoke # "running"
       /\ \/ daemon \in {"down", "recovering"}
          \/ \E c \in Client : co[c].at \in {"clear", "unlink"}

\* Patches are numbered as they are proposed, and the diff on disk is the latest.
Numbered ==
    /\ file.patch <= nProposals /\ diff \in {0, nProposals}
    /\ \A p \in Proposals :
          /\ proposal[p].base.patch < p
          /\ p > nProposals => proposal[p].base.patch = 0 /\ ~proposal[p].reverted

\* Nothing is built on a patch that was rolled back.
NotRebuilt ==
    \A p \in Proposals : proposal[p].reverted =>
        file.patch # p /\ \A q \in Proposals : proposal[q].base.patch # p

\* Neither the snapshot nor the diff offers it, unless the incident is discarded.
NotOffered == Reverted(diff) \/ Reverted(inc.prop) => Discarded

\* What a coroutine has already cleared or written when it is at p's label.
Cleared(p) ==
    /\ co[p].at \in {"unlink", "undiff"} => inc.prop = 0
    /\ co[p].at = "dispatch" => inc.prop = 0 /\ diff = 0
    /\ co[p].at = "meta" =>
           /\ co[p].prop = nProposals /\ diff = nProposals
           /\ nProposals # 0 /\ ~Reverted(nProposals)

RInv ==
    /\ Numbered /\ NotRebuilt /\ NotOffered /\ ProposalHasDiff
    /\ \A p \in Proc : Cleared(p)

ArtifactLabel == {"unlink", "undiff", "dispatch", "meta"}

\* A step that touches no artifact and none of the patches.
RTame ==
    /\ file'.patch = file.patch /\ nProposals' = nProposals /\ diff' = diff
    /\ inc'.prop = inc.prop
    /\ \A p \in Proposals : /\ proposal'[p].base = proposal[p].base
                            /\ proposal'[p].reverted = proposal[p].reverted
    /\ \A q \in Proc : co'[q].at \in ArtifactLabel =>
                           co'[q].at = co[q].at /\ co'[q].prop = co[q].prop
    /\ Discarded => Discarded'

LEMMA RTameKeeps ==
    ASSUME TypeOK, RInv, RTame
    PROVE  RInv'
<1>a. diff \in 0 .. MaxProposals /\ inc.prop \in 0 .. MaxProposals
      /\ nProposals \in 0 .. MaxProposals
  BY DEF TypeOK, Incident
<1>b. \A p \in 0 .. MaxProposals : p # 0 => p \in Proposals
  BY ConstantsAssumption DEF Proposals
<1>1. Numbered' /\ NotRebuilt'
  BY DEF RInv, RTame, Numbered, NotRebuilt
<1>2. \A p \in 0 .. MaxProposals : Reverted(p)' <=> Reverted(p)
  BY <1>b DEF RTame, Reverted
<1>3. NotOffered' /\ ProposalHasDiff'
  BY <1>a, <1>2 DEF RInv, RTame, NotOffered, Reverted, ProposalHasDiff
<1>4. \A p \in Proc : Cleared(p)'
  BY <1>a, <1>2 DEF RInv, RTame, Cleared, ArtifactLabel, Reverted
<1> QED
  BY <1>1, <1>3, <1>4 DEF RInv

\* While a client is at work on an incident that is not discarded the diff and
\* the snapshot offer nothing that was rolled back.
LEMMA ClientDiscarded ==
    ASSUME TypeOK, LInv, NEW c \in Client, ClientStep(c), Discarded
    PROVE  inc.status = "unresolved" /\ inc'.status = "unresolved"
<1>a. c \in Proc
  BY ProcFacts
<1>1. co[c].at \notin {"idle", "clear", "unlink"} /\ (Locked(c) \/ LockFree)
  BY DEF ClientStep, DecideRefused, Reject, Invalidate, Approve, FollowUp, ApplyCheck,
      GitApply, WriteReceipt, SkipSmoke, SmokeSpawn, SmokeIdentity, SmokeVisible, SmokeEnd,
      SmokeFinished, SmokePassed, SmokeFailed, ReverseCheck, GitReverse, RetryStart,
      RetryRefused, Launch, Launched, LaunchFailed, Decidable, At, Locked
<1>2. daemon \notin {"down", "recovering"}
  BY <1>1 DEF LInv, NobodyServed
<1>3. \A d \in Client : co[d].at \notin {"clear", "unlink"}
  BY <1>1 DEF LInv, LockExclusive, LockFree, Locked
<1>4. inc.status = "unresolved"
  BY <1>2, <1>3 DEF Discarded
<1>5. ASSUME NEW e, NEW next, NEW bad, Dispatch(c, e, next, bad), e # "FOLLOW_UP"
      PROVE  inc'.status = inc.status
  <2>1. ~Accepts("unresolved", e)
    BY <1>5 DEF Accepts, Transitions
  <2> QED
    BY <2>1, <1>4, <1>5 DEF Dispatch
<1>6. inc'.status = inc.status
  <2>1. CASE ApplyCheck(c) \/ GitApply(c) \/ SmokeFailed(c) \/ ReverseCheck(c) \/ GitReverse(c)
    BY <2>1, <1>5 DEF ApplyCheck, GitApply, SmokeFailed, ReverseCheck, GitReverse
  <2>2. CASE \/ Reject(c) \/ Invalidate(c) \/ SkipSmoke(c) \/ SmokeVisible(c) \/ SmokePassed(c)
             \/ RetryStart(c) \/ RetryRefused(c)
    BY <2>2, <1>5
    DEF Reject, Invalidate, SkipSmoke, SmokeVisible, SmokePassed, RetryStart, RetryRefused
  <2>3. CASE Approve(c)
    BY <2>3, <1>4 DEF Approve, Decidable
  <2>4. CASE \/ DecideRefused(c) \/ FollowUp(c) \/ WriteReceipt(c) \/ SmokeSpawn(c)
             \/ SmokeIdentity(c) \/ SmokeEnd(c) \/ SmokeFinished(c)
             \/ Launch(c) \/ Launched(c) \/ LaunchFailed(c)
    BY <2>4
    DEF DecideRefused, FollowUp, WriteReceipt, SmokeSpawn, SmokeIdentity, SmokeEnd,
        SmokeFinished, Launch, Launched, LaunchFailed, TypeOK, Incident
  <2> QED
    BY <2>1, <2>2, <2>3, <2>4 DEF ClientStep
<1> QED
  BY <1>4, <1>6

\* A client that applies or reverses a patch is at work on the latest one.
LEMMA ClientFresh ==
    ASSUME TypeOK, LInv, RInv, NEW c \in Client, ClientStep(c), co[c].at \in {"apply", "reverse"}
    PROVE  /\ ~Reverted(diff) /\ ~Reverted(inc.prop)
           /\ InSmoke /\ inc.smoke # "running"
<1>1. InSmoke /\ inc.smoke # "running"
  BY DEF LInv, LockPins, Pins, InSmoke
<1>2. ~Discarded
  BY <1>1, ClientDiscarded DEF InSmoke
<1> QED
  BY <1>1, <1>2 DEF RInv, NotOffered

LEMMA ClientRolled ==
    ASSUME TypeOK, LInv, RInv, NEW c \in Client, ClientStep(c)
    PROVE  RInv'
<1>a. c \in Proc
  BY ProcFacts
<1>b. /\ diff' = diff /\ nProposals' = nProposals /\ inc'.prop = inc.prop
      /\ \A q \in Proc \ {c} : co'[q] = co[q] \/ (q = Monitor /\ Launched(c))
  BY ClientLeaves
<1>c. co'[c].at \notin ArtifactLabel
  BY <1>a, GotoEffect
  DEF ClientStep, DecideRefused, Reject, Invalidate, Approve, FollowUp, ApplyCheck,
      GitApply, WriteReceipt, SkipSmoke, SmokeSpawn, SmokeIdentity, SmokeVisible, SmokeEnd,
      SmokeFinished, SmokePassed, SmokeFailed, ReverseCheck, GitReverse, RetryStart,
      RetryRefused, Launch, Launched, LaunchFailed, Dispatch, TypeOK, Local, Idle,
      ArtifactLabel
<1>d. Launched(c) => co'[Monitor].at = "watch"
  BY <1>a, ProcFacts DEF Launched, TypeOK, Idle
<1>e. \A q \in Proc : co'[q].at \in ArtifactLabel => co'[q] = co[q]
  BY <1>b, <1>c, <1>d DEF ArtifactLabel
<1>f. Discarded => Discarded'
  BY ClientDiscarded DEF Discarded
<1>1. CASE file'.patch = file.patch /\ proposal' = proposal
  BY <1>1, <1>b, <1>e, <1>f, RTameKeeps DEF RTame
<1>2. CASE GitApply(c)
  <2>1. ~Reverted(diff)
    BY <1>2, ClientFresh DEF GitApply, At
  <2>2. proposal' = proposal /\ (file'.patch = file.patch \/ (diff # 0 /\ file'.patch = diff))
    BY <1>2 DEF GitApply, patches, TypeOK, File
  <2>3. CASE diff # 0 /\ file'.patch = diff
    <3>1. diff = nProposals /\ diff \in Proposals /\ ~proposal[diff].reverted
      BY <2>1, <2>3, ConstantsAssumption DEF RInv, Numbered, Reverted, TypeOK, Proposals
    <3>2. Numbered'
      BY <1>b, <2>2, <2>3, <3>1 DEF RInv, Numbered, TypeOK
    <3>3. \A p \in Proposals : ~proposal[p].reverted \/ \A q \in Proposals : proposal[q].base.patch # p
      BY DEF RInv, NotRebuilt
    <3>4. NotRebuilt'
      BY <2>2, <2>3, <3>1, <3>3 DEF NotRebuilt
    <3>5. NotOffered' /\ ProposalHasDiff' /\ \A p \in Proc : Cleared(p)'
      BY <1>b, <1>e, <1>f, <2>2 DEF RInv, NotOffered, ProposalHasDiff, Reverted, Cleared, ArtifactLabel
    <3> QED
      BY <3>2, <3>4, <3>5 DEF RInv
  <2> QED
    BY <1>1, <2>2, <2>3
<1>3. CASE GitReverse(c)
  <2>1. ~Reverted(diff) /\ ~Reverted(inc.prop) /\ InSmoke /\ inc.smoke # "running"
    BY <1>3, ClientFresh DEF GitReverse, At
  <2>2. CASE file' = file /\ proposal' = proposal
    BY <1>1, <2>2
  <2>3. ASSUME diff # 0, file.patch = diff, file'.patch = proposal[diff].base.patch
        PROVE  /\ diff = nProposals /\ diff \in Proposals
               /\ \A q \in Proposals : proposal[q].base.patch \in Nat /\ proposal[q].base.patch < diff
    <3>1. diff = nProposals /\ diff \in Proposals /\ nProposals \in Nat
      BY <2>3, ConstantsAssumption DEF RInv, Numbered, TypeOK, Proposals
    <3>2. ASSUME NEW q \in Proposals
          PROVE  proposal[q].base.patch \in Nat /\ proposal[q].base.patch < diff
      <4>1. q \in Nat /\ proposal[q].base.patch \in Nat /\ proposal[q].base.patch < q
        BY ConstantsAssumption DEF RInv, Numbered, TypeOK, Proposal, File, Proposals
      <4>2. q > nProposals => proposal[q].base.patch = 0
        BY DEF RInv, Numbered
      <4> QED
        BY <2>3, <3>1, <4>1, <4>2
    <3> QED
      BY <3>1, <3>2
  <2>4. ASSUME diff # 0, file.patch = diff, file'.patch = proposal[diff].base.patch,
               proposal' = proposal
        PROVE  RInv'
    <3>1. Numbered' /\ NotRebuilt'
      BY <1>b, <2>3, <2>4 DEF RInv, Numbered, NotRebuilt, TypeOK
    <3>2. NotOffered' /\ ProposalHasDiff' /\ \A p \in Proc : Cleared(p)'
      BY <1>b, <1>e, <1>f, <2>4 DEF RInv, NotOffered, ProposalHasDiff, Reverted, Cleared, ArtifactLabel
    <3> QED
      BY <3>1, <3>2 DEF RInv
  <2>5. ASSUME diff # 0, file.patch = diff, file'.patch = proposal[diff].base.patch,
               proposal' = [proposal EXCEPT ![diff].reverted = TRUE], Goto(c, "clear"),
               UNCHANGED inc
        PROVE  RInv'
    <3>1. /\ \A p \in Proposals : proposal'[p].base = proposal[p].base
          /\ \A p \in Proposals \ {diff} : proposal'[p].reverted = proposal[p].reverted
      BY <2>3, <2>5 DEF TypeOK, Proposal
    <3>2. Numbered'
      BY <1>b, <2>3, <2>5, <3>1 DEF RInv, Numbered, TypeOK
    <3>3. NotRebuilt'
      <4>1. ASSUME NEW p \in Proposals, p # diff, proposal'[p].reverted
            PROVE  file'.patch # p /\ \A q \in Proposals : proposal'[q].base.patch # p
        BY <4>1, <2>3, <2>5, <3>1 DEF RInv, NotRebuilt
      <4>2. file'.patch # diff /\ \A q \in Proposals : proposal'[q].base.patch # diff
        <5>1. \A q \in Proposals : proposal'[q].base.patch # diff
          BY <2>3, <2>5, <3>1 DEF TypeOK
        <5> QED
          BY <5>1, <2>3, <2>5, <3>1
      <4> QED
        BY <4>1, <4>2 DEF NotRebuilt
    <3>4. Discarded'
      BY <1>a, <2>1, <2>5, GotoEffect DEF Discarded, InSmoke
    <3>5. ASSUME NEW p \in Proc
          PROVE  Cleared(p)'
      <4>1. co[p].at # "meta"
        BY <1>3, <1>a DEF GitReverse, At, CanRun, Await
      <4> QED
        BY <1>b, <1>e, <2>5, <4>1 DEF RInv, Cleared, ArtifactLabel
    <3>6. ProposalHasDiff'
      BY <1>b DEF RInv, ProposalHasDiff
    <3> QED
      BY <3>2, <3>3, <3>4, <3>5, <3>6 DEF RInv, NotOffered
  <2>6. \/ file' = file /\ proposal' = proposal
        \/ /\ diff # 0 /\ file.patch = diff /\ file'.patch = proposal[diff].base.patch
           /\ \/ /\ proposal' = [proposal EXCEPT ![diff].reverted = TRUE]
                 /\ Goto(c, "clear") /\ UNCHANGED inc
              \/ proposal' = proposal
    BY <1>3 DEF GitReverse, TypeOK, File
  <2> QED
    BY <2>2, <2>4, <2>5, <2>6
<1>4. CASE ~GitApply(c) /\ ~GitReverse(c)
  <2>1. file' = file /\ proposal' = proposal
    BY <1>4
    DEF ClientStep, DecideRefused, Reject, Invalidate, Approve, FollowUp, ApplyCheck,
      WriteReceipt, SkipSmoke, SmokeSpawn, SmokeIdentity, SmokeVisible, SmokeEnd,
      SmokeFinished, SmokePassed, SmokeFailed, ReverseCheck, RetryStart,
      RetryRefused, Launch, Launched, LaunchFailed, workspace, patches
  <2> QED
    BY <1>1, <2>1
<1> QED
  BY <1>2, <1>3, <1>4

\* The snapshot is cleared, then the diff; only then does the status change.
LEMMA CallerRolled ==
    ASSUME TypeOK, LInv, RInv, NEW p \in Caller, CallerStep(p)
    PROVE  RInv'
<1>a. p \in Proc /\ Return(p) \in {"idle", "incidents"}
  BY DEF Proc, Return
<1>b. /\ daemon' = daemon /\ file' = file /\ proposal' = proposal /\ nProposals' = nProposals
      /\ inc'.smoke = inc.smoke
  BY CallerLeaves
<1>c. \A q \in Proc \ {p} : co[q].at \notin ArtifactLabel \cup {"clear"}
  BY <1>a DEF CallerStep, ClearArtifacts, UnlinkDiff, Reinvestigate, CreateRun, MarkRun, At, CanRun,
     Await, ArtifactLabel
<1>1. CASE ClearArtifacts(p)
  <2>1. /\ co[p].at = "clear" /\ co'[p].at = "unlink" /\ \A q \in Proc \ {p} : co'[q] = co[q]
        /\ diff' = diff /\ inc'.prop = 0 /\ inc'.status = inc.status
    BY <1>1, <1>a, GotoEffect DEF ClearArtifacts, At, TypeOK, Incident
  <2>2. Discarded => Discarded'
    BY <1>b, <2>1, ProcFacts DEF Discarded, InSmoke
  <2>3. Numbered' /\ NotRebuilt' /\ NotOffered' /\ ProposalHasDiff'
    BY <1>b, <2>1, <2>2 DEF RInv, Numbered, NotRebuilt, NotOffered, ProposalHasDiff, Reverted
  <2>4. \A q \in Proc : Cleared(q)'
    BY <1>c, <2>1 DEF Cleared, ArtifactLabel
  <2> QED
    BY <2>3, <2>4 DEF RInv
<1>2. CASE UnlinkDiff(p)
  <2>1. /\ co[p].at = "unlink" /\ co'[p].at = "dispatch" /\ \A q \in Proc \ {p} : co'[q] = co[q]
        /\ diff' = 0 /\ inc' = inc /\ inc.prop = 0
    BY <1>2, <1>a, GotoEffect DEF UnlinkDiff, At, RInv, Cleared
  <2>2. Numbered' /\ NotRebuilt' /\ NotOffered' /\ ProposalHasDiff'
    BY <1>b, <2>1 DEF RInv, Numbered, NotRebuilt, NotOffered, ProposalHasDiff, Reverted
  <2>3. \A q \in Proc : Cleared(q)'
    BY <1>c, <2>1 DEF Cleared, ArtifactLabel
  <2> QED
    BY <2>2, <2>3 DEF RInv
<1>3. CASE Reinvestigate(p)
  <2>1. co[p].at = "dispatch" /\ diff = 0 /\ inc.prop = 0 /\ diff' = diff
    BY <1>3, <1>a DEF Reinvestigate, At, RInv, Cleared
  <2>2. co'[p].at \in {"idle", "create", "incidents"} /\ \A q \in Proc \ {p} : co'[q] = co[q]
    BY <1>3, <1>a, DispatchEffect DEF Reinvestigate
  <2>3. inc'.prop = inc.prop
    BY <1>3 DEF Reinvestigate, Dispatch, TypeOK, Incident
  <2>4. Numbered' /\ NotRebuilt' /\ NotOffered' /\ ProposalHasDiff'
    BY <1>b, <2>1, <2>3 DEF RInv, Numbered, NotRebuilt, NotOffered, ProposalHasDiff, Reverted
  <2>5. \A q \in Proc : Cleared(q)'
    BY <1>c, <2>2 DEF Cleared, ArtifactLabel
  <2> QED
    BY <2>4, <2>5 DEF RInv
<1>4. CASE CreateRun(p)
  <2>1. /\ co[p].at = "create" /\ co'[p].at = "mark" /\ \A q \in Proc \ {p} : co'[q] = co[q]
        /\ inc' = inc /\ diff' = diff
    BY <1>4, <1>a DEF CreateRun, At, TypeOK, Local
  <2>2. Discarded => Discarded'
    BY <1>b, <2>1, ProcFacts DEF Discarded, InSmoke
  <2> QED
    BY <1>b, <2>1, <2>2, RTameKeeps DEF RTame, ArtifactLabel
<1>5. CASE MarkRun(p)
  <2>1. PICK t \in Runtime :
           co' = [co EXCEPT ![p] = [Idle EXCEPT !.at = Return(p)],
                            ![t] = [Idle EXCEPT !.at = "start", !.run = co[p].run]]
    BY <1>5 DEF MarkRun, Spawn
  <2>2. /\ co[p].at = "mark" /\ co'[p].at = Return(p) /\ co'[t].at = "start"
        /\ \A q \in Proc \ {p, t} : co'[q] = co[q]
    BY <1>5, <1>a, <2>1, ProcFacts DEF MarkRun, At, TypeOK, Idle, Caller
  <2>3. inc'.prop = inc.prop /\ inc'.status = inc.status /\ diff' = diff
    BY <1>5 DEF MarkRun, TypeOK, Incident
  <2>4. Discarded => Discarded'
    BY <1>b, <2>2, <2>3, ProcFacts DEF Discarded, InSmoke
  <2> QED
    BY <1>a, <1>b, <2>2, <2>3, <2>4, RTameKeeps DEF RTame, ArtifactLabel
<1> QED
  BY <1>1, <1>2, <1>3, <1>4, <1>5 DEF CallerStep

LEMMA MonitorRolled ==
    ASSUME TypeOK, LInv, RInv, MonitorStep
    PROVE  RInv'
<1>a. Monitor \in Proc /\ Return(Monitor) \in {"idle", "incidents"}
  BY ProcFacts DEF Return
<1>1. co'[Monitor].at \notin ArtifactLabel
  BY <1>a, GotoEffect
  DEF MonitorStep, MonitorFailure, MonitorSeal, WriteCapsule, HandleFailure, RetryFailed, TypeOK,
      Local, ArtifactLabel
<1>2. inc'.status = inc.status \/ inc.status = "none"
  BY DEF MonitorStep, MonitorFailure, MonitorSeal, WriteCapsule, HandleFailure, RetryFailed, TypeOK,
     Incident
<1>3. Discarded => Discarded'
  BY <1>2, MonitorLeaves, ProcFacts DEF Discarded, InSmoke
<1> QED
  BY <1>1, <1>3, MonitorLeaves, RTameKeeps DEF RTame

\* A smoke that recovery interrupts had not been rolled back.
LEMMA RecoveryRolled ==
    ASSUME TypeOK, LInv, RInv, RecoveryStep
    PROVE  RInv'
<1>a. Monitor \in Proc /\ Monitor \notin Runtime
  BY ProcFacts
<1>b. /\ daemon = "recovering" /\ diff' = diff /\ file' = file /\ proposal' = proposal
      /\ nProposals' = nProposals /\ inc'.prop = inc.prop
      /\ \A q \in Caller \ {Monitor} : co'[q] = co[q]
  BY RecoveryLeaves
<1>1. \A q \in Proc : co'[q].at \in ArtifactLabel => co'[q] = co[q]
  <2>1. CASE \E l \in {"idle", "reopen", "capsule", "incidents", "terminate", "unresolve",
                      "create"} : Goto(Monitor, l)
    BY <2>1, <1>a, GotoEffect DEF ArtifactLabel
  <2>2. CASE Spawn(Monitor, "idle", inc.run)
    <3>1. PICK t \in Runtime :
             co' = [co EXCEPT ![Monitor] = [Idle EXCEPT !.at = "idle"],
                              ![t] = [Idle EXCEPT !.at = "start", !.run = inc.run]]
      BY <2>2 DEF Spawn
    <3> QED
      BY <3>1, <1>a, ProcFacts DEF TypeOK, Idle, ArtifactLabel
  <2> QED
    BY <2>1, <2>2
    DEF RecoveryStep, RecoverInterrupted, RecoverFailure, RecoverIncident, RecoverDiagnosing,
        RecoverSmoke, Unresolve, Serve
<1>2. CASE RecoverInterrupted \/ RecoverFailure
  <2>1. inc' = inc /\ daemon' = daemon
    BY <1>2 DEF RecoverInterrupted, RecoverFailure
  <2> QED
    BY <1>b, <1>1, <2>1, RTameKeeps DEF RTame, Discarded, InSmoke
<1>3. CASE RecoverIncident
  <2>1. Discarded => Discarded'
    BY <1>b, <1>3
    DEF RecoverIncident, Serve, RetryVerdict, RecoverAction, Discarded, InSmoke, TypeOK, Incident
  <2> QED
    BY <1>b, <1>1, <2>1, RTameKeeps DEF RTame
<1>4. CASE RecoverDiagnosing
  <2>1. ~Discarded /\ inc' = inc
    BY <1>4 DEF RecoverDiagnosing, Discarded, InSmoke
  <2> QED
    BY <1>b, <1>1, <2>1, RTameKeeps DEF RTame
<1>5. CASE RecoverSmoke
  <2>1. ~Discarded
    BY <1>5 DEF RecoverSmoke, At, LInv, QuarantineFits, SmokeRecordFits, Discarded, InSmoke
  <2> QED
    BY <1>b, <1>1, <2>1, RTameKeeps DEF RTame
<1>6. CASE Unresolve
  <2>1. Discarded'
    BY <1>6 DEF Unresolve, Serve, Discarded, TypeOK, Incident
  <2> QED
    BY <1>b, <1>1, <2>1, RTameKeeps DEF RTame
<1> QED
  BY <1>2, <1>3, <1>4, <1>5, <1>6 DEF RecoveryStep

\* A proposal is built on the file as it is, so on nothing that was rolled back.
LEMMA TaskRolled ==
    ASSUME TypeOK, LInv, RInv, NEW t \in Runtime, TaskStep(t)
    PROVE  RInv'
<1>a. t \in Proc /\ \A c \in Client : c \in Proc /\ c # t
  BY ProcFacts
<1>b. /\ daemon' = daemon /\ file' = file /\ inc'.smoke = inc.smoke
      /\ \A q \in Proc \ {t} : co'[q] = co[q]
      /\ \/ inc'.status = inc.status
         \/ inc.status = "diagnosing" /\ inc'.status \in {"awaiting_approval", "unresolved"}
  BY TaskLeaves
<1>c. Discarded => Discarded'
  BY <1>a, <1>b DEF Discarded, InSmoke
<1>d. \A q \in Proc \ {t} : co[q].at \notin ArtifactLabel
  BY <1>a DEF TaskStep, TaskStart, SubmitDiagnosis, ProposeDiff, ProposeMeta, Preflight, Unpropose,
     AgentEnd, FinishRun, TaskRaises, TaskTail, TaskDone, At, CanRun, Await, ArtifactLabel
<1>1. CASE \/ TaskStart(t) \/ SubmitDiagnosis(t) \/ AgentEnd(t) \/ FinishRun(t)
           \/ TaskRaises(t) \/ TaskTail(t) \/ TaskDone(t)
  <2>1. /\ diff' = diff /\ proposal' = proposal /\ nProposals' = nProposals
        /\ inc'.prop = inc.prop
    BY <1>1 DEF TaskStart, SubmitDiagnosis, AgentEnd, FinishRun, TaskRaises, TaskTail, TaskDone,
       GiveUp, Dispatch, patches, TypeOK, Incident
  <2>2. co'[t].at \notin ArtifactLabel
    BY <1>1, <1>a, GotoEffect
    DEF TaskStart, SubmitDiagnosis, AgentEnd, FinishRun, TaskRaises, TaskTail, TaskDone, GiveUp,
        Dispatch, TypeOK, Local, ArtifactLabel
  <2> QED
    BY <1>b, <1>c, <2>1, <2>2, RTameKeeps DEF RTame
<1>2. CASE ProposeDiff(t)
  <2> DEFINE p == nProposals + 1
  <2>1. /\ nProposals \in Nat /\ p \in Proposals /\ p # 0
        /\ file.patch \in Nat /\ file.patch <= nProposals
    BY <1>2, ConstantsAssumption DEF ProposeDiff, TypeOK, File, Proposals, RInv, Numbered
  <2>2. /\ nProposals' = p /\ diff' = p /\ inc' = inc
        /\ co'[t].at = "meta" /\ co'[t].prop = p
    BY <1>2, <1>a DEF ProposeDiff, TypeOK, Local
  <2>3. /\ proposal'[p].base = file /\ proposal'[p].reverted = proposal[p].reverted
        /\ \A q \in Proposals \ {p} : proposal'[q] = proposal[q]
    BY <1>2, <2>1 DEF ProposeDiff, TypeOK, Proposal
  <2>4. ~proposal[p].reverted
    BY <2>1 DEF RInv, Numbered
  <2>5. Numbered'
    <3>1. ASSUME NEW q \in Proposals
          PROVE  /\ proposal'[q].base.patch < q
                 /\ q > p => proposal'[q].base.patch = 0 /\ ~proposal'[q].reverted
      <4>1. CASE q = p
        BY <4>1, <2>1, <2>3
      <4>2. CASE q # p
        BY <4>2, <2>1, <2>3 DEF RInv, Numbered, Proposals
      <4> QED
        BY <4>1, <4>2
    <3> QED
      BY <1>b, <2>1, <2>2, <3>1 DEF Numbered
  <2>6. NotRebuilt'
    <3>1. ASSUME NEW q \in Proposals, proposal'[q].reverted
          PROVE  file'.patch # q /\ \A r \in Proposals : proposal'[r].base.patch # q
      <4>1. proposal[q].reverted
        BY <3>1, <2>3
      <4>2. file.patch # q /\ \A r \in Proposals : proposal[r].base.patch # q
        BY <4>1 DEF RInv, NotRebuilt
      <4> QED
        BY <1>b, <4>2, <2>3
    <3> QED
      BY <3>1 DEF NotRebuilt
  <2>7. inc.prop # 0 => inc.prop \in Proposals
    BY ConstantsAssumption DEF TypeOK, Incident, Proposals
  <2>8. NotOffered' /\ ProposalHasDiff'
    BY <1>c, <2>1, <2>2, <2>3, <2>4, <2>7 DEF RInv, NotOffered, Reverted, ProposalHasDiff
  <2>9. \A q \in Proc : Cleared(q)'
    BY <1>b, <1>d, <2>1, <2>2, <2>3, <2>4 DEF Cleared, ArtifactLabel, Reverted
  <2> QED
    BY <2>5, <2>6, <2>8, <2>9 DEF RInv
<1>3. CASE ProposeMeta(t)
  <2>1. /\ inc'.prop = nProposals /\ ~Reverted(nProposals)
    BY <1>3, <1>a DEF ProposeMeta, At, RInv, Cleared, TypeOK, Incident
  <2>a. diff # 0
    BY <1>3, <1>a DEF ProposeMeta, At, RInv, Cleared
  <2>2. /\ diff' = diff /\ proposal' = proposal /\ nProposals' = nProposals
    BY <1>3 DEF ProposeMeta, patches
  <2>3. co'[t].at \notin ArtifactLabel
    BY <1>3, <1>a, GotoEffect DEF ProposeMeta, ArtifactLabel
  <2>4. Numbered' /\ NotRebuilt' /\ NotOffered' /\ ProposalHasDiff'
    BY <1>b, <1>c, <2>1, <2>a, <2>2
    DEF RInv, Numbered, NotRebuilt, NotOffered, ProposalHasDiff, Reverted
  <2>5. \A q \in Proc : Cleared(q)'
    BY <1>b, <1>d, <2>3 DEF Cleared, ArtifactLabel
  <2> QED
    BY <2>4, <2>5 DEF RInv
<1>4. CASE Preflight(t)
  <2>1. /\ diff' = diff /\ nProposals' = nProposals
        /\ \A p \in Proposals : /\ proposal'[p].base = proposal[p].base
                                /\ proposal'[p].reverted = proposal[p].reverted
    BY <1>4 DEF Preflight, TypeOK, Proposal
  <2>2. \/ inc' = inc /\ co'[t].at = "finish"
        \/ inc'.prop = 0 /\ co'[t].at = "undiff" /\ proposal' = proposal
    BY <1>4, <1>a, GotoEffect DEF Preflight, TypeOK, Incident
  <2>3. CASE inc' = inc /\ co'[t].at = "finish"
    BY <1>b, <1>c, <2>1, <2>3, RTameKeeps DEF RTame, ArtifactLabel
  <2>4. CASE inc'.prop = 0 /\ co'[t].at = "undiff" /\ proposal' = proposal
    <3>1. Numbered' /\ NotRebuilt' /\ NotOffered' /\ ProposalHasDiff'
      BY <1>b, <1>c, <2>1, <2>4 DEF RInv, Numbered, NotRebuilt, NotOffered, ProposalHasDiff, Reverted
    <3>2. \A q \in Proc : Cleared(q)'
      BY <1>b, <1>d, <2>4 DEF Cleared, ArtifactLabel
    <3> QED
      BY <3>1, <3>2 DEF RInv
  <2> QED
    BY <2>2, <2>3, <2>4
<1>5. CASE Unpropose(t)
  <2>1. /\ diff' = 0 /\ inc' = inc /\ inc.prop = 0 /\ proposal' = proposal
        /\ nProposals' = nProposals /\ co'[t].at = "agent"
    BY <1>5, <1>a, GotoEffect DEF Unpropose, At, patches, RInv, Cleared
  <2>2. Numbered' /\ NotRebuilt' /\ NotOffered' /\ ProposalHasDiff'
    BY <1>b, <2>1 DEF RInv, Numbered, NotRebuilt, NotOffered, ProposalHasDiff, Reverted
  <2>3. \A q \in Proc : Cleared(q)'
    BY <1>b, <1>d, <2>1 DEF Cleared, ArtifactLabel
  <2> QED
    BY <2>2, <2>3 DEF RInv
<1> QED
  BY <1>1, <1>2, <1>3, <1>4, <1>5 DEF TaskStep

LEMMA EnvironmentRolled ==
    ASSUME TypeOK, LInv, RInv, Environment \/ (\E a \in Attempts : Observe(a))
    PROVE  RInv'
<1>1. CASE Environment
  <2>1. /\ inc' = inc /\ diff' = diff /\ nProposals' = nProposals
    BY <1>1, EnvironmentLeaves
  <2>2. \A q \in Proc : co'[q].at \in ArtifactLabel => co'[q] = co[q]
    BY <1>1, EnvironmentLeaves DEF ArtifactLabel, Idle
  <2>3. /\ file'.patch = file.patch
        /\ \A p \in Proposals : /\ proposal'[p].base = proposal[p].base
                                /\ proposal'[p].reverted = proposal[p].reverted
    <3>1. CASE \E c \in Client : SendRequest(c)
      BY <3>1 DEF SendRequest, workspace, TypeOK, Proposal
    <3>2. CASE UserEdit
      BY <3>2 DEF UserEdit, patches, TypeOK, File
    <3>3. CASE \/ Cancel \/ LogFails \/ TrainingExit \/ SmokeExit \/ SmokeRestExit
               \/ Crash \/ StopStarting \/ Close \/ Restart
      BY <3>3 DEF Cancel, LogFails, TrainingExit, SmokeExit, SmokeRestExit, Crash, StopStarting, Close, Restart,
         workspace, patches
    <3> QED
      BY <1>1, <3>1, <3>2, <3>3 DEF Environment
  <2>4. Discarded => Discarded'
    <3>1. CASE Crash \/ Restart
      BY <2>1, <3>1 DEF Crash, Restart, Discarded, InSmoke
    <3>2. CASE Cancel \/ LogFails \/ TrainingExit \/ SmokeExit \/ SmokeRestExit \/ UserEdit
      BY <2>1, <3>2 DEF Cancel, LogFails, TrainingExit, SmokeExit, SmokeRestExit, UserEdit, Discarded, InSmoke
    <3>3. CASE StopStarting \/ Close
      BY <2>1, <3>3, ProcFacts DEF StopStarting, Close, Discarded, InSmoke
    <3>4. CASE \E c \in Client : SendRequest(c)
      <4>1. PICK c \in Client : SendRequest(c)
        BY <3>4
      <4>2. daemon' = daemon /\ co[c].at = "idle" /\ \A q \in Proc \ {c} : co'[q] = co[q]
        BY <4>1, ProcFacts DEF SendRequest, TypeOK
      <4> QED
        BY <2>1, <4>2, ProcFacts DEF Discarded, InSmoke
    <3> QED
      BY <1>1, <3>1, <3>2, <3>3, <3>4 DEF Environment
  <2> QED
    BY <2>1, <2>2, <2>3, <2>4, RTameKeeps DEF RTame
<1>2. CASE \E a \in Attempts : Observe(a)
  <2>1. PICK a \in Attempts : Observe(a)
    BY <1>2
  <2>2. /\ diff' = diff /\ nProposals' = nProposals /\ file' = file /\ proposal' = proposal
        /\ inc'.prop = inc.prop
    BY <2>1 DEF Observe, workspace, patches, TypeOK, Incident
  <2> QED
    BY <2>1, <2>2, ObserveEffect, RTameKeeps DEF RTame, Discarded, InSmoke
<1> QED
  BY <1>1, <1>2

LEMMA InitRolled == Init => RInv
BY ConstantsAssumption
DEF Init, Idle, Clean, RInv, Numbered, NotRebuilt, NotOffered, Reverted, ProposalHasDiff, Cleared,
    Proposals

LEMMA NextRolled == TypeOK /\ LInv /\ RInv /\ [Next]_vars => RInv'
<1> SUFFICES ASSUME TypeOK, LInv, RInv, [Next]_vars PROVE RInv'
  OBVIOUS
<1>1. CASE Next
  BY <1>1, ClientRolled, CallerRolled, MonitorRolled, RecoveryRolled, TaskRolled,
     EnvironmentRolled DEF Next
<1>2. CASE UNCHANGED vars
  BY <1>2, RTameKeeps DEF vars, RTame, Discarded, InSmoke
<1> QED
  BY <1>1, <1>2

\* Patches stack, only the latest can be reversed, and what was rolled back is
\* out of reach, or the incident is discarded: the strengthening of both results.
THEOREM PatchesStack == Spec => []RInv
BY InitRolled, NextRolled, TypeCorrect, LockHolds, PTL DEF Spec

\* store.py: the snapshot never points at a diff that was deleted, for any number
\* of crashes, of doubled runs and of requests.
THEOREM SnapshotHasDiff == Spec => []ProposalHasDiff
<1>1. RInv => ProposalHasDiff
  BY DEF RInv
<1> QED
  BY <1>1, PatchesStack, PTL

\* A patch that was rolled back is neither in the workspace nor offered again:
\* the patches stack, only the latest can be reversed, and until its snapshot and
\* diff are gone the incident is one that a crash turns "unresolved".
THEOREM RolledBackStaysGone == Spec => []RolledBackIsGone
<1>1. TypeOK /\ RInv => RolledBackIsGone
  BY ConstantsAssumption
  DEF RInv, NotRebuilt, NotOffered, Reverted, Discarded, InSmoke, RolledBackIsGone, Proposals
<1> QED
  BY <1>1, TypeCorrect, PatchesStack, PTL
=============================================================================
