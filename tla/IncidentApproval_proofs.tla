------------------------ MODULE IncidentApproval_proofs ------------------------
(***************************************************************************)
(* What holds while the daemon has not crashed: the status of the incident *)
(* tells which coroutine may be where, so every event is accepted and one  *)
(* task investigates; what is offered is what that task made and checked;  *)
(* and what reaches the workspace was approved by the user who saw it.     *)
(*                                                                         *)
(* Four invariants, each used by the next: NInv (who is where), SmokeOwned *)
(* (who waits for the smoke), OInv (what the diagnosis tasks know of the   *)
(* artifacts) and PInv (what the requests know of the patch).              *)
(***************************************************************************)
EXTENDS IncidentRecovery_proofs

(* Who may be where *)

Alive(t) == co[t].at # "idle"

\* A diagnosis task, or a run about to start one, belongs to a "diagnosing"
\* incident, and there is one at most.
TaskStatus ==
    /\ \A t \in Runtime : Alive(t) => inc.status = "diagnosing"
    /\ \A p \in Caller : co[p].at \in {"create", "mark"} =>
          inc.status = "diagnosing" /\ \A t \in Runtime : ~Alive(t)
    /\ OneRuntime

\* What a request knows of the status at its label, beyond what the lock pins.
ClientStatus ==
    \A c \in Client :
        /\ co[c].at = "visible" => inc.status = "applying"
        /\ co[c].at = "retry" => inc.status \in {"smoke_passed", "smoke_skipped"}
        /\ co[c].at \in {"launch", "launching"} =>
              inc.status = "retry_running" /\ co[Monitor].at = "idle"
        /\ co[c].at = "launching" =>
              /\ job.status = "starting" /\ inc.attempt < job.cur
              /\ attempt[job.cur].failure = "none"

\* A reinvestigation under way has an event the status accepts.
CallerStatus ==
    \A p \in Caller : co[p].at \in {"clear", "unlink", "dispatch"} => Accepts(inc.status, co[p].ev)

\* The monitor watches the job's current attempt: the first one, before there is
\* an incident, or a retry the incident waits for.
Watching == {"watch", "seal", "capsule", "failure", "lock"}
MonitorStatus ==
    /\ co[Monitor].at \in Watching =>
          /\ mon.att = job.cur
          /\ \/ inc.status = "none" /\ co[Monitor].at # "lock"
             \/ inc.status = "retry_running" /\ inc.attempt < job.cur
    /\ co[Monitor].at \in {"watch", "seal"} => job.status = "running"
    /\ co[Monitor].at = "watch" => attempt[job.cur].failure = "none"
    /\ co[Monitor].at = "seal" /\ attempt[job.cur].failure = "process_exit" => Outcome = "failed"
    /\ co[Monitor].at \in {"capsule", "failure", "lock"} =>
          job.status = "failed" /\ attempt[job.cur].returncode
    /\ co[Monitor].at \in Watching \cup {"idle", "clear", "unlink", "dispatch", "create", "mark"}

\* Attempts are numbered as they are launched.
AttemptFits ==
    /\ inc.attempt <= job.cur
    /\ \A a \in Attempts : a > job.cur => attempt[a].failure = "none"

\* Who may be where while the incident has which status, as long as the daemon
\* has not crashed.
NInv ==
    /\ daemon \in {"up", "stopping"}
    /\ TaskStatus /\ ClientStatus /\ CallerStatus /\ MonitorStatus /\ AttemptFits /\ NoFault

\* A step of a client is at its label with nobody else inside a section, and with
\* the lock or about to take it.
LEMMA ClientAt ==
    ASSUME TypeOK, LInv, NEW c \in Client, ClientStep(c)
    PROVE  /\ \A q \in Proc \ {c} : co[q].at \in Await
           /\ \A d \in Client \ {c} : co[d].at \in {"idle", "wait"}
           /\ co[c].at \notin {"create", "mark", "unlink", "dispatch"}
<1>1. CanRun(c) /\ co[c].at \notin {"idle", "create", "mark", "unlink", "dispatch"}
      /\ (Locked(c) \/ LockFree)
  BY DEF ClientStep, DecideRefused, Reject, Invalidate, Approve, FollowUp, ApplyCheck,
      GitApply, WriteReceipt, SkipSmoke, SmokeSpawn, SmokeIdentity, SmokeVisible, SmokeEnd,
      SmokeFinished, SmokePassed, SmokeFailed, ReverseCheck, GitReverse, RetryStart,
      RetryRefused, Launch, Launched, LaunchFailed, Decidable, At, Locked
<1> QED
  BY <1>1 DEF CanRun, LInv, LockExclusive, LockFree, Locked

\* The effect of a client's step on what the invariant speaks of.
ClientEffect(c) ==
    /\ fault' = fault
    /\ \/ inc'.status = inc.status
       \/ /\ inc.status \notin {"none", "diagnosing"}
          /\ inc.status = "retry_running" => co[Monitor].at = "idle"
    /\ co'[c].at \notin {"create", "mark", "unlink", "dispatch"}
    /\ co'[c].at = "visible" => inc'.status = "applying"
    /\ co'[c].at = "retry" => inc'.status \in {"smoke_passed", "smoke_skipped"}
    /\ co'[c].at \in {"launch", "launching"} =>
          inc'.status = "retry_running" /\ co[Monitor].at = "idle"
    /\ co'[c].at = "launching" => job'.status = "starting" /\ job'.cur = job.cur + 1
    /\ co'[c].at = "clear" => Accepts(inc'.status, co'[c].ev)

LEMMA AcceptedEvents ==
    /\ \A s \in {"applying", "smoke_running"} :
          \A e \in RolledBack \cup {"SMOKE_PASSED", "SMOKE_FAILED_ROLLBACK_BLOCKED"} : Accepts(s, e)
    /\ Accepts("applying", "APPLY_FAILED") /\ Accepts("applying", "APPLY_OK_NO_SMOKE")
    /\ Accepts("applying", "APPLY_OK_SMOKE")
    /\ \A s \in {"smoke_passed", "smoke_skipped"} : Accepts(s, "RETRY_STARTED")
    /\ \A e \in {"REJECT", "APPROVE", "APPROVE_INVALIDATED"} : Accepts("awaiting_approval", e)
    /\ Accepts("retry_running", "RETRY_ABORTED") /\ Accepts("retry_running", "RETRY_FAILED")
    /\ \A e \in {"INVESTIGATION_DONE", "INVESTIGATION_FAILED"} : Accepts("diagnosing", e)
BY DEF Accepts, Transitions, SmokeOutcome, RolledBack, SmokeVerdict

\* An accepted event raises nothing.
LEMMA AcceptedDispatch ==
    ASSUME TypeOK, NEW p \in Proc, NEW e, NEW next, NEW bad, Dispatch(p, e, next, bad),
           Accepts(inc.status, e)
    PROVE  /\ fault' = fault /\ co'[p].at = next /\ inc'.status = Target(inc.status, e)
           /\ Goto(p, next)
BY GotoEffect DEF Dispatch, TypeOK, Incident

LEMMA ClientEffects ==
    ASSUME TypeOK, LInv, EInv, NInv, NEW c \in Client, ClientStep(c)
    PROVE  ClientEffect(c)
<1>a. c \in Proc /\ c \in Caller /\ Pins(c) /\ Carries(c)
  BY ProcFacts DEF LInv, LockPins, EInv, Caller
<1>1. CASE DecideRefused(c) \/ Approve(c) \/ FollowUp(c)
  <2>1. fault' = fault
        /\ (inc'.status = inc.status \/ inc.status = "awaiting_approval")
    BY <1>1 DEF DecideRefused, Approve, FollowUp, Decidable
  <2>2. co'[c].at \in {"idle", "check", "clear"}
    BY <1>1, <1>a, GotoEffect DEF DecideRefused, Approve, FollowUp, TypeOK, Local
  <2>3. co'[c].at = "clear" => Accepts(inc'.status, co'[c].ev)
    <3>1. CASE DecideRefused(c) \/ Approve(c)
      BY <3>1, <1>a, GotoEffect DEF DecideRefused, Approve, TypeOK, Local
    <3>2. CASE FollowUp(c)
      BY <3>2, <1>a, GotoEffect DEF FollowUp, TypeOK, Local
    <3> QED
      BY <1>1, <3>1, <3>2
  <2> QED
    BY <2>1, <2>2, <2>3 DEF ClientEffect
<1>2. CASE Reject(c) \/ Invalidate(c) \/ ApplyCheck(c) \/ GitApply(c) \/ WriteReceipt(c)
  <2>1. fault' = fault /\ co'[c].at \in {"idle", "apply", "receipt", "spawning", "skip"}
    BY <1>2, <1>a, GotoEffect, AcceptedDispatch, AcceptedEvents
    DEF Reject, Invalidate, ApplyCheck, GitApply, WriteReceipt, Decidable, At, Pins
  <2>2. inc'.status = inc.status \/ inc.status \in {"awaiting_approval", "applying"}
    BY <1>2, <1>a
    DEF Reject, Invalidate, ApplyCheck, GitApply, WriteReceipt, Decidable, At, Pins, TypeOK, Incident
  <2> QED
    BY <2>1, <2>2 DEF ClientEffect
<1>3. CASE SkipSmoke(c)
  <2>1. inc.status = "applying"
    BY <1>3, <1>a DEF SkipSmoke, At, Pins
  <2>2. fault' = fault /\ co'[c].at = "retry" /\ inc'.status = "smoke_skipped"
    BY <1>3, <1>a, <2>1, AcceptedDispatch, AcceptedEvents DEF SkipSmoke, Target, Transitions
  <2> QED
    BY <2>1, <2>2 DEF ClientEffect
<1>4. CASE SmokeSpawn(c) \/ SmokeEnd(c) \/ SmokeFinished(c)
  <2>1. fault' = fault /\ inc'.status = inc.status /\ co'[c].at \in {"exec", "ended", "verdict"}
    BY <1>4, <1>a, GotoEffect DEF SmokeSpawn, SmokeEnd, SmokeFinished, TypeOK, Local, Incident
  <2> QED
    BY <2>1 DEF ClientEffect
<1>5. CASE SmokeIdentity(c)
  <2>1. inc.status = "applying" /\ inc'.status = inc.status /\ fault' = fault
        /\ co'[c].at = "visible"
    BY <1>5, <1>a, GotoEffect DEF SmokeIdentity, At, Pins, TypeOK, Incident
  <2> QED
    BY <2>1 DEF ClientEffect
<1>6. CASE SmokeVisible(c)
  <2>1. inc.status = "applying"
    BY <1>6 DEF SmokeVisible, At, NInv, ClientStatus
  <2>2. fault' = fault /\ co'[c].at = "smoking"
    BY <1>6, <1>a, <2>1, AcceptedDispatch, AcceptedEvents DEF SmokeVisible
  <2> QED
    BY <2>1, <2>2 DEF ClientEffect
<1>7. CASE SmokePassed(c)
  <2>1. InSmoke
    BY <1>7, <1>a DEF SmokePassed, At, Pins
  <2>2. fault' = fault /\ co'[c].at = "retry" /\ inc'.status = "smoke_passed"
    BY <1>7, <1>a, <2>1, AcceptedDispatch, AcceptedEvents
    DEF SmokePassed, InSmoke, Target, Transitions, SmokeOutcome
  <2> QED
    BY <2>1, <2>2 DEF ClientEffect, InSmoke
<1>8. CASE SmokeFailed(c) \/ ReverseCheck(c)
  <2>1. InSmoke
    BY <1>8, <1>a DEF SmokeFailed, ReverseCheck, At, Pins
  <2>2. fault' = fault /\ co'[c].at \in {"idle", "revcheck", "reverse"}
    BY <1>8, <1>a, <2>1, GotoEffect, AcceptedDispatch, AcceptedEvents
    DEF SmokeFailed, ReverseCheck, InSmoke, TypeOK, Local
  <2> QED
    BY <2>1, <2>2 DEF ClientEffect, InSmoke
<1>9. CASE GitReverse(c)
  <2>1. InSmoke /\ co[c].ev \in RolledBack
    BY <1>9, <1>a DEF GitReverse, At, Pins, Carries
  <2>2. /\ fault' = fault
        /\ \/ co'[c].at = "idle"
           \/ co'[c].at = "clear" /\ inc' = inc /\ co'[c].ev = co[c].ev
    BY <1>9, <1>a, <2>1, GotoEffect, AcceptedDispatch, AcceptedEvents DEF GitReverse, InSmoke
  <2>3. Accepts(inc.status, co[c].ev)
    BY <2>1, AcceptedEvents DEF InSmoke
  <2> QED
    BY <2>1, <2>2, <2>3 DEF ClientEffect, InSmoke
<1>10. CASE RetryStart(c)
  <2>1. inc.status \in {"smoke_passed", "smoke_skipped"}
    BY <1>10 DEF RetryStart, At, NInv, ClientStatus
  <2>2. fault' = fault /\ co'[c].at = "launch" /\ inc'.status = "retry_running"
    BY <1>10, <1>a, <2>1, AcceptedDispatch, AcceptedEvents DEF RetryStart, Target, Transitions
  <2>3. co[Monitor].at = "idle"
    BY <1>10, <2>1, ProcFacts DEF RetryStart, At, CanRun, Await, NInv, MonitorStatus, Watching
  <2> QED
    BY <2>1, <2>2, <2>3 DEF ClientEffect
<1>11. CASE RetryRefused(c)
  <2>1. inc.status = "retry_running" /\ co[Monitor].at = "idle"
    BY <1>11 DEF RetryRefused, At, NInv, ClientStatus
  <2>2. fault' = fault /\ co'[c].at = "idle"
    BY <1>11, <1>a, <2>1, AcceptedDispatch, AcceptedEvents DEF RetryRefused
  <2> QED
    BY <2>1, <2>2 DEF ClientEffect
<1>12. CASE Launch(c)
  <2>1. inc.status = "retry_running" /\ co[Monitor].at = "idle"
    BY <1>12 DEF Launch, At, NInv, ClientStatus
  <2>2. fault' = fault /\ inc' = inc /\ co'[c].at \in {"idle", "launching"}
        /\ job'.status = "starting" /\ job'.cur = job.cur + 1
    BY <1>12, <1>a, GotoEffect DEF Launch
  <2> QED
    BY <2>1, <2>2 DEF ClientEffect
<1>13. CASE Launched(c) \/ LaunchFailed(c)
  <2>1. fault' = fault /\ inc' = inc /\ co'[c].at = "idle"
    BY <1>13, <1>a, ProcFacts, GotoEffect DEF Launched, LaunchFailed, TypeOK, Idle
  <2> QED
    BY <2>1 DEF ClientEffect
<1> QED
  BY <1>1, <1>2, <1>3, <1>4, <1>5, <1>6, <1>7, <1>8, <1>9, <1>10, <1>11, <1>12, <1>13
  DEF ClientStep

LEMMA ClientJobs ==
    ASSUME TypeOK, LInv, NInv, NEW c \in Client, ClientStep(c)
    PROVE  \/ co[Monitor].at = "idle" /\ co'[Monitor].at = "idle"
           \/ co'[Monitor] = co[Monitor] /\ UNCHANGED <<mon, job, attempt>>
           \/ Launched(c)
<1>1. CASE Launch(c) \/ LaunchFailed(c)
  <2>1. co[Monitor].at = "idle"
    BY <1>1 DEF Launch, LaunchFailed, At, NInv, ClientStatus
  <2> QED
    BY <1>1, <2>1, ProcFacts, GotoEffect DEF Launch, LaunchFailed
<1>2. CASE Launched(c)
  BY <1>2
<1>3. CASE ~(Launch(c) \/ LaunchFailed(c) \/ Launched(c))
  <2>1. UNCHANGED <<mon, job, attempt>>
    BY <1>3 DEF ClientStep, DecideRefused, Reject, Invalidate, Approve, FollowUp, ApplyCheck,
      GitApply, WriteReceipt, SkipSmoke, SmokeSpawn, SmokeIdentity, SmokeVisible, SmokeEnd,
      SmokeFinished, SmokePassed, SmokeFailed, ReverseCheck, GitReverse, RetryStart,
      RetryRefused, supervisor
  <2> QED
    BY <1>3, <2>1, ClientLeaves, ProcFacts
<1> QED
  BY <1>1, <1>2, <1>3

\* What the numbering of attempts allows a client's step.
LEMMA ClientAttempts ==
    ASSUME TypeOK, NInv, NEW c \in Client, ClientStep(c), ClientEffect(c)
    PROVE  AttemptFits' /\ (co'[c].at = "launching" =>
                               inc'.attempt < job'.cur /\ attempt'[job'.cur].failure = "none")
<1>a. inc'.attempt = inc.attempt /\ inc.attempt \in Nat /\ job.cur \in Attempts /\ job.cur \in Nat
  BY ClientLeaves, ConstantsAssumption, BoundsType DEF TypeOK, Incident, Job, Attempts
<1>b. \A a \in Attempts : a \in Nat
  BY ConstantsAssumption DEF Attempts
<1>1. CASE Launch(c)
  <2>1. job'.cur = job.cur + 1 /\ job'.cur \in Attempts /\ attempt' = attempt
    BY <1>1, <1>a, ConstantsAssumption DEF Launch, Attempts, MaxAttempts
  <2> QED
    BY <1>a, <1>b, <2>1 DEF NInv, AttemptFits
<1>2. CASE LaunchFailed(c)
  <2>1. job'.cur = job.cur /\ \A a \in Attempts \ {job.cur} : attempt'[a] = attempt[a]
    BY <1>2 DEF LaunchFailed, TypeOK, Job
  <2>2. co'[c].at = "idle"
    BY <1>2, ProcFacts, GotoEffect DEF LaunchFailed
  <2> QED
    BY <1>a, <1>b, <2>1, <2>2 DEF NInv, AttemptFits
<1>3. CASE ~(Launch(c) \/ LaunchFailed(c))
  <2>1. job'.cur = job.cur /\ attempt' = attempt /\ co'[c].at # "launching"
    <3>1. CASE Launched(c)
      BY <3>1, ProcFacts DEF Launched, TypeOK, Job, Idle
    <3>2. CASE ~Launched(c)
      <4>1. UNCHANGED <<job, attempt>>
        BY <1>3, <3>2 DEF ClientStep, DecideRefused, Reject, Invalidate, Approve, FollowUp,
          ApplyCheck, GitApply, WriteReceipt, SkipSmoke, SmokeSpawn, SmokeIdentity, SmokeVisible,
          SmokeEnd, SmokeFinished, SmokePassed, SmokeFailed, ReverseCheck, GitReverse, RetryStart,
          RetryRefused, supervisor
      <4> QED
        BY <1>a, <4>1 DEF ClientEffect
    <3> QED
      BY <3>1, <3>2
  <2> QED
    BY <1>a, <2>1 DEF NInv, AttemptFits
<1> QED
  BY <1>1, <1>2, <1>3

LEMMA ClientControls ==
    ASSUME TypeOK, LInv, EInv, NInv, NEW c \in Client, ClientStep(c)
    PROVE  NInv'
<1>a. ClientEffect(c)
  BY ClientEffects
<1>b. /\ \A q \in Proc \ {c} : co[q].at \in Await
      /\ \A d \in Client \ {c} : co[d].at \in {"idle", "wait"}
      /\ co[c].at \notin {"create", "mark", "unlink", "dispatch"}
  BY ClientAt
<1>c. /\ daemon' = daemon /\ inc'.attempt = inc.attempt
      /\ \A q \in Proc \ {c} : co'[q] = co[q] \/ (q = Monitor /\ Launched(c))
  BY ClientLeaves
<1>d. c \in Proc /\ c # Monitor /\ c \notin Runtime /\ Monitor \in Proc /\ Monitor \notin Runtime
      /\ Caller \subseteq Proc /\ Runtime \subseteq Proc /\ Client \subseteq Proc
      /\ Monitor \notin Client
  BY ProcFacts DEF Caller, Proc
<1>e. Launched(c) =>
        /\ co'[Monitor].at = "watch" /\ mon'.att = job.cur /\ job'.cur = job.cur
        /\ job'.status = "running" /\ inc' = inc /\ attempt' = attempt /\ co[c].at = "launching"
  BY <1>d DEF Launched, At, TypeOK, Job, Idle
<1>1. TaskStatus'
  <2>1. \A t \in Runtime : co'[t] = co[t]
    BY <1>c, <1>d
  <2>2. \A p \in Caller : co'[p].at \notin {"create", "mark"}
    BY <1>a, <1>b, <1>c, <1>d, <1>e DEF ClientEffect, Await
  <2> QED
    BY <1>a, <2>1, <2>2 DEF NInv, TaskStatus, ClientEffect, Alive, OneRuntime
<1>2. ClientStatus'
  <2>1. ASSUME NEW d \in Client \ {c}
        PROVE  co'[d].at \in {"idle", "wait"}
    BY <1>b, <1>c, <1>d
  <2>2. co'[c].at \in {"launch", "launching"} => co'[Monitor].at = "idle"
    BY <1>a, <1>d, ClientJobs, ProcFacts DEF ClientEffect, Launched, TypeOK, Idle
  <2> QED
    BY <1>a, <2>1, <2>2, ClientAttempts DEF ClientStatus, ClientEffect
<1>3. CallerStatus'
  <2>1. \A p \in Caller \ {c} : co'[p].at \notin {"clear", "unlink", "dispatch"}
    BY <1>b, <1>c, <1>d, <1>e DEF Await
  <2> QED
    BY <1>a, <2>1 DEF CallerStatus, ClientEffect
<1>4. MonitorStatus'
  <2>1. CASE co[Monitor].at = "idle" /\ co'[Monitor].at = "idle"
    BY <2>1 DEF MonitorStatus, Watching
  <2>2. CASE co'[Monitor] = co[Monitor] /\ UNCHANGED <<mon, job, attempt>>
    <3>1. co[Monitor].at \in Watching => inc'.status = inc.status
      BY <1>a DEF ClientEffect, NInv, MonitorStatus, Watching
    <3> QED
      BY <1>c, <2>2, <3>1 DEF NInv, MonitorStatus, Outcome, Watching
  <2>3. CASE Launched(c)
    BY <1>e, <2>3 DEF NInv, ClientStatus, MonitorStatus, Watching
  <2> QED
    BY <2>1, <2>2, <2>3, ClientJobs
<1>5. AttemptFits' /\ NoFault'
  BY <1>a, ClientAttempts DEF NInv, NoFault, ClientEffect
<1> QED
  BY <1>1, <1>2, <1>3, <1>4, <1>5, <1>c DEF NInv

\* While a coroutine is inside a section every other one awaits.
LEMMA SectionAlone ==
    ASSUME TypeOK, NEW p \in Caller, CallerStep(p)
    PROVE  \A q \in Proc \ {p} : co[q].at \in Await
BY DEF CallerStep, ClearArtifacts, UnlinkDiff, Reinvestigate, CreateRun, MarkRun, At, CanRun

\* The events that start a new investigation are sent by nobody who diagnoses,
\* and only RETRY_FAILED ends a retry.
LEMMA CallerEvents ==
    ASSUME TypeOK, LInv, EInv, NInv, NEW p \in Caller,
           co[p].at \in {"clear", "unlink", "dispatch"}
    PROVE  /\ Accepts(inc.status, co[p].ev)
           /\ inc.status \notin {"none", "diagnosing"}
           /\ p = Monitor => inc.status = "retry_running" /\ co[p].ev = "RETRY_FAILED"
           /\ p # Monitor => inc.status # "retry_running"
           /\ Target(inc.status, co[p].ev) =
                 IF co[p].ev = "SMOKE_FAILED_ROLLED_BACK_NO_EVIDENCE"
                 THEN "unresolved" ELSE "diagnosing"
<1>1. Accepts(inc.status, co[p].ev)
  BY DEF NInv, CallerStatus
<1>2. p = Monitor => co[p].ev = "RETRY_FAILED"
  BY DEF LInv, MonitorEvent
<1>3. p # Monitor => co[p].ev \in {"FOLLOW_UP", "SMOKE_FAILED_ROLLED_BACK",
                                  "SMOKE_FAILED_ROLLED_BACK_NO_EVIDENCE"}
  BY DEF EInv, Carries, Caller, RolledBack, SmokeVerdict
<1>4. \A s :
        /\ Accepts(s, "RETRY_FAILED") => s = "retry_running"
        /\ \A e \in {"FOLLOW_UP", "SMOKE_FAILED_ROLLED_BACK",
                     "SMOKE_FAILED_ROLLED_BACK_NO_EVIDENCE"} :
              Accepts(s, e) => s \notin {"none", "diagnosing", "retry_running"}
  BY DEF Accepts, Transitions, SmokeOutcome
<1>5. \A s : \A e \in {"FOLLOW_UP", "SMOKE_FAILED_ROLLED_BACK", "RETRY_FAILED",
                      "SMOKE_FAILED_ROLLED_BACK_NO_EVIDENCE"} :
        Accepts(s, e) =>
            Target(s, e) = IF e = "SMOKE_FAILED_ROLLED_BACK_NO_EVIDENCE"
                           THEN "unresolved" ELSE "diagnosing"
  BY DEF Accepts, Target, Transitions, SmokeOutcome
<1> QED
  BY <1>1, <1>2, <1>3, <1>4, <1>5

LEMMA CallerControls ==
    ASSUME TypeOK, LInv, EInv, NInv, NEW p \in Caller, CallerStep(p)
    PROVE  NInv'
<1>a. /\ daemon' = daemon /\ UNCHANGED <<mon, job, attempt>>
      /\ inc'.attempt = inc.attempt
      /\ \A q \in Caller \ {p} : co'[q] = co[q]
      /\ \A t \in Runtime : co'[t] = co[t] \/ MarkRun(p)
  BY CallerLeaves
<1>b. \A q \in Proc \ {p} : co[q].at \in Await
  BY SectionAlone
<1>c. p \in Proc /\ Monitor \in Caller /\ Client \subseteq Caller /\ Caller \subseteq Proc
      /\ Runtime \subseteq Proc /\ Runtime \cap Caller = {} /\ Monitor \notin Client
      /\ Return(p) = "idle"
  BY ProcFacts DEF Caller, Proc, Return, NInv
<1>d. Outcome' = Outcome
  BY <1>a DEF Outcome
<1>e. /\ \A q \in Caller \ {p} : co[q].at \notin {"clear", "unlink", "dispatch", "create", "mark",
                                                "visible", "retry", "launch"}
      /\ \A c \in Client \ {p} : co[c].at = "launching" => p = Monitor
  <2>1. co[p].at \in {"clear", "unlink", "dispatch", "create", "mark"}
    BY DEF CallerStep, ClearArtifacts, UnlinkDiff, Reinvestigate, CreateRun, MarkRun, At
  <2> QED
    BY <1>b, <1>c, <2>1 DEF Await, LInv, LockExclusive, Locked, Caller
<1>f. \A c \in Client \ {p} : co[c].at # "launching"
  <2>1. co[p].at # "idle"
    BY DEF CallerStep, ClearArtifacts, UnlinkDiff, Reinvestigate, CreateRun, MarkRun, At
  <2> QED
    BY <1>e, <2>1 DEF NInv, ClientStatus
<1>g. co'[p].at \notin {"visible", "retry", "launch", "launching"} => ClientStatus'
  BY <1>a, <1>c, <1>e, <1>f DEF ClientStatus
<1>h. AttemptFits'
  BY <1>a DEF NInv, AttemptFits
<1>1. CASE ClearArtifacts(p) \/ UnlinkDiff(p)
  <2>1. /\ co[p].at \in {"clear", "unlink"} /\ co'[p].at \in {"unlink", "dispatch"}
        /\ co'[p].ev = co[p].ev /\ fault' = fault /\ \A q \in Proc \ {p} : co'[q] = co[q]
    BY <1>1, <1>c, GotoEffect DEF ClearArtifacts, UnlinkDiff, At
  <2>a. inc'.status = inc.status /\ \A t \in Runtime : co'[t] = co[t]
    BY <1>1, <1>c, <2>1 DEF ClearArtifacts, UnlinkDiff, TypeOK, Incident
  <2>2. TaskStatus'
    BY <1>a, <1>e, <2>1, <2>a DEF NInv, TaskStatus, Alive, OneRuntime
  <2>3. CallerStatus'
    BY <1>a, <1>e, <2>1, <2>a DEF NInv, CallerStatus
  <2>4. MonitorStatus'
    BY <1>a, <1>c, <1>d, <2>1, <2>a DEF NInv, MonitorStatus, Watching
  <2> QED
    BY <1>a, <1>g, <1>h, <2>1, <2>a, <2>2, <2>3, <2>4 DEF NInv, NoFault
<1>2. CASE Reinvestigate(p)
  <2>1. co[p].at = "dispatch"
    BY <1>2 DEF Reinvestigate, At
  <2>2. /\ inc.status \notin {"none", "diagnosing"}
        /\ p # Monitor => inc.status # "retry_running"
    BY <2>1, CallerEvents
  <2>3. /\ fault' = fault
        /\ \/ co'[p].at = "create" /\ inc'.status = "diagnosing"
           \/ co'[p].at = "idle" /\ inc'.status = "unresolved"
    BY <1>2, <1>c, <2>1, CallerEvents, AcceptedDispatch DEF Reinvestigate
  <2>4. \A t \in Runtime : co'[t] = co[t] /\ ~Alive(t)
    BY <1>2, <1>c, <2>2, DispatchEffect DEF Reinvestigate, NInv, TaskStatus
  <2>5. TaskStatus'
    BY <1>a, <1>e, <2>3, <2>4 DEF TaskStatus, Alive, OneRuntime
  <2>6. CallerStatus'
    BY <1>a, <1>e, <2>3 DEF CallerStatus
  <2>7. MonitorStatus'
    BY <1>a, <1>c, <1>d, <2>2, <2>3 DEF NInv, MonitorStatus, Watching
  <2> QED
    BY <1>a, <1>g, <1>h, <2>3, <2>5, <2>6, <2>7 DEF NInv, NoFault
<1>3. CASE CreateRun(p)
  <2>1. /\ co[p].at = "create" /\ co'[p].at = "mark" /\ inc' = inc /\ fault' = fault
        /\ \A t \in Runtime : co'[t] = co[t]
    BY <1>3, <1>c DEF CreateRun, At, TypeOK, Local
  <2>2. TaskStatus'
    BY <1>a, <1>e, <2>1 DEF NInv, TaskStatus, Alive, OneRuntime
  <2>3. CallerStatus'
    BY <1>a, <1>e, <2>1 DEF CallerStatus
  <2>4. MonitorStatus'
    BY <1>a, <1>c, <1>d, <2>1 DEF NInv, MonitorStatus, Watching
  <2> QED
    BY <1>a, <1>g, <1>h, <2>1, <2>2, <2>3, <2>4 DEF NInv, NoFault
<1>4. CASE MarkRun(p)
  <2>1. PICK t \in Runtime :
           co' = [co EXCEPT ![p] = [Idle EXCEPT !.at = Return(p)],
                            ![t] = [Idle EXCEPT !.at = "start", !.run = co[p].run]]
    BY <1>4 DEF MarkRun, Spawn
  <2>2. /\ co[p].at = "mark" /\ co'[p].at = "idle" /\ inc'.status = inc.status /\ fault' = fault
        /\ \A u \in Runtime \ {t} : co'[u] = co[u]
    BY <1>4, <1>c, <2>1 DEF MarkRun, At, TypeOK, Idle, Incident
  <2>3. inc.status = "diagnosing" /\ \A u \in Runtime : ~Alive(u)
    BY <2>2 DEF NInv, TaskStatus
  <2>4. TaskStatus'
    BY <1>a, <1>e, <2>2, <2>3 DEF TaskStatus, Alive, OneRuntime
  <2>5. CallerStatus'
    BY <1>a, <1>e, <2>2 DEF CallerStatus
  <2>6. MonitorStatus'
    BY <1>a, <1>c, <1>d, <2>2 DEF NInv, MonitorStatus, Watching
  <2> QED
    BY <1>a, <1>g, <1>h, <2>2, <2>4, <2>5, <2>6 DEF NInv, NoFault
<1> QED
  BY <1>1, <1>2, <1>3, <1>4 DEF CallerStep

LEMMA MonitorControls ==
    ASSUME TypeOK, LInv, NInv, MonitorStep
    PROVE  NInv'
<1>a. /\ daemon' = daemon /\ \A q \in Proc \ {Monitor} : co'[q] = co[q]
  BY MonitorLeaves
<1>b. Monitor \in Proc /\ Monitor \in Caller /\ Caller \subseteq Proc /\ Runtime \subseteq Proc
      /\ Client \subseteq Proc /\ Monitor \notin Client /\ Monitor \notin Runtime
      /\ Caller \ {Monitor} \subseteq Client /\ Return(Monitor) = "idle"
  BY ProcFacts DEF Caller, Proc, Return, NInv
<1>c. co[Monitor].at \in Watching /\ \A q \in Proc \ {Monitor} : co[q].at \in Await
  BY DEF MonitorStep, MonitorFailure, MonitorSeal, WriteCapsule, HandleFailure, RetryFailed, At,
     Watching, CanRun
<1>d. /\ mon.att = job.cur /\ job.cur \in Attempts /\ inc.attempt \in Nat /\ job.cur \in Nat
      /\ inc.status \in {"none", "retry_running"}
      /\ inc.status = "retry_running" => inc.attempt < job.cur
  BY <1>c, ConstantsAssumption DEF NInv, MonitorStatus, TypeOK, Job, Incident, Attempts
<1>e. \A t \in Runtime : ~Alive(t) /\ co'[t] = co[t]
  BY <1>a, <1>b, <1>d DEF NInv, TaskStatus
<1>f. ClientStatus'
  BY <1>a, <1>b, <1>c DEF NInv, ClientStatus, Watching, Await
<1>g. \A p \in Caller \ {Monitor} : co'[p].at \notin {"create", "mark", "clear", "unlink", "dispatch"}
  BY <1>a, <1>b, <1>c DEF Await
<1>1. CASE MonitorFailure
  <2>1. /\ co[Monitor].at = "watch" /\ co'[Monitor].at = "seal" /\ inc' = inc /\ fault' = fault
        /\ UNCHANGED <<mon, job>>
        /\ \A a \in Attempts \ {job.cur} : attempt'[a] = attempt[a]
        /\ attempt'[mon.att].exit = attempt[mon.att].exit
        /\ Outcome # "failed" => attempt' = attempt
    BY <1>1, <1>b, <1>d, GotoEffect DEF MonitorFailure, At, TypeOK, Attempt
  <2>2. Outcome' = Outcome
    BY <2>1 DEF Outcome
  <2>3. MonitorStatus'
    BY <1>d, <2>1, <2>2 DEF NInv, MonitorStatus, Watching
  <2>4. AttemptFits'
    BY <1>d, <2>1, ConstantsAssumption DEF NInv, AttemptFits, Attempts
  <2> QED
    BY <1>a, <1>e, <1>f, <1>g, <2>1, <2>3, <2>4
    DEF NInv, NoFault, TaskStatus, CallerStatus, Alive, OneRuntime
<1>2. CASE MonitorSeal
  <2>1. /\ co[Monitor].at = "seal" /\ inc' = inc /\ fault' = fault
        /\ co'[Monitor].at = IF attempt[mon.att].failure = "process_exit" THEN "capsule" ELSE "idle"
        /\ job'.cur = job.cur /\ job'.status = Outcome /\ mon'.att = mon.att
        /\ attempt'[job.cur].returncode
        /\ \A a \in Attempts : attempt'[a].failure = attempt[a].failure
    BY <1>2, <1>b, <1>d, GotoEffect DEF MonitorSeal, At, TypeOK, Attempt, Job
  <2>2. MonitorStatus'
    BY <1>d, <2>1 DEF NInv, MonitorStatus, Watching
  <2>3. AttemptFits'
    BY <1>d, <2>1 DEF NInv, AttemptFits
  <2> QED
    BY <1>a, <1>e, <1>f, <1>g, <2>1, <2>2, <2>3
    DEF NInv, NoFault, TaskStatus, CallerStatus, Alive, OneRuntime
<1>3. CASE WriteCapsule
  <2>1. /\ co[Monitor].at = "capsule" /\ co'[Monitor].at = "failure" /\ inc' = inc
        /\ fault' = fault /\ UNCHANGED <<mon, job>>
        /\ \A a \in Attempts : /\ attempt'[a].failure = attempt[a].failure
                               /\ attempt'[a].returncode = attempt[a].returncode
    BY <1>3, <1>b, <1>d, GotoEffect DEF WriteCapsule, At, TypeOK, Attempt
  <2>2. MonitorStatus'
    BY <1>d, <2>1 DEF NInv, MonitorStatus, Watching
  <2>3. AttemptFits'
    BY <1>d, <2>1 DEF NInv, AttemptFits
  <2> QED
    BY <1>a, <1>e, <1>f, <1>g, <2>1, <2>2, <2>3
    DEF NInv, NoFault, TaskStatus, CallerStatus, Alive, OneRuntime
<1>4. CASE HandleFailure
  <2>1. /\ co[Monitor].at = "failure" /\ UNCHANGED <<mon, job, attempt, fault>>
        /\ \/ co'[Monitor].at = "lock" /\ inc' = inc /\ inc.status = "retry_running"
           \/ /\ co'[Monitor].at = "create" /\ inc'.status = "diagnosing"
              /\ inc'.attempt = job.cur
    <3>1. inc.status = "retry_running" => inc.attempt # mon.att
      BY <1>d
    <3>2. /\ co[Monitor].at = "failure" /\ UNCHANGED <<mon, job, attempt>>
          /\ \/ fault' = fault /\ Goto(Monitor, "lock") /\ inc' = inc
                /\ inc.status = "retry_running"
             \/ /\ fault' = fault /\ Goto(Monitor, "create")
                /\ inc' = [inc EXCEPT !.status = "diagnosing", !.attempt = mon.att]
      BY <1>4, <1>d, <3>1 DEF HandleFailure, At, supervisor
    <3>3. \A l : Goto(Monitor, l) => co'[Monitor].at = l
      BY <1>b, GotoEffect
    <3> QED
      BY <1>d, <3>2, <3>3 DEF TypeOK, Incident
  <2>2. MonitorStatus'
    BY <1>d, <2>1 DEF NInv, MonitorStatus, Watching
  <2>3. AttemptFits'
    BY <1>d, <2>1 DEF NInv, AttemptFits
  <2>4. TaskStatus' /\ CallerStatus'
    BY <1>e, <1>g, <2>1 DEF TaskStatus, CallerStatus, Alive, OneRuntime
  <2> QED
    BY <1>a, <1>f, <2>1, <2>2, <2>3, <2>4 DEF NInv, NoFault
<1>5. CASE RetryFailed
  <2>1. /\ co[Monitor].at = "lock" /\ UNCHANGED <<mon, job, attempt, fault>>
        /\ co'[Monitor].at = "clear" /\ co'[Monitor].ev = "RETRY_FAILED"
        /\ inc'.status = inc.status /\ inc'.attempt = job.cur
    BY <1>5, <1>b, <1>d DEF RetryFailed, At, supervisor, TypeOK, Incident, Local
  <2>2. inc.status = "retry_running"
    BY <2>1 DEF NInv, MonitorStatus, Watching
  <2>3. MonitorStatus'
    BY <2>1 DEF MonitorStatus, Watching
  <2>4. AttemptFits'
    BY <1>d, <2>1 DEF NInv, AttemptFits
  <2>5. TaskStatus' /\ CallerStatus'
    BY <1>e, <1>g, <2>1, <2>2, AcceptedEvents DEF TaskStatus, CallerStatus, Alive, OneRuntime
  <2> QED
    BY <1>a, <1>f, <2>1, <2>3, <2>4, <2>5 DEF NInv, NoFault
<1> QED
  BY <1>1, <1>2, <1>3, <1>4, <1>5 DEF MonitorStep

\* A task that changes the status was diagnosing, and ends with it.
LEMMA TaskEffects ==
    ASSUME TypeOK, NInv, NEW t \in Runtime, TaskStep(t)
    PROVE  /\ fault' = fault /\ inc.status = "diagnosing"
           /\ \/ inc'.status = inc.status
              \/ co'[t].at = "idle" /\ inc'.status \in {"awaiting_approval", "unresolved"}
<1>a. t \in Proc
  BY ProcFacts
<1>b. inc.status = "diagnosing"
  BY TaskLeaves DEF NInv, TaskStatus, Alive
<1>1. CASE TaskRaises(t) \/ TaskTail(t) \/ TaskDone(t)
  <2>1. ASSUME NEW e \in {"INVESTIGATION_DONE", "INVESTIGATION_FAILED"},
               Dispatch(t, e, "idle", "idle")
        PROVE  /\ fault' = fault /\ co'[t].at = "idle"
               /\ inc'.status \in {"awaiting_approval", "unresolved"}
    BY <2>1, <1>a, <1>b, AcceptedDispatch, AcceptedEvents DEF Target, Transitions
  <2>2. \/ \E e \in {"INVESTIGATION_DONE", "INVESTIGATION_FAILED"} : Dispatch(t, e, "idle", "idle")
        \/ fault' = fault /\ inc' = [inc EXCEPT !.active = inc.prop]
    BY <1>1, <1>b DEF TaskRaises, TaskTail, TaskDone, GiveUp
  <2> QED
    BY <1>b, <2>1, <2>2 DEF TypeOK, Incident
<1>2. CASE \/ TaskStart(t) \/ SubmitDiagnosis(t) \/ ProposeDiff(t) \/ ProposeMeta(t)
           \/ Preflight(t) \/ Unpropose(t) \/ AgentEnd(t) \/ FinishRun(t)
  BY <1>2, <1>b
  DEF TaskStart, SubmitDiagnosis, ProposeDiff, ProposeMeta, Preflight, Unpropose, AgentEnd,
      FinishRun, TypeOK, Incident
<1> QED
  BY <1>1, <1>2 DEF TaskStep

LEMMA TaskControls ==
    ASSUME TypeOK, LInv, NInv, NEW t \in Runtime, TaskStep(t)
    PROVE  NInv'
<1>a. /\ daemon' = daemon /\ UNCHANGED <<mon, job, attempt>> /\ inc'.attempt = inc.attempt
      /\ \A q \in Proc \ {t} : co'[q] = co[q]
      /\ Alive(t)
  BY TaskLeaves DEF Alive
<1>b. t \in Proc /\ t \notin Caller /\ Caller \subseteq Proc /\ Client \subseteq Caller
      /\ Monitor \in Caller /\ Runtime \subseteq Proc
  BY ProcFacts DEF Caller, Proc
<1>c. /\ fault' = fault /\ inc.status = "diagnosing"
      /\ \/ inc'.status = inc.status
         \/ co'[t].at = "idle" /\ inc'.status \in {"awaiting_approval", "unresolved"}
  BY TaskEffects
<1>d. \A u \in Runtime \ {t} : ~Alive(u) /\ co'[u] = co[u]
  BY <1>a, <1>b DEF NInv, TaskStatus, OneRuntime, Alive
<1>e. \A p \in Caller : co'[p] = co[p] /\ co[p].at \notin {"create", "mark", "clear", "unlink",
                                                          "dispatch"}
  <2>1. \A q \in Proc \ {t} : co[q].at \in Await
    BY DEF TaskStep, TaskStart, SubmitDiagnosis, ProposeDiff, ProposeMeta, Preflight, Unpropose,
       AgentEnd, FinishRun, TaskRaises, TaskTail, TaskDone, At, CanRun
  <2> QED
    BY <2>1, <1>a, <1>b DEF Await
<1>1. TaskStatus'
  BY <1>c, <1>d, <1>e DEF TaskStatus, Alive, OneRuntime
<1>2. ClientStatus'
  <2>1. \A c \in Client : co[c].at \notin {"visible", "retry", "launch", "launching"}
    BY <1>c DEF NInv, ClientStatus
  <2> QED
    BY <1>b, <1>e, <2>1 DEF ClientStatus
<1>3. CallerStatus'
  BY <1>e DEF CallerStatus
<1>4. MonitorStatus'
  <2>1. co[Monitor].at \notin Watching
    BY <1>c DEF NInv, MonitorStatus
  <2> QED
    BY <1>b, <1>e, <2>1 DEF NInv, MonitorStatus, Watching
<1>5. AttemptFits'
  BY <1>a DEF NInv, AttemptFits
<1> QED
  BY <1>a, <1>c, <1>1, <1>2, <1>3, <1>4, <1>5 DEF NInv, NoFault

\* An observer that wakes late finds its retry settled, or a later one running.
LEMMA ObserveControls ==
    ASSUME TypeOK, LInv, NInv, NEW a \in Attempts, Observe(a)
    PROVE  NInv'
<1>1. /\ daemon' = daemon /\ co' = co /\ UNCHANGED <<mon, job, attempt, fault>>
      /\ inc'.attempt = inc.attempt
      /\ \A q \in Proc : co[q].at \in Await
      /\ \/ inc' = inc
         \/ /\ inc.status = "retry_running" /\ inc'.status \in {"resolved", "unresolved"}
            /\ job.status \notin {"starting", "running"}
            /\ job.status = "failed" => ~attempt[job.cur].returncode
  BY DEF Observe, TypeOK, Incident, Target, Transitions
<1>a. Caller \subseteq Proc /\ Client \subseteq Proc /\ Monitor \in Proc
  BY ProcFacts DEF Caller, Proc
<1>2. CASE inc' = inc
  BY <1>1, <1>2
  DEF NInv, TaskStatus, ClientStatus, CallerStatus, MonitorStatus, AttemptFits, NoFault, Alive,
      OneRuntime, Outcome
<1>3. CASE /\ inc.status = "retry_running" /\ inc'.status \in {"resolved", "unresolved"}
           /\ job.status \notin {"starting", "running"}
           /\ job.status = "failed" => ~attempt[job.cur].returncode
  <2>1. co[Monitor].at \notin Watching /\ \A c \in Client : co[c].at # "launching"
    BY <1>1, <1>3, <1>a DEF NInv, ClientStatus, MonitorStatus, Watching, Await
  <2>2. TaskStatus'
    BY <1>1, <1>3 DEF NInv, TaskStatus, Alive, OneRuntime
  <2>3. ClientStatus'
    BY <1>1, <1>a, <2>1 DEF ClientStatus, Await
  <2>4. CallerStatus'
    BY <1>1, <1>a DEF CallerStatus, Await
  <2>5. MonitorStatus'
    BY <1>1, <2>1 DEF NInv, MonitorStatus, Watching
  <2> QED
    BY <1>1, <2>2, <2>3, <2>4, <2>5 DEF NInv, NoFault, AttemptFits
<1> QED
  BY <1>1, <1>2, <1>3

LEMMA EnvironmentControls ==
    ASSUME TypeOK, LInv, NInv, Environment, ~Crash
    PROVE  NInv'
<1>a. Caller \subseteq Proc /\ Client \subseteq Caller /\ Monitor \in Caller /\ Monitor \notin Client
      /\ Runtime \subseteq Proc /\ Runtime \cap Caller = {}
  BY ProcFacts DEF Caller, Proc
<1>b. UNCHANGED <<inc, job, fault>>
  BY EnvironmentLeaves
<1>1. CASE \E c \in Client : SendRequest(c)
  <2>1. PICK c \in Client : SendRequest(c)
    BY <1>1
  <2>2. /\ daemon' = daemon /\ UNCHANGED <<mon, attempt>>
        /\ co'[c].at = "wait" /\ \A q \in Proc \ {c} : co'[q] = co[q]
    BY <2>1, <1>a DEF SendRequest, supervisor, TypeOK, Idle
  <2>3. TaskStatus' /\ ClientStatus' /\ CallerStatus'
    BY <1>a, <1>b, <2>2 DEF NInv, TaskStatus, ClientStatus, CallerStatus, Alive, OneRuntime
  <2>4. MonitorStatus' /\ AttemptFits' /\ NoFault'
    BY <1>a, <1>b, <2>2 DEF NInv, MonitorStatus, AttemptFits, NoFault, Outcome
  <2> QED
    BY <2>2, <2>3, <2>4 DEF NInv
<1>2. CASE Cancel \/ LogFails \/ TrainingExit
  <2>1. /\ daemon' = daemon /\ co' = co /\ co[Monitor].at = "watch" /\ mon'.att = mon.att
        /\ \A a \in Attempts : /\ attempt'[a].failure = attempt[a].failure
                               /\ attempt'[a].returncode = attempt[a].returncode
    BY <1>2 DEF Cancel, LogFails, TrainingExit, TypeOK, Attempt
  <2>2. TaskStatus' /\ CallerStatus' /\ NoFault'
    BY <1>b, <2>1 DEF NInv, TaskStatus, CallerStatus, Alive, OneRuntime, NoFault
  <2>3. job.cur \in Attempts
    BY DEF TypeOK, Job
  <2>4. ClientStatus' /\ MonitorStatus' /\ AttemptFits'
    BY <1>b, <2>1, <2>3 DEF NInv, ClientStatus, MonitorStatus, AttemptFits, Watching
  <2> QED
    BY <2>1, <2>2, <2>4 DEF NInv
<1>3. CASE SmokeExit \/ SmokeRestExit \/ UserEdit \/ StopStarting
  <2>1. co' = co /\ UNCHANGED <<mon, attempt>> /\ daemon' \in {"up", "stopping"}
    BY <1>3 DEF SmokeExit, SmokeRestExit, UserEdit, StopStarting, supervisor, NInv
  <2> QED
    BY <1>b, <2>1
    DEF NInv, TaskStatus, ClientStatus, CallerStatus, MonitorStatus, AttemptFits, NoFault, Alive,
        OneRuntime, Outcome
<1>4. CASE Close
  <2>1. /\ daemon' = daemon /\ attempt' = attempt /\ mon'.att = mon.att
        /\ co[Monitor].at # "seal"
        /\ \A p \in Caller : co'[p] = co[p]
        /\ \A t \in Runtime : co'[t] = Idle
    BY <1>4, <1>a DEF Close, TypeOK, Await
  <2>2. TaskStatus' /\ ClientStatus' /\ CallerStatus'
    BY <1>a, <1>b, <2>1
    DEF NInv, TaskStatus, ClientStatus, CallerStatus, Alive, OneRuntime, Idle
  <2>3. MonitorStatus' /\ AttemptFits' /\ NoFault'
    BY <1>a, <1>b, <2>1 DEF NInv, MonitorStatus, AttemptFits, NoFault
  <2> QED
    BY <2>1, <2>2, <2>3 DEF NInv
<1>5. ~Restart
  BY DEF Restart, NInv
<1> QED
  BY <1>1, <1>2, <1>3, <1>4, <1>5 DEF Environment

LEMMA InitControls == Init => NInv
<1> SUFFICES ASSUME Init PROVE NInv
  OBVIOUS
<1>1. /\ co[Monitor].at = "watch" /\ \A q \in Proc \ {Monitor} : co[q].at = "idle"
  BY ProcFacts DEF Init, Idle
<1>2. TaskStatus /\ ClientStatus /\ CallerStatus
  BY <1>1, ProcFacts
  DEF Init, TaskStatus, ClientStatus, CallerStatus, Alive, OneRuntime, Caller, Proc
<1>3. MonitorStatus /\ AttemptFits /\ NoFault
  BY <1>1, ConstantsAssumption
  DEF Init, MonitorStatus, AttemptFits, NoFault, Watching, Attempts, MaxAttempts
<1> QED
  BY <1>2, <1>3 DEF Init, NInv

\* Crashes are counted, so a behaviour without one never crashed.
LEMMA NoCrashYet ==
    ASSUME TypeOK, [Next]_vars, crashes' = 0
    PROVE  crashes = 0 /\ ~Crash
<1>1. ~Crash
  BY ConstantsAssumption DEF TypeOK, Crash
<1>2. CASE Environment
  <2>1. CASE \E c \in Client : SendRequest(c)
    BY <1>1, <2>1 DEF SendRequest
  <2>2. CASE Cancel \/ LogFails \/ TrainingExit \/ SmokeExit \/ SmokeRestExit \/ UserEdit
    BY <1>1, <2>2 DEF Cancel, LogFails, TrainingExit, SmokeExit, SmokeRestExit, UserEdit, bounds
  <2>3. CASE StopStarting \/ Close \/ Restart
    BY <1>1, <2>3 DEF StopStarting, Close, Restart, bounds
  <2> QED
    BY <1>1, <1>2, <2>1, <2>2, <2>3 DEF Environment
<1>3. CASE RecoveryStep
  BY <1>1, <1>3 DEF RecoveryStep, RecoverInterrupted, RecoverFailure, RecoverIncident,
     RecoverDiagnosing, RecoverSmoke, Unresolve, bounds
<1>4. CASE \E a \in Attempts : Observe(a)
  BY <1>1, <1>4 DEF Observe, bounds
<1>5. CASE MonitorStep
  BY <1>1, <1>5, MonitorLeaves
<1>6. CASE \E c \in Client : ClientStep(c)
  BY <1>1, <1>6, ClientLeaves
<1>7. CASE \E p \in Caller : CallerStep(p)
  BY <1>1, <1>7, CallerLeaves
<1>8. CASE \E t \in Runtime : TaskStep(t)
  BY <1>1, <1>8, TaskLeaves
<1>9. CASE UNCHANGED vars
  BY <1>1, <1>9 DEF vars
<1> QED
  BY <1>1, <1>2, <1>3, <1>4, <1>5, <1>6, <1>7, <1>8, <1>9 DEF Next

LEMMA NextControls ==
    TypeOK /\ LInv /\ EInv /\ (crashes = 0 => NInv) /\ [Next]_vars => (crashes = 0 => NInv)'
<1> SUFFICES ASSUME TypeOK, LInv, EInv, crashes = 0 => NInv, [Next]_vars, crashes' = 0
             PROVE  NInv'
  OBVIOUS
<1>1. NInv /\ ~Crash
  BY NoCrashYet
<1>2. ~RecoveryStep
  BY <1>1, RecoveryLeaves DEF NInv
<1>3. CASE UNCHANGED vars
  BY <1>1, <1>3
  DEF vars, NInv, TaskStatus, ClientStatus, CallerStatus, MonitorStatus, AttemptFits, NoFault,
      Alive, OneRuntime, Outcome
<1> QED
  BY <1>1, <1>2, <1>3, ClientControls, CallerControls, MonitorControls, TaskControls,
     ObserveControls, EnvironmentControls DEF Next

\* As long as the daemon has not crashed, the incident's status tells who may be
\* where: the strengthening of OneRuntime and NoFault.
THEOREM ControlHolds == Spec => [](crashes = 0 => NInv)
<1>1. Init => (crashes = 0 => NInv)
  BY InitControls
<1> QED
  BY <1>1, NextControls, TypeCorrect, LockHolds, EventsCarried, PTL DEF Spec

\* Without a crash no coroutine sends an event the incident's status does not
\* accept, and no failure opens a second incident.
THEOREM EventsAccepted == Spec => [](crashes = 0 => NoFault)
<1>1. (crashes = 0 => NInv) => (crashes = 0 => NoFault)
  BY DEF NInv
<1> QED
  BY <1>1, ControlHolds, PTL

\* Without a crash at most one diagnosis task investigates.
THEOREM OneInvestigates == Spec => [](crashes = 0 => OneRuntime)
<1>1. (crashes = 0 => NInv) => (crashes = 0 => OneRuntime)
  BY DEF NInv, TaskStatus
<1> QED
  BY <1>1, ControlHolds, PTL
-----------------------------------------------------------------------------
(* The smoke and its request *)

\* Only a request that waits for the smoke leaves it running.
SmokeOwned == smokeProc = "alive" => \E c \in Client : co[c].at \in {"exec", "visible", "smoking"}

LEMMA ClientOwnsSmoke ==
    ASSUME TypeOK, LInv, NInv, SmokeOwned, NEW c \in Client, ClientStep(c)
    PROVE  SmokeOwned'
<1>a. c \in Proc
  BY ProcFacts
<1>1. CASE SmokeSpawn(c)
  BY <1>1, <1>a, GotoEffect DEF SmokeSpawn, SmokeOwned
<1>2. CASE SmokeEnd(c)
  BY <1>2 DEF SmokeEnd, SmokeOwned
<1>3. CASE SmokeIdentity(c)
  BY <1>3, <1>a, GotoEffect DEF SmokeIdentity, SmokeOwned
<1>4. CASE SmokeVisible(c)
  <2>1. inc.status = "applying"
    BY <1>4 DEF SmokeVisible, At, NInv, ClientStatus
  <2>2. co'[c].at = "smoking"
    BY <1>4, <1>a, <2>1, AcceptedDispatch, AcceptedEvents DEF SmokeVisible
  <2> QED
    BY <2>2 DEF SmokeOwned
<1>5. CASE ~(SmokeSpawn(c) \/ SmokeEnd(c) \/ SmokeIdentity(c) \/ SmokeVisible(c))
  <2>1. smokeProc' = smokeProc /\ co[c].at \notin {"exec", "visible", "smoking"}
    BY <1>5 DEF ClientStep, DecideRefused, Reject, Invalidate, Approve, FollowUp, ApplyCheck,
       GitApply, WriteReceipt, SkipSmoke, SmokeFinished, SmokePassed, SmokeFailed, ReverseCheck,
       GitReverse, RetryStart, RetryRefused, Launch, Launched, LaunchFailed, Decidable, At, workspace
  <2>2. \A d \in Client \ {c} : co'[d] = co[d]
    BY ClientLeaves, ProcFacts
  <2> QED
    BY <2>1, <2>2 DEF SmokeOwned
<1> QED
  BY <1>1, <1>2, <1>3, <1>4, <1>5

LEMMA EnvironmentOwnsSmoke ==
    ASSUME TypeOK, NInv, SmokeOwned, Environment, ~Crash
    PROVE  SmokeOwned'
<1>1. smokeProc' = smokeProc \/ smokeProc' # "alive"
  BY DEF Environment, SendRequest, Cancel, LogFails, TrainingExit, SmokeExit, SmokeRestExit, UserEdit,
     StopStarting, Close, Restart, workspace
<1>2. ASSUME NEW d \in Client, co[d].at # "idle"
      PROVE  co'[d] = co[d]
  <2>1. CASE \E c \in Client : SendRequest(c)
    BY <1>2, <2>1 DEF SendRequest, TypeOK
  <2>2. CASE Cancel \/ LogFails \/ TrainingExit \/ SmokeExit \/ SmokeRestExit \/ UserEdit \/ StopStarting
    BY <2>2 DEF Cancel, LogFails, TrainingExit, SmokeExit, SmokeRestExit, UserEdit, StopStarting
  <2>3. CASE Close
    BY <2>3, ProcFacts DEF Close, Proc
  <2>4. ~Restart
    BY DEF Restart, NInv
  <2> QED
    BY <2>1, <2>2, <2>3, <2>4 DEF Environment
<1> QED
  BY <1>1, <1>2 DEF SmokeOwned

LEMMA NextOwnsSmoke ==
    /\ TypeOK /\ LInv /\ (crashes = 0 => NInv) /\ (crashes = 0 => SmokeOwned) /\ [Next]_vars
    => (crashes = 0 => SmokeOwned)'
<1> SUFFICES ASSUME TypeOK, LInv, crashes = 0 => NInv, crashes = 0 => SmokeOwned, [Next]_vars,
                    crashes' = 0
             PROVE  SmokeOwned'
  OBVIOUS
<1>1. NInv /\ SmokeOwned /\ ~Crash
  BY NoCrashYet
<1>2. ~RecoveryStep
  BY <1>1, RecoveryLeaves DEF NInv
<1>3. CASE \E p \in Caller : CallerStep(p)
  <2>1. PICK p \in Caller : CallerStep(p)
    BY <1>3
  <2>2. co[p].at \in {"clear", "unlink", "dispatch", "create", "mark"}
    BY <2>1 DEF CallerStep, ClearArtifacts, UnlinkDiff, Reinvestigate, CreateRun, MarkRun, At
  <2>3. smokeProc' = smokeProc /\ \A c \in Client : co'[c] = co[c] \/ c = p
    BY <2>1, CallerLeaves DEF Caller
  <2> QED
    BY <1>1, <2>2, <2>3 DEF SmokeOwned
<1>4. CASE MonitorStep
  BY <1>1, <1>4, MonitorLeaves, ProcFacts DEF SmokeOwned
<1>5. CASE \E t \in Runtime : TaskStep(t)
  BY <1>1, <1>5, TaskLeaves, ProcFacts DEF SmokeOwned
<1>6. CASE \E a \in Attempts : Observe(a)
  BY <1>1, <1>6 DEF Observe, workspace, SmokeOwned
<1>7. CASE UNCHANGED vars
  BY <1>1, <1>7 DEF vars, SmokeOwned
<1> QED
  BY <1>1, <1>2, <1>3, <1>4, <1>5, <1>6, <1>7, ClientOwnsSmoke, EnvironmentOwnsSmoke DEF Next

\* As long as the daemon has not crashed, a smoke process that runs is waited for
\* by the request that started it (execute_smoke runs under the decision lock).
THEOREM SmokeHasOwner == Spec => [](crashes = 0 => SmokeOwned)
<1>1. Init => (crashes = 0 => SmokeOwned)
  BY DEF Init, SmokeOwned
<1> QED
  BY <1>1, NextOwnsSmoke, TypeCorrect, LockHolds, ControlHolds, PTL DEF Spec

\* Without a crash the smoke command and the retried training never run side by side
\* in the workspace.  The command is the leader of its process group, the one that
\* _run_smoke waits for and kills; what it has left behind may run on (smoke.py:91-107).
THEOREM SmokeThenRetry == Spec => [](crashes = 0 => SmokeBeforeRetry)
<1>1. LInv /\ (crashes = 0 => NInv) /\ (crashes = 0 => SmokeOwned) => (crashes = 0 => SmokeBeforeRetry)
  <2> SUFFICES ASSUME LInv, NInv, SmokeOwned, co[Monitor].at = "watch", smokeProc = "alive"
               PROVE  FALSE
    BY DEF SmokeBeforeRetry
  <2>1. PICK c \in Client : co[c].at \in {"exec", "visible", "smoking"}
    BY DEF SmokeOwned
  <2>2. InSmoke
    BY <2>1 DEF LInv, LockPins, Pins, InSmoke
  <2> QED
    BY <2>2 DEF InSmoke, NInv, MonitorStatus, Watching
<1> QED
  BY <1>1, LockHolds, ControlHolds, SmokeHasOwner, PTL
-----------------------------------------------------------------------------
(* What is offered *)

Git == attempt[inc.attempt].capsule = "git"

\* What a diagnosis task knows, at its label, of the artifacts in incident.json.
TaskKnows(t) ==
    /\ Alive(t) => co[t].run = inc.run
    /\ co[t].at \in {"start", "agent", "meta", "undiff"} => inc.prop = 0
    /\ co[t].at \in {"agent", "meta", "undiff", "preflight"} => co[t].git = Git
    /\ co[t].at = "meta" => proposal[co[t].prop].run = inc.run
    /\ co[t].at = "preflight" => inc.prop = co[t].prop
    /\ co[t].at \in {"finish", "tail", "done"} /\ inc.prop # 0 /\ Git => proposal[inc.prop].checked
    /\ co[t].at = "done" => inc.active = inc.prop /\ inc.prop # 0

\* No artifact outlives the investigation that made it.
NoArtifacts ==
    /\ inc.status = "none" => inc.prop = 0
    /\ \A p \in Caller : co[p].at \in {"create", "mark"} => inc.prop = 0

MadeByRun ==
    inc.status \in {"diagnosing", "awaiting_approval"} /\ inc.prop # 0 =>
        proposal[inc.prop].run = inc.run

\* A follow-up has dropped the offer but not yet changed the status.
Withdrawn == \E c \in Client : co[c].at \in {"unlink", "dispatch"}

Offered ==
    inc.status = "awaiting_approval" =>
        /\ CanApply => proposal[inc.prop].checked
        /\ (inc.active = inc.prop /\ inc.prop # 0) \/ Withdrawn

\* What is offered is what the latest run proposed and preflighted, as long as
\* the daemon has not crashed.
OInv == (\A t \in Runtime : TaskKnows(t)) /\ NoArtifacts /\ MadeByRun /\ Offered

\* A step that leaves the artifacts as they are, and offers nothing anew.
OTame ==
    /\ inc'.run = inc.run /\ inc'.prop = inc.prop /\ inc'.active = inc.active
    /\ inc'.diag = inc.diag /\ inc'.attempt = inc.attempt
    /\ inc'.status \in {"none", "diagnosing", "awaiting_approval"} => inc'.status = inc.status
    /\ \A a \in Attempts : attempt'[a].capsule = attempt[a].capsule
    /\ \A p \in Proposals : /\ proposal'[p].run = proposal[p].run
                            /\ proposal'[p].checked = proposal[p].checked
    /\ \A t \in Runtime : co'[t] = co[t] \/ co'[t] = Idle
    /\ \A p \in Caller : co'[p].at \in {"create", "mark"} => co[p].at \in {"create", "mark"}
    /\ Withdrawn => Withdrawn'

LEMMA OTameKeeps ==
    ASSUME TypeOK, RInv, OInv, OTame
    PROVE  OInv'
<1>a. inc.attempt \in Attempts /\ (inc.prop # 0 => inc.prop \in Proposals)
  BY ConstantsAssumption DEF TypeOK, Incident, Proposals
<1>b. Git' = Git /\ (CanApply' <=> CanApply)
  BY <1>a DEF Git, CanApply, OTame
<1>1. ASSUME NEW t \in Runtime
      PROVE  TaskKnows(t)'
  <2>1. CASE co'[t] = Idle
    BY <2>1 DEF TaskKnows, Alive, Idle
  <2>2. CASE co'[t] = co[t]
    <3>1. co[t].at = "meta" => co[t].prop \in Proposals
      BY ProcFacts DEF RInv, Cleared, TypeOK, Proposals
    <3> QED
      BY <1>a, <1>b, <2>2, <3>1 DEF TaskKnows, Alive, OInv, OTame
  <2> QED
    BY <2>1, <2>2 DEF OTame
<1>2. NoArtifacts' /\ MadeByRun' /\ Offered'
  BY <1>a, <1>b DEF OInv, OTame, NoArtifacts, MadeByRun, Offered, CanApply
<1> QED
  BY <1>1, <1>2 DEF OInv

\* The events a request sends offer nothing and start no investigation.
LEMMA ClientDispatches ==
    ASSUME TypeOK, NEW c \in Client, NEW next, NEW bad,
           NEW e \in {"REJECT", "APPROVE", "APPROVE_INVALIDATED", "APPLY_FAILED", "APPLY_OK_NO_SMOKE",
                      "APPLY_OK_SMOKE", "SMOKE_PASSED", "SMOKE_FAILED_ROLLBACK_BLOCKED",
                      "RETRY_STARTED", "RETRY_ABORTED"},
           Dispatch(c, e, next, bad)
    PROVE  inc'.status \in {"none", "diagnosing", "awaiting_approval"} => inc'.status = inc.status
<1>1. Accepts(inc.status, e) =>
          Target(inc.status, e) \notin {"none", "diagnosing", "awaiting_approval"}
  BY DEF Accepts, Target, Transitions, SmokeOutcome
<1> QED
  BY <1>1 DEF Dispatch, TypeOK, Incident

LEMMA ClientOffers ==
    ASSUME TypeOK, LInv, EInv, NInv, RInv, OInv, NEW c \in Client, ClientStep(c)
    PROVE  OInv'
<1>a. c \in Proc /\ c # Monitor /\ c \notin Runtime /\ Monitor \notin Runtime
      /\ Caller \subseteq Proc /\ Runtime \subseteq Proc
  BY ProcFacts DEF Caller, Proc
<1>1. /\ inc'.run = inc.run /\ inc'.prop = inc.prop /\ inc'.active = inc.active
      /\ inc'.diag = inc.diag /\ inc'.attempt = inc.attempt
      /\ \A t \in Runtime : co'[t] = co[t]
  BY <1>a, ClientLeaves
<1>2. inc'.status \in {"none", "diagnosing", "awaiting_approval"} => inc'.status = inc.status
  <2>1. CASE Reject(c) \/ Invalidate(c) \/ ApplyCheck(c) \/ GitApply(c) \/ SkipSmoke(c)
    BY <2>1, ClientDispatches DEF Reject, Invalidate, ApplyCheck, GitApply, SkipSmoke
  <2>2. CASE SmokeVisible(c) \/ SmokePassed(c) \/ SmokeFailed(c) \/ ReverseCheck(c)
             \/ GitReverse(c) \/ RetryStart(c) \/ RetryRefused(c)
    BY <2>2, ClientDispatches
    DEF SmokeVisible, SmokePassed, SmokeFailed, ReverseCheck, GitReverse, RetryStart, RetryRefused
  <2>3. CASE Approve(c)
    BY <2>3 DEF Approve, Decidable, Target, Transitions, TypeOK, Incident
  <2>4. CASE \/ DecideRefused(c) \/ FollowUp(c) \/ WriteReceipt(c) \/ SmokeSpawn(c)
             \/ SmokeIdentity(c) \/ SmokeEnd(c) \/ SmokeFinished(c)
             \/ Launch(c) \/ Launched(c) \/ LaunchFailed(c)
    BY <2>4 DEF DecideRefused, FollowUp, WriteReceipt, SmokeSpawn, SmokeIdentity, SmokeEnd,
       SmokeFinished, Launch, Launched, LaunchFailed, TypeOK, Incident
  <2> QED
    BY <2>1, <2>2, <2>3, <2>4 DEF ClientStep
<1>3. \A a \in Attempts : attempt'[a].capsule = attempt[a].capsule
  <2>1. CASE LaunchFailed(c)
    BY <2>1 DEF LaunchFailed, TypeOK, Attempt
  <2>2. CASE ~LaunchFailed(c)
    BY <2>2 DEF ClientStep, DecideRefused, Reject, Invalidate, Approve, FollowUp, ApplyCheck,
       GitApply, WriteReceipt, SkipSmoke, SmokeSpawn, SmokeIdentity, SmokeVisible, SmokeEnd,
       SmokeFinished, SmokePassed, SmokeFailed, ReverseCheck, GitReverse, RetryStart, RetryRefused,
       Launch, Launched, supervisor
  <2> QED
    BY <2>1, <2>2
<1>4. \A p \in Proposals : /\ proposal'[p].run = proposal[p].run
                           /\ proposal'[p].checked = proposal[p].checked
  <2>1. CASE GitReverse(c)
    BY <2>1 DEF GitReverse, TypeOK, Proposal
  <2>2. CASE ~GitReverse(c)
    BY <2>2 DEF ClientStep, DecideRefused, Reject, Invalidate, Approve, FollowUp, ApplyCheck,
       GitApply, WriteReceipt, SkipSmoke, SmokeSpawn, SmokeIdentity, SmokeVisible, SmokeEnd,
       SmokeFinished, SmokePassed, SmokeFailed, ReverseCheck, RetryStart, RetryRefused,
       Launch, Launched, LaunchFailed, patches
  <2> QED
    BY <2>1, <2>2
<1>5. ASSUME NEW p \in Caller, co'[p].at \in {"create", "mark"}
      PROVE  co[p].at \in {"create", "mark"}
  <2>1. co'[c].at \notin {"create", "mark"}
    BY ClientEffects DEF ClientEffect
  <2>2. CASE Launched(c) /\ p = Monitor
    BY <1>5, <2>2, ProcFacts DEF Launched, TypeOK, Idle
  <2> QED
    BY <1>5, <1>a, <2>1, <2>2, ClientLeaves
<1>6. ~Withdrawn
  BY ClientAt DEF Withdrawn
<1> QED
  BY <1>1, <1>2, <1>3, <1>4, <1>5, <1>6, OTameKeeps DEF OTame

\* An incident that is not diagnosing has no task, and nobody starts one.
LEMMA NoInvestigation ==
    ASSUME NInv, inc.status # "diagnosing"
    PROVE  /\ \A t \in Runtime : ~Alive(t)
           /\ \A p \in Caller : co[p].at \notin {"create", "mark"}
BY DEF NInv, TaskStatus

LEMMA CallerOffers ==
    ASSUME TypeOK, LInv, EInv, NInv, RInv, OInv, NEW p \in Caller, CallerStep(p)
    PROVE  OInv'
<1>a. /\ p \in Proc /\ p \notin Runtime /\ Client \subseteq Caller /\ Caller \subseteq Proc
      /\ Runtime \subseteq Proc /\ Runtime \cap Caller = {} /\ Monitor \notin Client
      /\ p # Monitor => p \in Client
  BY ProcFacts DEF Caller, Proc
<1>b. /\ attempt' = attempt /\ proposal' = proposal /\ inc'.attempt = inc.attempt
      /\ \A q \in Caller \ {p} : co'[q] = co[q]
      /\ \A t \in Runtime : co'[t] = co[t] \/ MarkRun(p)
  BY CallerLeaves
<1>c. \A q \in Caller \ {p} : co[q].at \notin {"unlink", "dispatch", "create", "mark"}
  BY <1>a, SectionAlone DEF Await
<1>1. CASE ClearArtifacts(p)
  <2>1. /\ inc.status \notin {"none", "diagnosing"}
        /\ p = Monitor => inc.status = "retry_running"
    BY <1>1, CallerEvents DEF ClearArtifacts, At
  <2>2. /\ inc'.prop = 0 /\ inc'.diag = "none" /\ inc'.status = inc.status
        /\ co'[p].at = "unlink"
    BY <1>1, <1>a, GotoEffect DEF ClearArtifacts, TypeOK, Incident
  <2>3. \A t \in Runtime : co'[t].at = "idle"
    BY <1>1, <1>a, <2>1, NoInvestigation, GotoEffect DEF ClearArtifacts, Alive
  <2>4. \A t \in Runtime : TaskKnows(t)'
    BY <2>3 DEF TaskKnows, Alive
  <2>5. NoArtifacts' /\ MadeByRun'
    BY <2>2 DEF NoArtifacts, MadeByRun
  <2>6. Offered'
    BY <1>a, <2>1, <2>2 DEF Offered, CanApply, Withdrawn
  <2> QED
    BY <2>4, <2>5, <2>6 DEF OInv
<1>2. CASE UnlinkDiff(p)
  <2>1. /\ inc' = inc /\ co[p].at = "unlink" /\ co'[p].at = "dispatch"
        /\ \A q \in Proc \ {p} : co'[q] = co[q]
    BY <1>2, <1>a, GotoEffect DEF UnlinkDiff, At
  <2>2. Withdrawn => Withdrawn'
    BY <1>a, <1>b, <1>c, <2>1 DEF Withdrawn
  <2> QED
    BY <1>a, <1>b, <2>1, <2>2, OTameKeeps DEF OTame
<1>3. CASE Reinvestigate(p)
  <2>a. co[p].at = "dispatch"
    BY <1>3 DEF Reinvestigate, At
  <2>1. /\ inc.status # "diagnosing" /\ Accepts(inc.status, co[p].ev)
        /\ Target(inc.status, co[p].ev) \in {"diagnosing", "unresolved"}
    BY <2>a, CallerEvents
  <2>2. inc.prop = 0
    BY <2>a, <1>a DEF RInv, Cleared
  <2>3. /\ inc'.prop = 0 /\ inc'.status \in {"diagnosing", "unresolved"}
        /\ \A t \in Runtime : co'[t].at = "idle"
    BY <1>3, <1>a, <2>1, <2>2, NoInvestigation, GotoEffect
    DEF Reinvestigate, Dispatch, TypeOK, Incident, Alive
  <2>4. \A t \in Runtime : TaskKnows(t)'
    BY <2>3 DEF TaskKnows, Alive
  <2> QED
    BY <2>3, <2>4 DEF OInv, NoArtifacts, MadeByRun, Offered
<1>4. CASE CreateRun(p)
  <2>1. /\ inc' = inc /\ co[p].at = "create" /\ co'[p].at = "mark"
        /\ \A q \in Proc \ {p} : co'[q] = co[q]
    BY <1>4, <1>a DEF CreateRun, At, TypeOK, Local
  <2>2. Withdrawn => Withdrawn'
    BY <1>a, <1>b, <1>c, <2>1 DEF Withdrawn
  <2> QED
    BY <1>a, <1>b, <2>1, <2>2, OTameKeeps DEF OTame
<1>5. CASE MarkRun(p)
  <2>1. co[p].at = "mark" /\ inc.prop = 0 /\ inc.status = "diagnosing"
    BY <1>5 DEF MarkRun, At, OInv, NoArtifacts, NInv, TaskStatus
  <2>2. /\ inc'.run = co[p].run /\ inc'.prop = 0 /\ inc'.status = "diagnosing"
    BY <1>5, <2>1 DEF MarkRun, TypeOK, Incident
  <2>3. ASSUME NEW t \in Runtime
        PROVE  co'[t].at = "idle" \/ (co'[t].at = "start" /\ co'[t].run = co[p].run)
    BY <1>5, <1>a, <2>1 DEF MarkRun, Spawn, TypeOK, Idle, NInv, TaskStatus, Alive
  <2>4. \A t \in Runtime : TaskKnows(t)'
    BY <2>2, <2>3 DEF TaskKnows, Alive
  <2> QED
    BY <2>2, <2>4 DEF OInv, NoArtifacts, MadeByRun, Offered
<1> QED
  BY <1>1, <1>2, <1>3, <1>4, <1>5 DEF CallerStep

\* The monitor handles a failure only while nobody investigates, and opens an
\* incident without artifacts.
LEMMA MonitorOffers ==
    ASSUME TypeOK, LInv, NInv, RInv, OInv, MonitorStep
    PROVE  OInv'
<1>a. Monitor \in Proc /\ Monitor \notin Runtime /\ Runtime \subseteq Proc
  BY ProcFacts
<1>b. /\ inc'.prop = inc.prop /\ proposal' = proposal
      /\ \A q \in Proc \ {Monitor} : co'[q] = co[q]
  BY MonitorLeaves
<1>1. inc.status \in {"none", "retry_running"}
  BY DEF MonitorStep, MonitorFailure, MonitorSeal, WriteCapsule, HandleFailure, RetryFailed, At,
     NInv, MonitorStatus, Watching
<1>2. \/ inc'.status = inc.status /\ co'[Monitor].at \notin {"create", "mark"}
      \/ inc.status = "none" /\ inc'.status = "diagnosing"
  <2>1. CASE MonitorFailure \/ MonitorSeal \/ WriteCapsule
    <3>1. \E l \in {"seal", "capsule", "idle", "failure"} : Goto(Monitor, l)
      BY <2>1 DEF MonitorFailure, MonitorSeal, WriteCapsule
    <3>2. inc' = inc
      BY <2>1 DEF MonitorFailure, MonitorSeal, WriteCapsule
    <3> QED
      BY <1>a, <3>1, <3>2, GotoEffect
  <2>2. CASE RetryFailed
    BY <2>2, <1>a DEF RetryFailed, TypeOK, Incident, Local
  <2>3. CASE HandleFailure
    <3>1. CASE inc.status = "none" /\ inc' = [inc EXCEPT !.status = "diagnosing", !.attempt = mon.att]
      BY <3>1 DEF TypeOK, Incident
    <3>2. CASE inc' = inc /\ \E l \in {"idle", "incidents", "lock"} : Goto(Monitor, l)
      BY <1>a, <3>2, GotoEffect
    <3> QED
      BY <2>3, <3>1, <3>2 DEF HandleFailure, Return
  <2> QED
    BY <2>1, <2>2, <2>3 DEF MonitorStep
<1>3. \A t \in Runtime : TaskKnows(t)'
  BY <1>a, <1>b, <1>1, NoInvestigation DEF TaskKnows, Alive
<1>4. \A p \in Caller : co[p].at \notin {"create", "mark"}
  BY <1>1, NoInvestigation
<1>5. NoArtifacts'
  BY <1>b, <1>1, <1>2, <1>4 DEF OInv, NoArtifacts, Caller, Proc
<1>6. MadeByRun' /\ Offered'
  BY <1>b, <1>1, <1>2 DEF OInv, NoArtifacts, MadeByRun, Offered
<1> QED
  BY <1>3, <1>5, <1>6 DEF OInv

\* A coroutine that goes on keeps its local variables.
LEMMA GotoKeeps ==
    ASSUME TypeOK, NEW p \in Proc, NEW l, l # "idle", Goto(p, l)
    PROVE  /\ co'[p].at = l /\ co'[p].run = co[p].run /\ co'[p].git = co[p].git
           /\ co'[p].prop = co[p].prop /\ co'[p].pid = co[p].pid /\ co'[p].kind = co[p].kind
BY DEF Goto, Moved, TypeOK, Local

\* A task at work is the only coroutine inside a section, and the only task.
LEMMA TaskAlone ==
    ASSUME TypeOK, NInv, NEW t \in Runtime, TaskStep(t)
    PROVE  /\ inc.status = "diagnosing" /\ Alive(t)
           /\ \A u \in Runtime \ {t} : ~Alive(u) /\ ~Alive(u)'
           /\ \A p \in Caller : co'[p] = co[p] /\ co[p].at \in Await
<1>1. \A q \in Proc \ {t} : co[q].at \in Await
  BY DEF TaskStep, TaskStart, SubmitDiagnosis, ProposeDiff, ProposeMeta, Preflight, Unpropose,
     AgentEnd, FinishRun, TaskRaises, TaskTail, TaskDone, At, CanRun
<1>2. Alive(t) /\ \A q \in Proc \ {t} : co'[q] = co[q]
  BY TaskLeaves DEF Alive
<1>3. Caller \subseteq Proc /\ t \notin Caller /\ Runtime \subseteq Proc
  BY ProcFacts DEF Caller, Proc
<1>4. \A u \in Runtime \ {t} : ~Alive(u)
  BY <1>2 DEF NInv, TaskStatus, OneRuntime, Alive
<1> QED
  BY <1>1, <1>2, <1>3, <1>4 DEF NInv, TaskStatus, Alive

\* A step of the task that keeps what it knows, and offers at most what it made.
LEMMA TaskKeepsOffer ==
    ASSUME TypeOK, NInv, NEW t \in Runtime, TaskStep(t), TaskKnows(t)',
           inc'.status \in {"diagnosing", "awaiting_approval", "unresolved"},
           inc'.status \in {"diagnosing", "awaiting_approval"} /\ inc'.prop # 0 =>
               proposal'[inc'.prop].run = inc'.run,
           inc'.status = "awaiting_approval" =>
               /\ inc'.active = inc'.prop /\ inc'.prop # 0
               /\ Git' => proposal'[inc'.prop].checked
    PROVE  OInv'
<1>1. \A u \in Runtime : TaskKnows(u)'
  <2>1. ASSUME NEW u \in Runtime \ {t}
        PROVE  TaskKnows(u)'
    BY TaskAlone DEF TaskKnows, Alive
  <2> QED
    BY <2>1
<1>2. NoArtifacts'
  BY TaskAlone DEF NoArtifacts, Await
<1>3. MadeByRun'
  BY DEF MadeByRun
<1>4. Offered'
  BY DEF Offered, CanApply, Git
<1> QED
  BY <1>1, <1>2, <1>3, <1>4 DEF OInv

LEMMA TaskOffers ==
    ASSUME TypeOK, LInv, NInv, RInv, OInv, NEW t \in Runtime, TaskStep(t)
    PROVE  OInv'
<1>a. t \in Proc /\ co[t] \in Local /\ inc.attempt \in Attempts
      /\ (inc.prop # 0 => inc.prop \in Proposals)
  BY ProcFacts, ConstantsAssumption DEF TypeOK, Incident, Proposals
<1>b. /\ inc.status = "diagnosing" /\ Alive(t) /\ TaskKnows(t) /\ co[t].run = inc.run
      /\ inc.prop # 0 => proposal[inc.prop].run = inc.run
  BY TaskAlone DEF OInv, TaskKnows, MadeByRun
<1>c. inc'.attempt = inc.attempt /\ inc'.run = inc.run /\ attempt' = attempt /\ Git' = Git
  BY TaskLeaves DEF Git
<1>1. CASE TaskStart(t)
  <2>1. /\ inc' = inc /\ proposal' = proposal /\ co[t].at = "start" /\ inc.prop = 0
    BY <1>1, <1>b DEF TaskStart, At, patches, TaskKnows
  <2>2. \/ co'[t].at = "agent" /\ co'[t].git = Git /\ co'[t].run = co[t].run
        \/ co'[t].at = "tail" /\ co'[t].run = co[t].run
    BY <1>1, <1>a, GotoKeeps DEF TaskStart, TypeOK, Local, Git
  <2>3. TaskKnows(t)'
    BY <1>b, <1>c, <2>1, <2>2 DEF TaskKnows, Alive
  <2> QED
    BY <1>b, <2>1, <2>3, TaskKeepsOffer
<1>2. CASE SubmitDiagnosis(t) \/ AgentEnd(t)
  <2>1. /\ inc'.prop = 0 /\ inc'.status = inc.status /\ proposal' = proposal
        /\ co[t].at = "agent" /\ inc.prop = 0
    BY <1>2, <1>b DEF SubmitDiagnosis, AgentEnd, At, patches, TaskKnows, TypeOK, Incident
  <2>2. /\ co'[t].at \in {"agent", "finish"} /\ co'[t].git = co[t].git /\ co'[t].run = co[t].run
    BY <1>2, <1>a, GotoKeeps DEF SubmitDiagnosis, AgentEnd
  <2>3. TaskKnows(t)'
    BY <1>b, <1>c, <2>1, <2>2 DEF TaskKnows, Alive
  <2> QED
    BY <1>b, <2>1, <2>3, TaskKeepsOffer
<1>3. CASE ProposeDiff(t)
  <2> DEFINE p == nProposals + 1
  <2>1. /\ inc' = inc /\ inc.prop = 0 /\ co[t].git = Git /\ p \in Proposals
    BY <1>3, <1>b, ConstantsAssumption DEF ProposeDiff, At, TaskKnows, TypeOK, Proposals
  <2>2. /\ co'[t].at = "meta" /\ co'[t].prop = p /\ co'[t].git = co[t].git /\ co'[t].run = co[t].run
    BY <1>3, <1>a DEF ProposeDiff, TypeOK, Local
  <2>3. proposal'[p].run = co[t].run
    BY <1>3, <2>1 DEF ProposeDiff, TypeOK, Proposal
  <2>4. TaskKnows(t)'
    BY <1>b, <1>c, <2>1, <2>2, <2>3 DEF TaskKnows, Alive
  <2> QED
    BY <1>b, <2>1, <2>4, TaskKeepsOffer
<1>4. CASE ProposeMeta(t)
  <2>1. /\ co[t].at = "meta" /\ inc'.prop = co[t].prop /\ inc'.status = inc.status
        /\ proposal' = proposal
    BY <1>4 DEF ProposeMeta, At, patches, TypeOK, Incident
  <2>2. co[t].git = Git /\ proposal[co[t].prop].run = inc.run
    BY <1>b, <2>1 DEF TaskKnows
  <2>3. /\ co'[t].at = (IF Git THEN "preflight" ELSE "finish")
        /\ co'[t].git = co[t].git /\ co'[t].prop = co[t].prop /\ co'[t].run = co[t].run
    BY <1>4, <1>a, <2>2, GotoKeeps DEF ProposeMeta
  <2>4. TaskKnows(t)'
    BY <1>b, <1>c, <2>1, <2>2, <2>3 DEF TaskKnows, Alive
  <2> QED
    BY <1>b, <1>c, <2>1, <2>2, <2>4, TaskKeepsOffer
<1>5. CASE Preflight(t)
  <2>1. co[t].at = "preflight" /\ inc.prop = co[t].prop /\ co[t].git = Git
    BY <1>5, <1>b DEF Preflight, At, TaskKnows
  <2>2. CASE Goto(t, "finish") /\ inc' = inc
             /\ proposal' = [proposal EXCEPT ![co[t].prop].checked = TRUE]
    <3>1. co'[t].at = "finish" /\ co'[t].run = co[t].run
      BY <2>2, <1>a, GotoKeeps
    <3>2. inc.prop # 0 => proposal'[inc.prop].checked /\ proposal'[inc.prop].run = proposal[inc.prop].run
      BY <2>2, <2>1, <1>a DEF TypeOK, Proposal
    <3>3. TaskKnows(t)'
      BY <1>b, <1>c, <2>2, <3>1, <3>2 DEF TaskKnows, Alive
    <3> QED
      BY <1>b, <2>2, <3>2, <3>3, TaskKeepsOffer
  <2>3. CASE Goto(t, "undiff") /\ inc' = [inc EXCEPT !.prop = 0]
    <3>1. co'[t].at = "undiff" /\ co'[t].run = co[t].run /\ co'[t].git = co[t].git
      BY <2>3, <1>a, GotoKeeps
    <3>2. inc'.prop = 0 /\ inc'.status = inc.status
      BY <2>3 DEF TypeOK, Incident
    <3>3. TaskKnows(t)'
      BY <1>b, <1>c, <2>1, <3>1, <3>2 DEF TaskKnows, Alive
    <3> QED
      BY <1>b, <3>2, <3>3, TaskKeepsOffer
  <2> QED
    BY <1>5, <2>2, <2>3 DEF Preflight
<1>6. CASE Unpropose(t)
  <2>1. /\ inc' = inc /\ inc.prop = 0 /\ co[t].git = Git
    BY <1>6, <1>b DEF Unpropose, At, TaskKnows
  <2>2. co'[t].at = "agent" /\ co'[t].git = co[t].git /\ co'[t].run = co[t].run
    BY <1>6, <1>a, GotoKeeps DEF Unpropose
  <2>3. TaskKnows(t)'
    BY <1>b, <1>c, <2>1, <2>2 DEF TaskKnows, Alive
  <2> QED
    BY <1>b, <2>1, <2>3, TaskKeepsOffer
<1>7. CASE FinishRun(t)
  <2>1. /\ inc' = inc /\ proposal' = proposal /\ co[t].at = "finish"
    BY <1>7 DEF FinishRun, At, patches
  <2>2. co'[t].at = "tail" /\ co'[t].run = co[t].run
    BY <1>7, <1>a, GotoKeeps DEF FinishRun
  <2>3. TaskKnows(t)'
    BY <1>b, <1>c, <2>1, <2>2 DEF TaskKnows, Alive
  <2> QED
    BY <1>b, <2>1, <2>3, TaskKeepsOffer
<1>8. CASE GiveUp(t) /\ proposal' = proposal
  <2>1. co'[t].at = "idle" /\ inc'.status = "unresolved"
    BY <1>8, <1>a, <1>b, AcceptedDispatch, AcceptedEvents DEF GiveUp, Target, Transitions
  <2>2. TaskKnows(t)'
    BY <2>1 DEF TaskKnows, Alive
  <2> QED
    BY <2>1, <2>2, TaskKeepsOffer
<1>9. CASE TaskTail(t) /\ ~GiveUp(t)
  <2>1. /\ co[t].at = "tail" /\ inc.prop # 0 /\ inc' = [inc EXCEPT !.active = inc.prop]
        /\ proposal' = proposal /\ Goto(t, "done")
    BY <1>9 DEF TaskTail, At, patches
  <2>2. /\ inc'.active = inc.prop /\ inc'.prop = inc.prop /\ inc'.status = inc.status
        /\ co'[t].at = "done" /\ co'[t].run = co[t].run
    BY <1>a, <2>1, GotoKeeps DEF TypeOK, Incident
  <2>3. TaskKnows(t)'
    BY <1>b, <1>c, <2>1, <2>2 DEF TaskKnows, Alive
  <2> QED
    BY <1>b, <1>c, <2>1, <2>2, <2>3, TaskKeepsOffer
<1>10. CASE TaskDone(t)
  <2>1. /\ co[t].at = "done" /\ inc.active = inc.prop /\ inc.prop # 0
        /\ Git => proposal[inc.prop].checked
    BY <1>10, <1>b DEF TaskDone, At, TaskKnows
  <2>2. co'[t].at = "idle" /\ inc' = [inc EXCEPT !.status = "awaiting_approval"]
        /\ proposal' = proposal
    BY <1>10, <1>a, <1>b, AcceptedEvents, GotoEffect
    DEF TaskDone, Dispatch, Target, Transitions, patches
  <2>3. TaskKnows(t)'
    BY <2>2 DEF TaskKnows, Alive
  <2>4. /\ inc'.status = "awaiting_approval" /\ inc'.active = inc.active /\ inc'.prop = inc.prop
    BY <2>2 DEF TypeOK, Incident
  <2> QED
    BY <1>b, <1>c, <2>1, <2>2, <2>3, <2>4, TaskKeepsOffer
<1> QED
  BY <1>1, <1>2, <1>3, <1>4, <1>5, <1>6, <1>7, <1>8, <1>9, <1>10
  DEF TaskStep, TaskRaises, TaskTail, patches

LEMMA ObserveOffers ==
    ASSUME TypeOK, RInv, OInv, NEW a \in Attempts, Observe(a)
    PROVE  OInv'
<1>1. /\ co' = co /\ attempt' = attempt /\ proposal' = proposal
      /\ inc'.run = inc.run /\ inc'.prop = inc.prop /\ inc'.active = inc.active
      /\ inc'.diag = inc.diag /\ inc'.attempt = inc.attempt
      /\ inc'.status \in {"none", "diagnosing", "awaiting_approval"} => inc'.status = inc.status
  BY DEF Observe, patches, TypeOK, Incident, Target, Transitions
<1> QED
  BY <1>1, OTameKeeps DEF OTame, Withdrawn

LEMMA EnvironmentOffers ==
    ASSUME TypeOK, NInv, RInv, OInv, Environment, ~Crash
    PROVE  OInv'
<1>1. inc' = inc
  BY EnvironmentLeaves
<1>2. \A a \in Attempts : attempt'[a].capsule = attempt[a].capsule
  <2>1. CASE TrainingExit
    BY <2>1 DEF TrainingExit, TypeOK, Attempt
  <2>2. CASE ~TrainingExit
    BY <2>2 DEF Environment, SendRequest, Cancel, LogFails, SmokeExit, SmokeRestExit, UserEdit, StopStarting,
       Close, Restart, supervisor
  <2> QED
    BY <2>1, <2>2
<1>3. \A p \in Proposals : /\ proposal'[p].run = proposal[p].run
                           /\ proposal'[p].checked = proposal[p].checked
  <2>1. CASE \E c \in Client : SendRequest(c)
    BY <2>1 DEF SendRequest, TypeOK, Proposal
  <2>2. CASE ~\E c \in Client : SendRequest(c)
    BY <2>2 DEF Environment, Cancel, LogFails, TrainingExit, SmokeExit, SmokeRestExit, UserEdit, StopStarting,
       Close, Restart, patches
  <2> QED
    BY <2>1, <2>2
<1>4. /\ \A t \in Runtime : co'[t] = co[t] \/ co'[t] = Idle
      /\ \A p \in Caller : co'[p] = co[p] \/ (co[p].at = "idle" /\ co'[p].at = "wait")
  <2>1. CASE \E c \in Client : SendRequest(c)
    BY <2>1, ProcFacts DEF SendRequest, TypeOK, Caller, Idle
  <2>2. CASE Cancel \/ LogFails \/ TrainingExit \/ SmokeExit \/ SmokeRestExit \/ UserEdit \/ StopStarting
    BY <2>2 DEF Cancel, LogFails, TrainingExit, SmokeExit, SmokeRestExit, UserEdit, StopStarting
  <2>3. CASE Close
    BY <2>3, ProcFacts DEF Close, Caller, Proc
  <2>4. ~Restart
    BY DEF Restart, NInv
  <2> QED
    BY <2>1, <2>2, <2>3, <2>4 DEF Environment
<1> QED
  BY <1>1, <1>2, <1>3, <1>4, OTameKeeps DEF OTame, Withdrawn, Caller

LEMMA NextOffers ==
    /\ TypeOK /\ LInv /\ EInv /\ RInv /\ (crashes = 0 => NInv) /\ (crashes = 0 => OInv)
    /\ [Next]_vars
    => (crashes = 0 => OInv)'
<1> SUFFICES ASSUME TypeOK, LInv, EInv, RInv, crashes = 0 => NInv, crashes = 0 => OInv,
                    [Next]_vars, crashes' = 0
             PROVE  OInv'
  OBVIOUS
<1>1. NInv /\ OInv /\ ~Crash
  BY NoCrashYet
<1>2. ~RecoveryStep
  BY <1>1, RecoveryLeaves DEF NInv
<1>3. CASE UNCHANGED vars
  BY <1>1, <1>3, OTameKeeps DEF vars, OTame, Withdrawn
<1> QED
  BY <1>1, <1>2, <1>3, ClientOffers, CallerOffers, MonitorOffers, TaskOffers, ObserveOffers,
     EnvironmentOffers DEF Next

\* As long as the daemon has not crashed, what is offered comes from the latest
\* run and is what its task checked: the strengthening of OfferIsFresh.
THEOREM OffersHold == Spec => [](crashes = 0 => OInv)
<1>1. Init => (crashes = 0 => OInv)
  <2> SUFFICES ASSUME Init PROVE OInv
    OBVIOUS
  <2>1. \A t \in Runtime : TaskKnows(t)
    BY ProcFacts DEF Init, TaskKnows, Alive, Idle
  <2> QED
    BY <2>1 DEF Init, OInv, NoArtifacts, MadeByRun, Offered
<1> QED
  BY <1>1, NextOffers, TypeCorrect, LockHolds, EventsCarried, PatchesStack, ControlHolds, PTL
  DEF Spec

\* Without a crash the proposal a user is asked to decide on is the one the
\* latest run made, is the active one, and passed its preflight.
THEOREM OfferStaysFresh == Spec => [](crashes = 0 => OfferIsFresh)
<1>1. (crashes = 0 => OInv) /\ (crashes = 0 => NInv) => (crashes = 0 => OfferIsFresh)
  <2> SUFFICES ASSUME OInv, inc.status = "awaiting_approval"
               PROVE  /\ CanApply => proposal[inc.prop].checked
                      /\ Observable =>
                           inc.prop # 0 /\ inc.active = inc.prop /\ proposal[inc.prop].run = inc.run
    BY DEF OfferIsFresh
  <2>1. Observable => ~Withdrawn
    BY ProcFacts DEF Observable, Withdrawn, Await
  <2> QED
    BY <2>1 DEF OInv, Offered, MadeByRun
<1> QED
  BY <1>1, OffersHold, ControlHolds, PTL
-----------------------------------------------------------------------------
(* What was approved *)

Approved(p) == p # 0 /\ proposal[p].approved

\* The workspace is, or has been, verified.
Verified == {"smoke_running", "smoke_passed", "smoke_skipped", "retry_running"}

\* The labels between the receipt and the verdict.
PastReceipt == {"skip", "spawning", "exec", "visible", "smoking", "ended", "verdict"}

\* The receipt names the approved patch that was written.
ReceiptHolds == Approved(inc.receipt.prop) /\ inc.receipt.file.patch = inc.receipt.prop

\* What a request knows, at its label, of the patch it carries out.
ClientKnows(c) ==
    /\ co[c].at = "wait" /\ co[c].kind = "approve" => Approved(co[c].pid)
    /\ co[c].at \in {"check", "apply", "receipt"} => Approved(co[c].prop)
    /\ co[c].at = "apply" => diff = co[c].prop
    /\ co[c].at = "receipt" => file.patch = co[c].prop
    /\ co[c].at \in PastReceipt => ReceiptHolds

\* A rollback restores what a proposal was built on, so that is approved as well.
BasesApproved ==
    \A p \in Proposals : proposal[p].base.patch # 0 => Approved(proposal[p].base.patch)

\* What is, was or may come back into the workspace was approved, as long as the
\* daemon has not crashed.
PInv ==
    /\ ApprovedOnly /\ BasesApproved
    /\ \A c \in Client : ClientKnows(c)
    /\ inc.status \in Verified => ReceiptHolds

LEMMA PatchTypes ==
    ASSUME TypeOK
    PROVE  /\ file.patch # 0 => file.patch \in Proposals
           /\ diff # 0 => diff \in Proposals
           /\ inc.prop # 0 => inc.prop \in Proposals
           /\ inc.receipt.prop # 0 => inc.receipt.prop \in Proposals
           /\ \A p \in Proc : /\ co[p].pid # 0 => co[p].pid \in Proposals
                              /\ co[p].prop # 0 => co[p].prop \in Proposals
           /\ \A p \in Proposals : proposal[p].base.patch # 0 => proposal[p].base.patch \in Proposals
<1>1. \A p \in 0 .. MaxProposals : p # 0 => p \in Proposals
  BY ConstantsAssumption DEF Proposals
<1>2. file.patch # 0 => file.patch \in Proposals
  BY <1>1 DEF TypeOK, File
<1>3. (diff # 0 => diff \in Proposals) /\ (inc.prop # 0 => inc.prop \in Proposals)
      /\ (inc.receipt.prop # 0 => inc.receipt.prop \in Proposals)
  BY <1>1 DEF TypeOK, Incident, Receipt
<1>4. ASSUME NEW p \in Proc
      PROVE  /\ co[p].pid # 0 => co[p].pid \in Proposals
             /\ co[p].prop # 0 => co[p].prop \in Proposals
  BY <1>1 DEF TypeOK, Local
<1>5. ASSUME NEW p \in Proposals, proposal[p].base.patch # 0
      PROVE  proposal[p].base.patch \in Proposals
  BY <1>1, <1>5 DEF TypeOK, Proposal, File
<1> QED
  BY <1>2, <1>3, <1>4, <1>5

\* A step that carries out no patch and revokes no approval.
PTame ==
    /\ file'.patch = file.patch /\ inc'.receipt = inc.receipt
    /\ inc'.status \in Verified => inc.status \in Verified
    /\ \A p \in Proposals :
          /\ proposal[p].approved => proposal'[p].approved
          /\ proposal'[p].base.patch \in {proposal[p].base.patch, file.patch}
    /\ diff' = diff \/ \A c \in Client : co[c].at # "apply"
    /\ \A c \in Client : \/ co'[c] = co[c]
                         \/ co'[c].at \notin {"wait", "check", "apply", "receipt"} \cup PastReceipt

LEMMA PTameKeeps ==
    ASSUME TypeOK, PInv, PTame
    PROVE  PInv'
<1>1. \A p \in Proposals : Approved(p) => Approved(p)'
  BY DEF PTame, Approved
<1>2. ReceiptHolds => ReceiptHolds'
  BY <1>1, PatchTypes DEF PTame, ReceiptHolds, Approved
<1>3. ASSUME NEW c \in Client
      PROVE  ClientKnows(c)'
  <2>1. CASE co'[c] = co[c]
    BY <1>1, <1>2, <2>1, PatchTypes, ProcFacts DEF PInv, PTame, ClientKnows, Approved
  <2>2. CASE co'[c].at \notin {"wait", "check", "apply", "receipt"} \cup PastReceipt
    BY <2>2 DEF ClientKnows
  <2> QED
    BY <2>1, <2>2 DEF PTame
<1>4. ApprovedOnly' /\ BasesApproved'
  BY <1>1, PatchTypes DEF PInv, PTame, ApprovedOnly, BasesApproved, Approved
<1> QED
  BY <1>2, <1>3, <1>4 DEF PInv, PTame

\* Only three events lead to a verified status from one that is not.
LEMMA DispatchVerified ==
    ASSUME TypeOK, NEW p \in Proc, NEW next, NEW bad,
           NEW e \in {"REJECT", "APPROVE_INVALIDATED", "APPLY_FAILED", "RETRY_STARTED",
                      "SMOKE_FAILED_ROLLBACK_BLOCKED", "RETRY_ABORTED", "APPLY_OK_SMOKE",
                      "APPLY_OK_NO_SMOKE", "SMOKE_PASSED"},
           Dispatch(p, e, next, bad)
    PROVE  /\ inc'.receipt = inc.receipt
           /\ co'[p].at \in {next, bad}
           /\ inc'.status \in Verified =>
                 inc.status \in Verified \/ e \in {"APPLY_OK_SMOKE", "APPLY_OK_NO_SMOKE", "SMOKE_PASSED"}
<1>1. Accepts(inc.status, e) /\ Target(inc.status, e) \in Verified =>
          inc.status \in Verified \/ e \in {"APPLY_OK_SMOKE", "APPLY_OK_NO_SMOKE", "SMOKE_PASSED"}
  BY DEF Accepts, Target, Transitions, SmokeOutcome, Verified
<1> QED
  BY <1>1, GotoEffect DEF Dispatch, TypeOK, Incident

LEMMA ClientPatchFrame ==
    ASSUME TypeOK, LInv, NEW c \in Client, ClientStep(c)
    PROVE  /\ diff' = diff
           /\ \A p \in Proposals : /\ proposal'[p].approved = proposal[p].approved
                                   /\ proposal'[p].base = proposal[p].base
           /\ \A d \in Client \ {c} : co'[d] = co[d] /\ co[d].at \in {"idle", "wait"}
<1>0. /\ diff' = diff
      /\ \A d \in Client \ {c} : co'[d] = co[d] /\ co[d].at \in {"idle", "wait"}
  BY ClientLeaves, ClientAt, ProcFacts
<1>1. CASE GitReverse(c)
  <2>1. \/ proposal' = proposal
        \/ proposal' = [proposal EXCEPT ![co[c].prop].reverted = TRUE]
    BY <1>1 DEF GitReverse
  <2> QED
    BY <1>0, <2>1 DEF TypeOK, Proposal
<1>2. CASE ~GitReverse(c)
  <2>1. proposal' = proposal
    BY <1>2 DEF ClientStep, DecideRefused, Reject, Invalidate, Approve, FollowUp, ApplyCheck,
       GitApply, WriteReceipt, SkipSmoke, SmokeSpawn, SmokeIdentity, SmokeVisible, SmokeEnd,
       SmokeFinished, SmokePassed, SmokeFailed, ReverseCheck, RetryStart, RetryRefused,
       Launch, Launched, LaunchFailed, patches
  <2> QED
    BY <1>0, <2>1
<1> QED
  BY <1>1, <1>2

\* What is left to show of a client's step.
LEMMA ClientKeepsApproval ==
    ASSUME TypeOK, TypeOK', LInv, PInv, NEW c \in Client, ClientStep(c),
           file'.patch # 0 => Approved(file'.patch),
           ClientKnows(c)',
           inc'.status \in Verified => ReceiptHolds'
    PROVE  PInv'
<1>a. /\ diff' = diff
      /\ \A p \in Proposals : /\ proposal'[p].approved = proposal[p].approved
                              /\ proposal'[p].base = proposal[p].base
      /\ \A d \in Client \ {c} : co'[d] = co[d] /\ co[d].at \in {"idle", "wait"}
  BY ClientPatchFrame
<1>1. ApprovedOnly'
  BY <1>a, PatchTypes DEF ApprovedOnly, Approved, TypeOK, File, Proposals
<1>2. BasesApproved'
  BY <1>a, PatchTypes DEF PInv, BasesApproved, Approved
<1>3. ASSUME NEW d \in Client \ {c}
      PROVE  ClientKnows(d)'
  BY <1>a, PatchTypes, ProcFacts DEF PInv, ClientKnows, Approved, PastReceipt
<1> QED
  BY <1>1, <1>2, <1>3 DEF PInv

LEMMA ClientApproved ==
    ASSUME TypeOK, TypeOK', LInv, EInv, NInv, OInv, PInv, NEW c \in Client, ClientStep(c)
    PROVE  PInv'
<1>a. c \in Proc /\ co[c] \in Local /\ ClientKnows(c) /\ ApprovedOnly
  BY ProcFacts DEF PInv, TypeOK
<1>b. /\ diff' = diff
      /\ \A p \in Proposals : /\ proposal'[p].approved = proposal[p].approved
                              /\ proposal'[p].base = proposal[p].base
  BY ClientPatchFrame
<1>c. \A p \in 0 .. MaxProposals : Approved(p) => Approved(p)'
  BY <1>b, ConstantsAssumption DEF Approved, Proposals
<1>d. inc'.receipt = inc.receipt => (ReceiptHolds => ReceiptHolds')
  BY <1>c DEF ReceiptHolds, TypeOK, Incident, Receipt
<1>e. file.patch # 0 => Approved(file.patch)
  BY <1>a DEF ApprovedOnly, Approved
\* Steps that neither carry out a patch nor judge it.
<1>1. CASE /\ file' = file /\ inc'.receipt = inc.receipt
           /\ inc'.status \in Verified => inc.status \in Verified
           /\ co'[c].at \notin {"wait", "check", "apply", "receipt"} \cup PastReceipt
  <2>1. ClientKnows(c)'
    BY <1>1 DEF ClientKnows
  <2> QED
    BY <1>1, <1>d, <1>e, <2>1, ClientKeepsApproval DEF PInv
<1>2. CASE DecideRefused(c) \/ FollowUp(c) \/ Launch(c) \/ Launched(c) \/ LaunchFailed(c)
  <2>1. file' = file /\ inc' = inc
    BY <1>2 DEF DecideRefused, FollowUp, Launch, Launched, LaunchFailed, workspace
  <2>2. co'[c].at \in {"idle", "clear", "launching"}
    BY <1>2, <1>a, GotoEffect, ProcFacts
    DEF DecideRefused, FollowUp, Launch, Launched, LaunchFailed, TypeOK, Local, Idle
  <2> QED
    BY <1>1, <2>1, <2>2 DEF PastReceipt
<1>3. CASE Reject(c) \/ Invalidate(c) \/ RetryStart(c) \/ RetryRefused(c)
  <2>1. file' = file /\ inc'.receipt = inc.receipt
        /\ (inc'.status \in Verified => inc.status \in Verified)
        /\ co'[c].at \in {"idle", "launch"}
    BY <1>3, <1>a, DispatchVerified DEF Reject, Invalidate, RetryStart, RetryRefused, workspace
  <2> QED
    BY <1>1, <2>1 DEF PastReceipt
<1>4. CASE Approve(c)
  <2>1. Approved(inc.prop)
    <3>1. ~Withdrawn
      BY ClientAt DEF Withdrawn
    <3>2. inc.active = inc.prop /\ inc.prop # 0
      BY <1>4, <3>1 DEF Approve, Decidable, OInv, Offered
    <3> QED
      BY <1>4, <1>a, <3>2 DEF Approve, Decidable, At, ClientKnows
  <2>2. /\ co'[c].at = "check" /\ co'[c].prop = inc.prop /\ file' = file
        /\ inc'.status = "applying"
    BY <1>4, <1>a DEF Approve, Decidable, TypeOK, Local, Incident, workspace, Target, Transitions
  <2>3. ClientKnows(c)'
    BY <1>c, <2>1, <2>2 DEF ClientKnows, PastReceipt, TypeOK, Incident
  <2> QED
    BY <1>e, <2>2, <2>3, ClientKeepsApproval DEF Verified
<1>5. CASE ApplyCheck(c)
  <2>1. file' = file /\ co[c].at = "check" /\ Approved(co[c].prop)
    BY <1>5, <1>a DEF ApplyCheck, At, ClientKnows, workspace
  <2>2. CASE BaseHolds(co[c].prop) /\ Goto(c, "apply") /\ inc' = inc
    <3>1. co'[c].at = "apply" /\ co'[c].prop = co[c].prop
      BY <2>2, <1>a, GotoKeeps
    <3>2. ClientKnows(c)'
      BY <1>a, <1>b, <1>c, <2>1, <2>2, <3>1 DEF BaseHolds, ClientKnows, PastReceipt, Local
    <3> QED
      BY <1>d, <1>e, <2>1, <2>2, <3>2, ClientKeepsApproval DEF PInv
  <2>3. CASE Dispatch(c, "APPLY_FAILED", "idle", "idle")
    BY <1>1, <1>a, <2>1, <2>3, DispatchVerified DEF PastReceipt
  <2> QED
    BY <1>5, <2>2, <2>3 DEF ApplyCheck
<1>6. CASE GitApply(c)
  <2>1. co[c].at = "apply" /\ Approved(co[c].prop) /\ diff = co[c].prop
    BY <1>6, <1>a DEF GitApply, At, ClientKnows
  <2>2. file'.patch # 0 => Approved(file'.patch)
    BY <1>6, <1>e, <2>1 DEF GitApply, TypeOK, File
  <2>3. CASE Dispatch(c, "APPLY_FAILED", "idle", "idle")
    <3>1. /\ co'[c].at = "idle" /\ inc'.receipt = inc.receipt
          /\ inc'.status \in Verified => inc.status \in Verified
      BY <2>3, <1>a, DispatchVerified
    <3>2. ClientKnows(c)'
      BY <3>1 DEF ClientKnows, PastReceipt
    <3> QED
      BY <1>d, <2>2, <3>1, <3>2, ClientKeepsApproval DEF PInv
  <2>4. CASE Goto(c, "receipt") /\ inc' = inc /\ file' = [file EXCEPT !.patch = diff]
    <3>1. co'[c].at = "receipt" /\ co'[c].prop = co[c].prop /\ file'.patch = co[c].prop
      BY <2>1, <2>4, <1>a, GotoKeeps DEF TypeOK, File
    <3>2. ClientKnows(c)'
      BY <1>a, <1>c, <2>1, <3>1 DEF ClientKnows, PastReceipt, Local
    <3> QED
      BY <1>d, <2>2, <2>4, <3>2, ClientKeepsApproval DEF PInv
  <2> QED
    BY <1>6, <2>3, <2>4 DEF GitApply
<1>7. CASE WriteReceipt(c)
  <2>1. Approved(co[c].prop) /\ file.patch = co[c].prop /\ file' = file
    BY <1>7, <1>a DEF WriteReceipt, At, ClientKnows, workspace
  <2>2. inc'.receipt = [prop |-> co[c].prop, file |-> file]
    BY <1>7 DEF WriteReceipt, TypeOK, Incident
  <2>3. ReceiptHolds'
    BY <1>a, <1>c, <2>1, <2>2 DEF ReceiptHolds, Local
  <2>4. co'[c].at \in PastReceipt
    BY <1>7, <1>a, GotoEffect DEF WriteReceipt, PastReceipt
  <2>5. ClientKnows(c)'
    BY <2>3, <2>4 DEF ClientKnows, PastReceipt
  <2> QED
    BY <1>e, <2>1, <2>3, <2>5, ClientKeepsApproval
\* Steps between the receipt and the verdict.
<1>8. CASE /\ co[c].at \in PastReceipt /\ file' = file /\ inc'.receipt = inc.receipt
           /\ co'[c].at \notin {"wait", "check", "apply", "receipt"}
  <2>1. ReceiptHolds'
    BY <1>8, <1>a, <1>d DEF ClientKnows
  <2>2. ClientKnows(c)'
    BY <1>8, <2>1 DEF ClientKnows
  <2> QED
    BY <1>8, <1>e, <2>1, <2>2, ClientKeepsApproval
<1>9. CASE SmokeSpawn(c) \/ SmokeIdentity(c) \/ SmokeEnd(c) \/ SmokeFinished(c)
  <2>1. co[c].at \in PastReceipt /\ file' = file /\ inc'.receipt = inc.receipt
    BY <1>9 DEF SmokeSpawn, SmokeIdentity, SmokeEnd, SmokeFinished, At, PastReceipt, workspace,
       TypeOK, Incident
  <2>2. co'[c].at \in {"exec", "visible", "ended", "verdict"}
    BY <1>9, <1>a, GotoEffect DEF SmokeSpawn, SmokeIdentity, SmokeEnd, SmokeFinished, TypeOK, Local
  <2> QED
    BY <1>8, <2>1, <2>2
<1>10. CASE SkipSmoke(c) \/ SmokeVisible(c) \/ SmokePassed(c)
  BY <1>8, <1>10, <1>a, DispatchVerified
  DEF SkipSmoke, SmokeVisible, SmokePassed, At, PastReceipt, workspace
<1>11. CASE SmokeFailed(c)
  <2>1. CASE Dispatch(c, "SMOKE_FAILED_ROLLBACK_BLOCKED", "idle", "idle")
    BY <1>8, <1>11, <1>a, <2>1, DispatchVerified DEF SmokeFailed, At, PastReceipt, workspace
  <2>2. CASE inc' = inc /\ co'[c].at = "revcheck"
    BY <1>8, <1>11, <2>2 DEF SmokeFailed, At, PastReceipt, workspace
  <2> QED
    BY <1>11, <1>a, <2>1, <2>2 DEF SmokeFailed, TypeOK, Local
<1>12. CASE ReverseCheck(c)
  <2>1. CASE Dispatch(c, "SMOKE_FAILED_ROLLBACK_BLOCKED", "idle", "idle")
    BY <1>1, <1>12, <1>a, <2>1, DispatchVerified DEF ReverseCheck, PastReceipt, workspace
  <2>2. CASE inc' = inc /\ Goto(c, "reverse")
    BY <1>1, <1>12, <1>a, <2>2, GotoEffect DEF ReverseCheck, PastReceipt, workspace
  <2> QED
    BY <1>12, <2>1, <2>2 DEF ReverseCheck
<1>13. CASE GitReverse(c)
  <2>1. file'.patch # 0 => Approved(file'.patch)
    <3>1. CASE file' = file
      BY <1>e, <3>1
    <3>2. CASE diff # 0 /\ file' = [file EXCEPT !.patch = proposal[diff].base.patch]
      BY <3>2, PatchTypes DEF PInv, BasesApproved, TypeOK, File
    <3> QED
      BY <1>13, <3>1, <3>2 DEF GitReverse
  <2>2. /\ inc'.receipt = inc.receipt /\ co'[c].at \in {"idle", "clear"}
        /\ inc'.status \in Verified => inc.status \in Verified
    BY <1>13, <1>a, GotoEffect, DispatchVerified DEF GitReverse
  <2>3. ClientKnows(c)'
    BY <2>2 DEF ClientKnows, PastReceipt
  <2> QED
    BY <1>d, <2>1, <2>2, <2>3, ClientKeepsApproval DEF PInv
<1> QED
  BY <1>2, <1>3, <1>4, <1>5, <1>6, <1>7, <1>9, <1>10, <1>11, <1>12, <1>13 DEF ClientStep

LEMMA CallerApproved ==
    ASSUME TypeOK, LInv, EInv, NInv, PInv, NEW p \in Caller, CallerStep(p)
    PROVE  PInv'
<1>a. /\ p \in Proc /\ Client \subseteq Caller /\ Runtime \cap Caller = {} /\ Caller \subseteq Proc
      /\ p # Monitor => p \in Client
  BY ProcFacts DEF Caller, Proc
<1>1. /\ file' = file /\ inc'.receipt = inc.receipt /\ proposal' = proposal
      /\ \A q \in Caller \ {p} : co'[q] = co[q]
  BY CallerLeaves
<1>2. inc'.status \in Verified => inc'.status = inc.status
  <2>1. CASE Reinvestigate(p)
    <3>1. co[p].at = "dispatch"
      BY <2>1 DEF Reinvestigate, At
    <3>2. Target(inc.status, co[p].ev) \in {"diagnosing", "unresolved"}
      BY <3>1, CallerEvents
    <3> QED
      BY <2>1, <3>2 DEF Reinvestigate, Dispatch, TypeOK, Incident, Verified
  <2>2. CASE ClearArtifacts(p) \/ UnlinkDiff(p) \/ CreateRun(p) \/ MarkRun(p)
    BY <2>2 DEF ClearArtifacts, UnlinkDiff, CreateRun, MarkRun, TypeOK, Incident
  <2> QED
    BY <2>1, <2>2 DEF CallerStep
<1>3. co'[p].at \in {"unlink", "dispatch", "create", "mark", "idle", "incidents"}
  BY <1>a, GotoEffect
  DEF CallerStep, ClearArtifacts, UnlinkDiff, Reinvestigate, CreateRun, MarkRun, Dispatch, Spawn,
      Return, TypeOK, Local, Idle
<1>4. diff' = diff \/ \A c \in Client : co[c].at # "apply"
  <2>1. CASE UnlinkDiff(p)
    <3>1. co[p].at = "unlink"
      BY <2>1 DEF UnlinkDiff, At
    <3>2. ASSUME NEW c \in Client, co[c].at = "apply"
          PROVE  FALSE
      <4>1. inc.status = "applying" /\ Locked(c) /\ c # p
        BY <3>1, <3>2 DEF LInv, LockPins, Pins, Locked
      <4>2. p # Monitor
        BY <3>1, <4>1, CallerEvents
      <4> QED
        BY <1>a, <3>1, <4>1, <4>2 DEF LInv, LockExclusive, Locked
    <3> QED
      BY <3>2
  <2>2. CASE ~UnlinkDiff(p)
    BY <2>2 DEF CallerStep, ClearArtifacts, Reinvestigate, CreateRun, MarkRun
  <2> QED
    BY <2>1, <2>2
<1> QED
  BY <1>a, <1>1, <1>2, <1>3, <1>4, PTameKeeps DEF PTame, PastReceipt

LEMMA MonitorApproved ==
    ASSUME TypeOK, PInv, MonitorStep
    PROVE  PInv'
<1>1. /\ file' = file /\ diff' = diff /\ inc'.receipt = inc.receipt /\ proposal' = proposal
      /\ \A c \in Client : co'[c] = co[c]
  BY MonitorLeaves, ProcFacts
<1>2. inc'.status \in Verified => inc'.status = inc.status
  BY DEF MonitorStep, MonitorFailure, MonitorSeal, WriteCapsule, HandleFailure, RetryFailed,
     TypeOK, Incident, Verified
<1> QED
  BY <1>1, <1>2, PTameKeeps DEF PTame

\* A proposal is built on what is in the workspace, which was approved.
LEMMA TaskApproved ==
    ASSUME TypeOK, LInv, NInv, PInv, NEW t \in Runtime, TaskStep(t)
    PROVE  PInv'
<1>1. /\ file' = file /\ inc'.receipt = inc.receipt
      /\ \A c \in Client : co'[c] = co[c]
      /\ inc'.status \in Verified => inc'.status = inc.status
  BY TaskLeaves, ProcFacts DEF Verified
<1>2. \A c \in Client : co[c].at # "apply"
  BY TaskAlone DEF LInv, LockPins, Pins
<1>3. \A p \in Proposals :
          /\ proposal[p].approved => proposal'[p].approved
          /\ proposal'[p].base.patch \in {proposal[p].base.patch, file.patch}
  <2>1. CASE ProposeDiff(t)
    BY <2>1 DEF ProposeDiff, TypeOK, Proposal
  <2>2. CASE Preflight(t)
    BY <2>2 DEF Preflight, TypeOK, Proposal
  <2>3. CASE ~(ProposeDiff(t) \/ Preflight(t))
    BY <2>3 DEF TaskStep, TaskStart, SubmitDiagnosis, ProposeMeta, Unpropose, AgentEnd, FinishRun,
       TaskRaises, TaskTail, TaskDone, patches
  <2> QED
    BY <2>1, <2>2, <2>3
<1> QED
  BY <1>1, <1>2, <1>3, PTameKeeps DEF PTame

LEMMA ObserveApproved ==
    ASSUME TypeOK, PInv, NEW a \in Attempts, Observe(a)
    PROVE  PInv'
<1>1. /\ co' = co /\ file' = file /\ diff' = diff /\ proposal' = proposal
      /\ inc'.receipt = inc.receipt
      /\ inc'.status \in Verified => inc'.status = inc.status
  BY DEF Observe, patches, workspace, TypeOK, Incident, Target, Transitions, Verified
<1> QED
  BY <1>1, PTameKeeps DEF PTame

LEMMA EnvironmentApproved ==
    ASSUME TypeOK, NInv, PInv, Environment, ~Crash
    PROVE  PInv'
<1>1. inc' = inc /\ diff' = diff
  BY EnvironmentLeaves
<1>2. CASE \E c \in Client : SendRequest(c)
  <2>1. PICK c \in Client : SendRequest(c)
    BY <1>2
  <2>2. /\ file' = file
        /\ \A p \in Proposals : /\ proposal[p].approved => proposal'[p].approved
                                /\ proposal'[p].base = proposal[p].base
        /\ \A d \in Client \ {c} : co'[d] = co[d]
    BY <2>1, ProcFacts DEF SendRequest, workspace, TypeOK, Proposal
  <2>3. /\ co'[c].at = "wait"
        /\ co'[c].kind = "approve" => co'[c].pid # 0 /\ proposal'[co'[c].pid].approved
    <3>1. PICK r \in [kind : {"approve", "reject"}, pid : 1 .. nProposals, smoke : BOOLEAN]
                     \cup [kind : {"follow_up"}, pid : {0}, smoke : {FALSE}] :
            /\ co' = [co EXCEPT ![c] = [Idle EXCEPT !.at = "wait", !.kind = r.kind,
                                                   !.pid = r.pid, !.smoke = r.smoke]]
            /\ proposal' = IF r.kind = "approve"
                           THEN [proposal EXCEPT ![r.pid].approved = TRUE]
                           ELSE proposal
      BY <2>1 DEF SendRequest
    <3>2. co'[c].at = "wait" /\ co'[c].kind = r.kind /\ co'[c].pid = r.pid
      BY <3>1, ProcFacts DEF Idle, TypeOK
    <3>3. r.kind = "approve" => r.pid \in Proposals /\ r.pid # 0
      <4>1. r.kind = "approve" => r.pid \in 1 .. nProposals
        BY <3>1
      <4> QED
        BY <4>1, ConstantsAssumption DEF TypeOK, Proposals
    <3>4. r.kind = "approve" => proposal'[r.pid].approved
      BY <3>1, <3>3 DEF TypeOK, Proposal
    <3> QED
      BY <3>2, <3>3, <3>4
  <2>4. \A p \in Proposals : Approved(p) => Approved(p)'
    BY <2>2 DEF Approved
  <2>5. ReceiptHolds => ReceiptHolds'
    BY <1>1, <2>4, PatchTypes DEF ReceiptHolds, Approved
  <2>6. ASSUME NEW d \in Client
        PROVE  ClientKnows(d)'
    <3>1. CASE d = c
      BY <2>3, <3>1 DEF ClientKnows, Approved, PastReceipt
    <3>2. CASE d # c
      BY <1>1, <2>2, <2>4, <2>5, <3>2, PatchTypes, ProcFacts DEF PInv, ClientKnows, Approved
    <3> QED
      BY <3>1, <3>2
  <2>7. ApprovedOnly' /\ BasesApproved'
    BY <2>2, <2>4, PatchTypes DEF PInv, ApprovedOnly, BasesApproved, Approved
  <2> QED
    BY <1>1, <2>5, <2>6, <2>7 DEF PInv
<1>3. CASE Cancel \/ LogFails \/ TrainingExit \/ SmokeExit \/ SmokeRestExit \/ UserEdit \/ StopStarting
  <2>1. co' = co /\ proposal' = proposal /\ file'.patch = file.patch
    BY <1>3 DEF Cancel, LogFails, TrainingExit, SmokeExit, SmokeRestExit, UserEdit, StopStarting, patches, workspace,
       TypeOK, File
  <2> QED
    BY <1>1, <2>1, PTameKeeps DEF PTame
<1>4. CASE Close
  BY <1>1, <1>4, ProcFacts, PTameKeeps DEF Close, PTame, patches, workspace
<1>5. ~Restart
  BY DEF Restart, NInv
<1> QED
  BY <1>2, <1>3, <1>4, <1>5 DEF Environment

LEMMA NextApproved ==
    /\ TypeOK /\ TypeOK' /\ LInv /\ EInv /\ (crashes = 0 => NInv) /\ (crashes = 0 => OInv)
    /\ (crashes = 0 => PInv) /\ [Next]_vars
    => (crashes = 0 => PInv)'
<1> SUFFICES ASSUME TypeOK, TypeOK', LInv, EInv, crashes = 0 => NInv, crashes = 0 => OInv,
                    crashes = 0 => PInv, [Next]_vars, crashes' = 0
             PROVE  PInv'
  OBVIOUS
<1>1. NInv /\ OInv /\ PInv /\ ~Crash
  BY NoCrashYet
<1>2. ~RecoveryStep
  BY <1>1, RecoveryLeaves DEF NInv
<1>3. CASE UNCHANGED vars
  BY <1>1, <1>3, PTameKeeps DEF vars, PTame
<1> QED
  BY <1>1, <1>2, <1>3, ClientApproved, CallerApproved, MonitorApproved, TaskApproved,
     ObserveApproved, EnvironmentApproved DEF Next

\* As long as the daemon has not crashed, a patch is approved before it is carried
\* out and still is after: the strengthening of ApprovedOnly and ReceiptMatches.
THEOREM ApprovalHolds == Spec => [](crashes = 0 => PInv)
<1>1. Init => (crashes = 0 => PInv)
  BY ProcFacts DEF Init, Idle, Clean, PInv, ApprovedOnly, BasesApproved, ClientKnows, Verified,
     PastReceipt
<1> QED
  BY <1>1, NextApproved, TypeCorrect, LockHolds, EventsCarried, ControlHolds, OffersHold, PTL DEF Spec

\* Without a crash, what stands in the workspace is a patch whose own proposal a
\* user approved.
THEOREM AppliedWasApproved == Spec => [](crashes = 0 => ApprovedOnly)
<1>1. (crashes = 0 => PInv) => (crashes = 0 => ApprovedOnly)
  BY DEF PInv
<1> QED
  BY <1>1, ApprovalHolds, PTL

\* Without a crash, the receipt that would license a rollback names the approved
\* patch that was written.
THEOREM ReceiptNamesPatch == Spec => [](crashes = 0 => ReceiptMatches)
<1>1. (crashes = 0 => PInv) => (crashes = 0 => ReceiptMatches)
  BY DEF PInv, ReceiptMatches, ReceiptHolds, Approved, Verified
<1> QED
  BY <1>1, ApprovalHolds, PTL
=============================================================================
