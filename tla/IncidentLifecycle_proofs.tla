------------------------ MODULE IncidentLifecycle_proofs ------------------------
(***************************************************************************)
(* IncidentCoordinator implements IncidentLifecycle: for every value of    *)
(* the constants, crashes and recoveries included, the status of an        *)
(* incident moves only along the edges of the state machine, and a         *)
(* resolved or rejected incident stays so.  First the types; then the      *)
(* invariant that makes it so, and the proof that it is inductive; then    *)
(* the refinement.                                                         *)
(*                                                                         *)
(* A status is changed in two ways.  _dispatch asks the state machine      *)
(* first, so what is left to show is who may dispatch while the daemon     *)
(* starts up.  Recovery writes the status without asking; for that the     *)
(* incident it unresolves must be one a coroutine of the crashed daemon    *)
(* had been working on.  _recover_smoke does not look at the status at     *)
(* all: it goes by the smoke execution record, so a record still "running" *)
(* must imply that status, which holds because the client that wrote the   *)
(* record holds the decision lock until it has written its final state.    *)
(***************************************************************************)
EXTENDS IncidentCoordinator, TLAPS

-----------------------------------------------------------------------------
(***************************************************************************)
(* The types                                                               *)
(***************************************************************************)
\* fsm.transition: an accepted event leads to a status of the machine.
LEMMA TargetType ==
    ASSUME NEW s, NEW e, Accepts(s, e)
    PROVE  Target(s, e) \in Status
BY DEF Accepts, Target, Transitions, SmokeOutcome, Status

\* The bounds are natural numbers.
LEMMA BoundsType ==
    /\ MaxAttempts \in Nat /\ MaxAttempts >= 1 /\ 1 \in Attempts
    /\ MaxRuns \in Nat /\ MaxRuns >= 1
    /\ 0 \in 0 .. MaxProposals /\ 0 \in 0 .. MaxRuns
BY ConstantsAssumption DEF MaxAttempts, MaxRuns, Attempts

\* An idle coroutine has the type of a coroutine.
LEMMA IdleType ==
    /\ Idle \in Local
    /\ \A l \in Label : [Idle EXCEPT !.at = l] \in Local
    /\ "idle" \in Label
<1>1. "idle" \in Label
  BY DEF Label, Await
<1>2. Idle \in Local
  BY <1>1, BoundsType DEF Idle, Local
<1>3. \A l \in Label : [Idle EXCEPT !.at = l] \in Local
  BY <1>2 DEF Local
<1> QED
  BY <1>1, <1>2, <1>3

\* A coroutine that moves to a label keeps its type.
LEMMA GotoType ==
    ASSUME NEW p \in Proc, NEW l \in Label, co \in [Proc -> Local], Goto(p, l)
    PROVE  co' \in [Proc -> Local]
<1>1. Moved(co[p], l) \in Local
  BY IdleType DEF Moved, Local
<1> QED
  BY <1>1 DEF Goto

\* A status of the machine in place of the old one leaves an incident.
LEMMA StatusType ==
    ASSUME NEW i \in Incident, NEW s \in Status \cup {"none"}
    PROVE  [i EXCEPT !.status = s] \in Incident
BY DEF Incident

\* _dispatch keeps the types of what it writes.
LEMMA DispatchType ==
    ASSUME TypeOK, NEW p \in Proc, NEW e, NEW next \in Label, NEW bad \in Label,
           Dispatch(p, e, next, bad)
    PROVE  inc' \in Incident /\ co' \in [Proc -> Local] /\ fault' \subseteq Fault
<1>1. CASE Accepts(inc.status, e)
  <2>1. Target(inc.status, e) \in Status
    BY <1>1, TargetType
  <2>2. inc' \in Incident
    BY <1>1, <2>1, StatusType DEF Dispatch, TypeOK
  <2>3. Goto(p, next) /\ fault' = fault
    BY <1>1 DEF Dispatch
  <2> QED
    BY <2>2, <2>3, GotoType DEF TypeOK
<1>2. CASE ~Accepts(inc.status, e)
  <2>1. Goto(p, bad) /\ inc' = inc /\ fault' = fault \cup {"illegal_transition"}
    BY <1>2 DEF Dispatch
  <2> QED
    BY <2>1, GotoType DEF TypeOK, Fault
<1> QED
  BY <1>1, <1>2

\* A coroutine that moves to a label and sets a local variable keeps its type.
LEMMA MoveType ==
    ASSUME TypeOK, NEW p \in Proc, NEW l \in Label
    PROVE  /\ \A e \in Event : [co EXCEPT ![p].at = l, ![p].ev = e] \in [Proc -> Local]
           /\ \A q \in 0 .. MaxProposals :
                  [co EXCEPT ![p].at = l, ![p].prop = q] \in [Proc -> Local]
           /\ \A r \in Runs : [co EXCEPT ![p].at = l, ![p].run = r] \in [Proc -> Local]
<1>1. co[p] \in Local /\ co \in [Proc -> Local]
  BY DEF TypeOK
<1>2. \A e \in Event : [co EXCEPT ![p].at = l, ![p].ev = e] \in [Proc -> Local]
  BY <1>1 DEF Local
<1>3. \A q \in 0 .. MaxProposals :
         [co EXCEPT ![p].at = l, ![p].prop = q] \in [Proc -> Local]
  BY <1>1 DEF Local
<1>4. \A r \in Runs : r \in 0 .. MaxRuns
  BY DEF Runs
<1>5. \A r \in 0 .. MaxRuns : [co EXCEPT ![p].at = l, ![p].run = r] \in [Proc -> Local]
  BY <1>1 DEF Local
<1> QED
  BY <1>2, <1>3, <1>4, <1>5

\* Setting a flag of a proposal keeps the type of the proposals.
LEMMA FlagType ==
    ASSUME TypeOK, NEW p
    PROVE  /\ [proposal EXCEPT ![p].checked = TRUE] \in [Proposals -> Proposal]
           /\ [proposal EXCEPT ![p].approved = TRUE] \in [Proposals -> Proposal]
           /\ [proposal EXCEPT ![p].reverted = TRUE] \in [Proposals -> Proposal]
<1>1. \A x \in Proposal : /\ [x EXCEPT !.checked = TRUE] \in Proposal
                           /\ [x EXCEPT !.approved = TRUE] \in Proposal
                           /\ [x EXCEPT !.reverted = TRUE] \in Proposal
  BY DEF Proposal
<1>2. proposal \in [Proposals -> Proposal]
  BY DEF TypeOK
<1>3. [proposal EXCEPT ![p].checked = TRUE] \in [Proposals -> Proposal]
  BY <1>1, <1>2
<1>4. [proposal EXCEPT ![p].approved = TRUE] \in [Proposals -> Proposal]
  BY <1>1, <1>2
<1>5. [proposal EXCEPT ![p].reverted = TRUE] \in [Proposals -> Proposal]
  BY <1>1, <1>2
<1> QED
  BY <1>3, <1>4, <1>5

\* A diagnosis task in a free slot, with the caller moved on, keeps the types.
LEMMA SpawnType ==
    ASSUME TypeOK, NEW p \in Proc, NEW next \in Label, NEW r \in 0 .. MaxRuns,
           Spawn(p, next, r)
    PROVE  co' \in [Proc -> Local]
<1>1. PICK t \in Runtime :
         co' = [co EXCEPT ![p] = [Idle EXCEPT !.at = next],
                          ![t] = [Idle EXCEPT !.at = "start", !.run = r]]
  BY DEF Spawn
<1>2. [Idle EXCEPT !.at = next] \in Local
  BY IdleType
<1>3. "start" \in Label
  BY DEF Label, Await
<1>4. [Idle EXCEPT !.at = "start", !.run = r] \in Local
  BY <1>3, IdleType DEF Local
<1>5. t \in Proc
  BY DEF Proc
<1> QED
  BY <1>1, <1>2, <1>4, <1>5 DEF TypeOK


\* A step of a client's request keeps the types.
LEMMA ClientType ==
    ASSUME TypeOK, NEW c \in Client, ClientStep(c)
    PROVE  TypeOK'
<1> c \in Proc
  BY DEF Proc, Caller
<1>1. CASE DecideRefused(c)
  BY <1>1, GotoType, DispatchType, BoundsType
  DEF DecideRefused, TypeOK, Label, Await, supervisor, workspace, patches, bounds
<1>2. CASE Reject(c)
  BY <1>2, GotoType, DispatchType, BoundsType
  DEF Reject, TypeOK, Label, Await, supervisor, workspace, patches, bounds
<1>3. CASE Invalidate(c)
  BY <1>3, GotoType, DispatchType, BoundsType
  DEF Invalidate, TypeOK, Label, Await, supervisor, workspace, patches, bounds
<1>4. CASE Approve(c)
  <2>1. inc' \in Incident
    BY <1>4, TargetType, StatusType
    DEF Approve, TypeOK, Accepts, Transitions, SmokeOutcome, Decidable
  <2>2. inc.prop \in 0 .. MaxProposals /\ "check" \in Label
    BY DEF TypeOK, Incident, Label, Await
  <2>3. co' \in [Proc -> Local]
    BY <1>4, <2>2, MoveType DEF Approve
  <2> QED
    BY <1>4, <2>1, <2>3 DEF Approve, TypeOK, supervisor, workspace, patches, bounds
<1>5. CASE FollowUp(c)
  <2>1. co' \in [Proc -> Local]
    BY <1>5, GotoType
    DEF FollowUp, TypeOK, supervisor, workspace, patches, bounds, Local, Event, Label, Await
  <2> QED
    BY <1>5, <2>1, BoundsType DEF FollowUp, TypeOK, supervisor, workspace, patches, bounds
<1>6. CASE ApplyCheck(c)
  BY <1>6, GotoType, DispatchType, BoundsType
  DEF ApplyCheck, TypeOK, Label, Await, supervisor, workspace, patches, bounds
<1>7. CASE GitApply(c)
  <2>1. {"idle", "receipt"} \subseteq Label
    BY DEF Label, Await
  <2>2. file' \in File
    BY <1>7 DEF GitApply, TypeOK, File
  <2>3. inc' \in Incident /\ co' \in [Proc -> Local] /\ fault' \subseteq Fault
    BY <1>7, <2>1, GotoType, DispatchType DEF GitApply, TypeOK
  <2> QED
    BY <1>7, <2>2, <2>3 DEF GitApply, TypeOK, supervisor, workspace, patches, bounds
<1>8. CASE WriteReceipt(c)
  <2>1. co' \in [Proc -> Local]
    BY <1>8, GotoType
    DEF WriteReceipt, TypeOK, supervisor, workspace, patches, bounds, Local, Label, Await
  <2>2. inc' \in Incident
    BY <1>8
    DEF WriteReceipt, TypeOK, supervisor, workspace, patches, bounds, Incident, Receipt,
        Local
  <2> QED
    BY <1>8, <2>1, <2>2, BoundsType
    DEF WriteReceipt, TypeOK, supervisor, workspace, patches, bounds
<1>9. CASE SkipSmoke(c)
  BY <1>9, GotoType, DispatchType, BoundsType
  DEF SkipSmoke, TypeOK, Label, Await, supervisor, workspace, patches, bounds
<1>10. CASE SmokeSpawn(c)
  <2>1. co' \in [Proc -> Local]
    <3>1. CASE Goto(c, "exec")
      BY <3>1, GotoType DEF TypeOK, Label
    <3>2. ASSUME NEW exit \in {"zero", "nonzero"}, NEW e \in SmokeResult(exit),
                 co' = [co EXCEPT ![c].at = "ended", ![c].ev = e]
          PROVE  co' \in [Proc -> Local]
      <4>1. e \in Event /\ "ended" \in Label
        BY <3>2 DEF SmokeResult, Event, Label
      <4> QED
        BY <3>2, <4>1, MoveType
    <3> QED
      BY <1>10, <3>1, <3>2 DEF SmokeSpawn
  <2> QED
    BY <1>10, <2>1, BoundsType
    DEF SmokeSpawn, LeavesRest, TypeOK, supervisor, workspace, patches, bounds
<1>11. CASE SmokeIdentity(c)
  <2>1. co' \in [Proc -> Local]
    BY <1>11, GotoType
    DEF SmokeIdentity, TypeOK, supervisor, workspace, patches, bounds, Local, Label, Await
  <2>2. inc' \in Incident
    BY <1>11 DEF SmokeIdentity, TypeOK, supervisor, workspace, patches, bounds, Incident
  <2> QED
    BY <1>11, <2>1, <2>2, BoundsType
    DEF SmokeIdentity, TypeOK, supervisor, workspace, patches, bounds
<1>12. CASE SmokeVisible(c)
  BY <1>12, GotoType, DispatchType, BoundsType
  DEF SmokeVisible, TypeOK, Label, Await, supervisor, workspace, patches, bounds
<1>13. CASE SmokeEnd(c)
  <2>1. PICK e \in SmokeResult("zero") \cup SmokeResult("nonzero") :
           co' = [co EXCEPT ![c].at = "ended", ![c].ev = e]
    BY <1>13 DEF SmokeEnd
  <2>2. e \in Event /\ "ended" \in Label
    BY DEF SmokeResult, Event, Label
  <2>3. co' \in [Proc -> Local]
    BY <2>1, <2>2, MoveType
  <2>4. smokeProc' \in {"none", "alive", "zero", "nonzero"} /\ smokeRest' \in BOOLEAN
    BY <1>13 DEF SmokeEnd, LeavesRest, TypeOK
  <2> QED
    BY <1>13, <2>3, <2>4 DEF SmokeEnd, TypeOK, supervisor, workspace, patches, bounds
<1>14. CASE SmokeFinished(c)
  <2>1. co' \in [Proc -> Local]
    BY <1>14, GotoType
    DEF SmokeFinished, TypeOK, supervisor, workspace, patches, bounds, Local, Label, Await
  <2>2. inc' \in Incident
    BY <1>14 DEF SmokeFinished, TypeOK, supervisor, workspace, patches, bounds, Incident
  <2> QED
    BY <1>14, <2>1, <2>2, BoundsType
    DEF SmokeFinished, TypeOK, supervisor, workspace, patches, bounds
<1>15. CASE SmokePassed(c)
  BY <1>15, GotoType, DispatchType, BoundsType
  DEF SmokePassed, TypeOK, Label, Await, supervisor, workspace, patches, bounds
<1>16. CASE SmokeFailed(c)
  <2>1. inc.prop \in 0 .. MaxProposals /\ {"idle", "revcheck"} \subseteq Label
    BY DEF TypeOK, Incident, Label, Await
  <2>2. inc' \in Incident /\ co' \in [Proc -> Local] /\ fault' \subseteq Fault
    <3>1. CASE co' = [co EXCEPT ![c].at = "revcheck", ![c].prop = inc.prop]
               /\ UNCHANGED <<inc, fault>>
      BY <2>1, <3>1, MoveType DEF TypeOK
    <3>2. CASE Dispatch(c, "SMOKE_FAILED_ROLLBACK_BLOCKED", "idle", "idle")
      BY <2>1, <3>2, DispatchType
    <3> QED
      BY <1>16, <3>1, <3>2 DEF SmokeFailed
  <2> QED
    BY <1>16, <2>2 DEF SmokeFailed, TypeOK, supervisor, workspace, patches, bounds
<1>17. CASE ReverseCheck(c)
  BY <1>17, GotoType, DispatchType, BoundsType
  DEF ReverseCheck, TypeOK, Label, Await, supervisor, workspace, patches, bounds
<1>18. CASE GitReverse(c)
  <2>1. {"idle", "clear"} \subseteq Label
    BY DEF Label, Await
  <2>2. inc' \in Incident /\ co' \in [Proc -> Local] /\ fault' \subseteq Fault
    BY <1>18, <2>1, GotoType, DispatchType DEF GitReverse, TypeOK
  <2>3. diff # 0 => proposal[diff].base.patch \in 0 .. MaxProposals
    BY DEF TypeOK, Proposals, Proposal, File
  <2>4. file' \in File
    BY <1>18, <2>3 DEF GitReverse, TypeOK, File
  <2>5. proposal' \in [Proposals -> Proposal]
    <3> DEFINE q == co[c].prop
    <3>1. proposal' = proposal \/ proposal' = [proposal EXCEPT ![q].reverted = TRUE]
      BY <1>18 DEF GitReverse
    <3> HIDE DEF q
    <3>2. [proposal EXCEPT ![q].reverted = TRUE] \in [Proposals -> Proposal]
      BY FlagType
    <3> QED
      BY <3>1, <3>2 DEF TypeOK
  <2> QED
    BY <1>18, <2>2, <2>4, <2>5
    DEF GitReverse, TypeOK, supervisor, workspace, patches, bounds
<1>19. CASE RetryStart(c)
  BY <1>19, GotoType, DispatchType, BoundsType
  DEF RetryStart, TypeOK, Label, Await, supervisor, workspace, patches, bounds
<1>20. CASE RetryRefused(c)
  BY <1>20, GotoType, DispatchType, BoundsType
  DEF RetryRefused, TypeOK, Label, Await, supervisor, workspace, patches, bounds
<1>21. CASE Launch(c)
  <2>1. co' \in [Proc -> Local]
    BY <1>21, GotoType
    DEF Launch, TypeOK, supervisor, workspace, patches, bounds, Local, Label, Await
  <2>2. job' \in Job
    BY <1>21, BoundsType
    DEF Launch, TypeOK, supervisor, workspace, patches, bounds, Job, Attempts
  <2> QED
    BY <1>21, <2>1, <2>2, BoundsType
    DEF Launch, TypeOK, supervisor, workspace, patches, bounds
<1>22. CASE Launched(c)
  <2>1. co' \in [Proc -> Local]
    BY <1>22, GotoType, IdleType
    DEF Launched, TypeOK, supervisor, workspace, patches, bounds, Local, Label, Await,
        Proc, Caller
  <2>2. job' \in Job
    BY <1>22 DEF Launched, TypeOK, supervisor, workspace, patches, bounds, Job
  <2>3. mon' \in [att : Attempts, cancel : BOOLEAN, perr : BOOLEAN]
    BY <1>22 DEF Launched, TypeOK, supervisor, workspace, patches, bounds, Job
  <2> QED
    BY <1>22, <2>1, <2>2, <2>3, BoundsType
    DEF Launched, TypeOK, supervisor, workspace, patches, bounds
<1>23. CASE LaunchFailed(c)
  <2>1. co' \in [Proc -> Local]
    BY <1>23, GotoType
    DEF LaunchFailed, TypeOK, supervisor, workspace, patches, bounds, Local, Label, Await
  <2>2. job' \in Job
    BY <1>23 DEF LaunchFailed, TypeOK, supervisor, workspace, patches, bounds, Job
  <2>3. attempt' \in [Attempts -> Attempt]
    BY <1>23 DEF LaunchFailed, TypeOK, supervisor, workspace, patches, bounds, Attempt, Job
  <2>4. observers' \subseteq Attempts
    BY <1>23 DEF LaunchFailed, TypeOK, supervisor, workspace, patches, bounds, Job
  <2> QED
    BY <1>23, <2>1, <2>2, <2>3, <2>4, BoundsType
    DEF LaunchFailed, TypeOK, supervisor, workspace, patches, bounds
<1> QED
  BY <1>1, <1>2, <1>3, <1>4, <1>5, <1>6, <1>7, <1>8, <1>9, <1>10, <1>11, <1>12, <1>13, <1>14, <1>15, <1>16, <1>17, <1>18, <1>19, <1>20, <1>21, <1>22, <1>23
  DEF ClientStep

\* So does a step of a new investigation.
LEMMA CallerType ==
    ASSUME TypeOK, NEW p \in Caller, CallerStep(p)
    PROVE  TypeOK'
<1> p \in Proc
  BY DEF Proc
<1>1. CASE ClearArtifacts(p)
  <2>1. co' \in [Proc -> Local]
    BY <1>1, GotoType
    DEF ClearArtifacts, TypeOK, supervisor, workspace, patches, bounds, Local, Label, Await
  <2>2. inc' \in Incident
    BY <1>1, BoundsType
    DEF ClearArtifacts, TypeOK, supervisor, workspace, patches, bounds, Incident
  <2> QED
    BY <1>1, <2>1, <2>2, BoundsType
    DEF ClearArtifacts, TypeOK, supervisor, workspace, patches, bounds
<1>2. CASE UnlinkDiff(p)
  <2>1. co' \in [Proc -> Local]
    BY <1>2, GotoType
    DEF UnlinkDiff, TypeOK, supervisor, workspace, patches, bounds, Local, Label, Await
  <2> QED
    BY <1>2, <2>1, BoundsType DEF UnlinkDiff, TypeOK, supervisor, workspace, patches, bounds
<1>3. CASE Reinvestigate(p)
  <2>1. {"idle", "create", "incidents"} \subseteq Label
    BY DEF Label, Await
  <2>2. inc' \in Incident /\ co' \in [Proc -> Local] /\ fault' \subseteq Fault
    BY <1>3, <2>1, DispatchType DEF Reinvestigate, Return
  <2> QED
    BY <1>3, <2>2 DEF Reinvestigate, TypeOK, supervisor, workspace, patches, bounds
<1>4. CASE CreateRun(p)
  <2>1. PICK r \in Runs : /\ run' = [run EXCEPT ![r] = "prepared"]
                         /\ co' = [co EXCEPT ![p].at = "mark", ![p].run = r]
    BY <1>4 DEF CreateRun
  <2>2. "mark" \in Label
    BY DEF Label
  <2>3. co' \in [Proc -> Local]
    BY <2>1, <2>2, MoveType
  <2> QED
    BY <1>4, <2>1, <2>3 DEF CreateRun, TypeOK, supervisor, workspace, patches, bounds
<1>5. CASE MarkRun(p)
  <2>1. Return(p) \in Label /\ co[p].run \in 0 .. MaxRuns
    BY DEF Return, Label, Await, TypeOK, Local
  <2>2. co' \in [Proc -> Local]
    BY <1>5, <2>1, SpawnType DEF MarkRun
  <2>3. inc' \in Incident
    BY <1>5, <2>1 DEF MarkRun, TypeOK, Incident
  <2> QED
    BY <1>5, <2>2, <2>3 DEF MarkRun, TypeOK, supervisor, workspace, patches, bounds
<1> QED
  BY <1>1, <1>2, <1>3, <1>4, <1>5 DEF CallerStep

\* So does a step of the monitor.
LEMMA MonitorType ==
    ASSUME TypeOK, MonitorStep
    PROVE  TypeOK'
<1> Monitor \in Proc
  BY DEF Proc, Caller
<1>1. CASE MonitorFailure
  <2>1. co' \in [Proc -> Local]
    BY <1>1, GotoType
    DEF MonitorFailure, TypeOK, supervisor, workspace, patches, bounds, Local, Label, Await
  <2>2. attempt' \in [Attempts -> Attempt]
    BY <1>1 DEF MonitorFailure, TypeOK, supervisor, workspace, patches, bounds, Attempt
  <2> QED
    BY <1>1, <2>1, <2>2, BoundsType
    DEF MonitorFailure, TypeOK, supervisor, workspace, patches, bounds
<1>2. CASE MonitorSeal
  <2>1. co' \in [Proc -> Local]
    BY <1>2, GotoType
    DEF MonitorSeal, TypeOK, supervisor, workspace, patches, bounds, Local, Label, Await
  <2>2. attempt' \in [Attempts -> Attempt]
    BY <1>2 DEF MonitorSeal, TypeOK, supervisor, workspace, patches, bounds, Attempt
  <2>3. job' \in Job
    BY <1>2 DEF MonitorSeal, TypeOK, supervisor, workspace, patches, bounds, Job, Outcome
  <2>4. mon' \in [att : Attempts, cancel : BOOLEAN, perr : BOOLEAN]
    BY <1>2 DEF MonitorSeal, TypeOK, supervisor, workspace, patches, bounds
  <2> QED
    BY <1>2, <2>1, <2>2, <2>3, <2>4, BoundsType
    DEF MonitorSeal, TypeOK, supervisor, workspace, patches, bounds
<1>3. CASE WriteCapsule
  <2>1. co' \in [Proc -> Local]
    BY <1>3, GotoType
    DEF WriteCapsule, TypeOK, supervisor, workspace, patches, bounds, Local, Label, Await
  <2>2. attempt' \in [Attempts -> Attempt]
    BY <1>3, ConstantsAssumption
    DEF WriteCapsule, TypeOK, supervisor, workspace, patches, bounds, Attempt
  <2> QED
    BY <1>3, <2>1, <2>2, BoundsType
    DEF WriteCapsule, TypeOK, supervisor, workspace, patches, bounds
<1>4. CASE HandleFailure
  <2>1. {"idle", "incidents", "lock", "create"} \subseteq Label
    BY DEF Label, Await
  <2>2. Return(Monitor) \in Label
    BY <2>1 DEF Return
  <2>3. co' \in [Proc -> Local]
    BY <1>4, <2>1, <2>2, GotoType DEF HandleFailure, TypeOK
  <2>4. inc' \in Incident
    BY <1>4 DEF HandleFailure, TypeOK, Incident, Status
  <2>5. fault' \subseteq Fault
    BY <1>4 DEF HandleFailure, TypeOK, Fault
  <2> QED
    BY <1>4, <2>3, <2>4, <2>5
    DEF HandleFailure, TypeOK, supervisor, workspace, patches, bounds
<1>5. CASE RetryFailed
  <2>1. "clear" \in Label /\ "RETRY_FAILED" \in Event
    BY DEF Label, Event
  <2>2. co' \in [Proc -> Local]
    BY <1>5, <2>1, MoveType DEF RetryFailed
  <2>3. inc' \in Incident
    BY <1>5 DEF RetryFailed, TypeOK, Incident
  <2> QED
    BY <1>5, <2>2, <2>3 DEF RetryFailed, TypeOK, supervisor, workspace, patches, bounds
<1> QED
  BY <1>1, <1>2, <1>3, <1>4, <1>5 DEF MonitorStep

\* So does a step of start-up recovery.
LEMMA RecoveryType ==
    ASSUME TypeOK, RecoveryStep
    PROVE  TypeOK'
<1> Monitor \in Proc
  BY DEF Proc, Caller
<1>1. CASE RecoverInterrupted
  <2>1. co' \in [Proc -> Local]
    BY <1>1, GotoType
    DEF RecoverInterrupted, TypeOK, supervisor, workspace, patches, bounds, Local, Label,
        Await
  <2>2. job' \in Job
    BY <1>1 DEF RecoverInterrupted, TypeOK, supervisor, workspace, patches, bounds, Job
  <2>3. mon' \in [att : Attempts, cancel : BOOLEAN, perr : BOOLEAN]
    BY <1>1 DEF RecoverInterrupted, TypeOK, supervisor, workspace, patches, bounds, Job
  <2> QED
    BY <1>1, <2>1, <2>2, <2>3, BoundsType
    DEF RecoverInterrupted, TypeOK, supervisor, workspace, patches, bounds
<1>2. CASE RecoverFailure
  BY <1>2, GotoType, DispatchType, BoundsType
  DEF RecoverFailure, TypeOK, Label, Await, supervisor, workspace, patches, bounds
<1>3. CASE RecoverIncident
  <2>1. {"terminate", "unresolve", "idle"} \subseteq Label
    BY DEF Label, Await
  <2>2. co' \in [Proc -> Local]
    BY <1>3, <2>1, GotoType DEF RecoverIncident, Serve, TypeOK
  <2>3. RetryVerdict \in Status \cup {"none"}
    BY DEF RetryVerdict, Status, TypeOK, Incident
  <2>4. inc' \in Incident
    BY <1>3, <2>3, BoundsType DEF RecoverIncident, Serve, TypeOK, Incident
  <2>5. daemon' \in {"up", "stopping", "down", "recovering"}
    BY <1>3 DEF RecoverIncident, Serve, TypeOK
  <2> QED
    BY <1>3, <2>2, <2>4, <2>5
    DEF RecoverIncident, TypeOK, supervisor, workspace, patches, bounds
<1>4. CASE RecoverDiagnosing
  <2>1. {"create", "idle"} \subseteq Label /\ inc.run \in 0 .. MaxRuns
    BY DEF Label, Await, TypeOK, Incident
  <2>2. co' \in [Proc -> Local]
    BY <1>4, <2>1, GotoType, SpawnType DEF RecoverDiagnosing, TypeOK
  <2>3. run' \in [Runs -> {"absent", "prepared", "running", "ended"}]
    BY <1>4 DEF RecoverDiagnosing, TypeOK
  <2> QED
    BY <1>4, <2>2, <2>3
    DEF RecoverDiagnosing, TypeOK, supervisor, workspace, patches, bounds
<1>5. CASE RecoverSmoke
  <2>1. {"unresolve", "idle"} \subseteq Label
    BY DEF Label, Await
  <2>2. co' \in [Proc -> Local]
    BY <1>5, <2>1, GotoType DEF RecoverSmoke, Serve, TypeOK
  <2>3. inc' \in Incident
    BY <1>5 DEF RecoverSmoke, Serve, TypeOK, Incident
  <2>4. /\ daemon' \in {"up", "stopping", "down", "recovering"}
        /\ smokeProc' \in {"none", "alive", "zero", "nonzero"} /\ smokeRest' \in BOOLEAN
    BY <1>5 DEF RecoverSmoke, Serve, LeavesRest, TypeOK
  <2> QED
    BY <1>5, <2>2, <2>3, <2>4
    DEF RecoverSmoke, TypeOK, supervisor, workspace, patches, bounds
<1>6. CASE Unresolve
  <2>1. "idle" \in Label /\ "unresolved" \in Status
    BY DEF Label, Await, Status
  <2>2. co' \in [Proc -> Local]
    BY <1>6, <2>1, GotoType DEF Unresolve, Serve, TypeOK
  <2>3. inc' \in Incident /\ daemon' = "up"
    BY <1>6, <2>1, StatusType DEF Unresolve, Serve, TypeOK
  <2> QED
    BY <1>6, <2>2, <2>3 DEF Unresolve, TypeOK, supervisor, workspace, patches, bounds
<1> QED
  BY <1>1, <1>2, <1>3, <1>4, <1>5, <1>6 DEF RecoveryStep

\* So does a step of a diagnosis task.
LEMMA TaskType ==
    ASSUME TypeOK, NEW t \in Runtime, TaskStep(t)
    PROVE  TypeOK'
<1> t \in Proc
  BY DEF Proc, Caller
<1>1. CASE TaskStart(t)
  <2>1. co' \in [Proc -> Local]
    BY <1>1, GotoType
    DEF TaskStart, TypeOK, supervisor, workspace, patches, bounds, Local, Label, Await
  <2>2. run' \in [Runs -> {"absent", "prepared", "running", "ended"}]
    BY <1>1 DEF TaskStart, TypeOK, supervisor, workspace, patches, bounds
  <2> QED
    BY <1>1, <2>1, <2>2, BoundsType
    DEF TaskStart, TypeOK, supervisor, workspace, patches, bounds
<1>2. CASE SubmitDiagnosis(t)
  <2>1. co' \in [Proc -> Local]
    BY <1>2, GotoType
    DEF SubmitDiagnosis, TypeOK, supervisor, workspace, patches, bounds, Local, Label, Await
  <2>2. inc' \in Incident
    BY <1>2 DEF SubmitDiagnosis, TypeOK, supervisor, workspace, patches, bounds, Incident
  <2> QED
    BY <1>2, <2>1, <2>2, BoundsType
    DEF SubmitDiagnosis, TypeOK, supervisor, workspace, patches, bounds
<1>3. CASE ProposeDiff(t)
  <2> DEFINE p == nProposals + 1
  <2>1. p \in 0 .. MaxProposals /\ p \in Proposals
    BY <1>3, ConstantsAssumption DEF ProposeDiff, TypeOK, Proposals
  <2>2. "meta" \in Label
    BY DEF Label
  <2>3. co' = [co EXCEPT ![t].at = "meta", ![t].prop = p]
    BY <1>3 DEF ProposeDiff
  <2>4. proposal' = [proposal EXCEPT ![p].base = file, ![p].run = co[t].run]
    BY <1>3 DEF ProposeDiff
  <2>5. nProposals' = p /\ diff' = p
    BY <1>3 DEF ProposeDiff
  <2> HIDE DEF p
  <2>6. co' \in [Proc -> Local]
    BY <2>1, <2>2, <2>3, MoveType
  <2>7. file \in File /\ co[t].run \in 0 .. MaxRuns
    BY DEF TypeOK, Local
  <2>8. proposal' \in [Proposals -> Proposal]
    BY <2>1, <2>4, <2>7 DEF TypeOK, Proposal
  <2> QED
    BY <1>3, <2>1, <2>5, <2>6, <2>8
    DEF ProposeDiff, TypeOK, supervisor, workspace, patches, bounds
<1>4. CASE ProposeMeta(t)
  <2>1. co' \in [Proc -> Local]
    BY <1>4, GotoType
    DEF ProposeMeta, TypeOK, supervisor, workspace, patches, bounds, Local, Label, Await
  <2>2. inc' \in Incident
    BY <1>4 DEF ProposeMeta, TypeOK, supervisor, workspace, patches, bounds, Incident, Local
  <2> QED
    BY <1>4, <2>1, <2>2, BoundsType
    DEF ProposeMeta, TypeOK, supervisor, workspace, patches, bounds
<1>5. CASE Preflight(t)
  <2>1. {"finish", "undiff"} \subseteq Label
    BY DEF Label, Await
  <2>2. co' \in [Proc -> Local]
    BY <1>5, <2>1, GotoType DEF Preflight, TypeOK
  <2>3. inc' \in Incident
    BY <1>5, BoundsType DEF Preflight, TypeOK, Incident
  <2>4. proposal' \in [Proposals -> Proposal]
    <3> DEFINE q == co[t].prop
    <3>1. proposal' = proposal \/ proposal' = [proposal EXCEPT ![q].checked = TRUE]
      BY <1>5 DEF Preflight
    <3> HIDE DEF q
    <3>2. [proposal EXCEPT ![q].checked = TRUE] \in [Proposals -> Proposal]
      BY FlagType
    <3> QED
      BY <3>1, <3>2 DEF TypeOK
  <2> QED
    BY <1>5, <2>2, <2>3, <2>4 DEF Preflight, TypeOK, supervisor, workspace, patches, bounds
<1>6. CASE Unpropose(t)
  <2>1. co' \in [Proc -> Local]
    BY <1>6, GotoType
    DEF Unpropose, TypeOK, supervisor, workspace, patches, bounds, Local, Label, Await
  <2> QED
    BY <1>6, <2>1, BoundsType DEF Unpropose, TypeOK, supervisor, workspace, patches, bounds
<1>7. CASE AgentEnd(t)
  BY <1>7, GotoType, DispatchType, BoundsType
  DEF AgentEnd, TypeOK, Label, Await, supervisor, workspace, patches, bounds
<1>8. CASE FinishRun(t)
  <2>1. co' \in [Proc -> Local]
    BY <1>8, GotoType
    DEF FinishRun, TypeOK, supervisor, workspace, patches, bounds, Local, Label, Await
  <2>2. run' \in [Runs -> {"absent", "prepared", "running", "ended"}]
    BY <1>8 DEF FinishRun, TypeOK, supervisor, workspace, patches, bounds
  <2> QED
    BY <1>8, <2>1, <2>2, BoundsType
    DEF FinishRun, TypeOK, supervisor, workspace, patches, bounds
<1>9. CASE TaskRaises(t)
  <2>1. "idle" \in Label
    BY DEF Label, Await
  <2>2. inc' \in Incident /\ co' \in [Proc -> Local] /\ fault' \subseteq Fault
    BY <1>9, <2>1, GotoType, DispatchType DEF TaskRaises, GiveUp, TypeOK
  <2> QED
    BY <1>9, <2>2 DEF TaskRaises, TypeOK, supervisor, workspace, patches, bounds
<1>10. CASE TaskTail(t)
  <2>1. {"idle", "done"} \subseteq Label
    BY DEF Label, Await
  <2>2. co' \in [Proc -> Local]
    BY <1>10, <2>1, GotoType, DispatchType DEF TaskTail, GiveUp, TypeOK
  <2>3. CASE GiveUp(t)
    <3>1. inc' \in Incident /\ fault' \subseteq Fault
      BY <2>1, <2>3, DispatchType DEF GiveUp, TypeOK
    <3> QED
      BY <1>10, <2>2, <3>1 DEF TaskTail, TypeOK, supervisor, workspace, patches, bounds
  <2>4. CASE inc' = [inc EXCEPT !.active = inc.prop] /\ UNCHANGED fault
    <3>1. inc' \in Incident
      BY <2>4 DEF TypeOK, Incident
    <3> QED
      BY <1>10, <2>2, <2>4, <3>1
      DEF TaskTail, TypeOK, supervisor, workspace, patches, bounds
  <2> QED
    BY <1>10, <2>3, <2>4 DEF TaskTail
<1>11. CASE TaskDone(t)
  BY <1>11, GotoType, DispatchType, BoundsType
  DEF TaskDone, TypeOK, Label, Await, supervisor, workspace, patches, bounds
<1> QED
  BY <1>1, <1>2, <1>3, <1>4, <1>5, <1>6, <1>7, <1>8, <1>9, <1>10, <1>11 DEF TaskStep

\* So does a request, an exit, an edit, a crash, a stop or a restart.
LEMMA EnvironmentType ==
    ASSUME TypeOK, Environment
    PROVE  TypeOK'
<1>1. CASE \E c \in Client : SendRequest(c)
  <2>1. PICK c \in Client : SendRequest(c)
    BY <1>1
  <2>2. c \in Proc /\ "wait" \in Label
    BY DEF Proc, Caller, Label, Await
  <2>3. PICK r \in [kind : {"approve", "reject"}, pid : 1 .. nProposals, smoke : BOOLEAN]
            \cup [kind : {"follow_up"}, pid : {0}, smoke : {FALSE}] :
           /\ co' = [co EXCEPT ![c] = [Idle EXCEPT !.at = "wait", !.kind = r.kind,
                                                  !.pid = r.pid, !.smoke = r.smoke]]
           /\ proposal' = IF r.kind = "approve"
                          THEN [proposal EXCEPT ![r.pid].approved = TRUE]
                          ELSE proposal
    BY <2>1 DEF SendRequest
  <2>4. /\ r.kind \in {"approve", "reject", "follow_up"} /\ r.smoke \in BOOLEAN
        /\ r.pid \in 0 .. MaxProposals
    <3>1. CASE r \in [kind : {"approve", "reject"}, pid : 1 .. nProposals, smoke : BOOLEAN]
      <4>1. nProposals \in Nat /\ nProposals <= MaxProposals /\ r.pid \in 1 .. nProposals
        BY <3>1, ConstantsAssumption DEF TypeOK
      <4> QED
        BY <3>1, <4>1, ConstantsAssumption
    <3>2. CASE r \in [kind : {"follow_up"}, pid : {0}, smoke : {FALSE}]
      BY <3>2, BoundsType
    <3> QED
      BY <2>3, <3>1, <3>2
  <2>5. [Idle EXCEPT !.at = "wait", !.kind = r.kind, !.pid = r.pid, !.smoke = r.smoke]
           \in Local
    BY <2>2, <2>4, IdleType DEF Local
  <2>6. co' \in [Proc -> Local]
    BY <2>2, <2>3, <2>5 DEF TypeOK
  <2>7. proposal' \in [Proposals -> Proposal]
    BY <2>3, FlagType DEF TypeOK
  <2>8. calls' \in 0 .. MaxCalls
    BY <2>1, ConstantsAssumption DEF SendRequest, TypeOK
  <2> QED
    BY <2>1, <2>6, <2>7, <2>8 DEF SendRequest, TypeOK, supervisor, workspace
<1>2. CASE Cancel
  BY <1>2 DEF Cancel, TypeOK, workspace, patches, bounds
<1>3. CASE LogFails
  BY <1>3 DEF LogFails, TypeOK, workspace, patches, bounds
<1>4. CASE TrainingExit
  <2>1. attempt' \in [Attempts -> Attempt]
    BY <1>4 DEF TrainingExit, TypeOK, Attempt
  <2> QED
    BY <1>4, <2>1 DEF TrainingExit, TypeOK, workspace, patches, bounds
<1>5. CASE SmokeExit \/ SmokeRestExit
  BY <1>5 DEF SmokeExit, SmokeRestExit, LeavesRest, TypeOK, supervisor, patches, bounds
<1>6. CASE UserEdit
  <2>1. file' \in File
    BY <1>6, ConstantsAssumption DEF UserEdit, TypeOK, File
  <2> QED
    BY <1>6, <2>1 DEF UserEdit, TypeOK, supervisor, patches, bounds
<1>7. CASE Crash
  <2>1. co' \in [Proc -> Local]
    BY <1>7, IdleType DEF Crash
  <2>2. crashes' \in 0 .. MaxCrashes
    BY <1>7, ConstantsAssumption DEF Crash, TypeOK
  <2> QED
    BY <1>7, <2>1, <2>2 DEF Crash, TypeOK, workspace, patches
<1>8. CASE StopStarting
  BY <1>8 DEF StopStarting, TypeOK, supervisor, workspace, patches, bounds
<1>9. CASE Close
  <2>1. co' \in [Proc -> Local]
    BY <1>9, IdleType DEF Close, TypeOK
  <2>2. mon' \in [att : Attempts, cancel : BOOLEAN, perr : BOOLEAN]
    BY <1>9 DEF Close, TypeOK
  <2> QED
    BY <1>9, <2>1, <2>2 DEF Close, TypeOK, workspace, patches, bounds
<1>10. CASE Restart
  <2>1. Monitor \in Proc /\ "reap" \in Label
    BY DEF Proc, Caller, Label, Await
  <2>2. co' \in [Proc -> Local]
    BY <1>10, <2>1, GotoType DEF Restart, TypeOK
  <2> QED
    BY <1>10, <2>2 DEF Restart, TypeOK, supervisor, workspace, patches, bounds
<1> QED
  BY <1>1, <1>2, <1>3, <1>4, <1>5, <1>6, <1>7, <1>8, <1>9, <1>10 DEF Environment

\* So does the observer of a retry.
LEMMA ObserveType ==
    ASSUME TypeOK, NEW a \in Attempts, Observe(a)
    PROVE  TypeOK'
<1>1. \/ inc' = inc
      \/ inc.status = "retry_running" /\ \E e \in {"RETRY_SUCCEEDED", "RETRY_ABORTED"} :
            inc' = [inc EXCEPT !.status = Target("retry_running", e)]
  BY DEF Observe
<1>2. \A e \in {"RETRY_SUCCEEDED", "RETRY_ABORTED"} : Accepts("retry_running", e)
  BY DEF Accepts, Transitions
<1>3. \A e \in {"RETRY_SUCCEEDED", "RETRY_ABORTED"} : Target("retry_running", e) \in Status
  BY <1>2, TargetType
<1>4. inc' \in Incident
  BY <1>1, <1>3, StatusType DEF TypeOK
<1> QED
  BY <1>4 DEF Observe, TypeOK, workspace, patches, bounds

\* The initial state has the types.
LEMMA InitType == Init => TypeOK
<1> SUFFICES ASSUME Init PROVE TypeOK
  OBVIOUS
<1>1. [Idle EXCEPT !.at = "watch"] \in Local /\ Idle \in Local
  BY IdleType DEF Label, Await
<1>2. co \in [Proc -> Local]
  BY <1>1 DEF Init
<1>3. Clean \in File
  BY ConstantsAssumption DEF Clean, File
<1>4. mon \in [att : Attempts, cancel : BOOLEAN, perr : BOOLEAN] /\ job \in Job
  BY BoundsType DEF Init, Job
<1>5. attempt \in [Attempts -> Attempt]
  BY DEF Init, Attempt
<1>6. inc \in Incident
  BY <1>3, BoundsType DEF Init, Incident, Receipt
<1>7. proposal \in [Proposals -> Proposal]
  BY <1>3, BoundsType DEF Init, Proposal
<1>8. /\ daemon = "up" /\ observers = {} /\ diff = 0 /\ file = Clean
      /\ smokeProc = "none" /\ nProposals = 0 /\ calls = 0 /\ crashes = 0 /\ fault = {}
  BY DEF Init
<1>9. run \in [Runs -> {"absent", "prepared", "running", "ended"}]
  BY DEF Init
<1>10. smokeRest \in BOOLEAN
  BY DEF Init
<1> QED
  BY <1>2, <1>3, <1>4, <1>5, <1>6, <1>7, <1>8, <1>9, <1>10, BoundsType, ConstantsAssumption
  DEF TypeOK

\* Every step keeps the types.
LEMMA NextType == TypeOK /\ [Next]_vars => TypeOK'
<1> SUFFICES ASSUME TypeOK, [Next]_vars PROVE TypeOK'
  OBVIOUS
<1>1. CASE Next
  BY <1>1, ClientType, CallerType, MonitorType, RecoveryType, ObserveType, TaskType,
     EnvironmentType DEF Next
<1>2. CASE UNCHANGED vars
  BY <1>2 DEF vars, TypeOK
<1> QED
  BY <1>1, <1>2

\* Every variable of the daemon, its disk and its workspace keeps its type,
\* for every number of clients, tasks, requests, crashes, edits and proposals.
THEOREM TypeCorrect == Spec => []TypeOK
BY InitType, NextType, PTL DEF Spec

-----------------------------------------------------------------------------
(***************************************************************************)
(* Who runs, and who holds the lock                                        *)
(***************************************************************************)
\* No request, and no observer, lives while the daemon is down or starts up.
NobodyServed ==
    daemon \in {"down", "recovering"} =>
        observers = {} /\ \A c \in Client : co[c].at = "idle"

\* The labels of start-up recovery, and those it shares with the monitor.
RecoveryLabel == {"reap", "reopen", "incidents", "terminate", "unresolve"}
HandlingLabel ==
    {"capsule", "failure", "lock", "clear", "unlink", "dispatch", "create", "mark"}

RecoveryRuns ==
    /\ co[Monitor].at \in RecoveryLabel => daemon = "recovering"
    /\ daemon = "recovering" => co[Monitor].at \in RecoveryLabel \cup HandlingLabel
    /\ daemon = "down" => \A p \in Proc : co[p].at = "idle"

\* No diagnosis task lives before recovery has come to its list of incidents.
NoTaskYet ==
    (daemon = "recovering" /\ co[Monitor].at \in HandlingLabel \cup {"reap", "reopen"}) =>
        \A t \in Runtime : co[t].at = "idle"

\* The monitor reinvestigates only for a failed retry.
MonitorEvent ==
    co[Monitor].at \in {"clear", "unlink", "dispatch"} => co[Monitor].ev = "RETRY_FAILED"

\* Where a client holds the decision lock.
Locked(c) == co[c].at \notin {"idle", "wait"}
LockExclusive == \A c, d \in Client : Locked(c) /\ Locked(d) => c = d

InSmoke == inc.status \in {"applying", "smoke_running"}

\* The lock pins the status: nobody else can change it under its holder.
Pins(c) ==
    /\ co[c].at \in {"check", "apply", "receipt", "skip", "spawning", "exec"} =>
           inc.status = "applying" /\ inc.smoke # "running"
    /\ co[c].at \in {"visible", "smoking", "ended"} => InSmoke
    /\ co[c].at \in {"verdict", "revcheck", "reverse"} => InSmoke /\ inc.smoke # "running"
    /\ co[c].at \in {"clear", "unlink", "dispatch", "create", "mark",
                     "retry", "launch", "launching"} => inc.smoke # "running"
LockPins == \A c \in Client : Pins(c)

\* A smoke that may still run belongs to an incident being applied or smoked.
SmokeRecordFits == inc.smoke = "running" => InSmoke

\* Recovery only unresolves what it has to quarantine.
QuarantineFits ==
    /\ co[Monitor].at = "terminate" => inc.smoke = "running"
    /\ co[Monitor].at = "unresolve" =>
           inc.smoke # "running" /\ RecoverAction(inc.status) = "quarantine"

LInv ==
    /\ NobodyServed /\ RecoveryRuns /\ NoTaskYet /\ MonitorEvent
    /\ LockExclusive /\ LockPins /\ SmokeRecordFits /\ QuarantineFits
-----------------------------------------------------------------------------
\* What Goto does to the labels and events of all coroutines.
LEMMA GotoEffect ==
    ASSUME TypeOK, NEW p \in Proc, NEW l, Goto(p, l)
    PROVE  /\ co'[p].at = l
           /\ l # "idle" => co'[p].ev = co[p].ev
           /\ \A q \in Proc \ {p} : co'[q] = co[q]
BY DEF Goto, Moved, Idle, TypeOK, Local

\* What _dispatch does: the smoke record stays, and the status takes an edge of
\* the state machine or stays.
LEMMA DispatchEffect ==
    ASSUME TypeOK, NEW p \in Proc, NEW e, NEW next, NEW bad, Dispatch(p, e, next, bad)
    PROVE  /\ inc'.smoke = inc.smoke
           /\ \A q \in Proc \ {p} : co'[q] = co[q]
           /\ \/ /\ Accepts(inc.status, e) /\ co'[p].at = next
                 /\ inc'.status = Target(inc.status, e)
              \/ ~Accepts(inc.status, e) /\ inc'.status = inc.status /\ co'[p].at = bad
<1>1. CASE Accepts(inc.status, e)
  <2>1. Goto(p, next) /\ inc' = [inc EXCEPT !.status = Target(inc.status, e)]
    BY <1>1 DEF Dispatch
  <2> QED
    BY <1>1, <2>1, GotoEffect DEF TypeOK, Incident
<1>2. CASE ~Accepts(inc.status, e)
  <2>1. Goto(p, bad) /\ inc' = inc
    BY <1>2 DEF Dispatch
  <2> QED
    BY <1>2, <2>1, GotoEffect
<1> QED
  BY <1>1, <1>2

\* Clients, tasks and the monitor are different coroutines.
LEMMA ProcFacts ==
    /\ Monitor \in Proc /\ Monitor \notin Client /\ Monitor \notin Runtime
    /\ \A c \in Client : c \in Proc /\ c \notin Runtime /\ Return(c) = "idle"
    /\ \A t \in Runtime : t \in Proc /\ t \notin Client
BY ConstantsAssumption DEF Proc, Caller, Return

\* A label between two awaits stops every other coroutine.
LEMMA SectionLabels ==
    {"unresolve", "incidents", "exec"} \cap Await = {}
BY DEF Await

\* Which statuses accept an event, and where it leads.
LEMMA EdgeFacts ==
    ASSUME NEW s
    PROVE  /\ Accepts(s, "FOLLOW_UP") => s \notin {"applying", "smoke_running"}
           /\ Accepts(s, "APPLY_OK_SMOKE") => Target(s, "APPLY_OK_SMOKE") = "smoke_running"
           /\ Accepts(s, "INVESTIGATION_DONE") => s = "diagnosing"
           /\ Accepts(s, "INVESTIGATION_FAILED") => s = "diagnosing"
           /\ Accepts(s, "RETRY_FAILED") => s = "retry_running"
BY DEF Accepts, Target, Transitions, SmokeOutcome

\* A client that holds the lock, or takes it, disturbs only its own pins and
\* the smoke record.
LEMMA ClientFrame ==
    ASSUME TypeOK, LInv, NEW c \in Client, co[c].at # "idle", Locked(c) \/ LockFree,
           daemon' = daemon, co'[Monitor] = co[Monitor] \/ co'[Monitor].at = "watch",
           \A d \in Client \ {c} : co'[d] = co[d],
           Pins(c)', SmokeRecordFits'
    PROVE  LInv'
<1>1. daemon \notin {"down", "recovering"}
  BY DEF LInv, NobodyServed
<1>2. NobodyServed' /\ NoTaskYet'
  BY <1>1 DEF NobodyServed, NoTaskYet
<1>3. co[Monitor].at \notin RecoveryLabel
  BY <1>1 DEF LInv, RecoveryRuns
<1>4. co'[Monitor].at \notin RecoveryLabel
  BY <1>3 DEF RecoveryLabel
<1>5. RecoveryRuns'
  BY <1>1, <1>4 DEF RecoveryRuns
<1>6. MonitorEvent'
  BY DEF LInv, MonitorEvent
<1>7. \A d \in Client \ {c} : ~Locked(d)
  BY DEF LInv, LockExclusive, LockFree, Locked
<1>8. \A d \in Client \ {c} : ~Locked(d)'
  BY <1>7 DEF Locked
<1>9. LockExclusive'
  BY <1>8 DEF LockExclusive
<1>10. LockPins'
  BY <1>8 DEF LockPins, Pins, Locked
<1>11. QuarantineFits'
  BY <1>4 DEF QuarantineFits, RecoveryLabel
<1> QED
  BY <1>2, <1>5, <1>6, <1>9, <1>10, <1>11 DEF LInv

\* A step of a client's request keeps the invariant.
LEMMA ClientKeeps ==
    ASSUME TypeOK, LInv, NEW c \in Client, ClientStep(c)
    PROVE  LInv'
<1>a. Pins(c) /\ SmokeRecordFits
  BY DEF LInv, LockPins
<1>1. CASE DecideRefused(c)
  <2>1. /\ co[c].at = "wait" /\ co'[c].at \in {"idle"}
        /\ daemon' = daemon /\ \A q \in Proc \ {c} : co'[q] = co[q]
        /\ inc'.status = inc.status /\ inc'.smoke = inc.smoke
    BY <1>1, ProcFacts, GotoEffect, DispatchEffect, EdgeFacts
    DEF DecideRefused, At, TypeOK, Local
  <2>2. LockFree
    BY <1>1, <2>1 DEF DecideRefused, Locked
  <2>3. Pins(c)' /\ SmokeRecordFits'
    BY <2>1, <1>a DEF Pins, InSmoke, SmokeRecordFits
  <2> QED
    BY <2>1, <2>2, <2>3, ProcFacts, ClientFrame
<1>2. CASE Reject(c)
  <2>1. /\ co[c].at = "wait" /\ co'[c].at \in {"idle"}
        /\ daemon' = daemon /\ \A q \in Proc \ {c} : co'[q] = co[q]
        /\ inc'.smoke = inc.smoke
        /\ inc.status = "awaiting_approval"
    BY <1>2, ProcFacts, GotoEffect, DispatchEffect, EdgeFacts
    DEF Reject, At, TypeOK, Local, Decidable
  <2>2. LockFree
    BY <1>2, <2>1 DEF Reject, Locked, Decidable
  <2>3. Pins(c)' /\ SmokeRecordFits'
    BY <2>1, <1>a DEF Pins, InSmoke, SmokeRecordFits
  <2> QED
    BY <2>1, <2>2, <2>3, ProcFacts, ClientFrame
<1>3. CASE Invalidate(c)
  <2>1. /\ co[c].at = "wait" /\ co'[c].at \in {"idle"}
        /\ daemon' = daemon /\ \A q \in Proc \ {c} : co'[q] = co[q]
        /\ inc'.smoke = inc.smoke
        /\ inc.status = "awaiting_approval"
    BY <1>3, ProcFacts, GotoEffect, DispatchEffect, EdgeFacts
    DEF Invalidate, At, TypeOK, Local, Decidable
  <2>2. LockFree
    BY <1>3, <2>1 DEF Invalidate, Locked, Decidable
  <2>3. Pins(c)' /\ SmokeRecordFits'
    BY <2>1, <1>a DEF Pins, InSmoke, SmokeRecordFits
  <2> QED
    BY <2>1, <2>2, <2>3, ProcFacts, ClientFrame
<1>4. CASE Approve(c)
  <2>1. /\ co[c].at = "wait" /\ co'[c].at \in {"check"}
        /\ daemon' = daemon /\ \A q \in Proc \ {c} : co'[q] = co[q]
        /\ inc'.smoke = inc.smoke
        /\ inc.status = "awaiting_approval"
        /\ inc'.status = "applying"
    BY <1>4, ProcFacts, GotoEffect, DispatchEffect, EdgeFacts
    DEF Approve, At, TypeOK, Local, Decidable, Incident, Accepts, Target, Transitions,
        SmokeOutcome
  <2>2. LockFree
    BY <1>4, <2>1 DEF Approve, Locked, Decidable
  <2>3. Pins(c)' /\ SmokeRecordFits'
    BY <2>1, <1>a DEF Pins, InSmoke, SmokeRecordFits
  <2> QED
    BY <2>1, <2>2, <2>3, ProcFacts, ClientFrame
<1>5. CASE FollowUp(c)
  <2>1. /\ co[c].at = "wait" /\ co'[c].at \in {"idle", "clear"}
        /\ daemon' = daemon /\ \A q \in Proc \ {c} : co'[q] = co[q]
        /\ inc'.status = inc.status /\ inc'.smoke = inc.smoke
        /\ co'[c].at = "clear" => ~InSmoke
    BY <1>5, ProcFacts, GotoEffect, DispatchEffect, EdgeFacts
    DEF FollowUp, At, TypeOK, Local, InSmoke
  <2>2. LockFree
    BY <1>5, <2>1 DEF FollowUp, Locked
  <2>3. Pins(c)' /\ SmokeRecordFits'
    BY <2>1, <1>a DEF Pins, InSmoke, SmokeRecordFits
  <2> QED
    BY <2>1, <2>2, <2>3, ProcFacts, ClientFrame
<1>6. CASE ApplyCheck(c)
  <2>1. /\ co[c].at = "check" /\ co'[c].at \in {"idle", "apply"}
        /\ daemon' = daemon /\ \A q \in Proc \ {c} : co'[q] = co[q]
        /\ inc'.smoke = inc.smoke
        /\ co'[c].at = "apply" => inc'.status = inc.status
    BY <1>6, ProcFacts, GotoEffect, DispatchEffect, EdgeFacts
    DEF ApplyCheck, At, TypeOK, Local
  <2>2. Locked(c)
    BY <1>6, <2>1 DEF ApplyCheck, Locked
  <2>3. Pins(c)' /\ SmokeRecordFits'
    BY <2>1, <1>a DEF Pins, InSmoke, SmokeRecordFits
  <2> QED
    BY <2>1, <2>2, <2>3, ProcFacts, ClientFrame
<1>7. CASE GitApply(c)
  <2>1. /\ co[c].at = "apply" /\ co'[c].at \in {"idle", "receipt"}
        /\ daemon' = daemon /\ \A q \in Proc \ {c} : co'[q] = co[q]
        /\ inc'.smoke = inc.smoke
        /\ co'[c].at = "receipt" => inc'.status = inc.status
    BY <1>7, ProcFacts, GotoEffect, DispatchEffect, EdgeFacts
    DEF GitApply, At, TypeOK, Local
  <2>2. Locked(c)
    BY <1>7, <2>1 DEF GitApply, Locked
  <2>3. Pins(c)' /\ SmokeRecordFits'
    BY <2>1, <1>a DEF Pins, InSmoke, SmokeRecordFits
  <2> QED
    BY <2>1, <2>2, <2>3, ProcFacts, ClientFrame
<1>8. CASE WriteReceipt(c)
  <2>1. /\ co[c].at = "receipt" /\ co'[c].at \in {"spawning", "skip"}
        /\ daemon' = daemon /\ \A q \in Proc \ {c} : co'[q] = co[q]
        /\ inc'.status = inc.status /\ inc'.smoke = inc.smoke
    BY <1>8, ProcFacts, GotoEffect, DispatchEffect, EdgeFacts
    DEF WriteReceipt, At, TypeOK, Local, Incident
  <2>2. Locked(c)
    BY <1>8, <2>1 DEF WriteReceipt, Locked
  <2>3. Pins(c)' /\ SmokeRecordFits'
    BY <2>1, <1>a DEF Pins, InSmoke, SmokeRecordFits
  <2> QED
    BY <2>1, <2>2, <2>3, ProcFacts, ClientFrame
<1>9. CASE SkipSmoke(c)
  <2>1. /\ co[c].at = "skip" /\ co'[c].at \in {"idle", "retry"}
        /\ daemon' = daemon /\ \A q \in Proc \ {c} : co'[q] = co[q]
        /\ inc'.smoke = inc.smoke
    BY <1>9, ProcFacts, GotoEffect, DispatchEffect, EdgeFacts
    DEF SkipSmoke, At, TypeOK, Local
  <2>2. Locked(c)
    BY <1>9, <2>1 DEF SkipSmoke, Locked
  <2>3. Pins(c)' /\ SmokeRecordFits'
    BY <2>1, <1>a DEF Pins, InSmoke, SmokeRecordFits
  <2> QED
    BY <2>1, <2>2, <2>3, ProcFacts, ClientFrame
<1>10. CASE SmokeSpawn(c)
  <2>1. /\ co[c].at = "spawning" /\ co'[c].at \in {"exec", "ended"}
        /\ daemon' = daemon /\ \A q \in Proc \ {c} : co'[q] = co[q]
        /\ inc'.status = inc.status /\ inc'.smoke = inc.smoke
    BY <1>10, ProcFacts, GotoEffect, DispatchEffect, EdgeFacts
    DEF SmokeSpawn, At, TypeOK, Local
  <2>2. Locked(c)
    BY <1>10, <2>1 DEF SmokeSpawn, Locked
  <2>3. Pins(c)' /\ SmokeRecordFits'
    BY <2>1, <1>a DEF Pins, InSmoke, SmokeRecordFits
  <2> QED
    BY <2>1, <2>2, <2>3, ProcFacts, ClientFrame
<1>11. CASE SmokeIdentity(c)
  <2>1. /\ co[c].at = "exec" /\ co'[c].at \in {"visible"}
        /\ daemon' = daemon /\ \A q \in Proc \ {c} : co'[q] = co[q]
        /\ inc'.status = inc.status
    BY <1>11, ProcFacts, GotoEffect, DispatchEffect, EdgeFacts
    DEF SmokeIdentity, At, TypeOK, Local, Incident
  <2>2. Locked(c)
    BY <1>11, <2>1 DEF SmokeIdentity, Locked
  <2>3. Pins(c)' /\ SmokeRecordFits'
    BY <2>1, <1>a DEF Pins, InSmoke, SmokeRecordFits
  <2> QED
    BY <2>1, <2>2, <2>3, ProcFacts, ClientFrame
<1>12. CASE SmokeVisible(c)
  <2>1. /\ co[c].at = "visible" /\ co'[c].at \in {"idle", "smoking"}
        /\ daemon' = daemon /\ \A q \in Proc \ {c} : co'[q] = co[q]
        /\ inc'.smoke = inc.smoke
        /\ inc'.status \in {inc.status, "smoke_running"}
    BY <1>12, ProcFacts, GotoEffect, DispatchEffect, EdgeFacts
    DEF SmokeVisible, At, TypeOK, Local
  <2>2. Locked(c)
    BY <1>12, <2>1 DEF SmokeVisible, Locked
  <2>3. Pins(c)' /\ SmokeRecordFits'
    BY <2>1, <1>a DEF Pins, InSmoke, SmokeRecordFits
  <2> QED
    BY <2>1, <2>2, <2>3, ProcFacts, ClientFrame
<1>13. CASE SmokeEnd(c)
  <2>1. /\ co[c].at = "smoking" /\ co'[c].at \in {"ended"}
        /\ daemon' = daemon /\ \A q \in Proc \ {c} : co'[q] = co[q]
        /\ inc'.status = inc.status /\ inc'.smoke = inc.smoke
    BY <1>13, ProcFacts, GotoEffect, DispatchEffect, EdgeFacts
    DEF SmokeEnd, At, TypeOK, Local
  <2>2. Locked(c)
    BY <1>13, <2>1 DEF SmokeEnd, Locked
  <2>3. Pins(c)' /\ SmokeRecordFits'
    BY <2>1, <1>a DEF Pins, InSmoke, SmokeRecordFits
  <2> QED
    BY <2>1, <2>2, <2>3, ProcFacts, ClientFrame
<1>14. CASE SmokeFinished(c)
  <2>1. /\ co[c].at = "ended" /\ co'[c].at \in {"verdict"}
        /\ daemon' = daemon /\ \A q \in Proc \ {c} : co'[q] = co[q]
        /\ inc'.status = inc.status
        /\ inc'.smoke # "running"
    BY <1>14, ProcFacts, GotoEffect, DispatchEffect, EdgeFacts
    DEF SmokeFinished, At, TypeOK, Local, Incident
  <2>2. Locked(c)
    BY <1>14, <2>1 DEF SmokeFinished, Locked
  <2>3. Pins(c)' /\ SmokeRecordFits'
    BY <2>1, <1>a DEF Pins, InSmoke, SmokeRecordFits
  <2> QED
    BY <2>1, <2>2, <2>3, ProcFacts, ClientFrame
<1>15. CASE SmokePassed(c)
  <2>1. /\ co[c].at = "verdict" /\ co'[c].at \in {"idle", "retry"}
        /\ daemon' = daemon /\ \A q \in Proc \ {c} : co'[q] = co[q]
        /\ inc'.smoke = inc.smoke
    BY <1>15, ProcFacts, GotoEffect, DispatchEffect, EdgeFacts
    DEF SmokePassed, At, TypeOK, Local
  <2>2. Locked(c)
    BY <1>15, <2>1 DEF SmokePassed, Locked
  <2>3. Pins(c)' /\ SmokeRecordFits'
    BY <2>1, <1>a DEF Pins, InSmoke, SmokeRecordFits
  <2> QED
    BY <2>1, <2>2, <2>3, ProcFacts, ClientFrame
<1>16. CASE SmokeFailed(c)
  <2>1. /\ co[c].at = "verdict" /\ co'[c].at \in {"idle", "revcheck"}
        /\ daemon' = daemon /\ \A q \in Proc \ {c} : co'[q] = co[q]
        /\ inc'.smoke = inc.smoke
        /\ co'[c].at = "revcheck" => inc'.status = inc.status
    BY <1>16, ProcFacts, GotoEffect, DispatchEffect, EdgeFacts
    DEF SmokeFailed, At, TypeOK, Local
  <2>2. Locked(c)
    BY <1>16, <2>1 DEF SmokeFailed, Locked
  <2>3. Pins(c)' /\ SmokeRecordFits'
    BY <2>1, <1>a DEF Pins, InSmoke, SmokeRecordFits
  <2> QED
    BY <2>1, <2>2, <2>3, ProcFacts, ClientFrame
<1>17. CASE ReverseCheck(c)
  <2>1. /\ co[c].at = "revcheck" /\ co'[c].at \in {"idle", "reverse"}
        /\ daemon' = daemon /\ \A q \in Proc \ {c} : co'[q] = co[q]
        /\ inc'.smoke = inc.smoke
        /\ co'[c].at = "reverse" => inc'.status = inc.status
    BY <1>17, ProcFacts, GotoEffect, DispatchEffect, EdgeFacts
    DEF ReverseCheck, At, TypeOK, Local
  <2>2. Locked(c)
    BY <1>17, <2>1 DEF ReverseCheck, Locked
  <2>3. Pins(c)' /\ SmokeRecordFits'
    BY <2>1, <1>a DEF Pins, InSmoke, SmokeRecordFits
  <2> QED
    BY <2>1, <2>2, <2>3, ProcFacts, ClientFrame
<1>18. CASE GitReverse(c)
  <2>1. /\ co[c].at = "reverse" /\ co'[c].at \in {"idle", "clear"}
        /\ daemon' = daemon /\ \A q \in Proc \ {c} : co'[q] = co[q]
        /\ inc'.smoke = inc.smoke
    BY <1>18, ProcFacts, GotoEffect, DispatchEffect, EdgeFacts
    DEF GitReverse, At, TypeOK, Local
  <2>2. Locked(c)
    BY <1>18, <2>1 DEF GitReverse, Locked
  <2>3. Pins(c)' /\ SmokeRecordFits'
    BY <2>1, <1>a DEF Pins, InSmoke, SmokeRecordFits
  <2> QED
    BY <2>1, <2>2, <2>3, ProcFacts, ClientFrame
<1>19. CASE RetryStart(c)
  <2>1. /\ co[c].at = "retry" /\ co'[c].at \in {"idle", "launch"}
        /\ daemon' = daemon /\ \A q \in Proc \ {c} : co'[q] = co[q]
        /\ inc'.smoke = inc.smoke
    BY <1>19, ProcFacts, GotoEffect, DispatchEffect, EdgeFacts
    DEF RetryStart, At, TypeOK, Local
  <2>2. Locked(c)
    BY <1>19, <2>1 DEF RetryStart, Locked
  <2>3. Pins(c)' /\ SmokeRecordFits'
    BY <2>1, <1>a DEF Pins, InSmoke, SmokeRecordFits
  <2> QED
    BY <2>1, <2>2, <2>3, ProcFacts, ClientFrame
<1>20. CASE RetryRefused(c)
  <2>1. /\ co[c].at = "launch" /\ co'[c].at \in {"idle"}
        /\ daemon' = daemon /\ \A q \in Proc \ {c} : co'[q] = co[q]
        /\ inc'.smoke = inc.smoke
    BY <1>20, ProcFacts, GotoEffect, DispatchEffect, EdgeFacts
    DEF RetryRefused, At, TypeOK, Local
  <2>2. Locked(c)
    BY <1>20, <2>1 DEF RetryRefused, Locked
  <2>3. Pins(c)' /\ SmokeRecordFits'
    BY <2>1, <1>a DEF Pins, InSmoke, SmokeRecordFits
  <2> QED
    BY <2>1, <2>2, <2>3, ProcFacts, ClientFrame
<1>21. CASE Launch(c)
  <2>1. /\ co[c].at = "launch" /\ co'[c].at \in {"idle", "launching"}
        /\ daemon' = daemon /\ \A q \in Proc \ {c} : co'[q] = co[q]
        /\ inc'.status = inc.status /\ inc'.smoke = inc.smoke
    BY <1>21, ProcFacts, GotoEffect, DispatchEffect, EdgeFacts
    DEF Launch, At, TypeOK, Local
  <2>2. Locked(c)
    BY <1>21, <2>1 DEF Launch, Locked
  <2>3. Pins(c)' /\ SmokeRecordFits'
    BY <2>1, <1>a DEF Pins, InSmoke, SmokeRecordFits
  <2> QED
    BY <2>1, <2>2, <2>3, ProcFacts, ClientFrame
<1>22. CASE LaunchFailed(c)
  <2>1. /\ co[c].at = "launching" /\ co'[c].at \in {"idle"}
        /\ daemon' = daemon /\ \A q \in Proc \ {c} : co'[q] = co[q]
        /\ inc'.status = inc.status /\ inc'.smoke = inc.smoke
    BY <1>22, ProcFacts, GotoEffect, DispatchEffect, EdgeFacts
    DEF LaunchFailed, At, TypeOK, Local
  <2>2. Locked(c)
    BY <1>22, <2>1 DEF LaunchFailed, Locked
  <2>3. Pins(c)' /\ SmokeRecordFits'
    BY <2>1, <1>a DEF Pins, InSmoke, SmokeRecordFits
  <2> QED
    BY <2>1, <2>2, <2>3, ProcFacts, ClientFrame
<1>23. CASE Launched(c)
  <2>1. /\ co[c].at = "launching" /\ co'[c].at = "idle" /\ co'[Monitor].at = "watch"
        /\ daemon' = daemon /\ \A d \in Client \ {c} : co'[d] = co[d]
        /\ inc' = inc
    BY <1>23, ProcFacts DEF Launched, At, TypeOK, Idle
  <2>2. Locked(c)
    BY <2>1 DEF Locked
  <2>3. Pins(c)' /\ SmokeRecordFits'
    BY <2>1, <1>a DEF Pins, InSmoke, SmokeRecordFits
  <2> QED
    BY <2>1, <2>2, <2>3, ClientFrame
<1> QED
  BY <1>1, <1>2, <1>3, <1>4, <1>5, <1>6, <1>7, <1>8, <1>9, <1>10, <1>11, <1>12, <1>13, <1>14, <1>15, <1>16, <1>17, <1>18, <1>19, <1>20, <1>21, <1>22, <1>23
  DEF ClientStep

\* So does a client's step of a new investigation.
LEMMA ClientCallerKeeps ==
    ASSUME TypeOK, LInv, NEW c \in Client, CallerStep(c)
    PROVE  LInv'
<1>a. Pins(c) /\ SmokeRecordFits
  BY DEF LInv, LockPins
<1>1. CASE ClearArtifacts(c)
  <2>1. /\ co[c].at = "clear" /\ co'[c].at \in {"unlink"}
        /\ daemon' = daemon /\ \A q \in Proc \ {c} : co'[q] = co[q]
        /\ inc'.status = inc.status /\ inc'.smoke = inc.smoke
    BY <1>1, ProcFacts, GotoEffect, DispatchEffect, EdgeFacts
    DEF ClearArtifacts, At, TypeOK, Local, Incident
  <2>2. Locked(c)
    BY <1>1, <2>1 DEF ClearArtifacts, Locked
  <2>3. Pins(c)' /\ SmokeRecordFits'
    BY <2>1, <1>a DEF Pins, InSmoke, SmokeRecordFits
  <2> QED
    BY <2>1, <2>2, <2>3, ProcFacts, ClientFrame
<1>2. CASE UnlinkDiff(c)
  <2>1. /\ co[c].at = "unlink" /\ co'[c].at \in {"dispatch"}
        /\ daemon' = daemon /\ \A q \in Proc \ {c} : co'[q] = co[q]
        /\ inc'.status = inc.status /\ inc'.smoke = inc.smoke
    BY <1>2, ProcFacts, GotoEffect, DispatchEffect, EdgeFacts
    DEF UnlinkDiff, At, TypeOK, Local
  <2>2. Locked(c)
    BY <1>2, <2>1 DEF UnlinkDiff, Locked
  <2>3. Pins(c)' /\ SmokeRecordFits'
    BY <2>1, <1>a DEF Pins, InSmoke, SmokeRecordFits
  <2> QED
    BY <2>1, <2>2, <2>3, ProcFacts, ClientFrame
<1>3. CASE Reinvestigate(c)
  <2>1. /\ co[c].at = "dispatch" /\ co'[c].at \in {"create", "idle"}
        /\ daemon' = daemon /\ \A q \in Proc \ {c} : co'[q] = co[q]
        /\ inc'.smoke = inc.smoke
    BY <1>3, ProcFacts, GotoEffect, DispatchEffect, EdgeFacts
    DEF Reinvestigate, At, TypeOK, Local
  <2>2. Locked(c)
    BY <1>3, <2>1 DEF Reinvestigate, Locked
  <2>3. Pins(c)' /\ SmokeRecordFits'
    BY <2>1, <1>a DEF Pins, InSmoke, SmokeRecordFits
  <2> QED
    BY <2>1, <2>2, <2>3, ProcFacts, ClientFrame
<1>4. CASE CreateRun(c)
  <2>1. /\ co[c].at = "create" /\ co'[c].at \in {"mark"}
        /\ daemon' = daemon /\ \A q \in Proc \ {c} : co'[q] = co[q]
        /\ inc'.status = inc.status /\ inc'.smoke = inc.smoke
    BY <1>4, ProcFacts, GotoEffect, DispatchEffect, EdgeFacts
    DEF CreateRun, At, TypeOK, Local
  <2>2. Locked(c)
    BY <1>4, <2>1 DEF CreateRun, Locked
  <2>3. Pins(c)' /\ SmokeRecordFits'
    BY <2>1, <1>a DEF Pins, InSmoke, SmokeRecordFits
  <2> QED
    BY <2>1, <2>2, <2>3, ProcFacts, ClientFrame
<1>5. CASE MarkRun(c)
  <2>1. Spawn(c, "idle", co[c].run) /\ co[c].at = "mark" /\ daemon' = daemon
    BY <1>5, ProcFacts DEF MarkRun, At
  <2>2. PICK t \in Runtime :
           co' = [co EXCEPT ![c] = [Idle EXCEPT !.at = "idle"],
                            ![t] = [Idle EXCEPT !.at = "start", !.run = co[c].run]]
    BY <2>1 DEF Spawn
  <2>3. co'[c].at = "idle" /\ \A q \in Proc \ {c, t} : co'[q] = co[q]
    BY <2>2, ProcFacts DEF TypeOK, Idle
  <2>4. inc'.status = inc.status /\ inc'.smoke = inc.smoke
    BY <1>5 DEF MarkRun, TypeOK, Incident
  <2>5. Pins(c)' /\ SmokeRecordFits'
    BY <2>1, <2>3, <2>4, <1>a DEF Pins, InSmoke, SmokeRecordFits
  <2>6. Locked(c)
    BY <2>1 DEF Locked
  <2> QED
    BY <2>1, <2>3, <2>5, <2>6, ProcFacts, ClientFrame
<1> QED
  BY <1>1, <1>2, <1>3, <1>4, <1>5 DEF CallerStep

\* A diagnosis task changes the status only of an incident being diagnosed.
LEMMA TaskFrame ==
    ASSUME TypeOK, LInv, NEW t \in Runtime, CanRun(t), co[t].at # "idle",
           daemon' = daemon, observers' = observers, inc'.smoke = inc.smoke,
           inc'.status = inc.status \/ inc.status = "diagnosing",
           \A q \in Proc \ {t} : co'[q] = co[q]
    PROVE  LInv'
<1>1. co'[Monitor] = co[Monitor] /\ \A c \in Client : co'[c] = co[c]
  BY ProcFacts
<1>2. daemon # "down" /\ co[Monitor].at \in Await
  BY ProcFacts DEF CanRun
<1>3. NobodyServed' /\ RecoveryRuns' /\ MonitorEvent' /\ LockExclusive'
  BY <1>1, <1>2 DEF LInv, NobodyServed, RecoveryRuns, MonitorEvent, LockExclusive, Locked
<1>4. ~(daemon = "recovering" /\ co[Monitor].at \in HandlingLabel \cup {"reap", "reopen"})
  BY DEF LInv, NoTaskYet
<1>5. NoTaskYet'
  BY <1>1, <1>4 DEF NoTaskYet
<1>6. LockPins'
  <2> SUFFICES ASSUME NEW c \in Client PROVE Pins(c)'
    BY DEF LockPins
  <2>1. Pins(c) /\ co'[c] = co[c]
    BY <1>1 DEF LInv, LockPins
  <2> QED
    BY <2>1 DEF Pins, InSmoke
<1>7. SmokeRecordFits'
  BY DEF LInv, SmokeRecordFits, InSmoke
<1>8. co[Monitor].at # "unresolve"
  BY <1>2, SectionLabels
<1>9. QuarantineFits'
  BY <1>1, <1>8 DEF LInv, QuarantineFits
<1> QED
  BY <1>3, <1>5, <1>6, <1>7, <1>9 DEF LInv

\* A step of a diagnosis task keeps the invariant.
LEMMA TaskKeeps ==
    ASSUME TypeOK, LInv, NEW t \in Runtime, TaskStep(t)
    PROVE  LInv'
<1>1. CASE TaskStart(t)
  <2>1. /\ CanRun(t) /\ co[t].at # "idle" /\ daemon' = daemon /\ observers' = observers
        /\ inc'.smoke = inc.smoke /\ (inc'.status = inc.status)
        /\ \A q \in Proc \ {t} : co'[q] = co[q]
    BY <1>1, ProcFacts, GotoEffect
    DEF TaskStart, At, supervisor, TypeOK, Incident
  <2> QED
    BY <2>1, TaskFrame
<1>2. CASE SubmitDiagnosis(t)
  <2>1. /\ CanRun(t) /\ co[t].at # "idle" /\ daemon' = daemon /\ observers' = observers
        /\ inc'.smoke = inc.smoke /\ (inc'.status = inc.status)
        /\ \A q \in Proc \ {t} : co'[q] = co[q]
    BY <1>2, ProcFacts, GotoEffect
    DEF SubmitDiagnosis, At, supervisor, TypeOK, Incident
  <2> QED
    BY <2>1, TaskFrame
<1>3. CASE ProposeDiff(t)
  <2>1. /\ CanRun(t) /\ co[t].at # "idle" /\ daemon' = daemon /\ observers' = observers
        /\ inc'.smoke = inc.smoke /\ (inc'.status = inc.status)
        /\ \A q \in Proc \ {t} : co'[q] = co[q]
    BY <1>3, ProcFacts, GotoEffect
    DEF ProposeDiff, At, supervisor, TypeOK, Incident
  <2> QED
    BY <2>1, TaskFrame
<1>4. CASE ProposeMeta(t)
  <2>1. /\ CanRun(t) /\ co[t].at # "idle" /\ daemon' = daemon /\ observers' = observers
        /\ inc'.smoke = inc.smoke /\ (inc'.status = inc.status)
        /\ \A q \in Proc \ {t} : co'[q] = co[q]
    BY <1>4, ProcFacts, GotoEffect
    DEF ProposeMeta, At, supervisor, TypeOK, Incident
  <2> QED
    BY <2>1, TaskFrame
<1>5. CASE Preflight(t)
  <2>1. /\ CanRun(t) /\ co[t].at # "idle" /\ daemon' = daemon /\ observers' = observers
        /\ inc'.smoke = inc.smoke /\ (inc'.status = inc.status)
        /\ \A q \in Proc \ {t} : co'[q] = co[q]
    BY <1>5, ProcFacts, GotoEffect
    DEF Preflight, At, supervisor, TypeOK, Incident
  <2> QED
    BY <2>1, TaskFrame
<1>6. CASE Unpropose(t)
  <2>1. /\ CanRun(t) /\ co[t].at # "idle" /\ daemon' = daemon /\ observers' = observers
        /\ inc'.smoke = inc.smoke /\ (inc'.status = inc.status)
        /\ \A q \in Proc \ {t} : co'[q] = co[q]
    BY <1>6, ProcFacts, GotoEffect
    DEF Unpropose, At, supervisor, TypeOK, Incident
  <2> QED
    BY <2>1, TaskFrame
<1>7. CASE AgentEnd(t)
  <2>1. /\ CanRun(t) /\ co[t].at # "idle" /\ daemon' = daemon /\ observers' = observers
        /\ inc'.smoke = inc.smoke /\ (inc'.status = inc.status)
        /\ \A q \in Proc \ {t} : co'[q] = co[q]
    BY <1>7, ProcFacts, GotoEffect
    DEF AgentEnd, At, supervisor, TypeOK, Incident
  <2> QED
    BY <2>1, TaskFrame
<1>8. CASE FinishRun(t)
  <2>1. /\ CanRun(t) /\ co[t].at # "idle" /\ daemon' = daemon /\ observers' = observers
        /\ inc'.smoke = inc.smoke /\ (inc'.status = inc.status)
        /\ \A q \in Proc \ {t} : co'[q] = co[q]
    BY <1>8, ProcFacts, GotoEffect
    DEF FinishRun, At, supervisor, TypeOK, Incident
  <2> QED
    BY <2>1, TaskFrame
<1>9. CASE TaskRaises(t)
  <2>1. /\ CanRun(t) /\ co[t].at # "idle" /\ daemon' = daemon /\ observers' = observers
        /\ inc'.smoke = inc.smoke /\ (inc'.status = inc.status \/ inc.status = "diagnosing")
        /\ \A q \in Proc \ {t} : co'[q] = co[q]
    BY <1>9, ProcFacts, GotoEffect, DispatchEffect, EdgeFacts
    DEF TaskRaises, At, supervisor, TypeOK, Incident, GiveUp
  <2> QED
    BY <2>1, TaskFrame
<1>10. CASE TaskTail(t)
  <2>1. /\ CanRun(t) /\ co[t].at # "idle" /\ daemon' = daemon /\ observers' = observers
        /\ inc'.smoke = inc.smoke /\ (inc'.status = inc.status \/ inc.status = "diagnosing")
        /\ \A q \in Proc \ {t} : co'[q] = co[q]
    BY <1>10, ProcFacts, GotoEffect, DispatchEffect, EdgeFacts
    DEF TaskTail, At, supervisor, TypeOK, Incident, GiveUp
  <2> QED
    BY <2>1, TaskFrame
<1>11. CASE TaskDone(t)
  <2>1. /\ CanRun(t) /\ co[t].at # "idle" /\ daemon' = daemon /\ observers' = observers
        /\ inc'.smoke = inc.smoke /\ (inc'.status = inc.status \/ inc.status = "diagnosing")
        /\ \A q \in Proc \ {t} : co'[q] = co[q]
    BY <1>11, ProcFacts, GotoEffect, DispatchEffect, EdgeFacts
    DEF TaskDone, At, supervisor, TypeOK, Incident
  <2> QED
    BY <2>1, TaskFrame
<1> QED
  BY <1>1, <1>2, <1>3, <1>4, <1>5, <1>6, <1>7, <1>8, <1>9, <1>10, <1>11 DEF TaskStep

\* A step of the monitor leaves the clients and the smoke record alone, and the
\* status of an incident a client works on.
LEMMA MonitorFrame ==
    ASSUME TypeOK, LInv, daemon' = daemon, observers' = observers,
           \A c \in Client : co'[c] = co[c],
           inc'.smoke = inc.smoke, inc'.status = inc.status \/ ~InSmoke,
           RecoveryRuns', NoTaskYet', MonitorEvent', QuarantineFits'
    PROVE  LInv'
<1>1. NobodyServed' /\ LockExclusive'
  BY DEF LInv, NobodyServed, LockExclusive, Locked
<1>2. LockPins'
  <2> SUFFICES ASSUME NEW c \in Client PROVE Pins(c)'
    BY DEF LockPins
  <2>1. Pins(c) /\ co'[c] = co[c]
    BY DEF LInv, LockPins
  <2> QED
    BY <2>1 DEF Pins, InSmoke
<1>3. SmokeRecordFits'
  BY DEF LInv, SmokeRecordFits, InSmoke
<1> QED
  BY <1>1, <1>2, <1>3 DEF LInv

\* A step of the monitor that moves along the labels of a failure's handling.
LEMMA MonitorMove ==
    ASSUME TypeOK, LInv, daemon' = daemon, observers' = observers,
           daemon # "down", co[Monitor].at \notin RecoveryLabel,
           \A q \in Proc \ {Monitor} : co'[q] = co[q],
           \/ co'[Monitor].at \in HandlingLabel
           \/ co'[Monitor].at = Return(Monitor)
           \/ co'[Monitor].at \in {"seal", "idle"} /\ co[Monitor].at \notin HandlingLabel,
           inc'.smoke = inc.smoke, inc'.status = inc.status \/ ~InSmoke,
           MonitorEvent'
    PROVE  LInv'
<1>1. daemon = "recovering" => co[Monitor].at \in HandlingLabel
  BY DEF LInv, RecoveryRuns
<1>2. RecoveryRuns'
  BY <1>1 DEF RecoveryRuns, Return, RecoveryLabel, HandlingLabel
<1>3. NoTaskYet'
  BY <1>1, ProcFacts DEF LInv, NoTaskYet
<1>4. co'[Monitor].at \notin {"terminate", "unresolve"}
  BY DEF Return, HandlingLabel
<1>5. QuarantineFits'
  BY <1>4 DEF QuarantineFits
<1> QED
  BY <1>2, <1>3, <1>5, ProcFacts, MonitorFrame

\* A step of the monitor keeps the invariant.
LEMMA MonitorKeeps ==
    ASSUME TypeOK, LInv, MonitorStep \/ CallerStep(Monitor)
    PROVE  LInv'
<1>1. CASE MonitorFailure
  <2>1. /\ daemon # "down" /\ co[Monitor].at = "watch" /\ daemon' = daemon /\ observers' = observers
        /\ co'[Monitor].at \in {"seal"}
        /\ inc'.smoke = inc.smoke /\ inc'.status = inc.status
        /\ \A q \in Proc \ {Monitor} : co'[q] = co[q]
    BY <1>1, ProcFacts, GotoEffect
    DEF MonitorFailure, At, CanRun, supervisor, TypeOK, Incident, Local
  <2>2. MonitorEvent'
    BY <1>1, <2>1, ProcFacts, GotoEffect
    DEF MonitorFailure, LInv, MonitorEvent, Return, TypeOK, Local
  <2> QED
    BY <2>1, <2>2, MonitorMove DEF RecoveryLabel, HandlingLabel, InSmoke
<1>2. CASE MonitorSeal
  <2>1. /\ daemon # "down" /\ co[Monitor].at = "seal" /\ daemon' = daemon /\ observers' = observers
        /\ co'[Monitor].at \in {"capsule", "idle"}
        /\ inc'.smoke = inc.smoke /\ inc'.status = inc.status
        /\ \A q \in Proc \ {Monitor} : co'[q] = co[q]
    BY <1>2, ProcFacts, GotoEffect
    DEF MonitorSeal, At, CanRun, supervisor, TypeOK, Incident, Local
  <2>2. MonitorEvent'
    BY <1>2, <2>1, ProcFacts, GotoEffect
    DEF MonitorSeal, LInv, MonitorEvent, Return, TypeOK, Local
  <2> QED
    BY <2>1, <2>2, MonitorMove DEF RecoveryLabel, HandlingLabel, InSmoke
<1>3. CASE WriteCapsule
  <2>1. /\ daemon # "down" /\ co[Monitor].at = "capsule" /\ daemon' = daemon /\ observers' = observers
        /\ co'[Monitor].at \in {"failure"}
        /\ inc'.smoke = inc.smoke /\ inc'.status = inc.status
        /\ \A q \in Proc \ {Monitor} : co'[q] = co[q]
    BY <1>3, ProcFacts, GotoEffect
    DEF WriteCapsule, At, CanRun, supervisor, TypeOK, Incident, Local
  <2>2. MonitorEvent'
    BY <1>3, <2>1, ProcFacts, GotoEffect
    DEF WriteCapsule, LInv, MonitorEvent, Return, TypeOK, Local
  <2> QED
    BY <2>1, <2>2, MonitorMove DEF RecoveryLabel, HandlingLabel, InSmoke
<1>4. CASE HandleFailure
  <2>1. /\ daemon # "down" /\ co[Monitor].at = "failure" /\ daemon' = daemon /\ observers' = observers
        /\ co'[Monitor].at \in {"lock", "create", Return(Monitor)}
        /\ inc'.smoke = inc.smoke /\ (inc'.status = inc.status \/ inc.status = "none")
        /\ \A q \in Proc \ {Monitor} : co'[q] = co[q]
    <3>1. daemon # "down" /\ co[Monitor].at = "failure" /\ daemon' = daemon /\ observers' = observers
      BY <1>4 DEF HandleFailure, At, CanRun, supervisor
    <3>2. \E l \in {"lock", "create", Return(Monitor)} : Goto(Monitor, l)
      BY <1>4 DEF HandleFailure
    <3>3. /\ co'[Monitor].at \in {"lock", "create", Return(Monitor)}
          /\ \A q \in Proc \ {Monitor} : co'[q] = co[q]
      BY <3>2, ProcFacts, GotoEffect
    <3>4. inc'.smoke = inc.smoke /\ (inc'.status = inc.status \/ inc.status = "none")
      BY <1>4 DEF HandleFailure, TypeOK, Incident
    <3> QED
      BY <3>1, <3>3, <3>4
  <2>2. MonitorEvent'
    BY <2>1 DEF MonitorEvent, Return
  <2> QED
    BY <2>1, <2>2, MonitorMove DEF RecoveryLabel, HandlingLabel, InSmoke
<1>5. CASE RetryFailed
  <2>1. /\ daemon # "down" /\ co[Monitor].at = "lock" /\ daemon' = daemon /\ observers' = observers
        /\ co'[Monitor].at \in {"clear"}
        /\ inc'.smoke = inc.smoke /\ inc'.status = inc.status
        /\ \A q \in Proc \ {Monitor} : co'[q] = co[q]
    BY <1>5, ProcFacts, GotoEffect
    DEF RetryFailed, At, CanRun, supervisor, TypeOK, Incident, Local
  <2>2. MonitorEvent'
    BY <1>5, <2>1, ProcFacts, GotoEffect
    DEF RetryFailed, LInv, MonitorEvent, Return, TypeOK, Local
  <2> QED
    BY <2>1, <2>2, MonitorMove DEF RecoveryLabel, HandlingLabel, InSmoke
<1>6. CASE ClearArtifacts(Monitor)
  <2>1. /\ daemon # "down" /\ co[Monitor].at = "clear" /\ daemon' = daemon /\ observers' = observers
        /\ co'[Monitor].at \in {"unlink"}
        /\ inc'.smoke = inc.smoke /\ inc'.status = inc.status
        /\ \A q \in Proc \ {Monitor} : co'[q] = co[q]
    BY <1>6, ProcFacts, GotoEffect
    DEF ClearArtifacts, At, CanRun, supervisor, TypeOK, Incident, Local
  <2>2. MonitorEvent'
    BY <1>6, <2>1, ProcFacts, GotoEffect
    DEF ClearArtifacts, LInv, MonitorEvent, Return, TypeOK, Local
  <2> QED
    BY <2>1, <2>2, MonitorMove DEF RecoveryLabel, HandlingLabel, InSmoke
<1>7. CASE UnlinkDiff(Monitor)
  <2>1. /\ daemon # "down" /\ co[Monitor].at = "unlink" /\ daemon' = daemon /\ observers' = observers
        /\ co'[Monitor].at \in {"dispatch"}
        /\ inc'.smoke = inc.smoke /\ inc'.status = inc.status
        /\ \A q \in Proc \ {Monitor} : co'[q] = co[q]
    BY <1>7, ProcFacts, GotoEffect
    DEF UnlinkDiff, At, CanRun, supervisor, TypeOK, Incident, Local
  <2>2. MonitorEvent'
    BY <1>7, <2>1, ProcFacts, GotoEffect
    DEF UnlinkDiff, LInv, MonitorEvent, Return, TypeOK, Local
  <2> QED
    BY <2>1, <2>2, MonitorMove DEF RecoveryLabel, HandlingLabel, InSmoke
<1>8. CASE Reinvestigate(Monitor)
  <2>0. co[Monitor].ev = "RETRY_FAILED"
    BY <1>8 DEF Reinvestigate, At, LInv, MonitorEvent
  <2>1. /\ daemon # "down" /\ co[Monitor].at = "dispatch" /\ daemon' = daemon /\ observers' = observers
        /\ co'[Monitor].at \in {"create", Return(Monitor)}
        /\ inc'.smoke = inc.smoke /\ (inc'.status = inc.status \/ inc.status = "retry_running")
        /\ \A q \in Proc \ {Monitor} : co'[q] = co[q]
    BY <1>8, <2>0, ProcFacts, GotoEffect, DispatchEffect, EdgeFacts
    DEF Reinvestigate, At, CanRun, supervisor, TypeOK, Incident, Local
  <2>2. MonitorEvent'
    BY <1>8, <2>1, ProcFacts, GotoEffect
    DEF Reinvestigate, LInv, MonitorEvent, Return, TypeOK, Local
  <2> QED
    BY <2>1, <2>2, MonitorMove DEF RecoveryLabel, HandlingLabel, InSmoke
<1>9. CASE CreateRun(Monitor)
  <2>1. /\ daemon # "down" /\ co[Monitor].at = "create" /\ daemon' = daemon /\ observers' = observers
        /\ co'[Monitor].at \in {"mark"}
        /\ inc'.smoke = inc.smoke /\ inc'.status = inc.status
        /\ \A q \in Proc \ {Monitor} : co'[q] = co[q]
    BY <1>9, ProcFacts, GotoEffect
    DEF CreateRun, At, CanRun, supervisor, TypeOK, Incident, Local
  <2>2. MonitorEvent'
    BY <1>9, <2>1, ProcFacts, GotoEffect
    DEF CreateRun, LInv, MonitorEvent, Return, TypeOK, Local
  <2> QED
    BY <2>1, <2>2, MonitorMove DEF RecoveryLabel, HandlingLabel, InSmoke
<1>10. CASE MarkRun(Monitor)
  <2> DEFINE next == Return(Monitor)
  <2>1. /\ co[Monitor].at = "mark" /\ daemon # "down" /\ Spawn(Monitor, next, co[Monitor].run)
        /\ daemon' = daemon /\ observers' = observers
        /\ inc'.status = inc.status /\ inc'.smoke = inc.smoke
    BY <1>10 DEF MarkRun, At, CanRun, supervisor, TypeOK, Incident
  <2>2. next = IF daemon = "recovering" THEN "incidents" ELSE "idle"
    BY DEF Return
  <2> HIDE DEF next
  <2>3. PICK t \in Runtime :
           co' = [co EXCEPT ![Monitor] = [Idle EXCEPT !.at = next],
                            ![t] = [Idle EXCEPT !.at = "start", !.run = co[Monitor].run]]
    BY <2>1 DEF Spawn
  <2>4. co'[Monitor].at = next /\ \A q \in Proc \ {Monitor, t} : co'[q] = co[q]
    BY <2>3, ProcFacts DEF TypeOK, Idle
  <2>5. \A c \in Client : co'[c] = co[c]
    BY <2>4, ProcFacts
  <2>6. RecoveryRuns' /\ NoTaskYet' /\ MonitorEvent' /\ QuarantineFits'
    BY <2>1, <2>2, <2>4
    DEF RecoveryRuns, NoTaskYet, MonitorEvent, QuarantineFits, RecoveryLabel, HandlingLabel
  <2> QED
    BY <2>1, <2>5, <2>6, MonitorFrame
<1> QED
  BY <1>1, <1>2, <1>3, <1>4, <1>5, <1>6, <1>7, <1>8, <1>9, <1>10 DEF MonitorStep, CallerStep

\* A step of recovery runs alone: there are no requests and no observers.
LEMMA RecoveryFrame ==
    ASSUME TypeOK, LInv, co[Monitor].at \in RecoveryLabel, observers' = observers,
           \A c \in Client : co'[c] = co[c],
           RecoveryRuns', NoTaskYet', MonitorEvent', SmokeRecordFits', QuarantineFits'
    PROVE  LInv'
<1>1. observers = {} /\ \A c \in Client : co[c].at = "idle"
  BY DEF LInv, RecoveryRuns, NobodyServed
<1>2. NobodyServed' /\ LockExclusive' /\ LockPins'
  BY <1>1 DEF NobodyServed, LockExclusive, LockPins, Locked, Pins
<1> QED
  BY <1>2 DEF LInv

\* A step of recovery keeps the invariant.
LEMMA RecoveryKeeps ==
    ASSUME TypeOK, LInv, RecoveryStep
    PROVE  LInv'
<1>a. SmokeRecordFits /\ QuarantineFits /\ NoTaskYet
  BY DEF LInv
<1>b. co[Monitor].at \in RecoveryLabel => daemon = "recovering"
  BY DEF LInv, RecoveryRuns
<1> DEFINE Parts == RecoveryRuns /\ NoTaskYet /\ MonitorEvent /\ SmokeRecordFits /\ QuarantineFits
<1>1. CASE RecoverInterrupted
  <2>1. /\ co[Monitor].at = "reap" /\ co'[Monitor].at = "reopen" /\ daemon' = daemon
        /\ observers' = observers /\ inc' = inc
        /\ \A q \in Proc \ {Monitor} : co'[q] = co[q]
    BY <1>1, ProcFacts, GotoEffect DEF RecoverInterrupted, At
  <2>2. Parts'
    BY <2>1, <1>a, <1>b, ProcFacts
    DEF RecoveryRuns, NoTaskYet, MonitorEvent, SmokeRecordFits, QuarantineFits,
        RecoveryLabel, HandlingLabel, InSmoke
  <2> QED
    BY <2>1, <2>2, ProcFacts, RecoveryFrame DEF RecoveryLabel
<1>2. CASE RecoverFailure
  <2>1. /\ co[Monitor].at = "reopen" /\ co'[Monitor].at \in {"capsule", "incidents"}
        /\ daemon' = daemon /\ observers' = observers /\ inc' = inc
        /\ \A q \in Proc \ {Monitor} : co'[q] = co[q]
    BY <1>2, ProcFacts, GotoEffect DEF RecoverFailure, At, supervisor
  <2>2. Parts'
    BY <2>1, <1>a, <1>b, ProcFacts
    DEF RecoveryRuns, NoTaskYet, MonitorEvent, SmokeRecordFits, QuarantineFits,
        RecoveryLabel, HandlingLabel, InSmoke
  <2> QED
    BY <2>1, <2>2, ProcFacts, RecoveryFrame DEF RecoveryLabel
<1>3. CASE RecoverIncident
  <2>1. /\ co[Monitor].at = "incidents" /\ observers' = observers
        /\ inc'.smoke = inc.smoke
        /\ \A q \in Proc \ {Monitor} : co'[q] = co[q]
        /\ \/ /\ co'[Monitor].at = "terminate" /\ inc.smoke = "running"
              /\ daemon' = daemon /\ inc' = inc
           \/ /\ co'[Monitor].at = "unresolve" /\ inc.smoke # "running"
              /\ daemon' = daemon /\ inc'.status = inc.status
              /\ RecoverAction(inc.status) = "quarantine"
           \/ co'[Monitor].at = "idle" /\ inc.smoke # "running" /\ daemon' = "up"
    BY <1>3, ProcFacts, GotoEffect
    DEF RecoverIncident, Serve, At, supervisor, TypeOK, Incident
  <2>2. Parts'
    BY <2>1, <1>a, <1>b
    DEF RecoveryRuns, NoTaskYet, MonitorEvent, SmokeRecordFits, QuarantineFits,
        RecoveryLabel, HandlingLabel, InSmoke
  <2> QED
    BY <2>1, <2>2, ProcFacts, RecoveryFrame DEF RecoveryLabel
<1>4. CASE RecoverDiagnosing
  <2>1. /\ co[Monitor].at = "incidents" /\ observers' = observers /\ daemon' = "up"
        /\ inc' = inc
        /\ Goto(Monitor, "create") \/ Spawn(Monitor, "idle", inc.run)
    BY <1>4 DEF RecoverDiagnosing, At, supervisor
  <2>2. co'[Monitor].at \in {"idle", "create"} /\ \A c \in Client : co'[c] = co[c]
    <3>1. CASE Goto(Monitor, "create")
      BY <3>1, ProcFacts, GotoEffect
    <3>2. CASE Spawn(Monitor, "idle", inc.run)
      <4>1. PICK t \in Runtime :
               co' = [co EXCEPT ![Monitor] = [Idle EXCEPT !.at = "idle"],
                                ![t] = [Idle EXCEPT !.at = "start", !.run = inc.run]]
        BY <3>2 DEF Spawn
      <4> QED
        BY <4>1, ProcFacts DEF TypeOK, Idle
    <3> QED
      BY <2>1, <3>1, <3>2
  <2>3. Parts'
    BY <2>1, <2>2, <1>a
    DEF RecoveryRuns, NoTaskYet, MonitorEvent, SmokeRecordFits, QuarantineFits,
        RecoveryLabel, HandlingLabel, InSmoke
  <2> QED
    BY <2>1, <2>2, <2>3, RecoveryFrame DEF RecoveryLabel
<1>5. CASE RecoverSmoke
  <2>1. /\ co[Monitor].at = "terminate" /\ observers' = observers
        /\ \A q \in Proc \ {Monitor} : co'[q] = co[q]
        /\ \/ /\ co'[Monitor].at = "unresolve" /\ inc'.smoke = "interrupted"
              /\ daemon' = daemon /\ inc'.status = inc.status
           \/ co'[Monitor].at = "idle" /\ daemon' = "up" /\ inc' = inc
    BY <1>5, ProcFacts, GotoEffect DEF RecoverSmoke, Serve, At, supervisor, TypeOK, Incident
  <2>2. InSmoke
    BY <2>1, <1>a DEF QuarantineFits, SmokeRecordFits
  <2>3. RecoverAction(inc.status) = "quarantine"
    BY <2>2 DEF InSmoke, RecoverAction
  <2>4. Parts'
    BY <2>1, <2>3, <1>a, <1>b
    DEF RecoveryRuns, NoTaskYet, MonitorEvent, SmokeRecordFits, QuarantineFits,
        RecoveryLabel, HandlingLabel, InSmoke
  <2> QED
    BY <2>1, <2>4, ProcFacts, RecoveryFrame DEF RecoveryLabel
<1>6. CASE Unresolve
  <2>1. /\ co[Monitor].at = "unresolve" /\ observers' = observers
        /\ \A q \in Proc \ {Monitor} : co'[q] = co[q]
        /\ co'[Monitor].at = "idle" /\ daemon' = "up" /\ inc'.smoke = inc.smoke
    BY <1>6, ProcFacts, GotoEffect DEF Unresolve, Serve, At, supervisor, TypeOK, Incident
  <2>2. Parts'
    BY <2>1, <1>a
    DEF RecoveryRuns, NoTaskYet, MonitorEvent, SmokeRecordFits, QuarantineFits,
        RecoveryLabel, HandlingLabel, InSmoke
  <2> QED
    BY <2>1, <2>2, ProcFacts, RecoveryFrame DEF RecoveryLabel
<1> QED
  BY <1>1, <1>2, <1>3, <1>4, <1>5, <1>6 DEF RecoveryStep

\* What the invariant does not read may change.
LEMMA StutterKeeps ==
    ASSUME LInv, UNCHANGED <<daemon, co, observers, inc>>
    PROVE  LInv'
BY DEF LInv, NobodyServed, RecoveryRuns, NoTaskYet, MonitorEvent, LockExclusive, Locked,
       LockPins, Pins, InSmoke, SmokeRecordFits, QuarantineFits

\* A request, a crash, a stop and a restart keep the invariant.
LEMMA EnvironmentKeeps ==
    ASSUME TypeOK, LInv, Environment
    PROVE  LInv'
<1>1. CASE \E c \in Client : SendRequest(c)
  <2>1. PICK c \in Client : SendRequest(c)
    BY <1>1
  <2>2. /\ daemon = "up" /\ daemon' = daemon /\ co[c].at = "idle" /\ co'[c].at = "wait"
        /\ inc' = inc /\ observers' = observers
        /\ \A q \in Proc \ {c} : co'[q] = co[q]
    BY <2>1, ProcFacts DEF SendRequest, supervisor, TypeOK, Idle
  <2>3. co'[Monitor] = co[Monitor] /\ \A d \in Client \ {c} : co'[d] = co[d]
    BY <2>2, ProcFacts
  <2>4. NobodyServed' /\ NoTaskYet' /\ RecoveryRuns' /\ MonitorEvent' /\ QuarantineFits'
    BY <2>2, <2>3
    DEF LInv, NobodyServed, NoTaskYet, RecoveryRuns, MonitorEvent, QuarantineFits
  <2>5. ~Locked(c)' /\ \A d \in Client \ {c} : Locked(d)' => Locked(d)
    BY <2>2, <2>3 DEF Locked
  <2>6. LockExclusive'
    BY <2>5 DEF LInv, LockExclusive
  <2>7. LockPins'
    BY <2>2, <2>3 DEF LInv, LockPins, Pins, InSmoke
  <2>8. SmokeRecordFits'
    BY <2>2 DEF LInv, SmokeRecordFits, InSmoke
  <2> QED
    BY <2>4, <2>6, <2>7, <2>8 DEF LInv
<1>2. CASE Cancel \/ LogFails \/ TrainingExit \/ SmokeExit \/ SmokeRestExit \/ UserEdit
  <2>1. UNCHANGED <<daemon, co, observers, inc>>
    BY <1>2 DEF Cancel, LogFails, TrainingExit, SmokeExit, SmokeRestExit, UserEdit, supervisor
  <2> QED
    BY <2>1, StutterKeeps
<1>3. CASE Crash
  <2>1. daemon' = "down" /\ observers' = {} /\ inc' = inc /\ \A p \in Proc : co'[p].at = "idle"
    BY <1>3 DEF Crash, Idle
  <2> QED
    BY <2>1, ProcFacts
    DEF LInv, NobodyServed, RecoveryRuns, NoTaskYet, MonitorEvent, LockExclusive, Locked,
        LockPins, Pins, InSmoke, SmokeRecordFits, QuarantineFits, RecoveryLabel
<1>4. CASE StopStarting
  <2>1. daemon = "up" /\ daemon' = "stopping" /\ UNCHANGED <<co, observers, inc>>
    BY <1>4 DEF StopStarting, supervisor
  <2> QED
    BY <2>1
    DEF LInv, NobodyServed, RecoveryRuns, NoTaskYet, MonitorEvent, LockExclusive, Locked,
        LockPins, Pins, InSmoke, SmokeRecordFits, QuarantineFits
<1>5. CASE Close
  <2>1. /\ daemon = "stopping" /\ daemon' = daemon /\ inc' = inc
        /\ \A q \in Proc \ Runtime : co'[q] = co[q]
    BY <1>5 DEF Close
  <2>2. co'[Monitor] = co[Monitor] /\ \A c \in Client : co'[c] = co[c]
    BY <2>1, ProcFacts
  <2> QED
    BY <2>1, <2>2
    DEF LInv, NobodyServed, RecoveryRuns, NoTaskYet, MonitorEvent, LockExclusive, Locked,
        LockPins, Pins, InSmoke, SmokeRecordFits, QuarantineFits
<1>6. CASE Restart
  <2>1. /\ daemon = "down" /\ daemon' = "recovering" /\ inc' = inc /\ observers' = observers
        /\ co'[Monitor].at = "reap" /\ \A q \in Proc \ {Monitor} : co'[q] = co[q]
    BY <1>6, ProcFacts, GotoEffect DEF Restart, supervisor
  <2>2. observers = {} /\ \A p \in Proc : co[p].at = "idle"
    BY <2>1 DEF LInv, NobodyServed, RecoveryRuns
  <2>3. \A q \in Proc \ {Monitor} : co'[q].at = "idle"
    BY <2>1, <2>2
  <2> QED
    BY <2>1, <2>2, <2>3, ProcFacts
    DEF LInv, NobodyServed, RecoveryRuns, NoTaskYet, MonitorEvent, LockExclusive, Locked,
        LockPins, Pins, InSmoke, SmokeRecordFits, QuarantineFits, RecoveryLabel,
        HandlingLabel
<1> QED
  BY <1>1, <1>2, <1>3, <1>4, <1>5, <1>6 DEF Environment

\* The observer of a retry changes only the status of a running retry.
LEMMA ObserveEffect ==
    ASSUME TypeOK, NEW a \in Attempts, Observe(a)
    PROVE  /\ a \in observers /\ daemon' = daemon /\ co' = co /\ inc'.smoke = inc.smoke
           /\ \/ inc'.status = inc.status
              \/ /\ inc.status = "retry_running"
                 /\ \E e \in {"RETRY_SUCCEEDED", "RETRY_ABORTED"} :
                        inc'.status = Target(inc.status, e)
BY DEF Observe, TypeOK, Incident

LEMMA ObserveKeeps ==
    ASSUME TypeOK, LInv, NEW a \in Attempts, Observe(a)
    PROVE  LInv'
<1>1. /\ a \in observers /\ daemon' = daemon /\ co' = co /\ inc'.smoke = inc.smoke
      /\ inc'.status = inc.status \/ inc.status = "retry_running"
  BY ObserveEffect
<1>2. daemon \notin {"down", "recovering"}
  BY <1>1 DEF LInv, NobodyServed
<1>3. NobodyServed' /\ RecoveryRuns' /\ NoTaskYet' /\ MonitorEvent' /\ LockExclusive'
  BY <1>1, <1>2
  DEF LInv, NobodyServed, RecoveryRuns, NoTaskYet, MonitorEvent, LockExclusive, Locked
<1>4. LockPins'
  <2> SUFFICES ASSUME NEW c \in Client PROVE Pins(c)'
    BY DEF LockPins
  <2>1. Pins(c)
    BY DEF LInv, LockPins
  <2> QED
    BY <1>1, <2>1 DEF Pins, InSmoke
<1>5. SmokeRecordFits'
  BY <1>1 DEF LInv, SmokeRecordFits, InSmoke
<1>6. co[Monitor].at \notin RecoveryLabel
  BY <1>2 DEF LInv, RecoveryRuns
<1>7. QuarantineFits'
  BY <1>1, <1>6 DEF QuarantineFits, RecoveryLabel
<1> QED
  BY <1>3, <1>4, <1>5, <1>7 DEF LInv

LEMMA InitLInv == Init => LInv
<1> SUFFICES ASSUME Init PROVE LInv
  OBVIOUS
<1>1. /\ daemon = "up" /\ inc.smoke = "none" /\ co[Monitor].at = "watch"
      /\ \A c \in Client : co[c].at = "idle"
  BY ProcFacts DEF Init, Idle, Proc, Caller
<1> QED
  BY <1>1
  DEF LInv, NobodyServed, RecoveryRuns, NoTaskYet, MonitorEvent, LockExclusive, Locked,
      LockPins, Pins, SmokeRecordFits, QuarantineFits, RecoveryLabel

\* The invariant is inductive.
LEMMA NextLInv == TypeOK /\ LInv /\ [Next]_vars => LInv'
<1> SUFFICES ASSUME TypeOK, LInv, [Next]_vars PROVE LInv'
  OBVIOUS
<1>1. CASE \E c \in Client : ClientStep(c)
  BY <1>1, ClientKeeps
<1>2. CASE \E p \in Caller : CallerStep(p)
  BY <1>2, ClientCallerKeeps, MonitorKeeps DEF Caller
<1>3. CASE MonitorStep
  BY <1>3, MonitorKeeps
<1>4. CASE RecoveryStep
  BY <1>4, RecoveryKeeps
<1>5. CASE \E a \in Attempts : Observe(a)
  BY <1>5, ObserveKeeps
<1>6. CASE \E t \in Runtime : TaskStep(t)
  BY <1>6, TaskKeeps
<1>7. CASE Environment
  BY <1>7, EnvironmentKeeps
<1>8. CASE UNCHANGED vars
  BY <1>8, StutterKeeps DEF vars
<1> QED
  BY <1>1, <1>2, <1>3, <1>4, <1>5, <1>6, <1>7, <1>8 DEF Next

\* While a client holds the decision lock nobody else changes the status, and a
\* restarted daemon unresolves only what a coroutine had been working on.
THEOREM LockHolds == Spec => []LInv
<1>1. TypeOK /\ LInv /\ [Next]_vars => LInv'
  BY NextLInv
<1> QED
  BY <1>1, InitLInv, TypeCorrect, PTL DEF Spec
-----------------------------------------------------------------------------
(* The refinement *)

AbstractStep == [Lifecycle!Next]_(Lifecycle!vars)

\* A step that leaves the status and the daemon's phase alone.
LEMMA StaysStep ==
    ASSUME inc'.status = inc.status, daemon' = daemon
    PROVE  AbstractStep
BY DEF AbstractStep, Lifecycle!vars

\* A dispatched event is a step of the state machine, or nothing.
LEMMA DispatchStep ==
    ASSUME TypeOK, NEW p \in Proc, NEW e \in Event, NEW next, NEW bad,
           Dispatch(p, e, next, bad), daemon' = daemon,
           \/ daemon \in {"up", "stopping"}
           \/ daemon = "recovering" /\ e = "RETRY_FAILED"
    PROVE  AbstractStep
<1>1. \/ Accepts(inc.status, e) /\ inc'.status = Target(inc.status, e)
      \/ inc'.status = inc.status
  BY DispatchEffect
<1>2. CASE Accepts(inc.status, e) /\ inc'.status = Target(inc.status, e)
  <2>1. Lifecycle!Step(e)
    BY <1>2 DEF Lifecycle!Step, Lifecycle!Accepts, Lifecycle!Target, Lifecycle!Transitions,
       Lifecycle!SmokeOutcome, Accepts, Target, Transitions, SmokeOutcome
  <2> QED
    BY <2>1 DEF AbstractStep, Lifecycle!Next, Lifecycle!Event, Event
<1>3. CASE inc'.status = inc.status
  BY <1>3, StaysStep
<1> QED
  BY <1>1, <1>2, <1>3

\* The daemon serves while a client's request is under way.
LEMMA ClientServed ==
    ASSUME TypeOK, LInv, NEW c \in Client, co[c].at # "idle"
    PROVE  daemon \in {"up", "stopping"}
BY DEF LInv, NobodyServed, TypeOK

\* A step of a client's request takes an edge of the state machine.
LEMMA ClientRefines ==
    ASSUME TypeOK, LInv, NEW c \in Client, ClientStep(c)
    PROVE  AbstractStep
<1>a. c \in Proc
  BY ProcFacts
<1>1. CASE DecideRefused(c)
  <2>1. inc'.status = inc.status /\ daemon' = daemon
    BY <1>1 DEF DecideRefused, TypeOK, Incident
  <2> QED
    BY <2>1, StaysStep
<1>2. CASE Reject(c)
  <2>1. daemon \in {"up", "stopping"} /\ daemon' = daemon
    BY <1>2, ClientServed DEF Reject, Decidable, At
  <2>2. \/ \E next, bad : Dispatch(c, "REJECT", next, bad)
        \/ inc' = inc
    BY <1>2 DEF Reject
  <2> QED
    BY <1>a, <2>1, <2>2, DispatchStep, StaysStep DEF Event
<1>3. CASE Invalidate(c)
  <2>1. daemon \in {"up", "stopping"} /\ daemon' = daemon
    BY <1>3, ClientServed DEF Invalidate, Decidable, At
  <2>2. \/ \E next, bad : Dispatch(c, "APPROVE_INVALIDATED", next, bad)
        \/ inc' = inc
    BY <1>3 DEF Invalidate
  <2> QED
    BY <1>a, <2>1, <2>2, DispatchStep, StaysStep DEF Event
<1>4. CASE Approve(c)
  <2>1. daemon \in {"up", "stopping"}
    BY <1>4, ClientServed DEF Approve, Decidable, At
  <2>2. daemon' = daemon /\ inc.status = "awaiting_approval" /\ inc'.status = "applying"
    BY <1>4 DEF Approve, Decidable, TypeOK, Incident, Target, Transitions
  <2>3. Lifecycle!Step("APPROVE")
    BY <2>1, <2>2 DEF Lifecycle!Step, Lifecycle!Accepts, Lifecycle!Target,
       Lifecycle!Transitions, Lifecycle!SmokeOutcome
  <2> QED
    BY <2>3 DEF AbstractStep, Lifecycle!Next, Lifecycle!Event
<1>5. CASE FollowUp(c)
  <2>1. inc'.status = inc.status /\ daemon' = daemon
    BY <1>5 DEF FollowUp, TypeOK, Incident
  <2> QED
    BY <2>1, StaysStep
<1>6. CASE ApplyCheck(c)
  <2>1. daemon \in {"up", "stopping"} /\ daemon' = daemon
    BY <1>6, ClientServed DEF ApplyCheck, At
  <2>2. \/ \E next, bad : Dispatch(c, "APPLY_FAILED", next, bad)
        \/ inc' = inc
    BY <1>6 DEF ApplyCheck
  <2> QED
    BY <1>a, <2>1, <2>2, DispatchStep, StaysStep DEF Event
<1>7. CASE GitApply(c)
  <2>1. daemon \in {"up", "stopping"} /\ daemon' = daemon
    BY <1>7, ClientServed DEF GitApply, At
  <2>2. \/ \E next, bad : Dispatch(c, "APPLY_FAILED", next, bad)
        \/ inc' = inc
    BY <1>7 DEF GitApply
  <2> QED
    BY <1>a, <2>1, <2>2, DispatchStep, StaysStep DEF Event
<1>8. CASE WriteReceipt(c)
  <2>1. inc'.status = inc.status /\ daemon' = daemon
    BY <1>8 DEF WriteReceipt, TypeOK, Incident
  <2> QED
    BY <2>1, StaysStep
<1>9. CASE SkipSmoke(c)
  <2>1. daemon \in {"up", "stopping"} /\ daemon' = daemon
    BY <1>9, ClientServed DEF SkipSmoke, At
  <2>2. \/ \E next, bad : Dispatch(c, "APPLY_OK_NO_SMOKE", next, bad)
        \/ inc' = inc
    BY <1>9 DEF SkipSmoke
  <2> QED
    BY <1>a, <2>1, <2>2, DispatchStep, StaysStep DEF Event
<1>10. CASE SmokeSpawn(c)
  <2>1. inc'.status = inc.status /\ daemon' = daemon
    BY <1>10 DEF SmokeSpawn, TypeOK, Incident
  <2> QED
    BY <2>1, StaysStep
<1>11. CASE SmokeIdentity(c)
  <2>1. inc'.status = inc.status /\ daemon' = daemon
    BY <1>11 DEF SmokeIdentity, TypeOK, Incident
  <2> QED
    BY <2>1, StaysStep
<1>12. CASE SmokeVisible(c)
  <2>1. daemon \in {"up", "stopping"} /\ daemon' = daemon
    BY <1>12, ClientServed DEF SmokeVisible, At
  <2>2. \/ \E next, bad : Dispatch(c, "APPLY_OK_SMOKE", next, bad)
        \/ inc' = inc
    BY <1>12 DEF SmokeVisible
  <2> QED
    BY <1>a, <2>1, <2>2, DispatchStep, StaysStep DEF Event
<1>13. CASE SmokeEnd(c)
  <2>1. inc'.status = inc.status /\ daemon' = daemon
    BY <1>13 DEF SmokeEnd, TypeOK, Incident
  <2> QED
    BY <2>1, StaysStep
<1>14. CASE SmokeFinished(c)
  <2>1. inc'.status = inc.status /\ daemon' = daemon
    BY <1>14 DEF SmokeFinished, TypeOK, Incident
  <2> QED
    BY <2>1, StaysStep
<1>15. CASE SmokePassed(c)
  <2>1. daemon \in {"up", "stopping"} /\ daemon' = daemon
    BY <1>15, ClientServed DEF SmokePassed, At
  <2>2. \/ \E next, bad : Dispatch(c, "SMOKE_PASSED", next, bad)
        \/ inc' = inc
    BY <1>15 DEF SmokePassed
  <2> QED
    BY <1>a, <2>1, <2>2, DispatchStep, StaysStep DEF Event
<1>16. CASE SmokeFailed(c)
  <2>1. daemon \in {"up", "stopping"} /\ daemon' = daemon
    BY <1>16, ClientServed DEF SmokeFailed, At
  <2>2. \/ \E next, bad : Dispatch(c, "SMOKE_FAILED_ROLLBACK_BLOCKED", next, bad)
        \/ inc' = inc
    BY <1>16 DEF SmokeFailed
  <2> QED
    BY <1>a, <2>1, <2>2, DispatchStep, StaysStep DEF Event
<1>17. CASE ReverseCheck(c)
  <2>1. daemon \in {"up", "stopping"} /\ daemon' = daemon
    BY <1>17, ClientServed DEF ReverseCheck, At
  <2>2. \/ \E next, bad : Dispatch(c, "SMOKE_FAILED_ROLLBACK_BLOCKED", next, bad)
        \/ inc' = inc
    BY <1>17 DEF ReverseCheck
  <2> QED
    BY <1>a, <2>1, <2>2, DispatchStep, StaysStep DEF Event
<1>18. CASE GitReverse(c)
  <2>1. daemon \in {"up", "stopping"} /\ daemon' = daemon
    BY <1>18, ClientServed DEF GitReverse, At
  <2>2. \/ \E next, bad : Dispatch(c, "SMOKE_FAILED_ROLLBACK_BLOCKED", next, bad)
        \/ inc' = inc
    BY <1>18 DEF GitReverse
  <2> QED
    BY <1>a, <2>1, <2>2, DispatchStep, StaysStep DEF Event
<1>19. CASE RetryStart(c)
  <2>1. daemon \in {"up", "stopping"} /\ daemon' = daemon
    BY <1>19, ClientServed DEF RetryStart, At
  <2>2. \/ \E next, bad : Dispatch(c, "RETRY_STARTED", next, bad)
        \/ inc' = inc
    BY <1>19 DEF RetryStart
  <2> QED
    BY <1>a, <2>1, <2>2, DispatchStep, StaysStep DEF Event
<1>20. CASE RetryRefused(c)
  <2>1. daemon \in {"up", "stopping"} /\ daemon' = daemon
    BY <1>20, ClientServed DEF RetryRefused, At
  <2>2. \/ \E next, bad : Dispatch(c, "RETRY_ABORTED", next, bad)
        \/ inc' = inc
    BY <1>20 DEF RetryRefused
  <2> QED
    BY <1>a, <2>1, <2>2, DispatchStep, StaysStep DEF Event
<1>21. CASE Launch(c)
  <2>1. inc'.status = inc.status /\ daemon' = daemon
    BY <1>21 DEF Launch, TypeOK, Incident
  <2> QED
    BY <2>1, StaysStep
<1>22. CASE Launched(c)
  <2>1. inc'.status = inc.status /\ daemon' = daemon
    BY <1>22 DEF Launched, TypeOK, Incident
  <2> QED
    BY <2>1, StaysStep
<1>23. CASE LaunchFailed(c)
  <2>1. inc'.status = inc.status /\ daemon' = daemon
    BY <1>23 DEF LaunchFailed, TypeOK, Incident
  <2> QED
    BY <2>1, StaysStep
<1> QED
  BY <1>1, <1>2, <1>3, <1>4, <1>5, <1>6, <1>7, <1>8, <1>9, <1>10, <1>11, <1>12, <1>13, <1>14, <1>15, <1>16, <1>17, <1>18, <1>19, <1>20, <1>21, <1>22, <1>23
  DEF ClientStep

\* A new investigation dispatches one event: recovery only RETRY_FAILED.
LEMMA CallerRefines ==
    ASSUME TypeOK, LInv, NEW p \in Caller, CallerStep(p)
    PROVE  AbstractStep
<1>a. p \in Proc /\ (p \in Client \/ p = Monitor)
  BY DEF Caller, Proc
<1>1. CASE ClearArtifacts(p) \/ UnlinkDiff(p) \/ CreateRun(p) \/ MarkRun(p)
  <2>1. inc'.status = inc.status /\ daemon' = daemon
    BY <1>1 DEF ClearArtifacts, UnlinkDiff, CreateRun, MarkRun, TypeOK, Incident
  <2> QED
    BY <2>1, StaysStep
<1>2. CASE Reinvestigate(p)
  <2>1. co[p].at = "dispatch" /\ CanRun(p) /\ daemon' = daemon
        /\ \E next, bad : Dispatch(p, co[p].ev, next, bad)
    BY <1>2 DEF Reinvestigate, At
  <2>2. \/ daemon \in {"up", "stopping"}
        \/ daemon = "recovering" /\ co[p].ev = "RETRY_FAILED"
    <3>1. CASE p \in Client
      BY <2>1, <3>1, ClientServed
    <3>2. CASE p = Monitor
      BY <2>1, <3>2 DEF LInv, MonitorEvent, CanRun, TypeOK
    <3> QED
      BY <1>a, <3>1, <3>2
  <2>3. co[p].ev \in Event \cup {"none"}
    BY <1>a DEF TypeOK, Local
  <2>4. CASE co[p].ev \in Event
    BY <1>a, <2>1, <2>2, <2>4, DispatchStep
  <2>5. CASE co[p].ev = "none"
    <3>1. ~Accepts(inc.status, "none")
      BY DEF Accepts, Transitions, SmokeOutcome
    <3>2. inc'.status = inc.status
      BY <1>a, <2>1, <2>5, <3>1, DispatchEffect
    <3> QED
      BY <2>1, <3>2, StaysStep
  <2> QED
    BY <2>3, <2>4, <2>5
<1> QED
  BY <1>1, <1>2 DEF CallerStep

\* The monitor itself only opens an incident.
LEMMA MonitorRefines ==
    ASSUME TypeOK, LInv, MonitorStep
    PROVE  AbstractStep
<1>1. CASE MonitorFailure \/ MonitorSeal \/ WriteCapsule \/ RetryFailed
  <2>1. inc'.status = inc.status /\ daemon' = daemon
    BY <1>1 DEF MonitorFailure, MonitorSeal, WriteCapsule, RetryFailed, TypeOK, Incident
  <2> QED
    BY <2>1, StaysStep
<1>2. CASE HandleFailure
  <2>1. daemon' = daemon /\ daemon # "down"
    BY <1>2 DEF HandleFailure, At, CanRun
  <2>2. \/ inc'.status = inc.status
        \/ inc.status = "none" /\ inc'.status = "diagnosing"
    BY <1>2 DEF HandleFailure, TypeOK, Incident
  <2>3. CASE inc.status = "none" /\ inc'.status = "diagnosing"
    <3>1. Lifecycle!Open
      BY <2>1, <2>3 DEF Lifecycle!Open, TypeOK
    <3> QED
      BY <3>1 DEF AbstractStep, Lifecycle!Next
  <2> QED
    BY <2>1, <2>2, <2>3, StaysStep
<1> QED
  BY <1>1, <1>2 DEF MonitorStep

\* A task that dispatches while the daemon starts up is refused: the incident is
\* then one whose smoke is being stopped.
LEMMA TaskRefines ==
    ASSUME TypeOK, LInv, NEW t \in Runtime, TaskStep(t)
    PROVE  AbstractStep
<1>a. t \in Proc
  BY ProcFacts
<1>1. CASE TaskStart(t) \/ SubmitDiagnosis(t) \/ ProposeDiff(t) \/ ProposeMeta(t)
           \/ Preflight(t) \/ Unpropose(t) \/ AgentEnd(t) \/ FinishRun(t)
  <2>1. inc'.status = inc.status /\ daemon' = daemon
    BY <1>1 DEF TaskStart, SubmitDiagnosis, ProposeDiff, ProposeMeta, Preflight, Unpropose,
       AgentEnd, FinishRun, TypeOK, Incident
  <2> QED
    BY <2>1, StaysStep
<1>2. CASE TaskRaises(t) \/ TaskTail(t) \/ TaskDone(t)
  <2>1. CanRun(t) /\ co[t].at # "idle" /\ daemon' = daemon
    BY <1>2 DEF TaskRaises, TaskTail, TaskDone, At
  <2>2. \/ inc'.status = inc.status
        \/ \E e \in {"INVESTIGATION_FAILED", "INVESTIGATION_DONE"} :
              \E next, bad : Dispatch(t, e, next, bad)
    BY <1>2 DEF TaskRaises, TaskTail, TaskDone, GiveUp, TypeOK, Incident
  <2>3. CASE daemon \in {"up", "stopping"}
    BY <1>a, <2>1, <2>2, <2>3, DispatchStep, StaysStep DEF Event
  <2>4. CASE daemon = "recovering"
    <3>1. co[Monitor].at \in Await /\ co[Monitor].at \in RecoveryLabel \cup HandlingLabel
      BY <2>1, <2>4, ProcFacts DEF CanRun, LInv, RecoveryRuns
    <3>2. co[Monitor].at \notin HandlingLabel \cup {"reap", "reopen"}
      BY <2>1, <2>4 DEF LInv, NoTaskYet
    <3>3. co[Monitor].at = "terminate"
      BY <3>1, <3>2, SectionLabels DEF RecoveryLabel
    <3>4. inc.status \in {"applying", "smoke_running"}
      BY <3>3 DEF LInv, QuarantineFits, SmokeRecordFits, InSmoke
    <3>5. \A e \in {"INVESTIGATION_FAILED", "INVESTIGATION_DONE"} : ~Accepts(inc.status, e)
      BY <3>4, EdgeFacts
    <3>6. inc'.status = inc.status
      BY <1>a, <2>2, <3>5, DispatchEffect
    <3> QED
      BY <2>1, <3>6, StaysStep
  <2>5. daemon \in {"up", "stopping", "recovering"}
    BY <2>1 DEF CanRun, TypeOK
  <2> QED
    BY <2>3, <2>4, <2>5
<1> QED
  BY <1>1, <1>2 DEF TaskStep

\* Recovery settles a dead retry or unresolves what it quarantines.
LEMMA RecoveryRefines ==
    ASSUME TypeOK, LInv, RecoveryStep
    PROVE  AbstractStep
<1>a. co[Monitor].at \in RecoveryLabel => daemon = "recovering"
  BY DEF LInv, RecoveryRuns
<1>b. ASSUME daemon = "recovering", daemon' = "up", inc'.status = inc.status
      PROVE  AbstractStep
  <2>1. Lifecycle!Serve
    BY <1>b DEF Lifecycle!Serve
  <2> QED
    BY <2>1 DEF AbstractStep, Lifecycle!Next
<1>1. CASE RecoverInterrupted \/ RecoverFailure
  <2>1. inc'.status = inc.status /\ daemon' = daemon
    BY <1>1 DEF RecoverInterrupted, RecoverFailure
  <2> QED
    BY <2>1, StaysStep
<1>2. CASE RecoverIncident
  <2>1. daemon = "recovering"
    BY <1>2, <1>a DEF RecoverIncident, At, RecoveryLabel
  <2>2. \/ daemon' = daemon /\ inc'.status = inc.status
        \/ daemon' = "up" /\ inc'.status = inc.status
        \/ /\ daemon' = "up" /\ inc.status = "retry_running"
           /\ inc'.status \in {"resolved", "unresolved"}
    BY <1>2 DEF RecoverIncident, Serve, RetryVerdict, TypeOK, Incident
  <2>3. CASE daemon' = "up" /\ inc.status = "retry_running"
             /\ inc'.status \in {"resolved", "unresolved"}
    <3>1. Lifecycle!Settle
      BY <2>1, <2>3 DEF Lifecycle!Settle
    <3> QED
      BY <3>1 DEF AbstractStep, Lifecycle!Next
  <2> QED
    BY <2>1, <2>2, <2>3, <1>b, StaysStep
<1>3. CASE RecoverDiagnosing
  <2>1. co[Monitor].at = "incidents" /\ daemon' = "up" /\ inc' = inc
    BY <1>3 DEF RecoverDiagnosing, At
  <2> QED
    BY <2>1, <1>a, <1>b DEF RecoveryLabel
<1>4. CASE RecoverSmoke
  <2>1. /\ co[Monitor].at = "terminate" /\ inc'.status = inc.status
        /\ daemon' = daemon \/ daemon' = "up"
    BY <1>4 DEF RecoverSmoke, Serve, At, TypeOK, Incident
  <2> QED
    BY <2>1, <1>a, <1>b, StaysStep DEF RecoveryLabel
<1>5. CASE Unresolve
  <2>1. co[Monitor].at = "unresolve" /\ daemon' = "up" /\ inc'.status = "unresolved"
    BY <1>5 DEF Unresolve, Serve, At, TypeOK, Incident
  <2>2. daemon = "recovering" /\ RecoverAction(inc.status) = "quarantine"
    BY <2>1, <1>a DEF LInv, QuarantineFits, RecoveryLabel
  <2>3. Lifecycle!Settle
    BY <2>1, <2>2 DEF Lifecycle!Settle, Lifecycle!RecoverAction, RecoverAction
  <2> QED
    BY <2>3 DEF AbstractStep, Lifecycle!Next
<1> QED
  BY <1>1, <1>2, <1>3, <1>4, <1>5 DEF RecoveryStep

\* A crash and a restart move the phase, and nothing else outside does.
LEMMA EnvironmentRefines ==
    ASSUME TypeOK, LInv, Environment
    PROVE  AbstractStep
<1>1. CASE (\E c \in Client : SendRequest(c)) \/ Cancel \/ LogFails \/ TrainingExit
           \/ SmokeExit \/ SmokeRestExit \/ UserEdit \/ Close
  <2>1. inc' = inc /\ daemon' = daemon
    BY <1>1 DEF SendRequest, Cancel, LogFails, TrainingExit, SmokeExit, SmokeRestExit, UserEdit, Close
  <2> QED
    BY <2>1, StaysStep
<1>2. CASE Crash
  <2>1. Lifecycle!Fail
    BY <1>2 DEF Crash, Lifecycle!Fail, TypeOK
  <2> QED
    BY <2>1 DEF AbstractStep, Lifecycle!Next
<1>3. CASE StopStarting
  BY <1>3 DEF StopStarting, AbstractStep, Lifecycle!vars
<1>4. CASE Restart
  <2>1. Lifecycle!Start
    BY <1>4 DEF Restart, Lifecycle!Start
  <2> QED
    BY <2>1 DEF AbstractStep, Lifecycle!Next
<1> QED
  BY <1>1, <1>2, <1>3, <1>4 DEF Environment

\* An observer settles a retry only in a daemon that serves.
LEMMA ObserveRefines ==
    ASSUME TypeOK, LInv, NEW a \in Attempts, Observe(a)
    PROVE  AbstractStep
<1>1. /\ a \in observers /\ daemon' = daemon
      /\ \/ inc'.status = inc.status
         \/ /\ inc.status = "retry_running"
            /\ \E e \in {"RETRY_SUCCEEDED", "RETRY_ABORTED"} :
                   inc'.status = Target(inc.status, e)
  BY ObserveEffect
<1>2. daemon \in {"up", "stopping"}
  BY <1>1 DEF LInv, NobodyServed, TypeOK
<1>3. ASSUME NEW e \in {"RETRY_SUCCEEDED", "RETRY_ABORTED"},
             inc.status = "retry_running", inc'.status = Target(inc.status, e)
      PROVE  AbstractStep
  <2>1. Lifecycle!Step(e)
    BY <1>1, <1>2, <1>3 DEF Lifecycle!Step, Lifecycle!Accepts, Lifecycle!Target,
       Lifecycle!Transitions, Lifecycle!SmokeOutcome, Target, Transitions, SmokeOutcome
  <2> QED
    BY <2>1 DEF AbstractStep, Lifecycle!Next, Lifecycle!Event
<1> QED
  BY <1>1, <1>3, StaysStep

LEMMA StepRefines == TypeOK /\ LInv /\ [Next]_vars => AbstractStep
<1> SUFFICES ASSUME TypeOK, LInv, [Next]_vars PROVE AbstractStep
  OBVIOUS
<1>1. CASE Next
  BY <1>1, ClientRefines, CallerRefines, MonitorRefines, RecoveryRefines, ObserveRefines,
     TaskRefines, EnvironmentRefines DEF Next
<1>2. CASE UNCHANGED vars
  BY <1>2, StaysStep DEF vars
<1> QED
  BY <1>1, <1>2

\* IncidentCoordinator implements IncidentLifecycle: every behaviour of the
\* daemon moves an incident as the abstract lifecycle allows.
THEOREM Refinement == Spec => LifecycleSpec
<1>1. Init => Lifecycle!Init
  BY DEF Init, Lifecycle!Init
<1>2. TypeOK /\ LInv /\ [Next]_vars => [Lifecycle!Next]_(Lifecycle!vars)
  BY StepRefines DEF AbstractStep
<1> QED
  BY <1>1, <1>2, TypeCorrect, LockHolds, PTL DEF Spec, LifecycleSpec, Lifecycle!Spec

\* A resolved or rejected incident stays so: no edge of the state machine leaves
\* it, and recovery does not quarantine it.
THEOREM TerminalStays == Spec => TerminalForever
<1>1. TypeOK /\ LInv /\ [Next]_vars =>
          [inc.status \in Terminal => inc'.status = inc.status]_vars
  <2> SUFFICES ASSUME TypeOK, LInv, [Next]_vars, inc.status \in Terminal
               PROVE  inc'.status = inc.status
    OBVIOUS
  <2>1. AbstractStep
    BY StepRefines
  <2>2. inc.status \in {"resolved", "rejected"}
    BY DEF Terminal
  <2>3. ~Lifecycle!Open /\ ~Lifecycle!Settle
    BY <2>2 DEF Lifecycle!Open, Lifecycle!Settle, Lifecycle!RecoverAction
  <2>4. \A e : ~Lifecycle!Step(e)
    BY <2>2 DEF Lifecycle!Step, Lifecycle!Accepts, Lifecycle!Transitions
  <2> QED
    BY <2>1, <2>3, <2>4
    DEF AbstractStep, Lifecycle!Next, Lifecycle!vars, Lifecycle!Serve, Lifecycle!Fail,
        Lifecycle!Start
<1> QED
  BY <1>1, TypeCorrect, LockHolds, PTL DEF Spec, TerminalForever
=============================================================================
