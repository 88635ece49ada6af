---------------------------- MODULE IncidentFSM ----------------------------
(***************************************************************************)
(* The declarative state machine of an incident: the transition table the  *)
(* daemon validates every status change against, and the table that says   *)
(* what a restarted daemon does with an incident found in each status.     *)
(* The Python module holds both as dictionaries; here they are records,    *)
(* so that a missing key stays a missing key.                              *)
(***************************************************************************)

Status ==
    {"diagnosing", "awaiting_approval", "applying", "smoke_running",
     "smoke_passed", "smoke_skipped", "retry_running", "resolved",
     "rejected", "stale", "unresolved", "rollback_blocked"}

Event ==
    {"INVESTIGATION_DONE", "INVESTIGATION_FAILED", "APPROVE",
     "APPROVE_INVALIDATED", "REJECT", "FOLLOW_UP", "APPLY_OK_SMOKE",
     "APPLY_OK_NO_SMOKE", "APPLY_FAILED", "SMOKE_PASSED",
     "SMOKE_FAILED_ROLLED_BACK", "SMOKE_FAILED_ROLLED_BACK_NO_EVIDENCE",
     "SMOKE_FAILED_ROLLBACK_BLOCKED", "RETRY_STARTED", "RETRY_SUCCEEDED",
     "RETRY_ABORTED", "RETRY_FAILED"}

Terminal == {"resolved", "rejected"}

SmokeOutcome ==
    [SMOKE_PASSED                         |-> "smoke_passed",
     SMOKE_FAILED_ROLLED_BACK             |-> "diagnosing",
     SMOKE_FAILED_ROLLED_BACK_NO_EVIDENCE |-> "unresolved",
     SMOKE_FAILED_ROLLBACK_BLOCKED        |-> "rollback_blocked"]

Transitions ==
    [diagnosing        |-> [INVESTIGATION_DONE   |-> "awaiting_approval",
                            INVESTIGATION_FAILED |-> "unresolved"],
     awaiting_approval |-> [APPROVE              |-> "applying",
                            APPROVE_INVALIDATED  |-> "stale",
                            REJECT               |-> "rejected",
                            FOLLOW_UP            |-> "diagnosing"],
     applying          |-> [APPLY_OK_SMOKE       |-> "smoke_running",
                            APPLY_OK_NO_SMOKE    |-> "smoke_skipped",
                            APPLY_FAILED         |-> "stale",
                            SMOKE_PASSED         |-> "smoke_passed",
                            SMOKE_FAILED_ROLLED_BACK |-> "diagnosing",
                            SMOKE_FAILED_ROLLED_BACK_NO_EVIDENCE |-> "unresolved",
                            SMOKE_FAILED_ROLLBACK_BLOCKED |-> "rollback_blocked"],
     smoke_running     |-> SmokeOutcome,
     smoke_passed      |-> [RETRY_STARTED        |-> "retry_running"],
     smoke_skipped     |-> [RETRY_STARTED        |-> "retry_running"],
     retry_running     |-> [RETRY_SUCCEEDED      |-> "resolved",
                            RETRY_ABORTED        |-> "unresolved",
                            RETRY_FAILED         |-> "diagnosing"],
     stale             |-> [FOLLOW_UP            |-> "diagnosing"],
     unresolved        |-> [FOLLOW_UP            |-> "diagnosing"],
     rollback_blocked  |-> [FOLLOW_UP            |-> "diagnosing"]]

\* accepts(): a status without an entry accepts nothing.
Accepts(status, event) ==
    /\ status \in DOMAIN Transitions
    /\ event \in DOMAIN Transitions[status]

\* transition(): defined where Accepts holds; the caller raises otherwise.
Target(status, event) == Transitions[status][event]

\* RECOVERY: what a restarted daemon does with an incident in each status.
RecoverAction(status) ==
    CASE status \in {"diagnosing", "awaiting_approval", "retry_running"} -> "reconcile"
      [] status \in {"applying", "smoke_running",
                     "smoke_passed", "smoke_skipped"}                    -> "quarantine"
      [] OTHER                                                           -> "keep"
=============================================================================
