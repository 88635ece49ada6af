-------------------------- MODULE IncidentLifecycle --------------------------
(***************************************************************************)
(* What an incident promises to its readers, whatever happens to the       *)
(* daemon: while it serves, the status moves only along the edges of the   *)
(* state machine; while it starts up, only along the edges recovery may    *)
(* take; while it is down, not at all.                                     *)
(***************************************************************************)
EXTENDS IncidentFSM

VARIABLES status, phase
vars == <<status, phase>>

Phase == {"serving", "down", "recovering"}

Init == status = "none" /\ phase = "serving"

\* A new incident starts in INITIAL_STATE; recovery opens one as well for a
\* failure the crashed daemon had not got to.
Open ==
    /\ phase # "down" /\ status = "none"
    /\ status' = "diagnosing"
    /\ UNCHANGED phase

\* A transition of the table.  Recovery sends RETRY_FAILED itself.
Step(e) ==
    /\ phase = "serving" \/ (phase = "recovering" /\ e = "RETRY_FAILED")
    /\ Accepts(status, e)
    /\ status' = Target(status, e)
    /\ UNCHANGED phase

\* Start-up settles what no coroutine will finish, and begins to serve.
Settle ==
    /\ phase = "recovering"
    /\ \/ RecoverAction(status) = "quarantine" /\ status' = "unresolved"
       \/ status = "retry_running" /\ status' \in {"resolved", "unresolved"}
    /\ phase' = "serving"

Serve == phase = "recovering" /\ phase' = "serving" /\ UNCHANGED status
Fail  == phase # "down" /\ phase' = "down" /\ UNCHANGED status
Start == phase = "down" /\ phase' = "recovering" /\ UNCHANGED status

Next == Open \/ (\E e \in Event : Step(e)) \/ Settle \/ Serve \/ Fail \/ Start

Spec == Init /\ [][Next]_vars
=============================================================================
