----------------------------- MODULE AgentLoop -----------------------------
(***************************************************************************)
(* One run of the agent: AgentRunner.run_and_capture around AgentLoop.run  *)
(* (agent/runner.py, agent/loop.py) with the profile of an incident        *)
(* (training/incidents/profile.py): the conversation and its budget, the   *)
(* finalisation that forces submit_diagnosis and then propose_patch, and   *)
(* invoke_tool with its retries.                                           *)
(*                                                                         *)
(* The coroutine is suspended only while pc is in Suspended; an action at   *)
(* another pc is one branch of a synchronous stretch.  Sizes are in units   *)
(* of the smallest message.                                                *)
(***************************************************************************)
EXTENDS Integers, Sequences, FiniteSets

CONSTANTS
    MaxSteps,      \* RunProfile.max_steps
    FinalSteps,    \* RunProfile.finalization_steps, 0: never
    MaxInput,      \* RunProfile.max_input_bytes
    Reserve,       \* RunProfile.finalization_reserve_bytes, 0: none
    GoalSizes,     \* sizes the first prompt may have
    ReadSizes,     \* sizes a read-only tool's result may have
    MaxCalls       \* bound: tool calls in one response

ASSUME AgentAssumption ==
    /\ {MaxSteps, FinalSteps, MaxInput, Reserve, MaxCalls} \subseteq Nat
    /\ MaxSteps > 0
    /\ GoalSizes \subseteq Nat
    /\ ReadSizes \subseteq Nat \ {0}

VARIABLES
    status, reason,    \* ExecutionContext: "running", "success", "failed"
    step,              \* ExecutionContext.step
    messages,          \* the conversation
    used,              \* size of the system prompt and the messages
    exhausted,         \* ExecutionContext.budget_exhausted
    active, required,  \* finalization_active, required_tool
    stage,             \* finalization_tool, of the current step
    offered,           \* the tool whose schema alone is offered, None: all
    called, succeeded, \* required_called, required_succeeded
    stop, calls,       \* the response: stop_reason, tool calls not yet answered
    attempt,           \* of the stream, or of the tool call
    pc,
    git,               \* the capsule has a git_head: proposals are preflighted
    diagnosis,         \* incident.diagnosis: "none", "direct", "final"
    proposal,          \* incident.proposal: "none", "unchecked", "ready"
    submitted          \* history: this run has submitted a diagnosis

verdict == <<status, reason>>
context == <<messages, used, exhausted>>
staging == <<active, required, stage, called, succeeded>>
store   == <<git, diagnosis, proposal, submitted>>
vars == <<status, reason, step, messages, used, exhausted, active, required, stage,
          offered, called, succeeded, stop, calls, attempt, pc, git, diagnosis, proposal,
          submitted>>

None == "none"

\* finalization_sequence of the profile.
First  == "submit_diagnosis"
Second == "propose_patch"

\* read_file stands for the four tools of _READ_ONLY_TOOLS, unknown for a name
\* the registry does not have.
Tools    == {"read_file", First, Second, "unknown"}
ReadOnly == {"read_file"}

MaxRetries == 2     \* _MAX_RETRIES
MaxStreams == 3     \* _MAX_STREAM_RETRIES

Suspended == {"ask", "tool", "backoff", "check"}

\* A call's id: the step and its place in the response.
Call(k, tool) == [id |-> <<step, k>>, tool |-> tool]

User(results)   == [role |-> "user", uses |-> <<>>, results |-> results]
Assistant(uses) == [role |-> "assistant", uses |-> uses, results |-> <<>>]

\* Every tool result adds at least this: the structured error is the smallest.
Placeholder == 1
ReplySize   == 1

\* serialized_size: the schemas of all tools weigh more than one.
SchemaSize(tool) == IF tool = None THEN 2 ELSE 1
Size(n, tool)    == used + n + SchemaSize(tool)

SoftOn == Reserve > 0
Soft   == MaxInput - Reserve

-----------------------------------------------------------------------------
(***************************************************************************)
(* The head of the loop: the stage of this step, and the budget.           *)
(***************************************************************************)

LastSteps == FinalSteps > 0 /\ MaxSteps - step <= FinalSteps

\* The prompt has grown into the reserve.
OverSoft(tool) == SoftOn /\ Size(0, tool) > Soft

\* AnthropicProvider raises SystemExit if it has no key, which none of the handlers
\* above it catches: the daemon exits, and what comes after it starts the run again.
NoProvider ==
    /\ pc = "step" /\ step = 0
    /\ pc' = "dead"
    /\ UNCHANGED <<verdict, step, context, staging, offered, stop, calls, attempt, store>>

StepBegins ==
    LET late  == ~active /\ LastSteps
        early == IF late THEN First ELSE IF active THEN required ELSE None
        full  == ~active /\ ~late /\ OverSoft(early)
        tool  == IF full THEN First ELSE early
    IN  /\ pc = "step" /\ status = "running"
        /\ step' = step + 1
        /\ active' = (active \/ late \/ full)
        /\ required' = IF late \/ full THEN First ELSE required
        /\ stage' = tool
        /\ offered' = tool
        /\ called' = FALSE /\ succeeded' = FALSE
        /\ attempt' = 1
        /\ IF Size(0, tool) > MaxInput
             THEN /\ status' = "failed" /\ reason' = "context_budget_exhausted"
                  /\ pc' = "finish"
             ELSE /\ pc' = "ask"
                  /\ UNCHANGED verdict
        /\ UNCHANGED <<context, stop, calls, store>>

-----------------------------------------------------------------------------
(***************************************************************************)
(* The provider (external: what the API may answer).                       *)
(***************************************************************************)

Responses ==
    UNION {[1..n -> Tools] : n \in 0..MaxCalls}

\* A response ends the turn, asks for tools, or was cut off at max_tokens.  The
\* other stop reasons come without calls and take the branch of a cut-off text.
Fits(reply, tools) ==
    CASE reply = "end_turn"   -> tools = <<>>
      [] reply = "tool_use"   -> tools # <<>>
      [] reply = "max_tokens" -> TRUE

Respond ==
    /\ pc = "ask"
    /\ \E reply \in {"end_turn", "tool_use", "max_tokens"}, tools \in Responses :
         /\ Fits(reply, tools)
         /\ stop' = reply
         /\ calls' = [k \in DOMAIN tools |-> Call(k, tools[k])]
         /\ messages' = Append(messages,
                               Assistant([k \in DOMAIN tools |-> Call(k, tools[k]).id]))
         /\ used' = used + ReplySize
         /\ pc' = IF tools = <<>> THEN "close" ELSE "calls"
    /\ UNCHANGED <<verdict, step, exhausted, staging, offered, attempt, store>>

\* A dropped stream is opened again after a pause; the last one raises.
StreamDropped ==
    /\ pc = "ask" /\ attempt < MaxStreams
    /\ attempt' = attempt + 1
    /\ UNCHANGED <<verdict, step, context, staging, offered, stop, calls, pc, store>>

\* The stream that could not be opened again, or any other error of the call.
ProviderFails ==
    /\ pc = "ask"
    /\ status' = "failed" /\ reason' = "llm_error"
    /\ pc' = "finish"
    /\ UNCHANGED <<step, context, staging, offered, stop, calls, attempt, store>>

-----------------------------------------------------------------------------
(***************************************************************************)
(* Results: add_tool_result and what the loop does with one.               *)
(***************************************************************************)

\* Mutation: every result is a message of its own.
JoinedNever(id) == Append(messages, User(<<id>>))

\* The results of one response share one user message.
Joined(id) ==
    LET last == Len(messages)
    IN  IF messages[last].role = "user" /\ messages[last].results # <<>>
          THEN [messages EXCEPT ![last].results = Append(@, id)]
          ELSE Append(messages, User(<<id>>))

\* A result of n units of a read-only tool would grow into the reserve.
ReserveHit(call, n) ==
    call.tool \in ReadOnly /\ SoftOn /\ Size(n, offered) > Soft

\* add_tool_result: the content gives way to a structured error.
AddResult(call, n) ==
    LET soft == IF ReserveHit(call, n) THEN Placeholder ELSE n
        hard == Size(soft, offered) > MaxInput
    IN  /\ messages' = Joined(call.id)
        /\ used' = used + (IF hard THEN Placeholder ELSE soft)
        /\ exhausted' = (exhausted \/ hard)

\* In a response that was cut off a reserve hit counts from the next step on.
Scheduled(hit) ==
    /\ active' = (active \/ hit)
    /\ required' = IF hit THEN First ELSE required
    /\ UNCHANGED <<stage, called, succeeded>>

\* Otherwise it sends the run to the first stage from the next call on.
Redirected(hit) ==
    /\ active' = (active \/ hit)
    /\ required' = IF hit THEN First ELSE required
    /\ stage' = IF hit THEN First ELSE stage
    /\ called' = (called /\ ~hit)
    /\ succeeded' = (succeeded /\ ~hit)

NextCall ==
    /\ calls' = Tail(calls)
    /\ pc' = IF Tail(calls) = <<>> THEN "close" ELSE "calls"
    /\ UNCHANGED <<verdict, step, offered, stop>>

\* The first call is answered with n units, the run goes on.
Answer(n) ==
    /\ AddResult(Head(calls), n)
    /\ Redirected(ReserveHit(Head(calls), n))
    /\ NextCall

\* Mutation: a diagnosis does not lead to the second stage.
AdvancedNever == UNCHANGED staging

\* _advance_finalization, after submit_diagnosis.
Advanced ==
    /\ active' = TRUE
    /\ required' = Second /\ stage' = Second
    /\ called' = FALSE /\ succeeded' = FALSE

\* stop_after_success: the other calls of the response stay unanswered.
Ends ==
    /\ AddResult(Head(calls), Placeholder)
    /\ status' = "success"
    /\ called' = (called \/ stage # None)
    /\ succeeded' = (succeeded \/ stage # None)
    /\ calls' = Tail(calls)
    /\ pc' = "close"
    /\ UNCHANGED <<reason, step, active, required, stage, offered, stop>>

-----------------------------------------------------------------------------
(***************************************************************************)
(* Tool calls: invoke_tool and the tools.                                  *)
(***************************************************************************)

Current(tool) == Head(calls).tool = tool

\* max_tokens: no call of the response is run.
CutOff ==
    /\ pc = "calls" /\ stop = "max_tokens"
    /\ AddResult(Head(calls), Placeholder)
    /\ Scheduled(ReserveHit(Head(calls), Placeholder))
    /\ NextCall
    /\ UNCHANGED <<attempt, store>>

\* In a stage only its tool is run.
OffStage == stage # None /\ Head(calls).tool # stage

Refuse ==
    /\ pc = "calls" /\ stop = "tool_use" /\ OffStage
    /\ Answer(Placeholder)
    /\ UNCHANGED <<attempt, store>>

\* The registry has no such tool; or its parameters are invalid.
Unrunnable ==
    /\ pc = "calls" /\ stop = "tool_use" /\ ~OffStage
    /\ Answer(Placeholder)
    /\ UNCHANGED <<attempt, store>>

Invoke ==
    /\ pc = "calls" /\ stop = "tool_use" /\ ~OffStage /\ ~Current("unknown")
    /\ called' = (stage # None)
    /\ attempt' = 1
    /\ pc' = "tool"
    /\ UNCHANGED <<verdict, step, context, active, required, stage, offered, succeeded,
                   stop, calls, store>>

\* Mutation: the attempts are not counted.
RetryUncounted == attempt' = attempt

Retry == attempt <= MaxRetries /\ attempt' = attempt + 1

\* runtime_error and rate_limited are retried after a pause.
ToolFailsOnce ==
    /\ pc = "tool"
    /\ Retry
    /\ pc' = "backoff"
    /\ UNCHANGED <<verdict, step, context, staging, offered, stop, calls, store>>

Backoff ==
    /\ pc = "backoff"
    /\ pc' = "tool"
    /\ UNCHANGED <<verdict, step, context, staging, offered, stop, calls, attempt, store>>

\* schema_error, timeout, or the last attempt.  A tool that raises has not
\* changed the incident: one write replaces it, the last thing the tool does.
ToolFails ==
    /\ pc = "tool"
    /\ Answer(Placeholder)
    /\ UNCHANGED <<attempt, store>>

ReadDone ==
    /\ pc = "tool" /\ Current("read_file")
    /\ \E n \in ReadSizes : Answer(n)
    /\ UNCHANGED <<attempt, store>>

\* A direct diagnosis that recommends a patch; the run goes on with the patch.
SubmitDirect ==
    /\ pc = "tool" /\ Current(First)
    /\ diagnosis' = "direct" /\ submitted' = TRUE
    /\ AddResult(Head(calls), Placeholder)
    /\ Advanced
    /\ NextCall
    /\ UNCHANGED <<attempt, git, proposal>>

\* An inferred one, or one without a patch, ends the run.
SubmitFinal ==
    /\ pc = "tool" /\ Current(First)
    /\ diagnosis' = "final" /\ submitted' = TRUE
    /\ Ends
    /\ UNCHANGED <<attempt, git, proposal>>

MayPropose == diagnosis = "direct"

\* The proposal is on disk before git has checked it.
Propose ==
    /\ pc = "tool" /\ Current(Second) /\ MayPropose
    /\ git
    /\ proposal' = "unchecked"
    /\ pc' = "check"
    /\ UNCHANGED <<verdict, step, context, staging, offered, stop, calls, attempt,
                   git, diagnosis, submitted>>

ProposeUnchecked ==
    /\ pc = "tool" /\ Current(Second) /\ MayPropose
    /\ ~git
    /\ proposal' = "ready"
    /\ Ends
    /\ UNCHANGED <<attempt, git, diagnosis, submitted>>

\* PatchService.check: its three git commands are cut off after 30 s each, so
\* that the timeout of invoke_tool (120 s) does not fall here.
CheckPasses ==
    /\ pc = "check"
    /\ proposal' = "ready"
    /\ Ends
    /\ UNCHANGED <<attempt, git, diagnosis, submitted>>

CheckFails ==
    /\ pc = "check"
    /\ proposal' = "none"
    /\ Answer(Placeholder)
    /\ UNCHANGED <<attempt, git, diagnosis, submitted>>

-----------------------------------------------------------------------------
(***************************************************************************)
(* The end of a step, of the run.                                          *)
(***************************************************************************)

\* The model ends its turn in a stage: it is told which tool is missing.
Nudge ==
    /\ messages' = Append(messages, User(<<>>))
    /\ used' = used + ReplySize
    /\ UNCHANGED <<verdict, exhausted>>

Fail(why) == status' = "failed" /\ reason' = why /\ UNCHANGED context

Succeed == status' = "success" /\ UNCHANGED <<reason, context>>

Exhausted == step >= MaxSteps

\* Mutation: a run that is done is judged by its steps again.
Judged ==
    IF stop = "end_turn" /\ stage # None /\ ~Exhausted THEN Nudge
    ELSE IF stop = "end_turn" /\ stage = None THEN Succeed
    ELSE IF Exhausted /\ stage # None /\ ~succeeded THEN Fail("finalization_tool_missing")
    ELSE IF Exhausted THEN Fail("exceeded_max_steps")
    ELSE UNCHANGED <<verdict, context>>

Verdict == IF status # "running" THEN UNCHANGED <<verdict, context>> ELSE Judged

\* The stage's tool was run and failed: the stage is kept, it may be corrected.
Corrected ==
    IF status' = "running" /\ stop # "end_turn" /\ stage # None /\ called /\ ~succeeded
      THEN stage ELSE required

StepEnds ==
    /\ pc = "close"
    /\ Verdict
    /\ required' = Corrected
    /\ pc' = IF status' = "running" THEN "step" ELSE "finish"
    /\ UNCHANGED <<step, active, stage, called, succeeded, offered, stop, calls, attempt,
                   store>>

\* The task is cancelled: CancelledError at the await.
Cancel ==
    /\ pc \in Suspended
    /\ status' = "failed" /\ reason' = "cancelled"
    /\ pc' = "finish"
    /\ UNCHANGED <<step, context, staging, offered, stop, calls, attempt, store>>

\* AgentRunner publishes run.finished.
RunEnds ==
    /\ pc = "finish"
    /\ pc' = "over"
    /\ UNCHANGED <<verdict, step, context, staging, offered, stop, calls, attempt, store>>

-----------------------------------------------------------------------------

\* A first run finds no diagnosis; one that recover() starts again may find the
\* diagnosis of its first start and a proposal, which counts as unchecked.
Init ==
    /\ status = "running" /\ reason = None
    /\ step = 0
    /\ messages = <<User(<<>>)>>
    /\ used \in GoalSizes
    /\ exhausted = FALSE
    /\ active = FALSE /\ required = None
    /\ stage = None /\ offered = None
    /\ called = FALSE /\ succeeded = FALSE
    /\ stop = None /\ calls = <<>>
    /\ attempt = 1
    /\ pc = "step"
    /\ git \in BOOLEAN
    /\ diagnosis \in {"none", "direct"}
    /\ proposal \in {"none", "unchecked"}
    /\ diagnosis = "none" => proposal = "none"
    /\ submitted = FALSE

Program ==
    \/ NoProvider \/ StepBegins \/ Respond \/ StreamDropped \/ ProviderFails
    \/ CutOff \/ Refuse \/ Unrunnable \/ Invoke
    \/ ToolFailsOnce \/ Backoff \/ ToolFails \/ ReadDone
    \/ SubmitDirect \/ SubmitFinal
    \/ Propose \/ ProposeUnchecked \/ CheckPasses \/ CheckFails
    \/ StepEnds \/ RunEnds

Next == Program \/ Cancel

Spec == Init /\ [][Next]_vars

\* An answer, an error or a timeout ends every await: the provider's client has
\* a timeout, invoke_tool has one, and so have the git commands.
FairSpec == Spec /\ WF_vars(Program)

-----------------------------------------------------------------------------
(***************************************************************************)
(* Properties.                                                             *)
(***************************************************************************)

Ids == (0..MaxSteps) \X (1..MaxCalls)

TypeOK ==
    /\ status \in {"running", "success", "failed"}
    /\ reason \in {None, "context_budget_exhausted", "llm_error", "cancelled",
                   "finalization_tool_missing", "exceeded_max_steps"}
    /\ step \in 0..MaxSteps
    /\ messages \in Seq([role : {"user", "assistant"}, uses : Seq(Ids), results : Seq(Ids)])
    /\ messages # <<>>
    /\ used \in Nat
    /\ exhausted \in BOOLEAN
    /\ active \in BOOLEAN /\ called \in BOOLEAN /\ succeeded \in BOOLEAN
    /\ {required, stage, offered} \subseteq {None, First, Second}
    /\ stop \in {None, "end_turn", "tool_use", "max_tokens"}
    /\ calls \in Seq([id : Ids, tool : Tools])
    /\ attempt \in 1..3
    /\ pc \in Suspended \cup {"step", "calls", "close", "finish", "over", "dead"}
    /\ git \in BOOLEAN
    /\ diagnosis \in {"none", "direct", "final"}
    /\ proposal \in {"none", "unchecked", "ready"}
    /\ submitted \in BOOLEAN

\* In every request the model is sent, each tool call of each earlier response
\* is answered once, in its order, by the message after it, and no result is
\* without its call: the API refuses a conversation that is not like this.
RequestsArePaired ==
    pc = "ask" =>
        \A i \in DOMAIN messages :
            LET before == IF i = 1 THEN <<>> ELSE messages[i - 1].uses
            IN  /\ messages[i].uses # <<>> => i < Len(messages)
                /\ messages[i].results = before

\* Once the run is in its finalisation, whatever led to it, in the middle of a
\* response or at its last steps, no tool but the required one is run.
OnlyRequiredRuns ==
    pc \in {"tool", "backoff", "check"} /\ active => Current(required)

\* A run that has itself submitted a direct diagnosis which recommends a patch
\* does not succeed before its patch has passed, or before it has replaced the
\* diagnosis by one that needs none.
DirectNeedsProposal ==
    status = "success" /\ submitted /\ diagnosis = "direct" => proposal = "ready"

\* What became of a run is decided once: its steps running out, a late error or
\* a cancellation change nothing afterwards.
StatusIsFinal == [][status # "running" => UNCHANGED verdict]_vars

\* The run ends with a verdict, within MaxSteps answers of the model, unless its
\* provider takes the daemon down, which it can do before the first step only.
RunIsDecided == <>(IF step = 0 THEN pc = "dead" ELSE pc = "over" /\ status # "running")
=============================================================================
