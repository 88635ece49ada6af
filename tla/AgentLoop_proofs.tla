-------------------------- MODULE AgentLoop_proofs --------------------------
(***************************************************************************)
(* Proofs about AgentLoop, for every number of steps, budget, reserve and   *)
(* number of calls in a response.                                          *)
(*                                                                         *)
(* Types and stages are proved together, in one inductive invariant: the   *)
(* bound on the steps rests on the verdict at the end of each, the verdict  *)
(* on the stage, and the stage on the calls still to be answered.          *)
(***************************************************************************)
EXTENDS AgentLoop, SequenceTheorems, TLAPS

Running == {"tool", "backoff", "check"}

\* Where the coroutine stands, and the response it is working on.
ControlInv ==
    /\ pc = "step" => status = "running" /\ step < MaxSteps
    /\ status # "running" => pc \in {"close", "finish", "over"}
    /\ pc \in Running \cup {"calls"} => calls # <<>>
    /\ pc \in Running => stop = "tool_use"

\* The stage of the step is the one required, except in a response that was cut
\* off, which runs nothing.
StageInv ==
    /\ active => required # None
    /\ ~active => stage = None
    /\ pc = "ask" /\ active => stage = required
    /\ /\ pc \in Running \cup {"calls", "close"}
       /\ stop # "max_tokens"
       /\ active
       => stage = required
    /\ pc \in Running /\ stage # None => Current(stage)

\* A patch that is ready belongs to a direct diagnosis, and ends the run.
ReadyIsFinal ==
    proposal = "ready" => diagnosis = "direct" /\ pc \in {"close", "finish", "over"}

\* A direct diagnosis of this run keeps it in its finalisation.
StoreInv ==
    /\ submitted /\ diagnosis = "direct" => active
    /\ pc = "check" => diagnosis = "direct"
    /\ proposal = "ready" => status # "running"
    /\ DirectNeedsProposal
    /\ ReadyIsFinal

IInv == TypeOK /\ ControlInv /\ StageInv /\ StoreInv

\* A response that was cut off has run no tool.
CutOffHolds ==
    /\ pc \in Running => stop = "tool_use"
    /\ pc = "ask" => ~called
    /\ pc \in {"calls", "close"} /\ stop = "max_tokens" => ~called

-----------------------------------------------------------------------------
(***************************************************************************)
(* The operators.                                                          *)
(***************************************************************************)

Message == [role : {"user", "assistant"}, uses : Seq(Ids), results : Seq(Ids)]

\* The first pending call and those after it.
LEMMA FirstCall ==
    ASSUME TypeOK, calls # <<>>
    PROVE  /\ Head(calls) \in [id : Ids, tool : Tools]
           /\ Tail(calls) \in Seq([id : Ids, tool : Tools])
  <1> DEFINE C == [id : Ids, tool : Tools]
  <1>1. calls \in Seq(C)
    BY DEF TypeOK
  <1> HIDE DEF C
  <1>2. Head(calls) \in C /\ Tail(calls) \in Seq(C)
    BY <1>1
  <1> QED
    BY <1>2 DEF C

\* A result is joined to a well-formed conversation.
LEMMA JoinedIsMessages ==
    ASSUME TypeOK, NEW id \in Ids
    PROVE  Joined(id) \in Seq(Message) /\ Joined(id) # <<>>
  <1> DEFINE last == Len(messages)
  <1>1. messages \in Seq(Message) /\ last \in Nat \ {0} /\ last \in DOMAIN messages
    BY DEF TypeOK, Message
  <1>2. User(<<id>>) \in Message
    BY DEF User, Message
  <1>3. Append(messages, User(<<id>>)) \in Seq(Message)
    BY <1>1, <1>2
  <1>4. Append(messages, User(<<id>>)) # <<>>
    BY <1>1, <1>2
  <1>5. messages[last] \in Message
    BY <1>1
  <1>6. Append(messages[last].results, id) \in Seq(Ids)
    BY <1>5 DEF Message
  <1> DEFINE joined == [messages EXCEPT ![last].results = Append(@, id)]
  <1>7. [messages[last] EXCEPT !.results = Append(@, id)] \in Message
    BY <1>5, <1>6 DEF Message
  <1>8. joined \in Seq(Message) /\ Len(joined) = last
    BY <1>1, <1>7
  <1>9. joined # <<>>
    BY <1>1, <1>8
  <1> QED
    BY <1>3, <1>4, <1>8, <1>9 DEF Joined

LEMMA SizesAreNat ==
    ASSUME NEW tool
    PROVE  SchemaSize(tool) \in Nat
  BY DEF SchemaSize

\* add_tool_result keeps the context well-formed, whatever gives way.
LEMMA AddResultType ==
    ASSUME TypeOK, calls # <<>>, NEW n \in Nat, AddResult(Head(calls), n)
    PROVE  /\ messages' \in Seq(Message) /\ messages' # <<>>
           /\ used' \in Nat
           /\ exhausted' \in BOOLEAN
  <1>1. Head(calls).id \in Ids
    BY FirstCall
  <1>2. messages' \in Seq(Message) /\ messages' # <<>>
    BY <1>1, JoinedIsMessages DEF AddResult
  <1>3. used' \in Nat
    BY DEF AddResult, TypeOK, Placeholder
  <1>4. exhausted' \in BOOLEAN
    BY DEF AddResult, TypeOK
  <1> QED
    BY <1>2, <1>3, <1>4

\* The loop goes on with the next call, or closes the step.
LEMMA NextCallType ==
    ASSUME TypeOK, calls # <<>>, NextCall
    PROVE  /\ calls' \in Seq([id : Ids, tool : Tools])
           /\ pc' \in {"calls", "close"}
           /\ pc' = "calls" => calls' # <<>>
  BY FirstCall DEF NextCall

LEMMA RedirectedType ==
    ASSUME TypeOK, NEW hit \in BOOLEAN, Redirected(hit)
    PROVE  /\ active' \in BOOLEAN /\ called' \in BOOLEAN /\ succeeded' \in BOOLEAN
           /\ {required', stage'} \subseteq {None, First, Second}
  <1>1. active' \in BOOLEAN /\ called' \in BOOLEAN /\ succeeded' \in BOOLEAN
    BY Zenon DEF Redirected, TypeOK
  <1>2. {required', stage'} \subseteq {None, First, Second}
    BY DEF Redirected, TypeOK
  <1> QED
    BY <1>1, <1>2

LEMMA ReserveHitType ==
    ASSUME NEW call, NEW n
    PROVE  ReserveHit(call, n) \in BOOLEAN
  BY Zenon DEF ReserveHit

-----------------------------------------------------------------------------
(***************************************************************************)
(* The branches the actions share.                                         *)
(***************************************************************************)

\* A call of a response that asks for tools is answered and the run goes on.
LEMMA AnswerKeepsInv ==
    ASSUME IInv, pc \in Running \cup {"calls"}, stop = "tool_use",
           NEW n \in Nat, Answer(n),
           UNCHANGED <<attempt, git, diagnosis, submitted>>, proposal' \in {proposal, "none"}
    PROVE  IInv'
  <1> DEFINE hit == ReserveHit(Head(calls), n)
  <1>1. calls # <<>> /\ TypeOK
    BY DEF IInv, ControlInv
  <1>2. AddResult(Head(calls), n) /\ Redirected(hit) /\ NextCall /\ hit \in BOOLEAN
    BY ReserveHitType DEF Answer
  <1>3. TypeOK'
    <2>1. /\ messages' \in Seq(Message) /\ messages' # <<>>
          /\ used' \in Nat /\ exhausted' \in BOOLEAN
      BY <1>1, <1>2, AddResultType
    <2>2. /\ calls' \in Seq([id : Ids, tool : Tools])
          /\ pc' \in {"calls", "close"}
      BY <1>1, <1>2, NextCallType
    <2>3. /\ active' \in BOOLEAN /\ called' \in BOOLEAN /\ succeeded' \in BOOLEAN
          /\ {required', stage'} \subseteq {None, First, Second}
      BY <1>1, <1>2, RedirectedType
    <2>4. /\ status' = status /\ reason' = reason /\ step' = step
          /\ offered' = offered /\ stop' = stop
      BY <1>2 DEF NextCall, verdict
    <2>5. proposal' \in {"none", "unchecked", "ready"}
      BY <1>1 DEF TypeOK
    <2>6. {required', stage', offered'} \subseteq {None, First, Second}
      BY <1>1, <2>3, <2>4 DEF TypeOK
    <2> QED
      BY <1>1, <2>1, <2>2, <2>3, <2>4, <2>5, <2>6 DEF TypeOK, Message
  <1>4. ControlInv'
    <2>1. status' = status /\ status = "running"
      BY <1>2 DEF NextCall, verdict, IInv, ControlInv, Running, TypeOK
    <2> QED
      BY <1>1, <1>2, <2>1, NextCallType DEF ControlInv, Running
  <1>5. StageInv'
    <2>1. CASE hit
      <3>1. active' /\ required' = First /\ stage' = First
        BY <1>2, <2>1, Zenon DEF Redirected
      <3> QED
        BY <1>1, <1>2, <3>1, NextCallType DEF StageInv, Running, First, None
    <2>2. CASE ~hit
      <3>1. active' = active
        BY <1>1, <1>2, <2>2, Zenon DEF Redirected, TypeOK
      <3>2. required' = required /\ stage' = stage
        BY <1>2, <2>2 DEF Redirected
      <3> QED
        BY <1>1, <1>2, <3>1, <3>2, NextCallType DEF IInv, StageInv, Running
    <2> QED
      BY <2>1, <2>2
  <1>6. StoreInv'
    <2>1. active => active'
      BY <1>2, Zenon DEF Redirected
    <2>2. pc' \in {"calls", "close"} /\ status' = status /\ status = "running"
      BY <1>1, <1>2, NextCallType
      DEF NextCall, verdict, IInv, ControlInv, Running, TypeOK
    <2>3. proposal # "ready"
      BY DEF IInv, StoreInv, ReadyIsFinal, Running
    <2> QED
      BY <2>1, <2>2, <2>3 DEF IInv, StoreInv, DirectNeedsProposal, ReadyIsFinal
  <1> QED
    BY <1>3, <1>4, <1>5, <1>6 DEF IInv

\* A tool's result ends the run.
LEMMA EndsKeepsInv ==
    ASSUME IInv, pc \in Running, Ends, attempt' = attempt, git' = git,
           diagnosis' \in {"direct", "final"}, proposal' \in {proposal, "ready"},
           submitted' \in BOOLEAN,
           diagnosis' = "direct" => diagnosis = "direct" /\ (submitted' => submitted)
                                    /\ proposal' = "ready",
           diagnosis' = "final" => proposal' = proposal
    PROVE  IInv'
  <1>1. calls # <<>> /\ TypeOK
    BY DEF IInv, ControlInv
  <1>2. TypeOK'
    <2>1. /\ messages' \in Seq(Message) /\ messages' # <<>>
          /\ used' \in Nat /\ exhausted' \in BOOLEAN
      BY <1>1, AddResultType DEF Ends, Placeholder
    <2>2. calls' \in Seq([id : Ids, tool : Tools])
      BY <1>1, FirstCall DEF Ends
    <2>3. called' \in BOOLEAN /\ succeeded' \in BOOLEAN
      BY <1>1, Zenon DEF Ends, TypeOK
    <2>4. proposal' \in {"none", "unchecked", "ready"}
      BY <1>1 DEF TypeOK
    <2> QED
      BY <1>1, <2>1, <2>2, <2>3, <2>4 DEF TypeOK, Message, Ends
  <1>3. ControlInv'
    BY DEF Ends, ControlInv, Running
  <1>4. StageInv'
    BY DEF IInv, ControlInv, StageInv, Ends, Running
  <1>5. StoreInv'
    <2>1. pc' = "close" /\ active' = active /\ status' = "success"
      BY DEF Ends
    <2>2. proposal # "ready"
      BY DEF IInv, StoreInv, ReadyIsFinal, Running
    <2> QED
      BY <2>1, <2>2 DEF IInv, StoreInv, DirectNeedsProposal, ReadyIsFinal
  <1> QED
    BY <1>2, <1>3, <1>4, <1>5 DEF IInv

-----------------------------------------------------------------------------
(***************************************************************************)
(* The steps.                                                              *)
(***************************************************************************)

LEMMA InitInv == Init => IInv
  <1> SUFFICES ASSUME Init PROVE IInv
    OBVIOUS
  <1>1. messages \in Seq(Message) /\ messages # <<>>
    <2>1. User(<<>>) \in Message
      BY DEF User, Message
    <2> QED
      BY <2>1 DEF Init
  <1>2. used \in Nat /\ step \in 0..MaxSteps
    BY AgentAssumption DEF Init
  <1>3. TypeOK
    <2>1. /\ active \in BOOLEAN /\ called \in BOOLEAN /\ succeeded \in BOOLEAN
          /\ submitted \in BOOLEAN /\ exhausted \in BOOLEAN /\ git \in BOOLEAN
      BY DEF Init
    <2>2. {required, stage, offered} \subseteq {None, First, Second} /\ attempt \in 1..3
      BY DEF Init
    <2>3. calls \in Seq([id : Ids, tool : Tools])
      BY DEF Init
    <2> QED
      BY <1>1, <1>2, <2>1, <2>2, <2>3 DEF Init, TypeOK, Message
  <1>4. ControlInv /\ StageInv /\ StoreInv
    BY AgentAssumption DEF Init, ControlInv, StageInv, StoreInv, DirectNeedsProposal,
       ReadyIsFinal, Running, None
  <1> QED
    BY <1>3, <1>4 DEF IInv

LEMMA StepBeginsInv == IInv /\ StepBegins => IInv'
  <1> SUFFICES ASSUME IInv, StepBegins PROVE IInv'
    OBVIOUS
  <1> DEFINE late  == ~active /\ LastSteps
             early == IF late THEN First ELSE IF active THEN required ELSE None
             full  == ~active /\ ~late /\ OverSoft(early)
             tool  == IF full THEN First ELSE early
  <1>1. TypeOK /\ pc = "step" /\ status = "running" /\ step < MaxSteps
    BY DEF IInv, ControlInv, StepBegins
  <1>2. /\ step' = step + 1
        /\ active' = (active \/ late \/ full)
        /\ required' = IF late \/ full THEN First ELSE required
        /\ stage' = tool /\ offered' = tool
        /\ called' = FALSE /\ succeeded' = FALSE /\ attempt' = 1
        /\ UNCHANGED <<messages, used, exhausted, stop, calls, git, diagnosis, proposal,
                       submitted>>
    BY DEF StepBegins, context, store
  <1>3. \/ /\ status' = "failed" /\ reason' = "context_budget_exhausted"
           /\ pc' = "finish"
        \/ pc' = "ask" /\ UNCHANGED <<status, reason>>
    BY DEF StepBegins, verdict
  <1>4. late \in BOOLEAN /\ full \in BOOLEAN
    BY Zenon
  <1>5. active' \in BOOLEAN
    BY <1>2, Zenon
  <1>6. {required', stage', offered'} \subseteq {None, First, Second}
    BY <1>1, <1>2 DEF TypeOK
  <1>7. step' \in 0..MaxSteps
    BY <1>1, <1>2, AgentAssumption DEF TypeOK
  <1>8. TypeOK'
    <2>1. /\ status' \in {"running", "success", "failed"}
          /\ reason' \in {None, "context_budget_exhausted", "llm_error", "cancelled",
                          "finalization_tool_missing", "exceeded_max_steps"}
          /\ pc' \in {"ask", "finish"}
      BY <1>1, <1>3 DEF TypeOK
    <2>2. called' \in BOOLEAN /\ succeeded' \in BOOLEAN
      BY <1>2, Zenon
    <2>3. attempt' \in 1..3
      BY <1>2
    <2>4. pc' \in Suspended \cup {"step", "calls", "close", "finish", "over", "dead"}
      BY <2>1 DEF Suspended
    <2> QED
      BY <1>1, <1>2, <1>5, <1>6, <1>7, <2>1, <2>2, <2>3, <2>4 DEF TypeOK
  <1>9. ControlInv'
    BY <1>1, <1>3 DEF ControlInv, Running
  <1>10. StageInv'
    <2>1. CASE late \/ full
      <3>1. active' /\ required' = First /\ stage' = First
        BY <1>2, <2>1
      <3> QED
        BY <1>3, <3>1 DEF StageInv, Running, First, None
    <2>2. CASE ~(late \/ full)
      <3>1. required' = required /\ stage' = IF active THEN required ELSE None
        BY <1>2, <2>2
      <3>2. active' = active
        BY <1>1, <1>2, <2>2, Zenon DEF TypeOK
      <3> QED
        BY <1>3, <3>1, <3>2 DEF IInv, StageInv, Running
    <2> QED
      BY <2>1, <2>2
  <1>11. StoreInv'
    <2>1. active => active'
      BY <1>2
    <2>2. status' # "success" /\ proposal # "ready"
      BY <1>1, <1>3 DEF IInv, StoreInv, ReadyIsFinal
    <2> QED
      BY <1>2, <1>3, <2>1, <2>2 DEF IInv, StoreInv, DirectNeedsProposal, ReadyIsFinal
  <1> QED
    BY <1>8, <1>9, <1>10, <1>11 DEF IInv

\* The ids of a response of n calls.
LEMMA ResponseType ==
    ASSUME TypeOK, NEW tools \in Responses
    PROVE  /\ DOMAIN tools = 1..Len(tools)
           /\ [k \in DOMAIN tools |-> Call(k, tools[k])] \in Seq([id : Ids, tool : Tools])
           /\ [k \in DOMAIN tools |-> Call(k, tools[k]).id] \in Seq(Ids)
           /\ Len([k \in DOMAIN tools |-> Call(k, tools[k])]) = Len(tools)
           /\ Len([k \in DOMAIN tools |-> Call(k, tools[k]).id]) = Len(tools)
           /\ Len(tools) \in Nat
           /\ tools = <<>> <=> Len(tools) = 0
  <1>1. PICK n \in 0..MaxCalls : tools \in [1..n -> Tools]
    BY DEF Responses
  <1>2. n \in Nat /\ MaxCalls \in Nat
    BY <1>1, AgentAssumption
  <1>3. tools \in Seq(Tools) /\ Len(tools) = n /\ DOMAIN tools = 1..n
    BY <1>1, <1>2
  <1>4. \A k \in 1..n : <<step, k>> \in Ids
    <2>1. step \in 0..MaxSteps
      BY Zenon DEF TypeOK
    <2>2. ASSUME NEW k \in 1..n
          PROVE  k \in 1..MaxCalls
      BY <1>1, <1>2
    <2> QED
      BY <2>1, <2>2, Zenon DEF Ids
  <1>5. \A k \in 1..n : Call(k, tools[k]) \in [id : Ids, tool : Tools]
    BY <1>1, <1>4 DEF Call
  <1>6. [k \in 1..n |-> Call(k, tools[k])] \in Seq([id : Ids, tool : Tools])
    BY <1>2, <1>5
  <1>7. \A k \in 1..n : Call(k, tools[k]).id \in Ids
    BY <1>5
  <1>8. [k \in 1..n |-> Call(k, tools[k]).id] \in Seq(Ids)
    BY <1>2, <1>7
  <1>9. /\ Len([k \in 1..n |-> Call(k, tools[k])]) = n
        /\ Len([k \in 1..n |-> Call(k, tools[k]).id]) = n
    BY <1>2
  <1> QED
    BY <1>2, <1>3, <1>6, <1>8, <1>9

LEMMA RespondInv == IInv /\ Respond => IInv'
  <1> SUFFICES ASSUME IInv, Respond PROVE IInv'
    OBVIOUS
  <1>1. TypeOK /\ pc = "ask" /\ status = "running"
    BY DEF IInv, ControlInv, Respond, TypeOK
  <1>2. PICK reply \in {"end_turn", "tool_use", "max_tokens"}, tools \in Responses :
          /\ Fits(reply, tools)
          /\ stop' = reply
          /\ calls' = [k \in DOMAIN tools |-> Call(k, tools[k])]
          /\ messages' = Append(messages,
                                Assistant([k \in DOMAIN tools |-> Call(k, tools[k]).id]))
          /\ used' = used + ReplySize
          /\ pc' = IF tools = <<>> THEN "close" ELSE "calls"
    BY DEF Respond
  <1>3. UNCHANGED <<status, reason, step, exhausted, active, required, stage, called,
                    succeeded, offered, attempt, git, diagnosis, proposal, submitted>>
    BY DEF Respond, verdict, staging, store
  <1>4. /\ calls' \in Seq([id : Ids, tool : Tools])
        /\ tools # <<>> => calls' # <<>>
    BY <1>1, <1>2, ResponseType
  <1>5. messages' \in Seq(Message) /\ messages' # <<>>
    <2> DEFINE uses == [k \in DOMAIN tools |-> Call(k, tools[k]).id]
    <2>1. uses \in Seq(Ids)
      BY <1>1, ResponseType
    <2>2. messages' = Append(messages, Assistant(uses))
      BY <1>2
    <2> HIDE DEF uses
    <2>3. Assistant(uses) \in Message
      BY <2>1 DEF Assistant, Message
    <2>4. messages \in Seq(Message)
      BY <1>1 DEF TypeOK, Message
    <2> QED
      BY <2>2, <2>3, <2>4
  <1>6. TypeOK'
    <2>1. used' \in Nat
      BY <1>1, <1>2 DEF TypeOK, ReplySize
    <2>2. stop' \in {None, "end_turn", "tool_use", "max_tokens"} /\ pc' \in {"close", "calls"}
      BY <1>2
    <2> QED
      BY <1>1, <1>3, <1>4, <1>5, <2>1, <2>2 DEF TypeOK, Message
  <1>7. ControlInv'
    BY <1>1, <1>2, <1>3, <1>4 DEF ControlInv, Running
  <1>8. StageInv'
    BY <1>1, <1>2, <1>3 DEF IInv, StageInv, Running
  <1>9. StoreInv'
    BY <1>1, <1>2, <1>3 DEF IInv, StoreInv, DirectNeedsProposal, ReadyIsFinal
  <1> QED
    BY <1>6, <1>7, <1>8, <1>9 DEF IInv

\* The run breaks off, or is over.
LEMMA StopKeepsInv ==
    ASSUME IInv, UNCHANGED <<step, messages, used, exhausted, active, required, stage,
                             offered, called, succeeded, stop, calls, attempt, git, diagnosis,
                             proposal, submitted>>,
           \/ /\ pc' = "finish" /\ status' = "failed" /\ pc \in Suspended
              /\ reason' \in {"llm_error", "cancelled"}
           \/ pc = "finish" /\ pc' = "over" /\ UNCHANGED <<status, reason>>
           \/ pc = "step" /\ pc' = "dead" /\ UNCHANGED <<status, reason>>
    PROVE  IInv'
  <1>1. TypeOK'
    BY DEF IInv, TypeOK
  <1>2. ControlInv'
    BY DEF IInv, TypeOK, ControlInv, Running
  <1>3. StageInv'
    BY DEF IInv, TypeOK, StageInv, Running
  <1>4. StoreInv'
    BY DEF IInv, TypeOK, ControlInv, StoreInv, DirectNeedsProposal, ReadyIsFinal,
       Suspended
  <1> QED
    BY <1>1, <1>2, <1>3, <1>4 DEF IInv

\* A call is begun, tried again, or waits for git.
LEMMA MoveKeepsInv ==
    ASSUME IInv, UNCHANGED <<status, reason, step, messages, used, exhausted, active,
                             required, stage, offered, succeeded, stop, calls, git, diagnosis,
                             submitted>>,
           called' \in BOOLEAN, attempt' \in 1..3, proposal' \in {proposal, "unchecked"},
           pc \in Running \cup {"calls"}, pc' \in Running, stop = "tool_use",
           stage # None => Current(stage),
           pc' = "check" => diagnosis = "direct"
    PROVE  IInv'
  <1>1. TypeOK'
    BY DEF IInv, TypeOK, Suspended, Running
  <1>2. ControlInv'
    BY DEF IInv, TypeOK, ControlInv, Running
  <1>3. StageInv'
    BY DEF IInv, StageInv, Running, Current
  <1>4. StoreInv'
    BY DEF IInv, TypeOK, ControlInv, StoreInv, DirectNeedsProposal, ReadyIsFinal, Running
  <1> QED
    BY <1>1, <1>2, <1>3, <1>4 DEF IInv

LEMMA StreamDroppedInv == IInv /\ StreamDropped => IInv'
  <1> SUFFICES ASSUME IInv, StreamDropped PROVE IInv'
    OBVIOUS
  <1>1. /\ UNCHANGED <<status, reason, step, messages, used, exhausted, active, required,
                       stage, called, succeeded, offered, stop, calls, pc, git, diagnosis,
                       proposal, submitted>>
        /\ attempt' = attempt + 1 /\ attempt < MaxStreams
    BY DEF StreamDropped, verdict, context, staging, store
  <1>2. TypeOK'
    BY <1>1 DEF IInv, TypeOK, MaxStreams
  <1>3. ControlInv' /\ StageInv' /\ StoreInv'
    BY <1>1 DEF IInv, ControlInv, StageInv, StoreInv, Current, DirectNeedsProposal,
       ReadyIsFinal
  <1> QED
    BY <1>2, <1>3 DEF IInv

LEMMA CutOffInv == IInv /\ CutOff => IInv'
  <1> SUFFICES ASSUME IInv, CutOff PROVE IInv'
    OBVIOUS
  <1> DEFINE hit == ReserveHit(Head(calls), Placeholder)
  <1>1. TypeOK /\ pc = "calls" /\ stop = "max_tokens" /\ calls # <<>> /\ status = "running"
    BY DEF IInv, ControlInv, CutOff, TypeOK
  <1>2. /\ AddResult(Head(calls), Placeholder) /\ Scheduled(hit) /\ NextCall
        /\ hit \in BOOLEAN
        /\ UNCHANGED <<attempt, git, diagnosis, proposal, submitted>>
    BY ReserveHitType DEF CutOff, store
  <1>3. /\ messages' \in Seq(Message) /\ messages' # <<>>
        /\ used' \in Nat /\ exhausted' \in BOOLEAN
    BY <1>1, <1>2, AddResultType DEF Placeholder
  <1>4. /\ calls' \in Seq([id : Ids, tool : Tools])
        /\ pc' \in {"calls", "close"}
        /\ pc' = "calls" => calls' # <<>>
    BY <1>1, <1>2, NextCallType
  <1>5. active' \in BOOLEAN
    BY <1>1, <1>2, Zenon DEF Scheduled, TypeOK
  <1>6. /\ UNCHANGED <<stage, called, succeeded>>
        /\ required' \in {required, First}
    BY <1>2 DEF Scheduled
  <1>7. UNCHANGED <<status, reason, step, offered, stop>>
    BY <1>2 DEF NextCall, verdict
  <1>8. TypeOK'
    BY <1>1, <1>2, <1>3, <1>4, <1>5, <1>6, <1>7 DEF TypeOK, Message
  <1>9. ControlInv'
    BY <1>1, <1>4, <1>7 DEF ControlInv, Running
  <1>10. active => active'
    BY <1>2, Zenon DEF Scheduled
  <1>11. StageInv'
    <2>1. active' => required' # None
      <3>1. CASE hit
        BY <1>2, <3>1 DEF Scheduled, First, None
      <3>2. CASE ~hit
        BY <1>2, <3>2 DEF Scheduled, IInv, StageInv
      <3> QED
        BY <3>1, <3>2
    <2>2. ~active' => stage' = None
      BY <1>6, <1>10 DEF IInv, StageInv
    <2> QED
      BY <1>1, <1>4, <1>7, <2>1, <2>2 DEF StageInv, Running
  <1>12. StoreInv'
    BY <1>1, <1>2, <1>4, <1>7, <1>10
    DEF IInv, StoreInv, DirectNeedsProposal, ReadyIsFinal
  <1> QED
    BY <1>8, <1>9, <1>11, <1>12 DEF IInv

LEMMA SubmitDirectInv == IInv /\ SubmitDirect => IInv'
  <1> SUFFICES ASSUME IInv, SubmitDirect PROVE IInv'
    OBVIOUS
  <1>1. TypeOK /\ pc = "tool" /\ calls # <<>> /\ status = "running" /\ stop = "tool_use"
    BY DEF IInv, ControlInv, SubmitDirect, TypeOK, Running
  <1>2. /\ AddResult(Head(calls), Placeholder) /\ Advanced /\ NextCall
        /\ diagnosis' = "direct" /\ submitted' = TRUE
        /\ UNCHANGED <<attempt, git, proposal>>
    BY DEF SubmitDirect
  <1>3. /\ messages' \in Seq(Message) /\ messages' # <<>>
        /\ used' \in Nat /\ exhausted' \in BOOLEAN
    BY <1>1, <1>2, AddResultType DEF Placeholder
  <1>4. /\ calls' \in Seq([id : Ids, tool : Tools])
        /\ pc' \in {"calls", "close"}
        /\ pc' = "calls" => calls' # <<>>
    BY <1>1, <1>2, NextCallType
  <1>5. active' \in BOOLEAN /\ called' \in BOOLEAN /\ succeeded' \in BOOLEAN
    BY <1>2, Zenon DEF Advanced
  <1>6. active' /\ required' = Second /\ stage' = Second
    BY <1>2 DEF Advanced
  <1>7. UNCHANGED <<status, reason, step, offered, stop>>
    BY <1>2 DEF NextCall, verdict
  <1>8. submitted' \in BOOLEAN
    BY <1>2, Zenon
  <1>9. TypeOK'
    BY <1>1, <1>2, <1>3, <1>4, <1>5, <1>6, <1>7, <1>8 DEF TypeOK, Message
  <1>10. ControlInv'
    BY <1>1, <1>4, <1>7 DEF ControlInv, Running
  <1>11. StageInv'
    BY <1>4, <1>6 DEF StageInv, Running, Second, None
  <1>12. StoreInv'
    BY <1>1, <1>2, <1>4, <1>6, <1>7
    DEF IInv, StoreInv, DirectNeedsProposal, ReadyIsFinal
  <1> QED
    BY <1>9, <1>10, <1>11, <1>12 DEF IInv

\* A step that ends with the run still going has steps left.
LEMMA VerdictType ==
    ASSUME IInv, pc = "close", Verdict
    PROVE  /\ status' \in {"running", "success", "failed"}
           /\ reason' \in {None, "context_budget_exhausted", "llm_error", "cancelled",
                           "finalization_tool_missing", "exceeded_max_steps"}
           /\ messages' \in Seq(Message) /\ messages' # <<>>
           /\ used' \in Nat
           /\ exhausted' = exhausted
           /\ status' = "running" => step < MaxSteps
           /\ status # "running" => UNCHANGED <<status, reason>>
           /\ status = "running" /\ status' = "success" =>
                stop = "end_turn" /\ stage = None
  <1>1. TypeOK /\ messages \in Seq(Message)
    BY DEF IInv, TypeOK, Message
  <1>2. CASE status # "running"
    BY <1>1, <1>2 DEF Verdict, TypeOK, verdict, context
  <1>3. CASE status = "running" /\ Nudge /\ ~Exhausted
    <2>1. User(<<>>) \in Message
      BY DEF User, Message
    <2>2. messages' \in Seq(Message) /\ messages' # <<>>
      BY <1>1, <1>3, <2>1 DEF Nudge
    <2>3. used' \in Nat /\ UNCHANGED <<status, reason, exhausted>>
      BY <1>1, <1>3 DEF Nudge, TypeOK, ReplySize, verdict
    <2>4. step < MaxSteps
      BY <1>1, <1>3, AgentAssumption DEF Exhausted, TypeOK
    <2> QED
      BY <1>1, <1>3, <2>2, <2>3, <2>4 DEF TypeOK
  <1>4. CASE status = "running" /\ Succeed /\ stop = "end_turn" /\ stage = None
    BY <1>1, <1>4 DEF Succeed, TypeOK, context
  <1>5. CASE status = "running" /\ (\/ Fail("finalization_tool_missing")
                                    \/ Fail("exceeded_max_steps"))
    BY <1>1, <1>5 DEF Fail, TypeOK, context
  <1>6. CASE status = "running" /\ ~Exhausted /\ UNCHANGED <<verdict, context>>
    <2>1. step < MaxSteps
      BY <1>1, <1>6, AgentAssumption DEF Exhausted, TypeOK
    <2> QED
      BY <1>1, <1>6, <2>1 DEF TypeOK, verdict, context
  <1> QED
    BY <1>2, <1>3, <1>4, <1>5, <1>6 DEF Verdict, Judged

\* A stage that is kept for a correction is the one required anyway.
LEMMA CorrectedIsRequired == IInv /\ CutOffHolds /\ pc = "close" => Corrected = required
  <1> SUFFICES ASSUME IInv, CutOffHolds, pc = "close", called, stage # None
               PROVE  stage = required
    BY DEF Corrected
  <1>1. stop # "max_tokens"
    BY DEF CutOffHolds
  <1>2. active
    BY DEF IInv, StageInv, TypeOK
  <1> QED
    BY <1>1, <1>2 DEF IInv, StageInv

LEMMA StepEndsInv == IInv /\ CutOffHolds /\ StepEnds => IInv'
  <1> SUFFICES ASSUME IInv, CutOffHolds, StepEnds PROVE IInv'
    OBVIOUS
  <1>1. TypeOK /\ pc = "close" /\ Verdict
    BY DEF IInv, StepEnds
  <1>2. /\ UNCHANGED <<step, active, required, stage, called, succeeded, offered, stop,
                       calls, attempt, git, diagnosis, proposal, submitted>>
        /\ pc' = IF status' = "running" THEN "step" ELSE "finish"
    BY CorrectedIsRequired DEF StepEnds, staging, store
  <1>3. TypeOK'
    BY <1>1, <1>2, VerdictType DEF TypeOK, Message
  <1>4. ControlInv'
    BY <1>1, <1>2, VerdictType DEF ControlInv, Running
  <1>5. StageInv'
    BY <1>2 DEF IInv, StageInv, Running
  <1>6. StoreInv'
    <2>1. ASSUME status' = "success", status = "running" PROVE ~active
      <3>1. stop = "end_turn" /\ stage = None
        BY <1>1, <2>1, VerdictType
      <3> QED
        BY <1>1, <3>1 DEF IInv, StageInv
    <2>2. status # "running" => status' = status
      BY <1>1, VerdictType
    <2> QED
      BY <1>1, <1>2, <2>1, <2>2
      DEF IInv, TypeOK, StoreInv, DirectNeedsProposal, ReadyIsFinal
  <1> QED
    BY <1>3, <1>4, <1>5, <1>6 DEF IInv

-----------------------------------------------------------------------------
(***************************************************************************)
(* The theorems.                                                           *)
(***************************************************************************)

LEMMA NextCutOff == CutOffHolds /\ [Next]_vars => CutOffHolds'
  <1> SUFFICES ASSUME CutOffHolds, [Next]_vars PROVE CutOffHolds'
    OBVIOUS
  <1> USE DEF CutOffHolds, Running
  <1>1. CASE StepBegins
    BY <1>1 DEF StepBegins
  <1>2. CASE Respond
    BY <1>2 DEF Respond, staging
  <1>3. CASE NoProvider \/ StreamDropped \/ ProviderFails \/ Cancel \/ RunEnds
    BY <1>3 DEF NoProvider, StreamDropped, ProviderFails, Cancel, RunEnds, staging
  <1>4. CASE CutOff
    BY <1>4 DEF CutOff, Scheduled, NextCall
  <1>5. CASE Refuse \/ Unrunnable
    BY <1>5 DEF Refuse, Unrunnable, Answer, NextCall
  <1>6. CASE Invoke \/ ToolFailsOnce \/ Backoff \/ Propose
    BY <1>6 DEF Invoke, ToolFailsOnce, Backoff, Propose
  <1>7. CASE ToolFails \/ ReadDone \/ CheckFails
    BY <1>7 DEF ToolFails, ReadDone, CheckFails, Answer, NextCall
  <1>8. CASE SubmitDirect
    BY <1>8 DEF SubmitDirect, NextCall
  <1>9. CASE SubmitFinal \/ ProposeUnchecked \/ CheckPasses
    BY <1>9 DEF SubmitFinal, ProposeUnchecked, CheckPasses, Ends
  <1>10. CASE StepEnds
    BY <1>10 DEF StepEnds
  <1>11. CASE UNCHANGED vars
    BY <1>11 DEF vars
  <1> QED
    BY <1>1, <1>2, <1>3, <1>4, <1>5, <1>6, <1>7, <1>8, <1>9, <1>10, <1>11
    DEF Next, Program

LEMMA NextInv == IInv /\ CutOffHolds /\ [Next]_vars => IInv'
  <1> SUFFICES ASSUME IInv, CutOffHolds, [Next]_vars PROVE IInv'
    OBVIOUS
  <1> USE DEF verdict, context, staging, store
  <1>1. TypeOK /\ (pc \in Running \cup {"calls"} => calls # <<>>)
        /\ (pc \in Running => stop = "tool_use")
    BY DEF IInv, ControlInv
  <1>2. CASE StepBegins
    BY <1>2, StepBeginsInv
  <1>3. CASE Respond
    BY <1>3, RespondInv
  <1>4. CASE StreamDropped
    BY <1>4, StreamDroppedInv
  <1>5. CASE ProviderFails
    BY <1>5, StopKeepsInv DEF ProviderFails, Suspended
  <1>6. CASE CutOff
    BY <1>6, CutOffInv
  <1>7. CASE Refuse
    BY <1>7, AnswerKeepsInv DEF Refuse, Placeholder
  <1>8. CASE Unrunnable
    BY <1>8, AnswerKeepsInv DEF Unrunnable, Placeholder
  <1>9. CASE Invoke
    <2>1. called' \in BOOLEAN
      BY <1>9, Zenon DEF Invoke
    <2>2. attempt' \in 1..3 /\ pc' \in Running /\ pc' # "check"
      BY <1>9 DEF Invoke, Running
    <2>3. stage # None => Current(stage)
      BY <1>9 DEF Invoke, OffStage, Current
    <2> QED
      BY <1>9, <2>1, <2>2, <2>3, MoveKeepsInv DEF Invoke
  <1>10. CASE ToolFailsOnce
    <2>1. attempt' \in 1..3 /\ called' \in BOOLEAN
      BY <1>1, <1>10 DEF ToolFailsOnce, Retry, TypeOK, MaxRetries
    <2>2. stage # None => Current(stage)
      BY <1>10 DEF ToolFailsOnce, IInv, StageInv, Running
    <2> QED
      BY <1>1, <1>10, <2>1, <2>2, MoveKeepsInv DEF ToolFailsOnce, Running
  <1>11. CASE Backoff
    <2>1. attempt' \in 1..3 /\ called' \in BOOLEAN
      BY <1>1, <1>11 DEF Backoff, TypeOK
    <2>2. stage # None => Current(stage)
      BY <1>11 DEF Backoff, IInv, StageInv, Running
    <2> QED
      BY <1>1, <1>11, <2>1, <2>2, MoveKeepsInv DEF Backoff, Running
  <1>12. CASE ToolFails
    BY <1>1, <1>12, AnswerKeepsInv DEF ToolFails, Placeholder, Running
  <1>13. CASE ReadDone
    <2>1. PICK n \in ReadSizes : Answer(n)
      BY <1>13 DEF ReadDone
    <2>2. n \in Nat
      BY AgentAssumption
    <2> QED
      BY <1>1, <1>13, <2>1, <2>2, AnswerKeepsInv DEF ReadDone, Running
  <1>14. CASE SubmitDirect
    BY <1>14, SubmitDirectInv
  <1>15. CASE SubmitFinal
    <2>1. submitted' \in BOOLEAN
      BY <1>15, Zenon DEF SubmitFinal
    <2> QED
      BY <1>15, <2>1, EndsKeepsInv DEF SubmitFinal, Running
  <1>16. CASE Propose
    <2>1. diagnosis = "direct"
      BY <1>16 DEF Propose, MayPropose
    <2>2. attempt' \in 1..3 /\ called' \in BOOLEAN
      BY <1>1, <1>16 DEF Propose, TypeOK
    <2>3. stage # None => Current(stage)
      BY <1>16 DEF Propose, IInv, StageInv, Running
    <2> QED
      BY <1>1, <1>16, <2>1, <2>2, <2>3, MoveKeepsInv DEF Propose, Running
  <1>17. CASE ProposeUnchecked
    <2>1. diagnosis = "direct"
      BY <1>17 DEF ProposeUnchecked, MayPropose
    <2> QED
      BY <1>1, <1>17, <2>1, EndsKeepsInv DEF ProposeUnchecked, Running, TypeOK
  <1>18. CASE CheckPasses
    <2>1. diagnosis = "direct"
      BY <1>18 DEF CheckPasses, IInv, StoreInv
    <2> QED
      BY <1>1, <1>18, <2>1, EndsKeepsInv DEF CheckPasses, Running, TypeOK
  <1>19. CASE CheckFails
    BY <1>1, <1>19, AnswerKeepsInv DEF CheckFails, Placeholder, Running
  <1>20. CASE StepEnds
    BY <1>20, StepEndsInv
  <1>21. CASE RunEnds
    BY <1>21, StopKeepsInv DEF RunEnds
  <1>22. CASE Cancel
    BY <1>22, StopKeepsInv DEF Cancel
  <1>24. CASE NoProvider
    BY <1>24, StopKeepsInv DEF NoProvider
  <1>23. CASE UNCHANGED vars
    BY <1>23 DEF vars, IInv, TypeOK, ControlInv, StageInv, StoreInv, Current,
       DirectNeedsProposal, ReadyIsFinal
  <1> QED
    BY <1>2, <1>3, <1>4, <1>5, <1>6, <1>7, <1>8, <1>9, <1>10, <1>11, <1>12, <1>13,
       <1>14, <1>15, <1>16, <1>17, <1>18, <1>19, <1>20, <1>21, <1>22, <1>23, <1>24
    DEF Next, Program

LEMMA InvHolds == Spec => []IInv
  <1>1. Init => CutOffHolds
    BY DEF Init, CutOffHolds, Running
  <1> QED
    BY <1>1, InitInv, NextInv, NextCutOff, PTL DEF Spec

\* The types, and with them the bound on the steps of a run: each step that
\* leaves the run going has one after it that may be taken.
THEOREM TypesHold == Spec => []TypeOK
  <1>1. IInv => TypeOK
    BY DEF IInv
  <1> QED
    BY <1>1, InvHolds, PTL

\* In the finalisation no tool but the required one runs.
THEOREM RequiredRuns == Spec => []OnlyRequiredRuns
  <1>1. IInv => OnlyRequiredRuns
    BY DEF IInv, ControlInv, StageInv, OnlyRequiredRuns, Running, Current
  <1> QED
    BY <1>1, InvHolds, PTL

\* No run succeeds on a direct diagnosis of its own without its patch, and a
\* patch that is ready ends the run that made it.
THEOREM ProposalsHold == Spec => [](DirectNeedsProposal /\ ReadyIsFinal)
  <1>1. IInv => DirectNeedsProposal /\ ReadyIsFinal
    BY DEF IInv, StoreInv
  <1> QED
    BY <1>1, InvHolds, PTL

\* The verdict is given once.
THEOREM VerdictIsFinal == Spec => StatusIsFinal
  <1>1. IInv /\ [Next]_vars => [status # "running" => UNCHANGED verdict]_vars
    <2> SUFFICES ASSUME IInv, Next, status # "running" PROVE UNCHANGED verdict
      OBVIOUS
    <2>1. pc \in {"close", "finish", "over"}
      BY DEF IInv, ControlInv
    <2>2. CASE StepEnds
      BY <2>2 DEF StepEnds, Verdict
    <2>3. CASE RunEnds
      BY <2>3 DEF RunEnds
    <2>4. ~StepEnds /\ ~RunEnds => FALSE
      BY <2>1 DEF Next, Program, NoProvider, StepBegins, Respond, StreamDropped, ProviderFails,
         CutOff, Refuse, Unrunnable, Invoke, ToolFailsOnce, Backoff, ToolFails,
         ReadDone, SubmitDirect, SubmitFinal, Propose, ProposeUnchecked, CheckPasses,
         CheckFails, Cancel, Suspended
    <2> QED
      BY <2>2, <2>3, <2>4
  <1> QED
    BY <1>1, InvHolds, PTL DEF Spec, StatusIsFinal

(***************************************************************************)
(* The pairing of tool calls and results: RequestsArePaired, whatever the   *)
(* results and the budget do.                                              *)
(*                                                                         *)
(* Between two requests the conversation is settled; while a response is    *)
(* being answered it is settled up to the last message or the one before,   *)
(* and what is answered and what is pending make up the calls.              *)
(***************************************************************************)
Before(m, i) == IF i = 1 THEN <<>> ELSE m[i - 1].uses

Paired(m, n) == \A i \in 1..n : m[i].results = Before(m, i)

Settled(m) == Paired(m, Len(m)) /\ m[Len(m)].uses = <<>>

\* r and then the pending calls c are u.
Covers(r, c, u) ==
    /\ Len(u) = Len(r) + Len(c)
    /\ \A k \in 1..Len(r) : r[k] = u[k]
    /\ \A k \in 1..Len(c) : c[k].id = u[Len(r) + k]

\* No call of the last response is answered yet.
Fresh(m, c) ==
    /\ Paired(m, Len(m))
    /\ m[Len(m)].role = "assistant"
    /\ Covers(<<>>, c, m[Len(m)].uses)

\* The last message answers some of them.
Partial(m, c) ==
    /\ Len(m) > 1
    /\ Paired(m, Len(m) - 1)
    /\ m[Len(m)].role = "user" /\ m[Len(m)].uses = <<>> /\ m[Len(m)].results # <<>>
    /\ Covers(m[Len(m)].results, c, m[Len(m) - 1].uses)

PairInv ==
    /\ pc \in {"step", "ask"} => Settled(messages)
    /\ pc \in Running \cup {"calls"} => Fresh(messages, calls) \/ Partial(messages, calls)
    /\ pc = "close" /\ status = "running" => Settled(messages)

Pending == [id : Ids, tool : Tools]

-----------------------------------------------------------------------------
(***************************************************************************)
(* Answering one call.                                                     *)
(***************************************************************************)

\* The first pending call moves over to the answered ones.
LEMMA CoversOneMore ==
    ASSUME NEW u \in Seq(Ids), NEW r \in Seq(Ids), NEW c \in Seq(Pending), c # <<>>,
           Covers(r, c, u)
    PROVE  Covers(Append(r, Head(c).id), Tail(c), u)
  <1> DEFINE q == Append(r, Head(c).id)
             t == Tail(c)
  <1>1. Head(c) \in Pending /\ Head(c).id \in Ids /\ Head(c) = c[1]
    <2>1. Head(c) \in Pending /\ Head(c) = c[1]
      BY HeadTailProperties
    <2> QED
      BY <2>1 DEF Pending
  <1>2. /\ t \in Seq(Pending) /\ Len(t) = Len(c) - 1
        /\ \A k \in 1..Len(t) : t[k] = c[k + 1]
    BY HeadTailProperties
  <1>3. /\ q \in Seq(Ids) /\ Len(q) = Len(r) + 1
        /\ \A k \in 1..Len(r) : q[k] = r[k]
        /\ q[Len(r) + 1] = Head(c).id
    BY <1>1, AppendProperties
  <1>4. Len(c) \in Nat \ {0} /\ Len(r) \in Nat
    OBVIOUS
  <1> HIDE DEF q, t
  <1>5. Len(u) = Len(q) + Len(t)
    BY <1>2, <1>3, <1>4 DEF Covers
  <1>6. \A k \in 1..Len(q) : q[k] = u[k]
    <2>1. c[1].id = u[Len(r) + 1]
      BY <1>4 DEF Covers
    <2>2. q[Len(r) + 1] = u[Len(r) + 1]
      BY <1>1, <1>3, <2>1
    <2>3. \A k \in 1..Len(r) : q[k] = u[k]
      BY <1>3 DEF Covers
    <2>4. \A k \in 1..Len(q) : k \in 1..Len(r) \/ k = Len(r) + 1
      BY <1>3, <1>4
    <2> QED
      BY <2>2, <2>3, <2>4
  <1>7. \A k \in 1..Len(t) : t[k].id = u[Len(q) + k]
    <2>1. SUFFICES ASSUME NEW k \in 1..Len(t) PROVE t[k].id = u[Len(q) + k]
      OBVIOUS
    <2>2. k + 1 \in 1..Len(c) /\ t[k] = c[k + 1]
      BY <1>2, <1>4
    <2>3. c[k + 1].id = u[Len(r) + (k + 1)]
      BY <2>2 DEF Covers
    <2>4. Len(q) + k = Len(r) + (k + 1)
      BY <1>3, <1>4, <2>1
    <2> QED
      BY <2>2, <2>3, <2>4
  <1> QED
    BY <1>5, <1>6, <1>7 DEF Covers, q, t

\* With nothing pending the results are the calls.
LEMMA CoversAll ==
    ASSUME NEW u \in Seq(Ids), NEW r \in Seq(Ids), Covers(r, <<>>, u)
    PROVE  r = u
  <1>1. Len(u) = Len(r) /\ \A k \in 1..Len(r) : r[k] = u[k]
    BY DEF Covers
  <1> QED
    BY <1>1, SeqEqual

\* The result of the first pending call extends the pairing.
LEMMA JoinedPairs ==
    ASSUME TypeOK, calls # <<>>, Fresh(messages, calls) \/ Partial(messages, calls)
    PROVE  Partial(Joined(Head(calls).id), Tail(calls))
  <1> DEFINE n  == Len(messages)
             id == Head(calls).id
             j  == Joined(id)
  <1>1. messages \in Seq(Message) /\ n \in Nat \ {0} /\ id \in Ids /\ calls \in Seq(Pending)
    BY FirstCall DEF TypeOK, Message, Pending
  <1>2. CASE Fresh(messages, calls)
    <2>1. j = Append(messages, User(<<id>>))
      BY <1>2 DEF Fresh, Joined
    <2>2. User(<<id>>) \in Message
      BY <1>1 DEF User, Message
    <2>3. /\ Len(j) = n + 1 /\ j[n + 1] = User(<<id>>)
          /\ \A k \in 1..n : j[k] = messages[k]
      BY <1>1, <2>1, <2>2, AppendProperties
    <2> HIDE DEF j
    <2>4. Paired(j, n)
      <3>1. SUFFICES ASSUME NEW i \in 1..n PROVE j[i].results = Before(j, i)
        BY DEF Paired
      <3>2. messages[i].results = Before(messages, i)
        BY <1>2 DEF Fresh, Paired
      <3>3. j[i] = messages[i] /\ (i # 1 => j[i - 1] = messages[i - 1])
        BY <1>1, <2>3
      <3> QED
        BY <3>2, <3>3 DEF Before
    <2>5. Covers(<<id>>, Tail(calls), j[n].uses)
      <3>1. messages[n] \in Message /\ j[n] = messages[n]
        BY <1>1, <2>3
      <3>2. messages[n].uses \in Seq(Ids)
        BY <3>1 DEF Message
      <3>3. Covers(<<>>, calls, messages[n].uses)
        BY <1>2 DEF Fresh
      <3>4. <<>> \in Seq(Ids) /\ Append(<<>>, id) = <<id>>
        BY <1>1
      <3>5. Covers(Append(<<>>, id), Tail(calls), messages[n].uses)
        BY <1>1, <3>2, <3>3, <3>4, CoversOneMore
      <3> QED
        BY <3>1, <3>4, <3>5
    <2>6. j[n + 1].role = "user" /\ j[n + 1].uses = <<>> /\ j[n + 1].results = <<id>>
      BY <2>3 DEF User
    <2>7. Len(j) > 1 /\ Len(j) - 1 = n
      BY <1>1, <2>3
    <2>8. <<id>> # <<>>
      OBVIOUS
    <2> HIDE DEF n, id
    <2>9. Partial(j, Tail(calls))
      BY <2>3, <2>4, <2>5, <2>6, <2>7, <2>8 DEF Partial
    <2> QED
      BY <2>9 DEF j, id
  <1>3. CASE Partial(messages, calls)
    <2> DEFINE r == messages[n].results
    <2>1. n > 1 /\ messages[n] \in Message /\ messages[n - 1] \in Message
      BY <1>1, <1>3 DEF Partial
    <2>2. r \in Seq(Ids) /\ messages[n - 1].uses \in Seq(Ids)
      BY <2>1 DEF Message
    <2>3. j = [messages EXCEPT ![n].results = Append(@, id)]
      BY <1>3 DEF Partial, Joined
    <2>4. /\ Len(j) = n
          /\ j[n].role = "user" /\ j[n].uses = <<>> /\ j[n].results = Append(r, id)
          /\ \A k \in 1..(n - 1) : j[k] = messages[k]
      <3> DEFINE new == [messages[n] EXCEPT !.results = Append(@, id)]
      <3>1. n \in 1..Len(messages)
        BY <1>1
      <3>2. Append(r, id) \in Seq(Ids)
        BY <1>1, <2>2, AppendProperties
      <3>3. messages[n].role = "user" /\ messages[n].uses = <<>>
        BY <1>3 DEF Partial
      <3>4. /\ new \in Message /\ new.role = "user" /\ new.uses = <<>>
            /\ new.results = Append(r, id)
        BY <2>1, <3>2, <3>3 DEF Message
      <3>5. j = [messages EXCEPT ![n] = new]
        BY <2>3
      <3> HIDE DEF j, new
      <3>6. /\ Len(j) = n /\ j[n] = new
            /\ \A k \in 1..n : k # n => j[k] = messages[k]
        BY <1>1, <3>1, <3>4, <3>5, ExceptSeq
      <3>7. \A k \in 1..(n - 1) : k \in 1..n /\ k # n
        BY <1>1
      <3> QED
        BY <3>4, <3>6, <3>7
    <2>5. Paired(j, n - 1)
      BY <1>1, <1>3, <2>4 DEF Partial, Paired, Before
    <2>6. Covers(Append(r, id), Tail(calls), messages[n - 1].uses)
      BY <1>1, <1>3, <2>2, CoversOneMore DEF Partial
    <2> HIDE DEF j
    <2>7. Append(r, id) # <<>>
      <3>1. Len(Append(r, id)) = Len(r) + 1 /\ Len(r) \in Nat
        BY <1>1, <2>2, AppendProperties
      <3> QED
        BY <3>1
    <2>8. j[n - 1] = messages[n - 1]
      BY <1>1, <2>1, <2>4
    <2> QED
      BY <2>1, <2>4, <2>5, <2>6, <2>7, <2>8 DEF Partial, j
  <1> QED
    BY <1>2, <1>3

\* When that was the last pending call, the conversation is settled.
LEMMA PartialSettles ==
    ASSUME NEW m \in Seq(Message), Partial(m, <<>>)
    PROVE  Settled(m)
  <1> DEFINE n == Len(m)
  <1>1. n \in Nat /\ n > 1 /\ m[n] \in Message /\ m[n - 1] \in Message
    BY DEF Partial
  <1>2. m[n].results = m[n - 1].uses
    <2>1. m[n].results \in Seq(Ids) /\ m[n - 1].uses \in Seq(Ids)
      BY <1>1 DEF Message
    <2> QED
      BY <2>1, CoversAll DEF Partial
  <1>3. \A i \in 1..n : m[i].results = Before(m, i)
    <2>1. SUFFICES ASSUME NEW i \in 1..n PROVE m[i].results = Before(m, i)
      OBVIOUS
    <2>2. CASE i = n
      BY <1>1, <1>2, <2>2 DEF Before
    <2>3. CASE i # n
      BY <1>1, <2>3 DEF Partial, Paired
    <2> QED
      BY <2>2, <2>3
  <1> QED
    BY <1>3 DEF Settled, Paired, Partial

-----------------------------------------------------------------------------
(***************************************************************************)
(* The steps.                                                              *)
(***************************************************************************)

\* Whatever becomes of its content, a result answers the first pending call.
LEMMA AnsweredKeepsPairs ==
    ASSUME TypeOK, calls # <<>>, Fresh(messages, calls) \/ Partial(messages, calls),
           NEW n \in Nat, AddResult(Head(calls), n), NextCall
    PROVE  PairInv'
  <1>1. messages' = Joined(Head(calls).id) /\ calls' = Tail(calls)
        /\ pc' = IF Tail(calls) = <<>> THEN "close" ELSE "calls"
    BY DEF AddResult, NextCall
  <1>2. Partial(messages', calls')
    BY <1>1, JoinedPairs
  <1>3. messages' \in Seq(Message)
    BY AddResultType
  <1>4. CASE calls' = <<>>
    <2>1. Settled(messages')
      BY <1>2, <1>3, <1>4, PartialSettles
    <2> QED
      BY <1>1, <1>4, <2>1 DEF PairInv, Running
  <1>5. CASE calls' # <<>>
    BY <1>1, <1>2, <1>5 DEF PairInv, Running
  <1> QED
    BY <1>4, <1>5

\* A message without calls or results leaves a settled conversation settled.
LEMMA PlainKeepsSettled ==
    ASSUME NEW m \in Seq(Message), m # <<>>, Settled(m), NEW x \in Message,
           x.results = <<>>
    PROVE  LET a == Append(m, x) IN
           /\ Paired(a, Len(a)) /\ Len(a) = Len(m) + 1 /\ a[Len(a)] = x
           /\ x.uses = <<>> => Settled(a)
  <1> DEFINE a == Append(m, x)
             n == Len(m)
  <1>1. n \in Nat \ {0}
    OBVIOUS
  <1>2. Len(a) = n + 1 /\ a[n + 1] = x /\ \A k \in 1..n : a[k] = m[k]
    BY AppendProperties
  <1> HIDE DEF a
  <1>3. \A i \in 1..(n + 1) : a[i].results = Before(a, i)
    <2>1. SUFFICES ASSUME NEW i \in 1..(n + 1) PROVE a[i].results = Before(a, i)
      OBVIOUS
    <2>2. CASE i = n + 1
      BY <1>1, <1>2, <2>2 DEF Settled, Before
    <2>3. CASE i \in 1..n
      BY <1>1, <1>2, <2>3 DEF Settled, Paired, Before
    <2> QED
      BY <1>1, <2>2, <2>3
  <1> QED
    BY <1>2, <1>3 DEF Settled, Paired, a

LEMMA InitPairs == Init => PairInv
  <1> SUFFICES ASSUME Init PROVE PairInv
    OBVIOUS
  <1>1. messages = <<User(<<>>)>> /\ pc = "step"
    BY DEF Init
  <1>2. Len(messages) = 1 /\ messages[1].results = <<>> /\ messages[1].uses = <<>>
    BY <1>1 DEF User
  <1> QED
    BY <1>1, <1>2 DEF PairInv, Settled, Paired, Before, Running

LEMMA RespondPairs == IInv /\ PairInv /\ Respond => PairInv'
  <1> SUFFICES ASSUME IInv, PairInv, Respond PROVE PairInv'
    OBVIOUS
  <1>1. TypeOK /\ messages \in Seq(Message) /\ messages # <<>> /\ Settled(messages)
    BY DEF IInv, TypeOK, Message, PairInv, Respond
  <1>2. PICK tools \in Responses :
          /\ calls' = [k \in DOMAIN tools |-> Call(k, tools[k])]
          /\ messages' = Append(messages,
                                Assistant([k \in DOMAIN tools |-> Call(k, tools[k]).id]))
          /\ pc' = IF tools = <<>> THEN "close" ELSE "calls"
    BY DEF Respond
  <1> DEFINE uses == [k \in DOMAIN tools |-> Call(k, tools[k]).id]
             made == [k \in DOMAIN tools |-> Call(k, tools[k])]
  <1>3. /\ uses \in Seq(Ids) /\ Len(uses) = Len(tools) /\ Len(made) = Len(tools)
        /\ Len(tools) \in Nat /\ DOMAIN tools = 1..Len(tools)
        /\ tools = <<>> <=> Len(tools) = 0
    BY <1>1, ResponseType
  <1>4. \A k \in 1..Len(tools) : made[k].id = uses[k]
    BY <1>3
  <1>5. calls' = made /\ messages' = Append(messages, Assistant(uses))
    BY <1>2
  <1> HIDE DEF uses, made
  <1>6. /\ Assistant(uses) \in Message
        /\ Assistant(uses).results = <<>> /\ Assistant(uses).uses = uses
        /\ Assistant(uses).role = "assistant"
    BY <1>3 DEF Assistant, Message
  <1>7. /\ Paired(messages', Len(messages')) /\ messages'[Len(messages')] = Assistant(uses)
        /\ uses = <<>> => Settled(messages')
    BY <1>1, <1>5, <1>6, PlainKeepsSettled
  <1>8. CASE tools = <<>>
    <2>1. uses = <<>>
      BY <1>3, <1>8
    <2> QED
      BY <1>2, <1>7, <1>8, <2>1 DEF PairInv, Running
  <1>9. CASE tools # <<>>
    <2>1. Covers(<<>>, calls', uses)
      BY <1>3, <1>4, <1>5 DEF Covers
    <2>2. Fresh(messages', calls')
      BY <1>6, <1>7, <2>1 DEF Fresh
    <2> QED
      BY <1>2, <1>9, <2>2 DEF PairInv, Running
  <1> QED
    BY <1>8, <1>9

LEMMA StepEndsPairs == IInv /\ PairInv /\ StepEnds => PairInv'
  <1> SUFFICES ASSUME IInv, PairInv, StepEnds PROVE PairInv'
    OBVIOUS
  <1>1. TypeOK /\ messages \in Seq(Message) /\ messages # <<>> /\ pc = "close"
        /\ pc' = (IF status' = "running" THEN "step" ELSE "finish") /\ Verdict
    BY DEF IInv, TypeOK, Message, StepEnds
  <1>2. CASE status' # "running"
    BY <1>1, <1>2 DEF PairInv, Running
  <1>3. CASE status' = "running"
    <2>1. status = "running"
      BY <1>1, <1>3, VerdictType
    <2>2. Settled(messages)
      BY <1>1, <2>1 DEF PairInv
    <2>3. messages' = messages \/ messages' = Append(messages, User(<<>>))
      BY <1>1, <2>1 DEF Verdict, Judged, Nudge, Succeed, Fail, context
    <2>4. User(<<>>) \in Message /\ User(<<>>).results = <<>> /\ User(<<>>).uses = <<>>
      BY DEF User, Message
    <2>5. Settled(messages')
      BY <1>1, <2>2, <2>3, <2>4, PlainKeepsSettled
    <2> QED
      BY <1>1, <1>3, <2>5 DEF PairInv, Running
  <1> QED
    BY <1>2, <1>3

LEMMA NextPairs == IInv /\ PairInv /\ [Next]_vars => PairInv'
  <1> SUFFICES ASSUME IInv, PairInv, [Next]_vars PROVE PairInv'
    OBVIOUS
  <1> USE DEF context, store, verdict, staging
  <1>1. TypeOK /\ (pc \in Running \cup {"calls"} => calls # <<>>)
    BY DEF IInv, ControlInv
  <1>2. ASSUME pc \in Running \cup {"calls"}
        PROVE  calls # <<>> /\ (Fresh(messages, calls) \/ Partial(messages, calls))
    BY <1>1, <1>2 DEF PairInv
  <1>3. CASE StepBegins
    BY <1>3 DEF StepBegins, PairInv, Running
  <1>4. CASE Respond
    BY <1>4, RespondPairs
  <1>5. CASE NoProvider \/ StreamDropped \/ ProviderFails
    BY <1>5 DEF NoProvider, StreamDropped, ProviderFails, PairInv, Running
  <1>6. CASE CutOff
    BY <1>1, <1>2, <1>6, AnsweredKeepsPairs DEF CutOff, Placeholder
  <1>7. CASE Refuse \/ Unrunnable
    BY <1>1, <1>2, <1>7, AnsweredKeepsPairs DEF Refuse, Unrunnable, Answer, Placeholder
  <1>8. CASE ToolFails \/ CheckFails
    BY <1>1, <1>2, <1>8, AnsweredKeepsPairs
    DEF ToolFails, CheckFails, Answer, Placeholder, Running
  <1>9. CASE ReadDone
    <2>1. PICK n \in ReadSizes : Answer(n)
      BY <1>9 DEF ReadDone
    <2>2. n \in Nat
      BY AgentAssumption
    <2> QED
      BY <1>1, <1>2, <1>9, <2>1, <2>2, AnsweredKeepsPairs DEF ReadDone, Answer, Running
  <1>10. CASE SubmitDirect
    BY <1>1, <1>2, <1>10, AnsweredKeepsPairs DEF SubmitDirect, Placeholder, Running
  <1>11. CASE Invoke \/ ToolFailsOnce \/ Backoff \/ Propose
    BY <1>2, <1>11 DEF Invoke, ToolFailsOnce, Backoff, Propose, PairInv, Running
  <1>12. CASE SubmitFinal \/ ProposeUnchecked \/ CheckPasses
    BY <1>12 DEF SubmitFinal, ProposeUnchecked, CheckPasses, Ends, PairInv, Running
  <1>13. CASE StepEnds
    BY <1>13, StepEndsPairs
  <1>14. CASE RunEnds \/ Cancel
    BY <1>14 DEF RunEnds, Cancel, PairInv, Running
  <1>15. CASE UNCHANGED vars
    BY <1>15 DEF vars, PairInv
  <1> QED
    BY <1>3, <1>4, <1>5, <1>6, <1>7, <1>8, <1>9, <1>10, <1>11, <1>12, <1>13, <1>14, <1>15
    DEF Next, Program

-----------------------------------------------------------------------------

\* Every request the model is sent is a conversation the API accepts: each of
\* its calls answered once, in order, by the next message.
THEOREM RequestsHold == Spec => []RequestsArePaired
  <1>1. IInv /\ PairInv => RequestsArePaired
    <2> SUFFICES ASSUME IInv, PairInv, pc = "ask", NEW i \in DOMAIN messages
                 PROVE  LET before == IF i = 1 THEN <<>> ELSE messages[i - 1].uses
                        IN  /\ messages[i].uses # <<>> => i < Len(messages)
                            /\ messages[i].results = before
      BY DEF RequestsArePaired
    <2>1. messages \in Seq(Message) /\ Settled(messages)
      BY DEF IInv, TypeOK, Message, PairInv
    <2>2. i \in 1..Len(messages) /\ Len(messages) \in Nat
      BY <2>1
    <2> QED
      BY <2>1, <2>2 DEF Settled, Paired, Before
  <1>2. Init /\ [][Next]_vars => []PairInv
    <2>1. IInv /\ PairInv /\ [Next]_vars => PairInv'
      BY NextPairs
    <2> QED
      BY <2>1, InitPairs, InvHolds, PTL DEF Spec
  <1> QED
    BY <1>1, <1>2, InvHolds, PTL DEF Spec
=============================================================================
