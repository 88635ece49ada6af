---------------------------- MODULE AgentTools -----------------------------
(***************************************************************************)
(* The tools of one investigation (training/incidents/profile.py): what    *)
(* they show to the agent and the references they register, the citations  *)
(* that submit_diagnosis and propose_patch accept, the proposal, and what  *)
(* becomes of the file it is for.  Calls are awaited one after the other,   *)
(* and so is git; the user may edit the file between any two.              *)
(***************************************************************************)
EXTENDS LogEvidence, ReplacementDiff

CONSTANTS
    World,          \* what an investigation may find, and how many calls it makes
    EvidenceBytes,  \* MAX_INITIAL_EVIDENCE_BYTES
    SmokeBytes,     \* _SMOKE_EVIDENCE_BYTES
    FileBytes,      \* max_bytes of read_file
    MaxResults,     \* max_results of search_text
    Query,          \* what is looked for in a log
    Limits,         \* how many bytes of a log are asked for
    Ranges,         \* which lines of a file: the first, and how many
    Replacement     \* what one character of SEARCH is replaced by

ASSUME ToolsAssumption ==
    /\ {EvidenceBytes, SmokeBytes, FileBytes, MaxResults} \subseteq Nat \ {0}
    /\ Limits \subseteq 1..ResultBytes
    /\ Ranges \subseteq (Nat \ {0}) \X (Nat \ {0})
    /\ \A q \in Query : q \in Seq(STRING) /\ q # <<>>
    /\ \A w \in World :
        /\ {w.logs, w.smoke} \subseteq [{"stdout", "stderr"} -> Seq(Seq(STRING))]
        /\ w.file \in Seq(STRING)
    /\ Replacement \subseteq Seq(STRING)

VARIABLES
    logs, smoke,    \* the logs of the failed attempt and of the smoke test before
    file,           \* the target file
    observed,       \* observed_refs
    shown,          \* history: the bytes and lines shown to the agent
    withheld,       \* history: those of the result that an error has replaced
    reading,        \* no result was replaced: the loop lets the agent read on
    answer,         \* history: the last search in a log
    diagnosis,      \* diagnosis.json: a reference it cites, whether it asks for a patch
    proposal,       \* the proposal and its diff
    feedback,       \* _match_feedback_sent
    pending,        \* what apply or reverse will do next
    raced,          \* history: the file was edited in between
    receipt,        \* apply_receipt: what apply has found in the file when git was done
    calls           \* bound

world    == <<logs, smoke>>
gathered == <<observed, shown, withheld, reading>>
applied  == <<pending, raced, receipt>>
vars     == <<world, file, gathered, answer, diagnosis, proposal, feedback, applied, calls>>

Nothing  == <<>>
Sources  == {"stdout", "stderr"}

(***************************************************************************)
(* References                                                              *)
(***************************************************************************)
\* stream:job/attempt@bytes, stream:smoke-incident/proposal@bytes, path@sha256#L
LogId(source)   == <<"log", source>>
SmokeId(source) == <<"smoke", source>>
FileId(text)    == <<"file">> \o text

Ref(id, from, to) == [id |-> id, from |-> from, to |-> to]
PieceRef(id, piece) == Ref(id, piece.start, piece.start + Len(piece.content))

\* Mutation: a range that overlaps with an observed one.
WithinLoosely(ref, seen) == seen.from <= ref.from /\ ref.from <= seen.to

Within(ref, seen) == seen.from <= ref.from /\ ref.to <= seen.to

\* _reference_was_observed
Observed(ref) ==
    \/ ref \in observed
    \/ ref.from <= ref.to /\ \E seen \in observed :
            seen.id = ref.id /\ seen.from <= seen.to /\ Within(ref, seen)

\* What is shown of a log: a byte after the other.  Of a file: lines.
PieceShown(id, piece) ==
    {<<id, piece.start + k - 1, <<piece.content[k]>>>> : k \in DOMAIN piece.content}
LinesShown(id, first, lines) == {<<id, first + k - 1, lines[k]>> : k \in DOMAIN lines}

(***************************************************************************)
(* The prompt                                                              *)
(***************************************************************************)
\* build_incident_profile
Evidence(w)  == ToSet(SelectEvidence(w.logs, EvidenceBytes)) \cup Snapshots(w.logs)
SmokeTail(w) == ToSet(SmokeBlocks(w.smoke, SmokeBytes))

Init ==
    \E w \in World :
        /\ logs = w.logs /\ smoke = w.smoke /\ file = w.file /\ calls = w.calls
        /\ observed = {PieceRef(LogId(p.source), p) : p \in Evidence(w)}
                        \cup {PieceRef(SmokeId(p.source), p) : p \in SmokeTail(w)}
        /\ shown = UNION ({PieceShown(LogId(p.source), p) : p \in Evidence(w)}
                        \cup {PieceShown(SmokeId(p.source), p) : p \in SmokeTail(w)})
        /\ answer = Nothing /\ diagnosis = Nothing /\ proposal = Nothing
        /\ withheld = {} /\ reading = TRUE /\ feedback = FALSE
        /\ pending = "none" /\ raced = FALSE /\ receipt = Nothing

(***************************************************************************)
(* Tools that read                                                         *)
(***************************************************************************)
Call == calls > 0 /\ calls' = calls - 1

\* A tool registers what it has found.  The result is shown; one that does not leave
\* the reserve for the last steps is replaced by an error, and the tools that read
\* are refused from then on.
Show(refs, units) ==
    /\ reading
    /\ observed' = observed \cup refs
    /\ \/ shown' = shown \cup units /\ UNCHANGED <<withheld, reading>>
       \/ withheld' = units /\ reading' = FALSE /\ UNCHANGED shown

ReadLog(source, start, limit) ==
    LET slice == ReadSlice(source, Bytes(logs[source]), start, limit)
    IN  Show({PieceRef(LogId(source), slice)}, PieceShown(LogId(source), slice))

ReadTail(source, limit) ==
    /\ Call
    /\ ReadLog(source, TailStart(Bytes(logs[source]), limit), limit)
    /\ UNCHANGED <<world, file, answer, diagnosis, proposal, feedback, applied>>

ReadRange(source, offset, limit) ==
    /\ Call
    /\ ReadLog(source, RangeStart(Bytes(logs[source]), offset), limit)
    /\ UNCHANGED <<world, file, answer, diagnosis, proposal, feedback, applied>>

\* The answer keeps the start of the slice it has shown.
SearchLog(source, offset, limit, query) ==
    LET bytes == Bytes(logs[source])
        match == SearchFile(bytes, offset, query)
        start == SearchStart(bytes, offset, limit, match)
    IN
    /\ Call
    /\ IF match = NotFound THEN Show({}, {}) ELSE ReadLog(source, start, limit)
    /\ answer' = [source |-> source, offset |-> offset, limit |-> limit, query |-> query,
                  match |-> match, start |-> start]
    /\ UNCHANGED <<world, file, diagnosis, proposal, feedback, applied>>

\* Lines of git's, cut after FileBytes; a range without lines has a reference as well.
ReadFile(first, count) ==
    LET chosen == First(Lines(file, GitEnds), first + count - 1)
        text   == FlattenSeq(SubSeq(chosen, first, Len(chosen)))
        lines  == Lines(First(text, FileBytes), GitEnds)
    IN
    /\ Call
    /\ Show({IF lines = <<>> THEN Ref(FileId(file), 1, 0)
             ELSE Ref(FileId(file), first, first + Len(lines) - 1)},
            LinesShown(FileId(file), first, lines))
    /\ UNCHANGED <<world, file, answer, diagnosis, proposal, feedback, applied>>

\* The first MaxResults lines of Python's that contain a character.
SearchText(query) ==
    LET lines == Lines(file, PythonEnds)
        hits  == {n \in DOMAIN lines : Contains(lines[n], query)}
        kept  == {n \in hits : Cardinality({m \in hits : m < n}) < MaxResults}
    IN
    /\ Call
    /\ Show({Ref(FileId(file), n, n) : n \in kept},
            UNION {LinesShown(FileId(file), n, <<lines[n]>>) : n \in kept})
    /\ UNCHANGED <<world, file, answer, diagnosis, proposal, feedback, applied>>

(***************************************************************************)
(* submit_diagnosis and propose_patch                                      *)
(***************************************************************************)
\* Call, and no call after it if the result stops the agent.
LastIf(stop) == calls > 0 /\ calls' = IF stop THEN 0 ELSE calls - 1

\* patch: a direct cause, and a patch is recommended.  Without, there is none.
SubmitDiagnosis(ref, patch) ==
    /\ LastIf(~patch)
    /\ Observed(ref)
    /\ diagnosis' = [ref |-> ref, patch |-> patch]
    /\ UNCHANGED <<world, file, gathered, answer, proposal, feedback, applied>>

\* The guards of both results of propose_patch: a diagnosis that recommends it, and
\* a reference to a line of the file as it is now.
MayPropose ==
    /\ diagnosis # Nothing /\ diagnosis.patch
    /\ \E ref \in observed : ref.id = FileId(file) /\ ref.from <= ref.to

\* updated: what a SEARCH that matches once and a REPLACE make of the file.
Offer(updated) == [base |-> file, wanted |-> updated, diff |-> Diff(file, updated)]

Applicable(offer) == GitApply(offer.base, offer.diff) # Refused

\* The proposal is written and tried with git.
Propose(offer) ==
    /\ MayPropose
    /\ Parses(offer.diff)
    /\ Applicable(offer)
    /\ LastIf(TRUE)
    /\ proposal' = offer
    /\ UNCHANGED <<world, file, gathered, answer, diagnosis, feedback, applied>>

\* ... and cleared if git refuses it.
ProposeInVain(offer) ==
    /\ MayPropose
    /\ Parses(offer.diff)
    /\ ~Applicable(offer)
    /\ Call
    /\ proposal' = Nothing
    /\ UNCHANGED <<world, file, gathered, answer, diagnosis, feedback, applied>>

\* No match, or several: the lines of the reference, or those of the matches, once.
Mismatch(search) ==
    /\ MayPropose
    /\ Call
    /\ ~Unique(file, search)
    /\ feedback' = TRUE
    /\ UNCHANGED <<world, file, gathered, answer, diagnosis, proposal, applied>>

(***************************************************************************)
(* The user and PatchService                                               *)
(***************************************************************************)
Awaited == pending \in {"apply", "receipt", "reverse", "verify"}

\* One line more at the beginning, once.
Edit ==
    /\ file # <<>> /\ Head(file) # "u"
    /\ file' = <<"u", "\n">> \o file
    /\ raced' = (raced \/ Awaited)
    /\ UNCHANGED <<world, gathered, answer, diagnosis, proposal, feedback, pending, receipt, calls>>

\* A step of apply or reverse: an error ends it, and the incident is stale, or its
\* rollback is blocked.
Goes(possible, next) == pending' = IF possible THEN next ELSE "over"

\* Mutation: the hash of the file is not compared with the one proposed for.
ApproveUnverified ==
    /\ proposal # Nothing /\ receipt = Nothing /\ pending = "none"
    /\ Goes(GitApply(file, proposal.diff) # Refused, "apply")
    /\ calls' = 0
    /\ UNCHANGED <<world, file, gathered, answer, diagnosis, proposal, feedback, raced, receipt>>

\* The investigation is over when its proposal is approved.  apply: the file is the one
\* that was proposed for, and git finds the hunks in it.
Approve ==
    /\ proposal # Nothing /\ receipt = Nothing /\ pending = "none"
    /\ Goes(file = proposal.base /\ GitApply(file, proposal.diff) # Refused, "apply")
    /\ calls' = 0
    /\ UNCHANGED <<world, file, gathered, answer, diagnosis, proposal, feedback, raced, receipt>>

\* git's run, awaited: on the file as it is by then.
GitRuns(result, next) ==
    /\ Goes(result # Refused, next)
    /\ file' = IF result = Refused THEN file ELSE result
    /\ UNCHANGED <<world, gathered, answer, diagnosis, proposal, feedback, raced, receipt, calls>>

Apply == pending = "apply" /\ GitRuns(GitApply(file, proposal.diff), "receipt")

\* The receipt is for the file as it is when git is done.
BuildReceipt ==
    /\ pending = "receipt"
    /\ pending' = "none" /\ receipt' = file
    /\ UNCHANGED <<world, file, gathered, answer, diagnosis, proposal, feedback, raced, calls>>

\* The smoke test has failed.  reverse: only while the file is as in the receipt.
Withdraw ==
    /\ receipt # Nothing /\ pending = "none"
    /\ Goes(file = receipt /\ GitReverse(file, proposal.diff) # Refused, "reverse")
    /\ UNCHANGED <<world, file, gathered, answer, diagnosis, proposal, feedback, raced, receipt, calls>>

Undo == pending = "reverse" /\ GitRuns(GitReverse(file, proposal.diff), "verify")

\* Rolled back only if the file is the one that was proposed for.
RolledBack ==
    /\ pending = "verify"
    /\ Goes(file = proposal.base, "none")
    /\ IF file = proposal.base THEN receipt' = Nothing /\ proposal' = Nothing
                               ELSE UNCHANGED <<receipt, proposal>>
    /\ UNCHANGED <<world, file, gathered, answer, diagnosis, feedback, raced, calls>>

-----------------------------------------------------------------------------
\* What an agent cites: what it has observed, or a little more or less.
Citable ==
    {Ref(seen.id, seen.from + d, seen.to + e) : seen \in observed, d \in -1..1, e \in -1..1}

\* SEARCH is a part of the file, or is not.
Searches ==
    ({SubSeq(file, i, j) : i \in DOMAIN file, j \in DOMAIN file} \ {<<>>}) \cup {<<"absent">>}

\* REPLACE is SEARCH without a character, or with another text for it, there or
\* everywhere.
Replaces(search) ==
    {FlattenSeq([k \in DOMAIN search |-> IF k \in at THEN r ELSE <<search[k]>>]) :
        r \in Replacement,
        at \in {{i} : i \in DOMAIN search}
            \cup {{i \in DOMAIN search : search[i] = c} : c \in ToSet(search)}} \ {search}

Updates ==
    UNION {{Replaced(file, search, replace) : replace \in Replaces(search)} :
            search \in {s \in Searches : Unique(file, s)}}

ReadsLog ==
    \E source \in {s \in Sources : logs[s] # <<>>}, limit \in Limits :
        \/ ReadTail(source, limit)
        \/ \E offset \in 0..(Len(Bytes(logs[source])) + 1) :
            \/ ReadRange(source, offset, limit)
            \/ \E query \in Query : SearchLog(source, offset, limit, query)

ReadsFile ==
    \/ \E range \in Ranges : ReadFile(range[1], range[2])
    \/ \E query \in ToSet(file) : SearchText(query)

Proposes ==
    /\ MayPropose /\ calls > 0
    /\ \/ \E search \in Searches : Mismatch(search)
       \/ \E offer \in {Offer(updated) : updated \in Updates} :
            Propose(offer) \/ ProposeInVain(offer)

Next ==
    \/ ReadsLog \/ ReadsFile \/ Proposes
    \/ \E ref \in Citable, patch \in BOOLEAN : SubmitDiagnosis(ref, patch)
    \/ Edit \/ Approve \/ Apply \/ BuildReceipt \/ Withdraw \/ Undo \/ RolledBack

Spec == Init /\ [][Next]_vars

-----------------------------------------------------------------------------
(***************************************************************************)
(* Properties                                                              *)
(***************************************************************************)
\* profile.py:54, "cite an exact evidence_ref returned by one of those tools": what a
\* diagnosis cites was read, each byte and line of it, by some tool or for the prompt,
\* as it is in the log or in the file that the reference names.  It was shown to the
\* agent, unless it is of the one result that the loop has replaced by an error.  Of
\* files whose lines git and Python count alike.
ActualLines(id) ==
    CASE id[1] = "log"   -> [n \in DOMAIN Bytes(logs[id[2]]) |-> <<Bytes(logs[id[2]])[n]>>]
      [] id[1] = "smoke" -> [n \in DOMAIN Bytes(smoke[id[2]]) |-> <<Bytes(smoke[id[2]])[n]>>]
      [] id[1] = "file"  -> Lines(Tail(id), GitEnds)

CitedWasRead ==
    diagnosis # Nothing /\ ~Contains(diagnosis.ref.id, "\f") =>
        LET id    == diagnosis.ref.id
            first == IF id[1] = "file" THEN 0 ELSE 1
            last  == IF id[1] = "file" THEN diagnosis.ref.to ELSE diagnosis.ref.to - 1
        IN  \A n \in diagnosis.ref.from..last : \E unit \in shown \cup withheld :
                /\ unit[1] = id /\ unit[2] = n
                /\ IsPrefix(unit[3], ActualLines(id)[n + first])

\* The evidence in a prompt keeps to its budget, and the last exception of the only
\* traceback is in it, however long the traceback: what has room is there.  The
\* evidence of a smoke test keeps to its budget if all of it is UTF-8.
ExceptionIsKept ==
    LET blocks == SelectEvidence(logs, EvidenceBytes)
        all    == UNION {Candidates(s, logs[s]) : s \in Sources}
        tail   == SmokeBlocks(smoke, SmokeBytes)
    IN
    /\ Joined(blocks) <= EvidenceBytes
    /\ (\A p \in ToSet(tail) : ~Contains(p.content, "?")) => Joined(tail) <= SmokeBytes
    /\ \A e \in all :
        /\ e.kind = "traceback_exception"
        /\ Rendered(e.content) <= EvidenceBytes
        /\ \A c \in all : c.kind = "traceback" => c.source = e.source
        => \E p \in ToSet(blocks) :
            p.source = e.source /\ p.start <= e.start
                /\ e.start + Len(e.content) <= p.start + Len(p.content)

\* A search in a log answers with the first match at or after the offset, also when
\* a chunk ends inside it, and shows it: whole, if it is not longer than half of
\* what it shows.
SearchFinds ==
    answer # Nothing =>
        LET bytes == Bytes(logs[answer.source])
            hits  == {i \in answer.offset..(Len(bytes) - 1) : Occurs(answer.query, bytes, i)}
            match == answer.match
        IN
        /\ match = IF hits = {} THEN NotFound ELSE Min(hits)
        /\ match # NotFound =>
            /\ answer.start <= match /\ match < answer.start + answer.limit
            /\ Len(answer.query) <= answer.limit - answer.limit \div 2 =>
                    match + Len(answer.query) <= answer.start + answer.limit

\* What apply leaves in the file is the file that was proposed for with the one
\* replacement made, whatever its hunks, and a rollback gives that file back: if the
\* user does not edit it while git is awaited, between the last comparison of its hash
\* and the next.  A review shows the same, or nothing: nothing only if a line looks
\* like the header of a diff.  Of texts whose lines Python and git count alike, the
\* review of those whose lines end with "\n".
OfferIsExact ==
    proposal # Nothing /\ ~Contains(proposal.base \o proposal.wanted, "\f") =>
        LET text   == proposal.base \o proposal.wanted
            review == Review(proposal.base, proposal.diff)
        IN
        /\ ~raced =>
            /\ receipt \in {Nothing, proposal.wanted}
            /\ pending = "receipt" => file = proposal.wanted
            /\ pending = "verify" => file = proposal.base
        /\ GitReverse(proposal.wanted, proposal.diff) = proposal.base
        /\ ~Contains(text, "\r\n") =>
            \/ review = proposal.wanted
            \/ review = Refused /\ (Contains(text, "--") \/ Contains(text, "++"))

\* patch.py:102, "the standard unified diff that keeps the line ends": what is
\* applied is what was proposed, whatever ends the lines of the file.
AppliedIsProposed ==
    receipt # Nothing /\ ~raced => receipt = proposal.wanted
=============================================================================
