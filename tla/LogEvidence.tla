---------------------------- MODULE LogEvidence ----------------------------
(***************************************************************************)
(* What an investigation reads of the logs of a failed training: the       *)
(* evidence selected for its prompt (training/incidents/selector.py), the  *)
(* tails in the failure capsule and the evidence of a failed smoke test    *)
(* (evidence.py), and read_job_log (log_tool.py).                          *)
(*                                                                         *)
(* A log is a sequence of lines, a line a sequence of bytes.  "T" stands   *)
(* for the words that open a traceback, "F" for a frame in the workspace,  *)
(* "E" for the name of an exception, "?" for a byte that is not UTF-8.     *)
(* Offsets count from 0, a range ends before its last offset.              *)
(***************************************************************************)
EXTENDS Integers, Sequences, SequencesExt

CONSTANTS
    Header,         \* bytes of the JSON header over a block, with its line end
    TailBytes,      \* _TAIL_BYTES
    BlockBytes,     \* _MAX_BLOCK_BYTES
    CapsuleBytes,   \* _CAPSULE_LOG_BYTES
    ChunkBytes,     \* _SEARCH_CHUNK_BYTES
    ResultBytes     \* _MAX_RESULT_BYTES

ASSUME EvidenceAssumption ==
    {Header, TailBytes, BlockBytes, CapsuleBytes, ChunkBytes, ResultBytes} \subseteq Nat \ {0}

Bytes(log) == FlattenSeq(log)
Slice(bytes, from, to) == SubSeq(bytes, from + 1, to)

\* The first n, or all.
First(seq, n) == SubSeq(seq, 1, Min({n, Len(seq)}))

\* Where the last n bytes start, or all.
Tail0(bytes, n) == Max({0, Len(bytes) - n})

None == [kind |-> "none"]
Piece(source, kind, start, content) ==
    [source |-> source, kind |-> kind, start |-> start, content |-> content]

(***************************************************************************)
(* select_evidence                                                         *)
(***************************************************************************)
\* finish_traceback: the open block becomes the latest, with its exception.
Finished(s) ==
    IF s.block = None THEN s
    ELSE [s EXCEPT !.traceback = s.block, !.final = s.inner, !.block = None, !.inner = None]

\* A line inside a traceback: appended up to BlockBytes; a blank one ends it.
Continued(s, line, exception) ==
    LET blank == line = <<"\n">>
        more  == First(line, Max({0, BlockBytes - Len(s.block.content)}))
        next  == [s EXCEPT !.block.content = IF blank THEN @ ELSE @ \o more,
                           !.inner = IF Contains(line, "E") THEN exception ELSE @]
    IN  IF blank THEN Finished(next) ELSE next

\* One line of _scan.
Scanned(source, s, line) ==
    LET here(kind) == Piece(source, kind, s.at, line)
        inside == IF s.block = None THEN s ELSE Continued(s, line, here("traceback_exception"))
        after  ==
            IF Contains(line, "T") THEN [Finished(s) EXCEPT !.block = here("traceback")]
            ELSE [inside EXCEPT
                    !.error = IF source = "stderr" /\ Contains(line, "E")
                              THEN here("error_line") ELSE @,
                    !.frame = IF Contains(line, "F") THEN here("workspace_frame") ELSE @]
    IN  [after EXCEPT !.at = s.at + Len(line)]

Candidates(source, log) ==
    LET s == Finished(FoldLeft(LAMBDA a, line : Scanned(source, a, line),
                [at |-> 0, block |-> None, inner |-> None, traceback |-> None, final |-> None,
                 error |-> None, frame |-> None], log))
        from == Tail0(Bytes(log), TailBytes)
        tail == IF log = <<>> THEN None
                ELSE Piece(source, "tail", from, Slice(Bytes(log), from, s.at))
    IN  {s.traceback, s.final, s.frame, s.error, tail} \ {None}

Rank(c) ==
    CASE c.kind = "traceback"           -> 1
      [] c.kind = "traceback_exception" -> 2
      [] c.kind = "workspace_frame"     -> 3
      [] c.kind = "error_line"          -> 4
      [] c.kind = "tail"                -> IF c.source = "stderr" THEN 5 ELSE 6

Precedes(c, d) ==
    \/ Rank(c) < Rank(d)
    \/ Rank(c) = Rank(d) /\ c.start > d.start
    \/ Rank(c) = Rank(d) /\ c.start = d.start /\ c.source = "stderr" /\ d.source = "stdout"

Sorted(all) ==
    [i \in 1..Cardinality(all) |->
        CHOOSE c \in all : Cardinality({d \in all : Precedes(d, c)}) = i - 1]

\* A byte that does not decode is rendered as one character of three bytes.
Rendered(content) ==
    Header + Len(content) + 2 * Cardinality({k \in DOMAIN content : content[k] = "?"})

Sum(sizes) == FoldLeft(LAMBDA a, n : a + n, 0, sizes)

\* The blocks joined with line ends.
Joined(blocks) ==
    Sum([i \in DOMAIN blocks |-> Rendered(blocks[i].content)]) + Max({0, Len(blocks) - 1})

\* What is cut of a candidate is what overflows, until it fits: of a tail at its
\* front, of the others at their end.
Cut(c, n) ==
    IF c.kind = "tail"
    THEN [c EXCEPT !.start = @ + Len(c.content) - n,
                   !.content = SubSeq(@, Len(@) - n + 1, Len(@))]
    ELSE [c EXCEPT !.content = SubSeq(@, 1, n)]

Fitted(c, blocks, available) ==
    LET fits[n \in 0..Len(c.content)] ==
            LET overflow == Joined(Append(blocks, Cut(c, n))) - available
            IN  IF n = 0 \/ overflow <= 0 THEN n ELSE fits[Max({0, n - overflow})]
    IN  Cut(c, fits[Len(c.content)])

\* Mutation: nothing is kept back for the exception of a traceback.
ReservedNothing(c, all, seen) == 0

\* A traceback leaves room for its last exception line.
Reserved(c, all, seen) ==
    LET finals == {e \in all : c.kind = "traceback" /\ e.kind = "traceback_exception"
                               /\ e.source = c.source /\ e.content \notin seen}
    IN  Max({0} \cup {Rendered(e.content) + 1 : e \in finals})

\* A candidate that finds no room ends the selection, unless it is a traceback.
Chosen(all, max, s, c) ==
    LET available == max - Reserved(c, all, s.seen)
        block     == Fitted(c, s.blocks, available)
        noRoom    == Joined(s.blocks) >= available \/ block.content = <<>>
    IN  CASE s.stopped \/ c.content \in s.seen -> s
          [] ~s.stopped /\ c.content \notin s.seen /\ noRoom ->
                [s EXCEPT !.stopped = c.kind # "traceback"]
          [] OTHER -> [s EXCEPT !.blocks = Append(@, block), !.seen = @ \cup {c.content}]

SelectEvidence(logs, max) ==
    LET all == UNION {Candidates(source, logs[source]) : source \in DOMAIN logs}
    IN  FoldLeft(LAMBDA s, c : Chosen(all, max, s, c),
                 [blocks |-> <<>>, seen |-> {}, stopped |-> FALSE],
                 Sorted(all)).blocks

(***************************************************************************)
(* The capsule and the smoke test                                          *)
(***************************************************************************)
Ending(source, log, n) ==
    LET from == Tail0(Bytes(log), n)
    IN  Piece(source, "ending", from, Slice(Bytes(log), from, Len(Bytes(log))))

\* _snapshot_failure_logs: what stderr leaves of CapsuleBytes is for stdout.
Snapshots(logs) ==
    LET limit == Min({Len(Bytes(logs["stderr"])), CapsuleBytes})
    IN  {Ending("stderr", logs["stderr"], limit),
         Ending("stdout", logs["stdout"], CapsuleBytes - limit)}

\* _smoke_block measures the bytes, select_smoke_evidence what they are rendered to.
SmokeBlocks(logs, max) ==
    LET block(source, budget) ==
            LET n == Min({Len(Bytes(logs[source])), budget - Header})
            IN  IF n > 0 THEN <<Ending(source, logs[source], n)>> ELSE <<>>
        first == block("stderr", max)
        left  == IF first = <<>> THEN max ELSE max - Rendered(first[1].content) - 1
    IN  first \o block("stdout", left)

(***************************************************************************)
(* read_job_log                                                            *)
(***************************************************************************)
Occurs(query, bytes, i) ==
    i + Len(query) <= Len(bytes) /\ Slice(bytes, i, i + Len(query)) = query
NotFound == -1

\* bytes.find
Find(query, bytes) ==
    LET at == {i \in 0..Len(bytes) : Occurs(query, bytes, i)}
    IN  IF at = {} THEN NotFound ELSE Min(at)

\* Mutation: nothing of a chunk is kept for the next one.
OverlapNone(query, window) == 0

\* The end of a window that the next one begins with.
Overlap(query, window) == Min({Len(query) - 1, Len(window)})

\* _search_file: chunk after chunk, each with the end of the window before it in front.
SearchFile(bytes, offset, query) ==
    LET size  == Len(bytes)
        first == Min({offset, size})
        search[position \in 0..size] == [from \in 0..size |->
            LET end    == Min({size, position + ChunkBytes})
                window == Slice(bytes, from, end)
                found  == Find(query, window)
            IN  CASE position = size   -> NotFound
                  [] position < size /\ found # NotFound -> from + found
                  [] OTHER -> search[end][end - Overlap(query, window)]]
    IN  search[first][first]

ReadSlice(source, bytes, start, limit) ==
    Piece(source, "slice", start, Slice(bytes, start, Min({Len(bytes), start + limit})))

\* Where the slice of each mode starts.
TailStart(bytes, limit)  == Tail0(bytes, limit)
RangeStart(bytes, offset) == Min({offset, Len(bytes)})

\* Half of the slice precedes the match, nothing before the offset but at the
\* end of the log.
SearchStart(bytes, offset, limit, match) ==
    Min({Max({offset, match - limit \div 2}), Tail0(bytes, limit)})
=============================================================================
