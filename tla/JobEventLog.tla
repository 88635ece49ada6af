---------------------------- MODULE JobEventLog ----------------------------
(***************************************************************************)
(* events.jsonl of one job: training/jobs/store.py, append_event and what  *)
(* it calls.  Every append is a write followed by an fsync, and a crash may *)
(* leave any part of the row behind.  The file is repaired once in a daemon *)
(* life, before its first append; readers never repair.                     *)
(***************************************************************************)
EXTENDS Integers, Sequences

VARIABLES
    log,     \* the file: its rows that parse (their seq) and what its end looks like
    cache,   \* _event_seq of this daemon's JobStore; NoCache before the first append
    acked    \* history: the highest seq append_event has returned

logVars == <<log, cache, acked>>

NoCache == -1

\* How a file ends: after a newline, after a complete row without its newline,
\* or with bytes no reader can parse.
Tails == {"clean", "bare", "torn"}

(***************************************************************************)
(* Reading and repairing.                                                  *)
(***************************************************************************)

\* _load_events(repair_tail=False): the rows before the first that does not
\* parse; a complete last row parses with or without its newline.
ReadEvents(l) == l.rows

\* Mutation: the end is not repaired.
RepairedNot(l) == l

\* _load_events(repair_tail=True): cut the torn end off, end a bare row.
Repaired(l) == [l EXCEPT !.tail = "clean"]

LastSeq(l) == IF l.rows = <<>> THEN 0 ELSE l.rows[Len(l.rows)]

(***************************************************************************)
(* Appending.                                                              *)
(***************************************************************************)

\* The file when n is written at its end.  Written after a row without a
\* newline, or after torn bytes, it makes one line of both, which no reader
\* parses.
Written(l, n) ==
    CASE l.tail = "clean" -> [l EXCEPT !.rows = Append(@, n)]
      [] l.tail = "bare"  -> [rows |-> SubSeq(l.rows, 1, Len(l.rows) - 1), tail |-> "torn"]
      [] l.tail = "torn"  -> l

\* _last_event_seq: the cache, or the last row of the repaired file.
Prepared == IF cache = NoCache THEN Repaired(log) ELSE log
NextSeq  == (IF cache = NoCache THEN LastSeq(Repaired(log)) ELSE cache) + 1

\* append_event
AppendEvent ==
    /\ log'   = Written(Prepared, NextSeq)
    /\ cache' = NextSeq
    /\ acked' = NextSeq

\* What the file may be when the daemon dies inside append_event: as it was,
\* repaired, with a part of the new row, with the row but not its newline, or
\* with the whole row, which nobody was told of.
Interrupted ==
    LET prepared == Prepared
        written  == Written(prepared, NextSeq)
    IN  {log, prepared, written} \cup
        IF prepared.tail = "clean"
        THEN {[prepared EXCEPT !.tail = "torn"], [written EXCEPT !.tail = "bare"]}
        ELSE {}

\* The daemon dies, in an append or elsewhere; the next one has no cache.
CrashLog ==
    /\ log' \in Interrupted
    /\ cache' = NoCache
    /\ UNCHANGED acked

-----------------------------------------------------------------------------
LogInit ==
    /\ log   = [rows |-> <<>>, tail |-> "clean"]
    /\ cache = NoCache
    /\ acked = 0

LogType ==
    /\ log   \in [rows : Seq(Nat), tail : Tails]
    /\ cache \in Nat \cup {NoCache}
    /\ acked \in Nat

\* The numbering of events: row i has seq i, whatever crashed between two
\* appends and whatever the repair found, so that "seq > after_seq" selects
\* exactly the events a client has not seen; and no event append_event has
\* returned ever becomes unreadable.
SeqsAreContiguous ==
    /\ \A i \in 1..Len(ReadEvents(log)) : ReadEvents(log)[i] = i
    /\ acked <= Len(ReadEvents(log))
=============================================================================
