------------------------ MODULE EventDelivery_proofs ------------------------
(***************************************************************************)
(* The way of an event, for every number of clients, commands, attempts,   *)
(* crashes and every size of the queues.                                   *)
(*                                                                         *)
(* LogInv: the numbering of the job events.  SeqsAreContiguous is not      *)
(* inductive by itself: an append is numbered from the cache, so the cache *)
(* must agree with the file, and it extends the file by a row only if the  *)
(* file ends cleanly, which the cache stands for.                          *)
(*                                                                         *)
(* DInv: what one client's subscriptions rely on, each part from those     *)
(* before it: Base (log, types, the hand of a writer), Connected (nothing  *)
(* is left of a connection that is gone), Barred (a barrier has a command  *)
(* that lifts it), OwnIds, Lossless (what is owed is what is held), Single *)
(* and Counted (how many commands were answered) and Bounded.              *)
(*                                                                         *)
(* CInv: the feed of a stream to a terminal.  What it knows, what is on    *)
(* the wire, what a writer has in hand, what a replay has yet to write and *)
(* what is queued follow each other without a gap, and together they are   *)
(* all that was published.  The refinement of EventChannel follows: what   *)
(* is read next is the next number.                                        *)
(***************************************************************************)
EXTENDS EventDelivery, FiniteSetTheorems, WellFoundedInduction, TLAPS

Numbered(l) == \A i \in 1..Len(l.rows) : l.rows[i] = i

Logs == [rows : Seq(Nat), tail : Tails]

LogInv ==
    /\ LogType
    /\ Numbered(log)
    /\ acked <= Len(log.rows)
    /\ cache # NoCache => log.tail = "clean" /\ cache = Len(log.rows)

\* The last number of a numbered file is its length.
LEMMA LastIsLength ==
    ASSUME NEW l \in Logs, Numbered(l)
    PROVE  LastSeq(l) = Len(l.rows)
  BY DEF LastSeq, Numbered, Logs

\* Repairing loses no event.
LEMMA RepairKeepsRows ==
    ASSUME NEW l \in Logs
    PROVE  /\ Repaired(l) \in Logs
           /\ Repaired(l).rows = l.rows
           /\ Repaired(l).tail = "clean"
  BY DEF Repaired, Logs, Tails

\* The end of the file has no say in its numbering.
LEMMA TailIsNoRow ==
    ASSUME NEW l \in Logs, Numbered(l), NEW t \in Tails
    PROVE  LET m == [l EXCEPT !.tail = t] IN
           m \in Logs /\ m.rows = l.rows /\ Numbered(m)
  BY DEF Logs, Numbered

\* Writing the next number after a clean end extends the numbering.
LEMMA WrittenIsNumbered ==
    ASSUME NEW l \in Logs, Numbered(l), l.tail = "clean"
    PROVE  LET w == Written(l, Len(l.rows) + 1) IN
           /\ w \in Logs
           /\ Numbered(w)
           /\ w.tail = "clean"
           /\ Len(w.rows) = Len(l.rows) + 1
  <1> DEFINE w == Written(l, Len(l.rows) + 1)
  <1>1. w = [l EXCEPT !.rows = Append(l.rows, Len(l.rows) + 1)]
    BY DEF Written
  <1>2. w \in Logs /\ w.rows = Append(l.rows, Len(l.rows) + 1) /\ w.tail = "clean"
    BY <1>1 DEF Logs, Tails
  <1>3. Len(w.rows) = Len(l.rows) + 1
    BY <1>2 DEF Logs
  <1>4. \A i \in 1..Len(w.rows) : w.rows[i] = i
    <2>1. SUFFICES ASSUME NEW i \in 1..(Len(l.rows) + 1) PROVE w.rows[i] = i
      BY <1>3
    <2>2. l.rows \in Seq(Nat) /\ Len(l.rows) \in Nat
      BY DEF Logs
    <2>3. CASE i = Len(l.rows) + 1
      BY <1>2, <2>2, <2>3
    <2>4. CASE i \in 1..Len(l.rows)
      <3>1. w.rows[i] = l.rows[i]
        BY <1>2, <2>2, <2>4
      <3>2. QED
        BY <2>4, <3>1 DEF Numbered
    <2>5. QED
      BY <2>2, <2>3, <2>4
  <1>5. QED
    BY <1>2, <1>3, <1>4 DEF Numbered

\* What an append starts from is clean, and its number follows the last one.
LEMMA PreparedIsClean ==
    ASSUME LogInv
    PROVE  /\ Prepared \in Logs
           /\ Prepared.rows = log.rows
           /\ Prepared.tail = "clean"
           /\ Numbered(Prepared)
           /\ NextSeq = Len(log.rows) + 1
           /\ NextSeq \in Nat
  <1>1. log \in Logs /\ Len(log.rows) \in Nat
    BY DEF LogInv, LogType, Logs
  <1>2. CASE cache = NoCache
    <2>1. Prepared = Repaired(log) /\ NextSeq = LastSeq(Repaired(log)) + 1
      BY <1>2 DEF Prepared, NextSeq
    <2>2. Prepared \in Logs /\ Prepared.rows = log.rows /\ Prepared.tail = "clean"
      BY <1>1, <2>1, RepairKeepsRows
    <2>3. Numbered(Prepared)
      BY <2>2 DEF Numbered, LogInv
    <2>4. LastSeq(Prepared) = Len(log.rows)
      BY <2>2, <2>3, LastIsLength
    <2>5. QED
      BY <1>1, <2>1, <2>2, <2>3, <2>4
  <1>3. CASE cache # NoCache
    BY <1>1, <1>3 DEF Prepared, NextSeq, LogInv
  <1>4. QED
    BY <1>2, <1>3

\* append_event
LEMMA AppendKeeps ==
    ASSUME LogInv, AppendEvent
    PROVE  LogInv'
  <1>1. /\ log' \in Logs /\ Numbered(log') /\ log'.tail = "clean"
        /\ Len(log'.rows) = Len(log.rows) + 1
    BY PreparedIsClean, WrittenIsNumbered DEF AppendEvent
  <1>2. cache' = Len(log'.rows) /\ acked' = Len(log'.rows) /\ Len(log'.rows) \in Nat
    BY <1>1, PreparedIsClean DEF AppendEvent, LogInv, LogType
  <1>3. QED
    BY <1>1, <1>2 DEF LogInv, LogType, Logs, Numbered, NoCache

\* A crash at any point of append_event: the file has the rows it had, or one more.
LEMMA CrashKeeps ==
    ASSUME LogInv, CrashLog
    PROVE  LogInv'
  <1> DEFINE p == Prepared
             w == Written(p, NextSeq)
  <1>1. /\ p \in Logs /\ p.rows = log.rows /\ Numbered(p) /\ p.tail = "clean"
        /\ log \in Logs /\ Numbered(log) /\ acked <= Len(log.rows)
        /\ Len(log.rows) \in Nat /\ acked \in Nat
    BY PreparedIsClean DEF LogInv, LogType, Logs
  <1>2. w \in Logs /\ Numbered(w) /\ Len(w.rows) = Len(log.rows) + 1
    BY <1>1, PreparedIsClean, WrittenIsNumbered
  <1>3. log' \in {log, p, w, [p EXCEPT !.tail = "torn"], [w EXCEPT !.tail = "bare"]}
    BY DEF CrashLog, Interrupted
  <1>4. "torn" \in Tails /\ "bare" \in Tails
    BY DEF Tails
  <1>5. log' \in Logs /\ Numbered(log') /\ Len(log.rows) <= Len(log'.rows)
        /\ Len(log'.rows) \in Nat
    <2>1. CASE log' \in {log, p, w}
      BY <1>1, <1>2, <2>1 DEF Logs
    <2>2. CASE log' = [p EXCEPT !.tail = "torn"]
      <3>1. log' \in Logs /\ log'.rows = p.rows /\ Numbered(log')
        BY <1>1, <1>4, <2>2, TailIsNoRow
      <3>2. QED
        BY <1>1, <3>1
    <2>3. CASE log' = [w EXCEPT !.tail = "bare"]
      <3>1. log' \in Logs /\ log'.rows = w.rows /\ Numbered(log')
        BY <1>2, <1>4, <2>3, TailIsNoRow
      <3>2. QED
        BY <1>1, <1>2, <3>1
    <2>4. QED
      BY <1>3, <2>1, <2>2, <2>3
  <1>6. QED
    BY <1>1, <1>5 DEF CrashLog, LogInv, LogType, Logs, Numbered, NoCache

\* A daemon that ends outside an append leaves the file alone; only the cache goes.
LEMMA ForgetKeeps ==
    ASSUME LogInv, UNCHANGED <<log, acked>>, cache' \in {cache, NoCache}
    PROVE  LogInv'
  BY DEF LogInv, LogType, Numbered

\* Every step of the delivery keeps the log in order.
LEMMA LogStep == LogInv /\ [Next]_vars => LogInv'
  <1> SUFFICES ASSUME LogInv, [Next]_vars PROVE LogInv'
    OBVIOUS
  <1>1. ASSUME AppendEvent PROVE LogInv'
    BY <1>1, AppendKeeps
  <1>2. ASSUME UNCHANGED logVars PROVE LogInv'
    BY <1>2, ForgetKeeps DEF logVars
  <1>3. CASE JobStarts
    BY <1>1, <1>3 DEF JobStarts
  <1>4. CASE JobEnds
    BY <1>1, <1>4 DEF JobEnds
  <1>5. CASE Recover
    BY <1>1, <1>2, <1>5 DEF Recover, logVars
  <1>6. CASE Crash
    BY <1>6, CrashKeeps, ForgetKeeps DEF Crash
  <1>7. CASE Exit
    BY <1>7, ForgetKeeps DEF Exit
  <1>8. CASE PublishEnd \/ PublishNote \/ PublishRun \/ PublishToken \/ Stop \/ Restart
    BY <1>2, <1>8
    DEF PublishEnd, PublishNote, PublishRun, PublishToken, Stop, Restart, jobVars, logVars
  <1>9. ASSUME NEW c \in Clients, ClientStep(c) PROVE LogInv'
    BY <1>2, <1>9
    DEF ClientStep, Writer, WriterGet, WriterWrite, WriterDrained, SendSubscribe, Handler,
        Subscribe, ReplayStep, Respond, Connect, Receive, SeeClosed, Drop, jobVars, logVars
  <1>10. CASE UNCHANGED vars
    BY <1>2, <1>10 DEF vars, logVars
  <1>11. QED
    BY <1>3, <1>4, <1>5, <1>6, <1>7, <1>8, <1>9, <1>10 DEF Next, DaemonStep

\* The events of a job are numbered 1, 2, 3, ... in the file, whatever crashed
\* inside an append and whatever the repair found, and no event append_event
\* has returned is ever lost (JobStore.append_event, _load_events).
THEOREM NumberingHolds == Spec => []SeqsAreContiguous
  <1>1. Init => LogInv
    BY DEF Init, LogInit, LogInv, LogType, Numbered, Tails, NoCache
  <1>2. LogInv => SeqsAreContiguous
    BY DEF LogInv, SeqsAreContiguous, ReadEvents, Numbered
  <1>3. QED
    BY <1>1, <1>2, LogStep, PTL DEF Spec

-----------------------------------------------------------------------------
(***************************************************************************)
(* Rows of numbered frames.                                                *)
(***************************************************************************)
(***************************************************************************)
(* Induction, over a set of naturals.                                      *)
(***************************************************************************)
LEMMA LeastOf ==
    ASSUME NEW T \in SUBSET Nat, T # {}
    PROVE  \E x \in T : \A y \in T : x <= y
  <1>1. T \subseteq Nat
    OBVIOUS
  <1>2. PICK x \in T : \A y \in T : ~(<<y, x>> \in OpToRel(<, Nat))
    BY <1>1, NatLessThanWellFounded, WFMin, Zenon
  <1>3. ASSUME NEW y \in T, y < x PROVE <<y, x>> \in OpToRel(<, Nat)
    BY <1>3, Zenon DEF OpToRel
  <1>4. \A y \in T : ~(y < x)
    BY <1>2, <1>3, Zenon
  <1> QED
    BY <1>4

\* Induction on the numbers, stated for a set of them: a set has no operator in it.
LEMMA SetInduction ==
    ASSUME NEW S \in SUBSET Nat, 0 \in S, \A n \in S : n + 1 \in S
    PROVE  S = Nat
  <1> SUFFICES ASSUME Nat \ S # {} PROVE FALSE
    OBVIOUS
  <1>1. PICK x \in Nat \ S : \A y \in Nat \ S : x <= y
    BY LeastOf
  <1> QED
    BY <1>1

(***************************************************************************)
(* Sequences of events                                                     *)
(***************************************************************************)
\* The numbers of the frames of a kind in a sequence.
Of(q, s) == {i \in DOMAIN q : q[i].kind = s}
Numbers(q, s) == {q[i].n : i \in Of(q, s)}

\* Every number below that of a frame is known or is the number of an earlier frame.
Gapless(q, s, known) ==
    \A i \in Of(q, s) : \A m \in 1..(q[i].n - 1) :
        m \in known \/ \E j \in Of(q, s) : j < i /\ q[j].n = m

\* What Append does to a row, position by position.
LEMMA AppendFacts ==
    ASSUME NEW S, NEW q \in Seq(S), NEW e
    PROVE  /\ DOMAIN q = 1..Len(q) /\ Len(q) \in Nat
           /\ DOMAIN Append(q, e) = 1..(Len(q) + 1)
           /\ \A i \in 1..Len(q) : Append(q, e)[i] = q[i]
           /\ Append(q, e)[Len(q) + 1] = e
  OBVIOUS

\* What Tail does to a row, position by position.
LEMMA TailFacts ==
    ASSUME NEW S, NEW q \in Seq(S), q # <<>>
    PROVE  /\ DOMAIN q = 1..Len(q) /\ Len(q) \in Nat \ {0}
           /\ Tail(q) \in Seq(S) /\ Len(Tail(q)) = Len(q) - 1 /\ DOMAIN Tail(q) = 1..(Len(q) - 1)
           /\ \A i \in 1..(Len(q) - 1) : Tail(q)[i] = q[i + 1]
           /\ Head(q) = q[1] /\ Head(q) \in S
  OBVIOUS

\* A frame that is appended adds its number.
LEMMA AppendNumbers ==
    ASSUME NEW S, NEW q \in Seq(S), NEW e, NEW s
    PROVE  Numbers(Append(q, e), s) = Numbers(q, s) \cup (IF e.kind = s THEN {e.n} ELSE {})
  <1>1. \A i : i \in Of(Append(q, e), s) <=>
               i \in Of(q, s) \/ (e.kind = s /\ i = Len(q) + 1)
    BY AppendFacts DEF Of
  <1>2. \A i \in Of(q, s) : Append(q, e)[i] = q[i]
    BY AppendFacts DEF Of
  <1>3. Append(q, e)[Len(q) + 1] = e
    BY AppendFacts
  <1> QED
    BY <1>1, <1>2, <1>3 DEF Numbers

\* It leaves no gap if all numbers before it are known or in the row.
LEMMA AppendGapless ==
    ASSUME NEW S, NEW q \in Seq(S), NEW e, NEW s, NEW known, Gapless(q, s, known),
           e.kind = s => 1..(e.n - 1) \subseteq known \cup Numbers(q, s)
    PROVE  Gapless(Append(q, e), s, known)
  <1>1. \A i : i \in Of(Append(q, e), s) <=>
               i \in Of(q, s) \/ (e.kind = s /\ i = Len(q) + 1)
    BY AppendFacts DEF Of
  <1>2. \A i \in Of(q, s) : Append(q, e)[i] = q[i] /\ i < Len(q) + 1
    BY AppendFacts DEF Of
  <1>3. Append(q, e)[Len(q) + 1] = e
    BY AppendFacts
  <1>4. ASSUME NEW i \in Of(q, s), NEW m \in 1..(q[i].n - 1), m \notin known
        PROVE  \E j \in Of(Append(q, e), s) : j < i /\ Append(q, e)[j].n = m
    <2>1. PICK j \in Of(q, s) : j < i /\ q[j].n = m
      BY <1>4 DEF Gapless
    <2> QED
      BY <2>1, <1>1, <1>2
  <1>5. ASSUME e.kind = s, NEW m \in 1..(e.n - 1), m \notin known
        PROVE  \E j \in Of(Append(q, e), s) : j < Len(q) + 1 /\ Append(q, e)[j].n = m
    <2>1. PICK j \in Of(q, s) : q[j].n = m
      BY <1>5 DEF Numbers
    <2> QED
      BY <2>1, <1>1, <1>2
  <1> DEFINE a == Append(q, e)
  <1>6. ASSUME NEW i \in Of(a, s), NEW m \in 1..(a[i].n - 1), m \notin known
        PROVE  \E j \in Of(a, s) : j < i /\ a[j].n = m
    <2>1. CASE i \in Of(q, s)
      BY <2>1, <1>2, <1>4, <1>6
    <2>2. CASE e.kind = s /\ i = Len(q) + 1
      BY <2>2, <1>3, <1>5, <1>6
    <2> QED
      BY <2>1, <2>2, <1>1
  <1> QED
    BY <1>6 DEF Gapless

\* The head of a row takes its number away.
LEMMA TailNumbers ==
    ASSUME NEW S, NEW q \in Seq(S), q # <<>>, NEW s
    PROVE  Numbers(q, s) = Numbers(Tail(q), s) \cup (IF Head(q).kind = s THEN {Head(q).n} ELSE {})
  <1>1. Head(q).kind = s => 1 \in Of(q, s)
    <2>1. Head(q) = q[1] /\ 1 \in DOMAIN q
      BY TailFacts
    <2> QED
      BY <2>1 DEF Of
  <1>2. \A i \in Of(Tail(q), s) : i + 1 \in Of(q, s) /\ Tail(q)[i] = q[i + 1]
    BY TailFacts DEF Of
  <1>3. \A i \in Of(q, s) : i # 1 => i - 1 \in Of(Tail(q), s) /\ Tail(q)[i - 1] = q[i]
    BY TailFacts DEF Of
  <1>4. Head(q) = q[1]
    BY TailFacts
  <1>5. Numbers(Tail(q), s) \subseteq Numbers(q, s)
    BY <1>2 DEF Numbers
  <1>6. Head(q).kind = s => Head(q).n \in Numbers(q, s)
    BY <1>1, <1>4 DEF Numbers
  <1>7. Numbers(q, s) \subseteq Numbers(Tail(q), s) \cup (IF Head(q).kind = s THEN {Head(q).n} ELSE {})
    <2> SUFFICES ASSUME NEW i \in Of(q, s)
                 PROVE  q[i].n \in Numbers(Tail(q), s) \/ (Head(q).kind = s /\ q[i].n = Head(q).n)
      BY DEF Numbers
    <2> QED
      BY <1>3, <1>4 DEF Numbers, Of
  <1> QED
    BY <1>5, <1>6, <1>7

\* The rest has no gap once the head is known, and the head has none before it.
LEMMA TailGapless ==
    ASSUME NEW S, NEW q \in Seq(S), q # <<>>, NEW s, NEW known, Gapless(q, s, known)
    PROVE  /\ Gapless(Tail(q), s, known \cup (IF Head(q).kind = s THEN {Head(q).n} ELSE {}))
           /\ Head(q).kind = s => 1..(Head(q).n - 1) \subseteq known
  <1>2. \A i \in Of(Tail(q), s) : i \in Nat \ {0} /\ i + 1 \in Of(q, s) /\ Tail(q)[i] = q[i + 1]
    BY TailFacts DEF Of
  <1>3. \A i \in Of(q, s) : i \in Nat /\ (i # 1 => i - 1 \in Of(Tail(q), s) /\ Tail(q)[i - 1] = q[i])
    BY TailFacts DEF Of
  <1>4. Head(q) = q[1] /\ (Head(q).kind = s => 1 \in Of(q, s)) /\ (1 \in Of(q, s) => Head(q).kind = s)
    BY TailFacts DEF Of
  <1>5. ASSUME NEW i \in Of(Tail(q), s), NEW m \in 1..(Tail(q)[i].n - 1), m \notin known,
               ~(Head(q).kind = s /\ m = Head(q).n)
        PROVE  \E j \in Of(Tail(q), s) : j < i /\ Tail(q)[j].n = m
    <2>1. i + 1 \in Of(q, s) /\ Tail(q)[i] = q[i + 1] /\ i \in Nat
      BY <1>2
    <2>2. PICK j \in Of(q, s) : j < i + 1 /\ q[j].n = m
      BY <2>1, <1>5 DEF Gapless
    <2>3. j # 1
      BY <2>2, <1>4, <1>5
    <2>4. j - 1 \in Of(Tail(q), s) /\ Tail(q)[j - 1] = q[j] /\ j \in Nat
      BY <2>3, <1>3
    <2>5. j - 1 < i
      BY <2>1, <2>2, <2>4
    <2> QED
      BY <2>2, <2>4, <2>5
  <1>6. ASSUME Head(q).kind = s, NEW m \in 1..(Head(q).n - 1)
        PROVE  m \in known
    <2>1. 1 \in Of(q, s) /\ Head(q) = q[1]
      BY <1>4, <1>6
    <2>2. m \in known \/ \E j \in Of(q, s) : j < 1 /\ q[j].n = m
      BY <2>1, <1>6 DEF Gapless
    <2>3. \A j \in Of(q, s) : ~(j < 1)
      BY TailFacts DEF Of
    <2> QED
      BY <2>2, <2>3
  <1> QED
    BY <1>5, <1>6 DEF Gapless

\* Knowing more opens no gap.
LEMMA MoreKnown ==
    ASSUME NEW q, NEW s, NEW known, NEW more, Gapless(q, s, known), known \subseteq more
    PROVE  Gapless(q, s, more)
  BY DEF Gapless

\* An empty row has no frames of any kind.
LEMMA NothingOf == ASSUME NEW s PROVE Of(<<>>, s) = {}
  BY DEF Of

\* It has no gap and no numbers.
LEMMA NothingGapless ==
    ASSUME NEW s, NEW known
    PROVE  Gapless(<<>>, s, known) /\ Numbers(<<>>, s) = {}
  BY DEF Gapless, Numbers, Of

-----------------------------------------------------------------------------
(***************************************************************************)
(* Pieces of rows: eviction and replay.                                    *)
(***************************************************************************)
\* A piece of a row (SubSeq).
LEMMA PieceFacts ==
    ASSUME NEW S, NEW q \in Seq(S), NEW l \in 1..(Len(q) + 1), NEW h \in Int, l - 1 <= h, h <= Len(q)
    PROVE  /\ SubSeq(q, l, h) \in Seq(S) /\ Len(SubSeq(q, l, h)) = h - l + 1
           /\ \A i \in 1..(h - l + 1) : SubSeq(q, l, h)[i] = q[l + i - 1]
  OBVIOUS

\* Two rows in one.
LEMMA JoinFacts ==
    ASSUME NEW S, NEW a \in Seq(S), NEW b \in Seq(S)
    PROVE  /\ a \o b \in Seq(S) /\ Len(a \o b) = Len(a) + Len(b)
           /\ \A i \in 1..(Len(a) + Len(b)) :
                 (a \o b)[i] = IF i <= Len(a) THEN a[i] ELSE b[i - Len(a)]
  OBVIOUS

\* Evicting takes one display event out and leaves the others in their order.
LEMMA EvictedFacts ==
    ASSUME NEW S, NEW q \in Seq(S), HasDroppable(q)
    PROVE  \E k \in 1..Len(q) :
              /\ Droppable(q[k])
              /\ Evicted(q) \in Seq(S) /\ Len(q) \in Nat
              /\ Len(Evicted(q)) = Len(q) - 1 /\ DOMAIN Evicted(q) = 1..(Len(q) - 1)
              /\ \A i \in 1..(Len(q) - 1) : Evicted(q)[i] = IF i < k THEN q[i] ELSE q[i + 1]
  <1> DEFINE first(m) == Droppable(q[m]) /\ \A j \in 1..(m-1) : ~Droppable(q[j])
             k == CHOOSE m \in 1..Len(q) : first(m)
             T == {m \in 1..Len(q) : Droppable(q[m])}
  <1>1. Len(q) \in Nat /\ T \in SUBSET Nat /\ T # {}
    BY DEF HasDroppable
  <1>2. PICK x \in T : \A y \in T : x <= y
    BY <1>1, LeastOf
  <1>3. x \in 1..Len(q) /\ first(x)
    BY <1>2
  <1>4. k \in 1..Len(q) /\ first(k)
    BY <1>3
  <1>5. Evicted(q) = SubSeq(q, 1, k - 1) \o SubSeq(q, k + 1, Len(q))
    BY DEF Evicted
  <1>6. Droppable(q[k])
    BY <1>4
  <1> HIDE DEF k, first
  <1> DEFINE a == SubSeq(q, 1, k - 1)
             b == SubSeq(q, k + 1, Len(q))
  <1>7. /\ a \in Seq(S) /\ Len(a) = k - 1
        /\ \A i \in 1..(k - 1) : a[i] = q[i]
    <2>1. 1 \in Int /\ k - 1 \in Int /\ k - 1 <= Len(q) /\ 0 <= k - 1
      BY <1>4, <1>1
    <2> QED
      BY <1>1, <2>1, PieceFacts
  <1>8. /\ b \in Seq(S) /\ Len(b) = Len(q) - k
        /\ \A i \in 1..(Len(q) - k) : b[i] = q[k + i]
    <2>1. k + 1 \in 1..(Len(q) + 1) /\ Len(q) \in Int /\ k <= Len(q) /\ k \in Int
      BY <1>4, <1>1
    <2>2. /\ b \in Seq(S) /\ Len(b) = Len(q) - (k + 1) + 1
          /\ \A i \in 1..(Len(q) - (k + 1) + 1) : b[i] = q[(k + 1) + i - 1]
      BY <1>1, <2>1, PieceFacts
    <2>3. Len(q) - (k + 1) + 1 = Len(q) - k /\ \A i \in 1..(Len(q) - k) : (k + 1) + i - 1 = k + i
      BY <1>1, <2>1
    <2> QED
      BY <2>2, <2>3
  <1> HIDE DEF a, b
  <1>9. /\ a \o b \in Seq(S) /\ Len(a \o b) = Len(a) + Len(b)
        /\ \A i \in 1..(Len(a) + Len(b)) : (a \o b)[i] = IF i <= Len(a) THEN a[i] ELSE b[i - Len(a)]
    BY <1>7, <1>8, JoinFacts
  <1>12. Evicted(q) = a \o b
    BY <1>5 DEF a, b
  <1>13. k - 1 + (Len(q) - k) = Len(q) - 1
    BY <1>1, <1>4
  <1>10. Len(Evicted(q)) = Len(q) - 1 /\ Evicted(q) \in Seq(S)
    BY <1>7, <1>8, <1>9, <1>12, <1>13
  <1>11. ASSUME NEW i \in 1..(Len(q) - 1)
         PROVE  Evicted(q)[i] = IF i < k THEN q[i] ELSE q[i + 1]
    <2>1. Evicted(q)[i] = IF i <= k - 1 THEN a[i] ELSE b[i - (k - 1)]
      BY <1>7, <1>8, <1>9, <1>12, <1>13
    <2>2. CASE i < k
      <3>1. i \in 1..(k - 1)
        BY <2>2, <1>1, <1>4
      <3> QED
        BY <2>1, <2>2, <3>1, <1>4, <1>7
    <2>3. CASE ~(i < k)
      <3>1. i - (k - 1) \in 1..(Len(q) - k) /\ k + (i - (k - 1)) = i + 1
        BY <2>3, <1>1, <1>4
      <3>2. ~(i <= k - 1)
        BY <2>3, <1>1, <1>4
      <3> QED
        BY <2>1, <2>3, <3>1, <3>2, <1>8
    <2> QED
      BY <2>2, <2>3
  <1> QED
    BY <1>1, <1>4, <1>6, <1>10, <1>11

\* Eviction takes a display event: the numbers of a stream stay as they are.
LEMMA EvictedStates ==
    ASSUME NEW S, NEW q \in Seq(S), HasDroppable(q), NEW s, s # "token"
    PROVE  /\ Numbers(Evicted(q), s) = Numbers(q, s)
           /\ \A known : Gapless(q, s, known) => Gapless(Evicted(q), s, known)
  <1> PICK k \in 1..Len(q) :
              /\ Droppable(q[k])
              /\ Evicted(q) \in Seq(S) /\ Len(q) \in Nat
              /\ Len(Evicted(q)) = Len(q) - 1 /\ DOMAIN Evicted(q) = 1..(Len(q) - 1)
              /\ \A i \in 1..(Len(q) - 1) : Evicted(q)[i] = IF i < k THEN q[i] ELSE q[i + 1]
    BY EvictedFacts
  <1> DEFINE e == Evicted(q)
  <1>1. \A i \in Of(e, s) : i \in Nat
    BY DEF Of
  <1>2. DOMAIN q = 1..Len(q)
    OBVIOUS
  <1> DEFINE old(i) == IF i < k THEN i ELSE i + 1
             new(i) == IF i < k THEN i ELSE i - 1
  <1>3. \A i \in Of(e, s) : old(i) \in Of(q, s) /\ e[i] = q[old(i)]
    BY <1>2 DEF Of
  <1>4. k \notin Of(q, s)
    BY DEF Of, Droppable
  <1>5. \A i \in Of(q, s) : i \in Nat /\ new(i) \in Of(e, s) /\ e[new(i)] = q[i]
    <2> SUFFICES ASSUME NEW i \in Of(q, s)
                 PROVE  i \in Nat /\ new(i) \in Of(e, s) /\ e[new(i)] = q[i]
      OBVIOUS
    <2>1. i \in 1..Len(q) /\ i # k /\ q[i].kind = s
      BY <1>2, <1>4 DEF Of
    <2>2. CASE i < k
      <3>1. new(i) = i /\ i \in 1..(Len(q) - 1)
        BY <2>1, <2>2
      <3>2. e[i] = q[i]
        BY <3>1, <2>2
      <3> QED
        BY <2>1, <3>1, <3>2 DEF Of
    <2>3. CASE i > k
      <3>1. new(i) = i - 1 /\ i - 1 \in 1..(Len(q) - 1) /\ ~(i - 1 < k) /\ (i - 1) + 1 = i
        BY <2>1, <2>3
      <3>2. e[i - 1] = q[i]
        BY <3>1
      <3> QED
        BY <2>1, <3>1, <3>2 DEF Of
    <2> QED
      BY <2>1, <2>2, <2>3
  <1>6. \A i, j \in Nat : i < j /\ i # k /\ j # k => new(i) < new(j)
    OBVIOUS
  <1>7. \A i \in Of(e, s) : new(old(i)) = i
    BY <1>1
  <1> HIDE DEF e, old, new
  <1>8. Numbers(e, s) = Numbers(q, s)
    <2>1. ASSUME NEW i \in Of(e, s) PROVE \E j \in Of(q, s) : q[j].n = e[i].n
      BY <1>3
    <2>2. ASSUME NEW i \in Of(q, s) PROVE \E j \in Of(e, s) : e[j].n = q[i].n
      BY <1>5
    <2> QED
      BY <2>1, <2>2 DEF Numbers
  <1>9. ASSUME NEW known, Gapless(q, s, known), NEW i \in Of(e, s), NEW m \in 1..(e[i].n - 1),
               m \notin known
        PROVE  \E j \in Of(e, s) : j < i /\ e[j].n = m
    <2>1. PICK j \in Of(q, s) : j < old(i) /\ q[j].n = m
      BY <1>3, <1>9 DEF Gapless
    <2>2. new(j) < new(old(i))
      BY <2>1, <1>3, <1>4, <1>5, <1>6
    <2> QED
      BY <2>1, <2>2, <1>5, <1>7
  <1> QED
    BY <1>8, <1>9 DEF Gapless, e

(***************************************************************************)
(* The replay                                                              *)
(***************************************************************************)
LEMMA EventsAfterIs ==
    ASSUME NEW rows \in Seq(Nat), \A i \in 1..Len(rows) : rows[i] = i, NEW n \in Nat
    PROVE  EventsAfter(rows, n) =
                [k \in 1..(IF Len(rows) > n THEN Len(rows) - n ELSE 0) |-> n + k]
  <1> DEFINE L == Len(rows)
             upto(i) == [k \in 1..(IF i > n THEN i - n ELSE 0) |-> n + k]
             step(f, i) == IF i = 0 THEN NoEvents
                           ELSE IF rows[i] > n THEN Append(f[i-1], rows[i]) ELSE f[i-1]
             kept[i \in 0..L] == step(kept, i)
             closed == [i \in 0..L |-> upto(i)]
  <1>1. L \in Nat
    OBVIOUS
  <1>2. \A i \in 0..L : upto(i) \in Seq(Nat)
    OBVIOUS
  <1>3. ASSUME NEW i \in 0..L, i # 0
        PROVE  upto(i) = IF rows[i] > n THEN Append(upto(i-1), rows[i]) ELSE upto(i-1)
    <2>1. rows[i] = i /\ i - 1 \in 0..L
      BY <1>1, <1>3
    <2>2. CASE i > n
      <3>1. upto(i) = [k \in 1..(i - n) |-> n + k]
        BY <2>2
      <3>2. upto(i-1) = [k \in 1..(i - 1 - n) |-> n + k] /\ i - 1 - n \in Nat
        BY <2>2, <2>1
      <3>3. Append([k \in 1..(i - 1 - n) |-> n + k], i) = [k \in 1..(i - n) |-> n + k]
        BY <2>2, <3>2
      <3> QED
        BY <2>1, <2>2, <3>1, <3>2, <3>3
    <2>3. CASE ~(i > n)
      BY <2>1, <2>3
    <2> QED
      BY <2>2, <2>3
  <1>4. upto(0) = NoEvents
    BY DEF NoEvents
  <1> HIDE DEF upto
  <1>5. closed = [i \in 0..L |-> step(closed, i)]
    <2>1. ASSUME NEW i \in 0..L PROVE closed[i] = step(closed, i)
      <3>1. CASE i = 0
        BY <3>1, <1>4
      <3>2. CASE i # 0
        <4>1. i - 1 \in 0..L
          BY <3>2, <1>1
        <4> QED
          BY <3>2, <4>1, <1>3
      <3> QED
        BY <3>1, <3>2
    <2> QED
      BY <2>1
  <1>6. kept = [i \in 0..L |-> step(kept, i)]
    <2> HIDE DEF closed
    <2> QED
      BY <1>5
  <1> HIDE DEF kept
  <1> DEFINE S == {i \in Nat : i <= L => kept[i] = upto(i)}
  <1>7. S = Nat
    <2>1. 0 \in S
      BY <1>1, <1>4, <1>6
    <2>2. ASSUME NEW i \in S PROVE i + 1 \in S
      <3>1. CASE i + 1 <= L
        <4>1. i + 1 \in 0..L /\ i + 1 # 0 /\ (i + 1) - 1 = i /\ kept[i] = upto(i)
          BY <3>1, <1>1
        <4>2. kept[i + 1] = step(kept, i + 1)
          BY <4>1, <1>6
        <4>3. kept[i + 1] = IF rows[i + 1] > n THEN Append(upto(i), rows[i + 1]) ELSE upto(i)
          BY <4>1, <4>2
        <4>4. kept[i + 1] = upto(i + 1)
          BY <4>1, <4>3, <1>3
        <4> QED
          BY <4>1, <4>4
      <3> QED
        BY <3>1
    <2> HIDE DEF S
    <2>3. S \in SUBSET Nat
      BY DEF S
    <2> QED
      BY <2>1, <2>2, <2>3, SetInduction
  <1>8. kept[L] = upto(L)
    BY <1>1, <1>7
  <1>9. EventsAfter(rows, n) = kept[L]
    BY DEF EventsAfter, kept
  <1> QED
    BY <1>8, <1>9 DEF upto

-----------------------------------------------------------------------------
(***************************************************************************)
(* Types.                                                                  *)
(***************************************************************************)
Conns == {"open", "closing", "none", "left"}
\* A client without a connection.
Away == {"none", "left"}
ReplayStates == [pc : {"lock", "drain"}, family : Families, id : Nat, todo : Seq(Frames)]
SentStates == [pc : {"sent"}, family : Families, after : Nat]

\* What the variables of the clients range over: their functions are as wide as FamiliesOf says.
SubType ==
    /\ DOMAIN sub = Clients
    /\ \A c \in Clients : sub[c] \in [FamiliesOf(c) -> {NoSub} \cup SubStates]
RequestType ==
    /\ request \in [Clients -> [Requests -> {Idle} \cup RequestStates]]
    /\ \A c \in Clients, r \in Requests :
          request[c][r] # Idle => request[c][r].family \in FamiliesOf(c)
CountType ==
    /\ DOMAIN subscribes = Clients /\ DOMAIN written = Clients
    /\ \A c \in Clients : /\ subscribes[c] \in [FamiliesOf(c) -> Nat]
                          /\ written[c] \in [FamiliesOf(c) -> Nat]
ClientType ==
    /\ conn \in [Clients -> Conns]
    /\ wire \in [Clients -> Seq(Frames)]
    /\ cursor \in [Clients -> Nat]
    /\ shown \in [Clients -> SUBSET Nat]
    /\ again \in [Clients -> SUBSET Nat]
    /\ answered \in [Clients -> Nat]
BusType ==
    /\ pub \in [Families -> Nat]
    /\ issued \in Nat /\ runLog \in Nat /\ unpublished \in Nat

TypeInv == SubType /\ RequestType /\ CountType /\ ClientType /\ BusType

\* The states of a subscription and of a command are told apart by their pc.
LEMMA SubsDiffer ==
    /\ NoSub \notin SubStates
    /\ \A s \in SubStates : s.pc \in {"get", "lock", "drain"} /\ s.id \in Nat /\ s.ready \in BOOLEAN
                            /\ s.queue \in Seq(Queueable) /\ s.hand \in Seq(Queueable)
    /\ NoSub.pc = "none" /\ Idle.pc = "free"
    /\ RequestStates = SentStates \cup ReplayStates
    /\ Idle \notin RequestStates
    /\ \A q \in SentStates : q.pc = "sent" /\ q.family \in Families /\ q.after \in Nat
    /\ \A q \in ReplayStates : q.pc \in {"lock", "drain"} /\ q.family \in Families /\ q.id \in Nat
                               /\ q.todo \in Seq(Frames)
  BY DEF NoSub, Idle, SubStates, RequestStates, SentStates, ReplayStates

\* Which families a client subscribes to.
LEMMA FamiliesFacts ==
    /\ \A c \in Clients : FamiliesOf(c) \subseteq Families
    /\ \A c \in Terminals : c \in Clients /\ FamiliesOf(c) = {"job", "run"}
    /\ \A c \in Clients \ Terminals : FamiliesOf(c) = {"global"}
    /\ \A c \in Clients : IsFiniteSet(FamiliesOf(c)) /\ FamiliesOf(c) # {}
  <1>1. IsFiniteSet({"job", "run"}) /\ IsFiniteSet({"global"})
    <2>1. IsFiniteSet({"run"}) /\ IsFiniteSet({"global"})
      BY FS_Singleton
    <2>2. IsFiniteSet({"run"} \cup {"job"})
      BY <2>1, FS_AddElement
    <2>3. {"run"} \cup {"job"} = {"job", "run"}
      OBVIOUS
    <2> QED
      BY <2>1, <2>2, <2>3
  <1> QED
    BY <1>1 DEF FamiliesOf, Families, Clients

\* What Queued does to a subscription, field by field.
LEMMA QueuedType ==
    ASSUME NEW s \in SubStates, NEW e \in Queueable
    PROVE  /\ Queued(s, e) \in SubStates
           /\ Queued(s, e).pc = s.pc /\ Queued(s, e).id = s.id /\ Queued(s, e).ready = s.ready
           /\ Queued(s, e).hand = s.hand
           /\ Queued(s, e).queue =
                 IF ~Full(s) THEN Append(s.queue, e)
                 ELSE IF Droppable(e) \/ ~HasDroppable(s.queue) THEN s.queue
                 ELSE Append(Evicted(s.queue), e)
  <1>1. s.queue \in Seq(Queueable)
    BY SubsDiffer
  <1>2. ASSUME NEW q \in Seq(Queueable) PROVE Append(q, e) \in Seq(Queueable)
    OBVIOUS
  <1>3. ASSUME HasDroppable(s.queue) PROVE Evicted(s.queue) \in Seq(Queueable)
    BY <1>1, <1>3, EvictedFacts
  <1> DEFINE put(q) == [s EXCEPT !.queue = q]
  <1>4. ASSUME NEW q \in Seq(Queueable)
        PROVE  /\ put(q) \in SubStates /\ put(q).pc = s.pc /\ put(q).id = s.id
               /\ put(q).ready = s.ready /\ put(q).hand = s.hand /\ put(q).queue = q
    <2>1. /\ put(q).pc = s.pc /\ put(q).id = s.id
          /\ put(q).ready = s.ready /\ put(q).hand = s.hand /\ put(q).queue = q
      BY DEF SubStates
    <2>2. put(q) \in SubStates
      BY DEF SubStates
    <2> QED
      BY <2>1, <2>2
  <1>5. CASE ~Full(s)
    <2>1. Queued(s, e) = put(Append(s.queue, e))
      BY <1>5 DEF Queued
    <2>2. Append(s.queue, e) \in Seq(Queueable)
      BY <1>1, <1>2
    <2> HIDE DEF put
    <2> QED
      BY <1>4, <1>5, <2>1, <2>2
  <1>6. CASE Full(s) /\ (Droppable(e) \/ ~HasDroppable(s.queue))
    <2>1. Queued(s, e) = s
      BY <1>6 DEF Queued
    <2> QED
      BY <1>6, <2>1
  <1>7. CASE Full(s) /\ ~Droppable(e) /\ HasDroppable(s.queue)
    <2>1. Queued(s, e) = put(Append(Evicted(s.queue), e))
      BY <1>7 DEF Queued
    <2>2. Append(Evicted(s.queue), e) \in Seq(Queueable)
      BY <1>2, <1>3, <1>7
    <2> HIDE DEF put
    <2> QED
      BY <1>4, <1>7, <2>1, <2>2
  <1> QED
    BY <1>5, <1>6, <1>7

-----------------------------------------------------------------------------
(***************************************************************************)
(* One subscription or one command changes.                                *)
(***************************************************************************)
\* Nothing but the subscription of family f of c changes, and it becomes s.
OnlySub(c, f, s) ==
    /\ SubType'
    /\ sub'[c][f] = s
    /\ \A d \in Clients : \A g \in FamiliesOf(d) : (d # c \/ g # f) => sub'[d][g] = sub[d][g]

\* Nothing but the command r of c changes, and it becomes q.
OnlyRequest(c, r, q) ==
    /\ RequestType'
    /\ request'[c][r] = q
    /\ \A d \in Clients, p \in Requests : (d # c \/ p # r) => request'[d][p] = request[d][p]

\* An EXCEPT on one subscription changes no other.
LEMMA SubReplaced ==
    ASSUME SubType, NEW c \in Clients, NEW f \in FamiliesOf(c), NEW s \in {NoSub} \cup SubStates,
           sub' = [sub EXCEPT ![c][f] = s]
    PROVE  OnlySub(c, f, s)
  BY DEF SubType, OnlySub

\* An EXCEPT on one command changes no other.
LEMMA RequestReplaced ==
    ASSUME RequestType, NEW c \in Clients, NEW r \in Requests, NEW q \in {Idle} \cup RequestStates,
           q # Idle => q.family \in FamiliesOf(c), request' = [request EXCEPT ![c][r] = q]
    PROVE  OnlyRequest(c, r, q)
  BY DEF RequestType, OnlyRequest

\* A live subscription has all the fields of one.
LEMMA SubIs ==
    ASSUME SubType, NEW c \in Clients, NEW f \in FamiliesOf(c)
    PROVE  /\ sub[c][f] \in {NoSub} \cup SubStates
           /\ Live(c, f) <=> sub[c][f] \in SubStates
  BY SubsDiffer DEF SubType, Live

\* The kind of a command follows from its pc.
LEMMA RequestIs ==
    ASSUME RequestType, NEW c \in Clients, NEW r \in Requests
    PROVE  /\ request[c][r].pc \in {"lock", "drain"} => request[c][r] \in ReplayStates
           /\ request[c][r].pc = "sent" => request[c][r] \in SentStates
           /\ request[c][r].pc \in {"free", "sent", "lock", "drain"}
           /\ request[c][r].pc = "free" => request[c][r] = Idle
           /\ request[c][r] # Idle => request[c][r].family \in FamiliesOf(c)
  <1>1. request[c][r] \in {Idle} \cup SentStates \cup ReplayStates
    BY SubsDiffer DEF RequestType
  <1> QED
    BY <1>1, SubsDiffer DEF RequestType

\* The states a writer task goes through.
Taken(s) == [pc |-> "lock", id |-> s.id, ready |-> TRUE,
             queue |-> Tail(s.queue), hand |-> <<Head(s.queue)>>]
Wrote(s) == [s EXCEPT !.pc = "drain", !.hand = NoEvents]
Resumed(s) == [s EXCEPT !.pc = "get"]
Lifted(s) == [s EXCEPT !.ready = TRUE]

\* The fields of a subscription after each step of its writer.
LEMMA SubChanges ==
    ASSUME NEW s \in SubStates
    PROVE  /\ Wrote(s) \in SubStates /\ Resumed(s) \in SubStates /\ Lifted(s) \in SubStates
           /\ s.queue # <<>> => Taken(s) \in SubStates
           /\ Wrote(s).pc = "drain" /\ Wrote(s).id = s.id /\ Wrote(s).ready = s.ready
           /\ Wrote(s).queue = s.queue /\ Wrote(s).hand = <<>>
           /\ Resumed(s).pc = "get" /\ Resumed(s).id = s.id /\ Resumed(s).ready = s.ready
           /\ Resumed(s).queue = s.queue /\ Resumed(s).hand = s.hand
           /\ Lifted(s).pc = s.pc /\ Lifted(s).id = s.id /\ Lifted(s).ready = TRUE
           /\ Lifted(s).queue = s.queue /\ Lifted(s).hand = s.hand
  <1>1. s.queue \in Seq(Queueable) /\ <<>> \in Seq(Queueable) /\ s.id \in Nat
    BY DEF SubStates
  <1>2. ASSUME NEW q \in Seq(Queueable), q # <<>>
        PROVE  Tail(q) \in Seq(Queueable) /\ <<Head(q)>> \in Seq(Queueable)
    <2>1. Head(q) \in Queueable /\ Tail(q) \in Seq(Queueable)
      BY <1>2, TailFacts
    <2> QED
      BY <2>1
  <1>3. s.queue # <<>> => Taken(s) \in SubStates
    BY <1>1, <1>2 DEF Taken, SubStates
  <1>4. Wrote(s) \in SubStates
    BY <1>1 DEF Wrote, SubStates, NoEvents
  <1>5. Resumed(s) \in SubStates /\ Lifted(s) \in SubStates
    BY DEF Resumed, Lifted, SubStates
  <1> QED
    BY <1>3, <1>4, <1>5 DEF Wrote, Resumed, Lifted, SubStates, NoEvents

\* WriterGet changes nothing but its own subscription.
LEMMA GetEffect ==
    ASSUME TypeInv, NEW c \in Clients, NEW f \in FamiliesOf(c), WriterGet(c, f)
    PROVE  /\ sub[c][f] \in SubStates /\ sub[c][f].pc = "get" /\ sub[c][f].ready = TRUE
           /\ sub[c][f].queue # <<>>
           /\ OnlySub(c, f, Taken(sub[c][f]))
  <1>1. /\ sub[c][f] \in SubStates /\ sub[c][f].pc = "get" /\ sub[c][f].ready = TRUE
        /\ sub[c][f].queue # <<>>
    BY SubIs, SubsDiffer DEF WriterGet, TypeInv
  <1>2. sub' = [sub EXCEPT ![c][f] = Taken(sub[c][f])]
    BY <1>1 DEF WriterGet, Taken, SubStates, TypeInv, SubType
  <1> QED
    BY <1>1, <1>2, SubChanges, SubReplaced DEF TypeInv

\* So does WriterWrite.
LEMMA WriteEffect ==
    ASSUME TypeInv, NEW c \in Clients, NEW f \in FamiliesOf(c), WriterWrite(c, f)
    PROVE  /\ sub[c][f] \in SubStates /\ sub[c][f].pc = "lock" /\ LockFree(c)
           /\ OnlySub(c, f, Wrote(sub[c][f]))
  <1>1. /\ sub[c][f] \in SubStates /\ sub[c][f].pc = "lock"
    BY SubIs, SubsDiffer DEF WriterWrite, TypeInv
  <1>2. sub' = [sub EXCEPT ![c][f] = Wrote(sub[c][f])]
    BY <1>1 DEF WriterWrite, Wrote, SubStates, TypeInv, SubType, NoEvents
  <1> QED
    BY <1>1, <1>2, SubChanges, SubReplaced DEF TypeInv, WriterWrite

\* So does WriterDrained.
LEMMA DrainedEffect ==
    ASSUME TypeInv, NEW c \in Clients, NEW f \in FamiliesOf(c), WriterDrained(c, f)
    PROVE  /\ sub[c][f] \in SubStates /\ sub[c][f].pc = "drain" /\ Drained(c)
           /\ OnlySub(c, f, Resumed(sub[c][f]))
  <1>1. /\ sub[c][f] \in SubStates /\ sub[c][f].pc = "drain"
    BY SubIs, SubsDiffer DEF WriterDrained, TypeInv
  <1>2. sub' = [sub EXCEPT ![c][f] = Resumed(sub[c][f])]
    BY <1>1 DEF WriterDrained, Resumed, SubStates, TypeInv, SubType
  <1> QED
    BY <1>1, <1>2, SubChanges, SubReplaced DEF TypeInv, WriterDrained

-----------------------------------------------------------------------------
(***************************************************************************)
(* Replays.                                                                *)
(***************************************************************************)
\* What a replay writes: its own stream only, all numbers after the cursor, in order.
LEMMA ReplayIs ==
    ASSUME LogInv, runLog \in Nat, NEW after \in Nat, NEW f \in Families
    PROVE  /\ Replay(f, after) \in Seq(Frames)
           /\ \A s : s # f => Of(Replay(f, after), s) = {}
           /\ f = "job" /\ job # "dead" =>
                 Numbers(Replay(f, after), f) = (after + 1)..Len(log.rows)
           /\ f = "job" => Numbers(Replay(f, after), f) \subseteq 1..Len(log.rows)
           /\ f = "run" => Numbers(Replay(f, after), f) = 1..runLog
           /\ Gapless(Replay(f, after), f, 1..after)
  <1>1. CASE f = "job" /\ job = "dead"
    <2>1. Replay(f, after) = <<>>
      BY <1>1 DEF Replay, NoEvents
    <2>2. <<>> \in Seq(Frames) /\ \A s : Of(<<>>, s) = {}
      BY NothingOf
    <2>3. Numbers(<<>>, f) = {} /\ Gapless(<<>>, f, 1..after)
      BY NothingGapless
    <2> QED
      BY <1>1, <2>1, <2>2, <2>3
  <1>2. CASE f = "job" /\ job # "dead"
    <2> DEFINE rows == log.rows
               L == Len(rows)
               m == IF L > after THEN L - after ELSE 0
               seqs == [k \in 1..m |-> after + k]
               q == [k \in 1..m |-> Frame("job", after + k)]
    <2>1. rows \in Seq(Nat) /\ L \in Nat /\ \A i \in 1..L : rows[i] = i
      BY DEF LogInv, LogType, Numbered
    <2>2. EventsAfter(rows, after) = seqs
      BY <2>1, EventsAfterIs
    <2>3. Len(seqs) = m /\ m \in Nat
      BY <2>1
    <2>4. Replay(f, after) = JobFrames(seqs)
      BY <1>2, <2>2 DEF Replay, ReadEvents
    <2>5. JobFrames(seqs) = q
      BY <2>3 DEF JobFrames
    <2>6. \A k \in 1..m : Frame("job", after + k) \in Frames /\ Frame("job", after + k).kind = "job"
                          /\ Frame("job", after + k).n = after + k
      BY <2>3 DEF Frame, Frames, Kinds, Events
    <2> HIDE DEF m
    <2>7. q \in Seq(Frames) /\ DOMAIN q = 1..m
      BY <2>3, <2>6
    <2>8. Of(q, "job") = 1..m /\ \A s : s # "job" => Of(q, s) = {}
      BY <2>6, <2>7 DEF Of
    <2>9. \A k \in 1..m : q[k].n = after + k
      BY <2>6
    <2> HIDE DEF q
    <2>10. Numbers(q, "job") = (after + 1)..L
      <3>1. ASSUME NEW k \in 1..m PROVE after + k \in (after + 1)..L
        BY <2>1, <2>3 DEF m
      <3>2. ASSUME NEW n \in (after + 1)..L PROVE n - after \in 1..m /\ after + (n - after) = n
        BY <2>1, <2>3 DEF m
      <3>3. Numbers(q, "job") = {after + k : k \in 1..m}
        BY <2>8, <2>9 DEF Numbers
      <3> QED
        BY <3>1, <3>2, <3>3
    <2>11. Gapless(q, "job", 1..after)
      <3>1. ASSUME NEW i \in 1..m, NEW n \in 1..(after + i - 1), n \notin 1..after
            PROVE  n - after \in 1..m /\ n - after < i /\ after + (n - after) = n
        BY <2>3, <3>1
      <3>2. ASSUME NEW i \in 1..m, NEW n \in 1..(q[i].n - 1), n \notin 1..after
            PROVE  \E j \in 1..m : j < i /\ q[j].n = n
        <4>1. n - after \in 1..m /\ n - after < i /\ after + (n - after) = n
          BY <3>1, <3>2, <2>9
        <4> QED
          BY <4>1, <2>9
      <3> QED
        BY <3>2, <2>8 DEF Gapless
    <2>12. (after + 1)..L \subseteq 1..L
      BY <2>1
    <2> QED
      BY <1>2, <2>4, <2>5, <2>7, <2>8, <2>10, <2>11, <2>12
  <1>3. CASE f = "run"
    <2> DEFINE q == [i \in 1..runLog |-> Frame("run", i)]
    <2>1. Replay(f, after) = q
      BY <1>3 DEF Replay
    <2>2. \A k \in 1..runLog : Frame("run", k) \in Frames /\ Frame("run", k).kind = "run" /\ Frame("run", k).n = k
      BY DEF Frame, Frames, Kinds, Events
    <2>3. q \in Seq(Frames) /\ DOMAIN q = 1..runLog
      BY <2>2
    <2>4. \A k \in 1..runLog : q[k].kind = "run" /\ q[k].n = k
      BY <2>2
    <2> HIDE DEF q
    <2>5. Of(q, "run") = 1..runLog /\ \A s : s # "run" => Of(q, s) = {}
      BY <2>3, <2>4 DEF Of
    <2>6. Numbers(q, "run") = 1..runLog
      BY <2>4, <2>5 DEF Numbers
    <2>7. Gapless(q, "run", 1..after)
      <3>1. ASSUME NEW i \in 1..runLog, NEW n \in 1..(q[i].n - 1)
            PROVE  \E j \in 1..runLog : j < i /\ q[j].n = n
        <4>1. n \in 1..runLog /\ n < i
          BY <2>4
        <4> QED
          BY <4>1, <2>4
      <3> QED
        BY <3>1, <2>5 DEF Gapless
    <2> QED
      BY <1>3, <2>1, <2>3, <2>5, <2>6, <2>7
  <1>4. CASE f = "global"
    <2>1. Replay(f, after) = <<>>
      BY <1>4 DEF Replay, NoEvents
    <2>2. <<>> \in Seq(Frames) /\ \A s : Of(<<>>, s) = {}
      BY NothingOf
    <2>3. Numbers(<<>>, f) = {} /\ Gapless(<<>>, f, 1..after)
      BY NothingGapless
    <2> QED
      BY <1>4, <2>1, <2>2, <2>3
  <1> QED
    BY <1>1, <1>2, <1>3, <1>4 DEF Families

Asked(c, f) == [pc |-> "sent", family |-> f, after |-> IF f = "job" THEN cursor[c] ELSE 0]

\* SendSubscribe changes nothing but its own command.
LEMMA SendEffect ==
    ASSUME TypeInv, NEW c \in Clients, NEW f \in FamiliesOf(c), NEW r \in Requests,
           SendSubscribe(c, f, r)
    PROVE  /\ request[c][r] = Idle
           /\ Asked(c, f) \in SentStates
           /\ OnlyRequest(c, r, Asked(c, f))
  <1>1. Asked(c, f) \in SentStates
    BY FamiliesFacts DEF Asked, SentStates, TypeInv, ClientType
  <1>2. request' = [request EXCEPT ![c][r] = Asked(c, f)] /\ request[c][r] = Idle
    BY DEF SendSubscribe, Asked
  <1>3. Asked(c, f).family \in FamiliesOf(c) /\ Asked(c, f) \in {Idle} \cup RequestStates
    BY <1>1, SubsDiffer DEF Asked
  <1> QED
    BY <1>1, <1>2, <1>3, RequestReplaced DEF TypeInv

Replaying(f, after) == [pc |-> "lock", family |-> f, id |-> issued + 1, todo |-> Replay(f, after)]

\* Subscribe replaces one subscription and turns one command into a replay.
LEMMA SubscribeEffect ==
    ASSUME TypeInv, LogInv, NEW c \in Clients, NEW r \in Requests, Subscribe(c, r)
    PROVE  LET q == request[c][r] IN
           /\ q \in SentStates /\ q.pc = "sent"
           /\ q.family \in FamiliesOf(c)
           /\ Registered(q.family, issued + 1) \in SubStates
           /\ OnlySub(c, q.family, Registered(q.family, issued + 1))
           /\ q.family = "global" => OnlyRequest(c, r, Idle) /\ Answer(c)
           /\ q.family # "global" => /\ Replaying(q.family, q.after) \in ReplayStates
                                     /\ OnlyRequest(c, r, Replaying(q.family, q.after))
                                     /\ UNCHANGED <<wire, answered>>
  <1> DEFINE q == request[c][r]
  <1>1. q \in SentStates /\ q.pc = "sent" /\ q.family \in FamiliesOf(c) /\ q.after \in Nat
        /\ q.family \in Families
    BY RequestIs, SubsDiffer DEF Subscribe, TypeInv
  <1>2. issued \in Nat /\ issued + 1 \in Nat /\ runLog \in Nat
    BY DEF TypeInv, BusType
  <1> HIDE DEF q
  <1>3. Registered(q.family, issued + 1) \in SubStates
    BY <1>2 DEF Registered, SubStates, NoEvents
  <1>4. sub' = [sub EXCEPT ![c][q.family] = Registered(q.family, issued + 1)]
    BY DEF Subscribe, q
  <1>5. OnlySub(c, q.family, Registered(q.family, issued + 1))
    BY <1>1, <1>3, <1>4, SubReplaced DEF TypeInv
  <1>6. ASSUME q.family = "global" PROVE OnlyRequest(c, r, Idle) /\ Answer(c)
    <2>1. request' = [request EXCEPT ![c][r] = Idle] /\ Answer(c)
      BY <1>6 DEF Subscribe, q
    <2> QED
      BY <2>1, RequestReplaced DEF TypeInv
  <1>7. ASSUME q.family # "global"
        PROVE  /\ Replaying(q.family, q.after) \in ReplayStates
               /\ OnlyRequest(c, r, Replaying(q.family, q.after))
               /\ UNCHANGED <<wire, answered>>
    <2>1. /\ request' = [request EXCEPT ![c][r] = Replaying(q.family, q.after)]
          /\ UNCHANGED <<wire, answered>>
      BY <1>7 DEF Subscribe, q, Replaying
    <2>2. Replay(q.family, q.after) \in Seq(Frames)
      BY <1>1, <1>2, ReplayIs
    <2>3. Replaying(q.family, q.after) \in ReplayStates
      BY <1>1, <1>2, <2>2 DEF Replaying, ReplayStates
    <2>4. Replaying(q.family, q.after).family \in FamiliesOf(c)
      BY <1>1 DEF Replaying
    <2> QED
      BY <2>1, <2>3, <2>4, RequestReplaced, SubsDiffer DEF TypeInv
  <1> QED
    BY <1>1, <1>3, <1>5, <1>6, <1>7 DEF q

\* A response is one more frame on the wire and one more response.
LEMMA AnswerEffect ==
    ASSUME TypeInv, NEW c \in Clients, Answer(c)
    PROVE  /\ Response \in Frames /\ Response.kind = "response"
           /\ wire' \in [Clients -> Seq(Frames)] /\ answered' \in [Clients -> Nat]
           /\ wire'[c] = Append(wire[c], Response) /\ answered'[c] = answered[c] + 1
  <1>1. wire \in [Clients -> Seq(Frames)] /\ answered \in [Clients -> Nat]
    BY DEF TypeInv, ClientType
  <1>2. Response \in Frames /\ Response.kind = "response"
    BY DEF Response, Frame, Frames, Kinds
  <1>3. Append(wire[c], Response) \in Seq(Frames) /\ answered[c] + 1 \in Nat
    BY <1>1, <1>2
  <1> QED
    BY <1>1, <1>2, <1>3 DEF Answer

Advanced(q) == [q EXCEPT !.pc = "drain", !.todo = Tail(q.todo)]

\* The last step of a replay: the command is answered, and the subscription it
\* made is let go, if it is still there.
LEMMA ReplayEnds ==
    ASSUME TypeInv, NEW c \in Clients, NEW r \in Requests, ReplayStep(c, r), request[c][r].todo = <<>>
    PROVE  LET q == request[c][r] IN
           /\ q \in ReplayStates /\ q.family \in FamiliesOf(c)
           /\ (q.pc = "lock" /\ LockFree(c)) \/ (q.pc = "drain" /\ Drained(c))
           /\ OnlyRequest(c, r, Idle)
           /\ IF sub[c][q.family] \in SubStates /\ sub[c][q.family].id = q.id
              THEN OnlySub(c, q.family, Lifted(sub[c][q.family]))
              ELSE UNCHANGED sub
           /\ Answer(c)
  <1> DEFINE q == request[c][r]
  <1>1. /\ q \in ReplayStates /\ q.family \in FamiliesOf(c)
        /\ ((q.pc = "lock" /\ LockFree(c)) \/ (q.pc = "drain" /\ Drained(c)))
    <2>1. (q.pc = "lock" /\ LockFree(c)) \/ (q.pc = "drain" /\ Drained(c))
      BY DEF ReplayStep
    <2>2. q \in ReplayStates
      BY <2>1, RequestIs DEF TypeInv
    <2>3. q # Idle /\ q.todo \in Seq(Frames)
      BY <2>1, <2>2, SubsDiffer
    <2>4. q.family \in FamiliesOf(c)
      BY <2>3, RequestIs DEF TypeInv
    <2> QED
      BY <2>1, <2>2, <2>3, <2>4
  <1>2. Answer(c) /\ request' = [request EXCEPT ![c][r] = Idle]
        /\ sub' = Activated(c, q.family, q.id)
    BY DEF ReplayStep
  <1>3. OnlyRequest(c, r, Idle)
    BY <1>2, RequestReplaced DEF TypeInv
  <1> HIDE DEF q
  <1>4. ASSUME sub[c][q.family] \in SubStates, sub[c][q.family].id = q.id
        PROVE  OnlySub(c, q.family, Lifted(sub[c][q.family]))
    <2>1. sub' = [sub EXCEPT ![c][q.family] = Lifted(sub[c][q.family])]
      BY <1>1, <1>2, <1>4, SubIs DEF Activated, Lifted, TypeInv, SubType
    <2> QED
      BY <1>1, <1>4, <2>1, SubChanges, SubReplaced DEF TypeInv
  <1>5. ASSUME ~(sub[c][q.family] \in SubStates /\ sub[c][q.family].id = q.id)
        PROVE  UNCHANGED sub
    BY <1>1, <1>2, <1>5, SubIs DEF Activated, TypeInv
  <1> QED
    BY <1>1, <1>2, <1>3, <1>4, <1>5 DEF q

\* A step of a replay that writes a frame.
LEMMA ReplayGoesOn ==
    ASSUME TypeInv, NEW c \in Clients, NEW r \in Requests, ReplayStep(c, r), request[c][r].todo # <<>>
    PROVE  LET q == request[c][r] IN
           /\ q \in ReplayStates /\ q.family \in FamiliesOf(c)
           /\ (q.pc = "lock" /\ LockFree(c)) \/ (q.pc = "drain" /\ Drained(c))
           /\ Head(q.todo) \in Frames /\ Tail(q.todo) \in Seq(Frames)
           /\ Advanced(q) \in ReplayStates
           /\ Advanced(q).id = q.id /\ Advanced(q).family = q.family
           /\ Advanced(q).todo = Tail(q.todo) /\ Advanced(q).pc = "drain"
           /\ OnlyRequest(c, r, Advanced(q))
           /\ UNCHANGED <<sub, answered>>
           /\ wire' = [wire EXCEPT ![c] = Append(@, Head(q.todo))]
  <1> DEFINE q == request[c][r]
  <1>1. /\ q \in ReplayStates /\ q.family \in FamiliesOf(c) /\ q.todo # <<>> /\ q.todo \in Seq(Frames)
        /\ ((q.pc = "lock" /\ LockFree(c)) \/ (q.pc = "drain" /\ Drained(c)))
    <2>1. (q.pc = "lock" /\ LockFree(c)) \/ (q.pc = "drain" /\ Drained(c))
      BY DEF ReplayStep
    <2>2. q \in ReplayStates
      BY <2>1, RequestIs DEF TypeInv
    <2>3. q # Idle /\ q.todo \in Seq(Frames)
      BY <2>1, <2>2, SubsDiffer
    <2>4. q.family \in FamiliesOf(c)
      BY <2>3, RequestIs DEF TypeInv
    <2> QED
      BY <2>1, <2>2, <2>3, <2>4
  <1>2. Head(q.todo) \in Frames /\ Tail(q.todo) \in Seq(Frames)
    BY <1>1, TailFacts
  <1>3. /\ wire' = [wire EXCEPT ![c] = Append(@, Head(q.todo))] /\ UNCHANGED <<sub, answered>>
        /\ request' = [request EXCEPT ![c][r] = Advanced(q)]
    BY DEF ReplayStep, Advanced, TypeInv, RequestType
  <1> HIDE DEF q
  <1>4. /\ Advanced(q) \in ReplayStates
        /\ Advanced(q).id = q.id /\ Advanced(q).family = q.family
        /\ Advanced(q).todo = Tail(q.todo) /\ Advanced(q).pc = "drain"
    BY <1>1, <1>2 DEF Advanced, ReplayStates
  <1>5. OnlyRequest(c, r, Advanced(q))
    BY <1>1, <1>3, <1>4, RequestReplaced, SubsDiffer DEF TypeInv
  <1> QED
    BY <1>1, <1>2, <1>3, <1>4, <1>5 DEF q

-----------------------------------------------------------------------------
(***************************************************************************)
(* What is published, and who is cut off.                                  *)
(***************************************************************************)
\* A client that is cut off, and one that is left alone.
CutOff(d) == /\ \A f \in FamiliesOf(d) : sub'[d][f] = NoSub
             /\ \A r \in Requests : request'[d][r] = Idle
Kept(d) == sub'[d] = sub[d] /\ request'[d] = request[d]

Arriving(kind, n, f) ==
    [kind |-> kind, n |-> n, stamp |-> IF kind # "token" THEN pub[f] + 1 ELSE 0]

\* A client an event is published to.
Served(d, kind, n) ==
    /\ \A f \in FamiliesOf(d) :
          IF Live(d, f) /\ Matches(kind, f)
          THEN /\ sub[d][f] \in SubStates
               /\ ~Overflows(sub[d][f], Arriving(kind, n, f))
               /\ sub'[d][f] = Queued(sub[d][f], Arriving(kind, n, f))
          ELSE sub'[d][f] = sub[d][f]
    /\ request'[d] = request[d]

\* What is put into the queues is of their type.
LEMMA ArrivingType ==
    ASSUME BusType, NEW kind \in Events, NEW n \in Nat, NEW f \in Families
    PROVE  Arriving(kind, n, f) \in Queueable
  BY DEF BusType, Arriving, Queueable

\* Cut leaves nothing of the clients it is given, and of the others what it is told.
LEMMA CutEffect ==
    ASSUME TypeInv, NEW C \in SUBSET Clients, NEW after,
           \A d \in Clients \ C : after[d] \in [FamiliesOf(d) -> {NoSub} \cup SubStates],
           Cut(C, after)
    PROVE  /\ SubType' /\ RequestType'
           /\ \A d \in C : CutOff(d)
           /\ \A d \in Clients \ C : sub'[d] = after[d] /\ request'[d] = request[d]
  <1>1. sub' = [c \in Clients |-> IF c \in C THEN [f \in FamiliesOf(c) |-> NoSub] ELSE after[c]]
    BY DEF Cut
  <1>2. request' = [c \in Clients |-> IF c \in C THEN [r \in Requests |-> Idle] ELSE request[c]]
    BY DEF Cut
  <1>3. \A d \in C : CutOff(d)
    BY <1>1, <1>2 DEF CutOff
  <1>4. \A d \in Clients \ C : sub'[d] = after[d] /\ request'[d] = request[d]
    BY <1>1, <1>2
  <1>5. SubType'
    <2>1. \A d \in C : sub'[d] \in [FamiliesOf(d) -> {NoSub} \cup SubStates]
      BY <1>1
    <2> QED
      BY <1>1, <1>4, <2>1 DEF SubType
  <1>6. RequestType'
    <2>1. request' \in [Clients -> [Requests -> {Idle} \cup RequestStates]]
      BY <1>2 DEF TypeInv, RequestType
    <2>2. ASSUME NEW c \in Clients, NEW r \in Requests, request'[c][r] # Idle
          PROVE  request'[c][r].family \in FamiliesOf(c)
      <3>1. c \notin C
        BY <1>2, <2>2
      <3>2. request'[c][r] = request[c][r]
        BY <1>4, <3>1
      <3> QED
        BY <2>2, <3>2 DEF TypeInv, RequestType
    <2> QED
      BY <2>1, <2>2 DEF RequestType
  <1> QED
    BY <1>3, <1>4, <1>5, <1>6

\* Publish cuts a client off or serves it; nothing in between.
LEMMA PublishEffect ==
    ASSUME TypeInv, NEW kind \in Events, NEW n \in Nat, Publish(kind, n)
    PROVE  /\ SubType' /\ RequestType'
           /\ conn' \in [Clients -> Conns]
           /\ \A d \in Clients : \/ CutOff(d) /\ conn'[d] = "closing"
                                 \/ Served(d, kind, n) /\ conn'[d] = conn[d]
           /\ pub' = [f \in Families |-> IF kind # "token" /\ Matches(kind, f) THEN pub[f] + 1 ELSE pub[f]]
           /\ pub' \in [Families -> Nat]
           /\ UNCHANGED <<issued, wire, answered, clientVars, written>>
  <1> DEFINE hit(d, f) == Live(d, f) /\ Matches(kind, f)
             slow == {d \in Clients : \E f \in FamiliesOf(d) :
                         hit(d, f) /\ Overflows(sub[d][f], Arriving(kind, n, f))}
             after == [d \in Clients |-> [f \in FamiliesOf(d) |->
                         IF hit(d, f) /\ d \notin slow THEN Queued(sub[d][f], Arriving(kind, n, f))
                                                       ELSE sub[d][f]]]
  <1>1. ~Droppable(Frame(kind, n)) <=> kind # "token"
    BY DEF Droppable, Frame
  <1>2. Cut(slow, after)
    BY <1>1 DEF Publish, Arriving
  <1>3. conn' = [d \in Clients |-> IF d \in slow THEN "closing" ELSE conn[d]]
    BY <1>1 DEF Publish, Arriving
  <1>4. pub' = [f \in Families |-> IF kind # "token" /\ Matches(kind, f) THEN pub[f] + 1 ELSE pub[f]]
    BY <1>1 DEF Publish
  <1>5. UNCHANGED <<issued, wire, answered, clientVars, written>>
    BY DEF Publish
  <1> HIDE DEF slow
  <1>6. ASSUME NEW d \in Clients, NEW f \in FamiliesOf(d)
        PROVE  after[d][f] \in {NoSub} \cup SubStates
    <2>1. CASE hit(d, f) /\ d \notin slow
      <3>1. sub[d][f] \in SubStates /\ Arriving(kind, n, f) \in Queueable
        BY <1>6, <2>1, SubIs, ArrivingType, FamiliesFacts DEF TypeInv
      <3> QED
        BY <2>1, <3>1, QueuedType
    <2>2. CASE ~(hit(d, f) /\ d \notin slow)
      <3>1. after[d][f] = sub[d][f]
        BY <2>2
      <3> QED
        BY <3>1, <1>6 DEF TypeInv, SubType
    <2> QED
      BY <2>1, <2>2
  <1>7. slow \in SUBSET Clients
    BY DEF slow
  <1>8. \A d \in Clients \ slow : after[d] \in [FamiliesOf(d) -> {NoSub} \cup SubStates]
    BY <1>6
  <1>9. ASSUME NEW d \in Clients \ slow, sub'[d] = after[d], request'[d] = request[d]
        PROVE  Served(d, kind, n)
    <2>1. ASSUME NEW f \in FamiliesOf(d), hit(d, f)
          PROVE  /\ sub[d][f] \in SubStates
                 /\ ~Overflows(sub[d][f], Arriving(kind, n, f))
                 /\ sub'[d][f] = Queued(sub[d][f], Arriving(kind, n, f))
      <3>1. ~Overflows(sub[d][f], Arriving(kind, n, f))
        BY <1>9, <2>1 DEF slow
      <3>2. sub[d][f] \in SubStates
        BY <2>1, SubIs DEF TypeInv
      <3> QED
        BY <1>9, <2>1, <3>1, <3>2
    <2>2. ASSUME NEW f \in FamiliesOf(d), ~hit(d, f)
          PROVE  sub'[d][f] = sub[d][f]
      BY <1>9, <2>2
    <2> QED
      BY <1>9, <2>1, <2>2 DEF Served
  <1> HIDE DEF after
  <1>10. /\ SubType' /\ RequestType'
         /\ \A d \in slow : CutOff(d)
         /\ \A d \in Clients \ slow : sub'[d] = after[d] /\ request'[d] = request[d]
    BY <1>2, <1>7, <1>8, CutEffect
  <1>11. conn' \in [Clients -> Conns]
    BY <1>3 DEF TypeInv, ClientType, Conns
  <1>12. pub' \in [Families -> Nat]
    BY <1>4 DEF TypeInv, BusType
  <1>13. ASSUME NEW d \in Clients
         PROVE  \/ CutOff(d) /\ conn'[d] = "closing"
                \/ Served(d, kind, n) /\ conn'[d] = conn[d]
    BY <1>3, <1>9, <1>10
  <1> QED
    BY <1>4, <1>5, <1>10, <1>11, <1>12, <1>13

\* CloseAll cuts every client off.
LEMMA CloseEffect ==
    ASSUME TypeInv, CloseAll
    PROVE  /\ SubType' /\ RequestType'
           /\ \A d \in Clients : CutOff(d) /\ conn'[d] # "open" /\ (conn'[d] \in Away => conn[d] \in Away)
           /\ conn' \in [Clients -> Conns]
           /\ UNCHANGED <<issued, wire, answered, clientVars, pub, written>>
  <1>1. Cut(Clients, sub) /\ Clients \in SUBSET Clients
    BY DEF CloseAll
  <1>2. /\ SubType' /\ RequestType'
        /\ \A d \in Clients : CutOff(d)
    BY <1>1, CutEffect
  <1> QED
    BY <1>2 DEF CloseAll, TypeInv, ClientType, Conns, Away

\* Drop cuts one client off.
LEMMA DropEffect ==
    ASSUME TypeInv, NEW c \in Clients, Drop(c)
    PROVE  /\ SubType' /\ RequestType'
           /\ CutOff(c) /\ conn'[c] \in Away /\ wire'[c] = <<>>
           /\ \A d \in Clients \ {c} : Kept(d) /\ conn'[d] = conn[d] /\ wire'[d] = wire[d]
           /\ conn' \in [Clients -> Conns]
           /\ wire' \in [Clients -> Seq(Frames)]
           /\ UNCHANGED <<issued, answered, clientVars, pub, written>>
  <1>1. Cut({c}, sub) /\ {c} \in SUBSET Clients
    BY DEF Drop
  <1>2. /\ SubType' /\ RequestType'
        /\ \A d \in {c} : CutOff(d)
        /\ \A d \in Clients \ {c} : sub'[d] = sub[d] /\ request'[d] = request[d]
    BY <1>1, CutEffect DEF TypeInv, SubType
  <1>3. /\ \E after \in Away : conn' = [conn EXCEPT ![c] = after]
        /\ wire' = [wire EXCEPT ![c] = <<>>]
    BY DEF Drop, Lost, Away
  <1>4. conn \in [Clients -> Conns] /\ wire \in [Clients -> Seq(Frames)] /\ <<>> \in Seq(Frames)
    BY DEF TypeInv, ClientType
  <1>5. /\ conn'[c] \in Away /\ wire'[c] = <<>>
        /\ \A d \in Clients \ {c} : conn'[d] = conn[d] /\ wire'[d] = wire[d]
        /\ conn' \in [Clients -> Conns]
        /\ wire' \in [Clients -> Seq(Frames)]
    BY <1>3, <1>4 DEF Conns, Away
  <1> QED
    BY <1>2, <1>5 DEF Drop, Kept

-----------------------------------------------------------------------------
(***************************************************************************)
(* The steps as one client sees them.                                      *)
(***************************************************************************)
\* A writer task has exactly one event in hand while it waits for the lock.
Holding ==
    \A c \in Clients : \A f \in FamiliesOf(c) : Live(c, f) =>
        IF sub[c][f].pc = "lock" THEN \E e \in Queueable : sub[c][f].hand = <<e>>
                                 ELSE sub[c][f].hand = <<>>

\* What the daemon's own steps and those of the other clients leave alone.
Quiet(d) ==
    /\ wire'[d] = wire[d] /\ cursor'[d] = cursor[d] /\ shown'[d] = shown[d]
    /\ again'[d] = again[d] /\ answered'[d] = answered[d]
    /\ subscribes'[d] = subscribes[d] /\ written'[d] = written[d]
Untouched(d) == Kept(d) /\ conn'[d] = conn[d] /\ Quiet(d)
Closed(d) ==
    /\ CutOff(d) /\ Quiet(d) /\ conn'[d] # "open"
    /\ conn'[d] \in Away => conn[d] \in Away
Reached(d, kind, n) == Served(d, kind, n) /\ conn'[d] = conn[d] /\ Quiet(d)

\* What is published, and by which step.
PublishedNow(kind, n) ==
    \/ JobStarts /\ kind = "job" /\ n = NextSeq
    \/ PublishEnd /\ kind = "job" /\ n = unpublished
    \/ PublishNote /\ kind = "incident" /\ n = 0
    \/ PublishRun /\ kind = "run" /\ n = runLog + 1
    \/ PublishToken /\ kind = "token" /\ n = 0

\* The steps that publish, with what they publish.
LEMMA PublishKinds ==
    ASSUME TypeInv, LogInv, JobStarts \/ PublishEnd \/ PublishNote \/ PublishRun \/ PublishToken
    PROVE  \E kind \in Events, n \in Nat : PublishedNow(kind, n) /\ Publish(kind, n)
  <1>1. NextSeq \in Nat /\ unpublished \in Nat /\ runLog + 1 \in Nat /\ 0 \in Nat
    BY PreparedIsClean DEF TypeInv, BusType
  <1>2. {"job", "incident", "run", "token"} \subseteq Events
    BY DEF Events
  <1>3. CASE JobStarts
    <2>1. PublishedNow("job", NextSeq) /\ Publish("job", NextSeq)
      BY <1>3 DEF PublishedNow, JobStarts
    <2> QED
      BY <2>1, <1>1, <1>2
  <1>4. CASE PublishEnd
    <2>1. PublishedNow("job", unpublished) /\ Publish("job", unpublished)
      BY <1>4 DEF PublishedNow, PublishEnd
    <2> QED
      BY <2>1, <1>1, <1>2
  <1>5. CASE PublishNote
    <2>1. PublishedNow("incident", 0) /\ Publish("incident", 0)
      BY <1>5 DEF PublishedNow, PublishNote
    <2> QED
      BY <2>1, <1>1, <1>2
  <1>6. CASE PublishRun
    <2>1. PublishedNow("run", runLog + 1) /\ Publish("run", runLog + 1)
      BY <1>6 DEF PublishedNow, PublishRun
    <2> QED
      BY <2>1, <1>1, <1>2
  <1>7. CASE PublishToken
    <2>1. PublishedNow("token", 0) /\ Publish("token", 0)
      BY <1>7 DEF PublishedNow, PublishToken
    <2> QED
      BY <2>1, <1>1, <1>2
  <1> QED
    BY <1>3, <1>4, <1>5, <1>6, <1>7

\* What a step of the daemon is for the clients.
LEMMA DaemonMenu ==
    ASSUME TypeInv, LogInv, DaemonStep
    PROVE  \/ /\ \E kind \in Events, n \in Nat : PublishedNow(kind, n) /\ Publish(kind, n)
              /\ UNCHANGED daemon
           \/ (Stop \/ Crash) /\ CloseAll
           \/ /\ JobEnds \/ Exit \/ Restart \/ Recover
              /\ UNCHANGED <<clientVars, sub, issued, request, conn, wire, answered, pub, written>>
  <1>1. CASE JobStarts \/ PublishEnd \/ PublishNote \/ PublishRun \/ PublishToken
    <2>1. UNCHANGED daemon
      BY <1>1 DEF JobStarts, PublishEnd, PublishNote, PublishRun, PublishToken
    <2> QED
      BY <1>1, <2>1, PublishKinds
  <1>2. CASE Stop \/ Crash
    BY <1>2 DEF Stop, Crash
  <1>3. CASE JobEnds \/ Exit \/ Restart \/ Recover
    BY <1>3 DEF JobEnds, Exit, Restart, Recover
  <1> QED
    BY <1>1, <1>2, <1>3 DEF DaemonStep

\* A step of one client leaves the others alone.
LEMMA OthersUntouched ==
    ASSUME TypeInv, LogInv, NEW c \in Clients, ClientStep(c), NEW d \in Clients, d # c
    PROVE  Untouched(d) /\ UNCHANGED pub
  <1>0. /\ DOMAIN sub = Clients /\ DOMAIN subscribes = Clients /\ DOMAIN written = Clients
        /\ DOMAIN request = Clients /\ DOMAIN conn = Clients /\ DOMAIN wire = Clients
        /\ DOMAIN cursor = Clients /\ DOMAIN shown = Clients
        /\ DOMAIN again = Clients /\ DOMAIN answered = Clients
    BY DEF TypeInv, SubType, CountType, RequestType, ClientType
  <1>1. ASSUME NEW f \in FamiliesOf(c), Writer(c, f) PROVE Untouched(d) /\ UNCHANGED pub
    BY <1>0, <1>1 DEF Writer, WriterGet, WriterWrite, WriterDrained, Untouched, Kept, Quiet, clientVars
  <1>2. ASSUME NEW f \in FamiliesOf(c), NEW r \in Requests, SendSubscribe(c, f, r)
        PROVE  Untouched(d) /\ UNCHANGED pub
    BY <1>0, <1>2 DEF SendSubscribe, Untouched, Kept, Quiet
  <1>3. ASSUME NEW r \in Requests, Subscribe(c, r) PROVE Untouched(d) /\ UNCHANGED pub
    BY <1>0, <1>3 DEF Subscribe, Answer, Untouched, Kept, Quiet, clientVars
  <1>4. ASSUME NEW r \in Requests, ReplayStep(c, r) PROVE Untouched(d) /\ UNCHANGED pub
    BY <1>0, <1>4 DEF ReplayStep, Answer, Activated, Untouched, Kept, Quiet, clientVars
  <1>5. CASE Connect(c)
    BY <1>0, <1>5 DEF Connect, Untouched, Kept, Quiet
  <1>6. CASE Receive(c)
    BY <1>0, <1>6 DEF Receive, Untouched, Kept, Quiet
  <1>7. CASE SeeClosed(c)
    BY <1>0, <1>7 DEF SeeClosed, Untouched, Kept, Quiet, clientVars
  <1>8. CASE Drop(c)
    <2>1. d \in Clients \ {c}
      OBVIOUS
    <2> QED
      BY <1>8, <2>1, DropEffect DEF Untouched, Quiet, clientVars
  <1>9. CASE Respond(c)
    BY <1>0, <1>9 DEF Respond, Answer, Untouched, Kept, Quiet, clientVars
  <1> QED
    BY <1>1, <1>2, <1>3, <1>4, <1>5, <1>6, <1>7, <1>8, <1>9 DEF ClientStep, Handler

\* What a step is for one client.
LEMMA Menu ==
    ASSUME TypeInv, LogInv, [Next]_vars, NEW d \in Clients
    PROVE  \/ Untouched(d) /\ UNCHANGED pub
           \/ Closed(d)
           \/ \E kind \in Events, n \in Nat :
                 PublishedNow(kind, n) /\ Publish(kind, n) /\ Reached(d, kind, n)
           \/ ClientStep(d)
  <1>1. ASSUME NEW kind \in Events, NEW n \in Nat, PublishedNow(kind, n), Publish(kind, n)
        PROVE  Closed(d) \/ Reached(d, kind, n)
    <2>1. Quiet(d)
      BY <1>1, PublishEffect DEF Quiet, clientVars
    <2>2. \/ CutOff(d) /\ conn'[d] = "closing"
          \/ Served(d, kind, n) /\ conn'[d] = conn[d]
      BY <1>1, PublishEffect
    <2> QED
      BY <2>1, <2>2 DEF Closed, Reached, Away
  <1>2. ASSUME CloseAll PROVE Closed(d)
    BY <1>2, CloseEffect DEF Closed, Quiet, clientVars
  <1>3. ASSUME UNCHANGED <<clientVars, sub, issued, request, conn, wire, answered, pub, written>>
        PROVE  Untouched(d) /\ UNCHANGED pub
    BY <1>3 DEF Untouched, Kept, Quiet, clientVars
  <1>4. CASE DaemonStep
    BY <1>1, <1>2, <1>3, <1>4, DaemonMenu
  <1>5. ASSUME NEW c \in Clients, ClientStep(c) PROVE ClientStep(d) \/ (Untouched(d) /\ UNCHANGED pub)
    BY <1>5, OthersUntouched
  <1>6. CASE UNCHANGED vars
    BY <1>3, <1>6 DEF vars, clientVars
  <1> QED
    BY <1>4, <1>5, <1>6 DEF Next

-----------------------------------------------------------------------------
(***************************************************************************)
(* The base of all invariants.                                             *)
(***************************************************************************)
Base == LogInv /\ TypeInv /\ Holding

\* The hand of a writer holds an event from get to the write and nothing else.
LEMMA HoldingStep ==
    ASSUME TypeInv, LogInv, Holding, [Next]_vars
    PROVE  Holding'
  <1> SUFFICES ASSUME NEW d \in Clients, NEW g \in FamiliesOf(d), sub'[d][g] # NoSub
               PROVE  IF sub'[d][g].pc = "lock" THEN \E e \in Queueable : sub'[d][g].hand = <<e>>
                                                ELSE sub'[d][g].hand = <<>>
    BY DEF Holding, Live
  <1> DEFINE Fine(s) == IF s.pc = "lock" THEN \E e \in Queueable : s.hand = <<e>> ELSE s.hand = <<>>
  <1>1. ASSUME sub[d][g] # NoSub PROVE Fine(sub[d][g]) /\ sub[d][g] \in SubStates
    BY <1>1, SubIs DEF Holding, Live, TypeInv
  <1>2. CASE Untouched(d)
    BY <1>1, <1>2 DEF Untouched, Kept
  <1>3. CASE Closed(d)
    BY <1>3 DEF Closed, CutOff
  <1>4. ASSUME NEW kind \in Events, NEW n \in Nat, Reached(d, kind, n) PROVE Fine(sub'[d][g])
    <2>1. CASE Live(d, g) /\ Matches(kind, g)
      <3>1. /\ sub[d][g] \in SubStates /\ sub'[d][g] = Queued(sub[d][g], Arriving(kind, n, g))
            /\ Arriving(kind, n, g) \in Queueable /\ sub[d][g] # NoSub
        BY <1>4, <2>1, ArrivingType, FamiliesFacts DEF Reached, Served, TypeInv, Live
      <3>2. sub'[d][g].pc = sub[d][g].pc /\ sub'[d][g].hand = sub[d][g].hand
        BY <3>1, QueuedType
      <3> QED
        BY <3>1, <3>2, <1>1
    <2>2. CASE ~(Live(d, g) /\ Matches(kind, g))
      <3>1. sub'[d][g] = sub[d][g]
        BY <1>4, <2>2 DEF Reached, Served
      <3> QED
        BY <3>1, <1>1
    <2> QED
      BY <2>1, <2>2
  <1>5. ASSUME NEW f \in FamiliesOf(d), WriterGet(d, f) PROVE Fine(sub'[d][g])
    <2>1. /\ sub[d][f] \in SubStates /\ sub[d][f].queue # <<>>
          /\ OnlySub(d, f, Taken(sub[d][f]))
      BY <1>5, GetEffect
    <2>2. Head(sub[d][f].queue) \in Queueable
      BY <2>1, SubsDiffer, TailFacts
    <2>3. CASE f = g
      BY <2>1, <2>2, <2>3 DEF OnlySub, Taken
    <2>4. CASE f # g
      BY <2>1, <2>4, <1>1 DEF OnlySub
    <2> QED
      BY <2>3, <2>4
  <1>6. ASSUME NEW f \in FamiliesOf(d), WriterWrite(d, f) PROVE Fine(sub'[d][g])
    <2>1. sub[d][f] \in SubStates /\ OnlySub(d, f, Wrote(sub[d][f]))
      BY <1>6, WriteEffect
    <2>2. CASE f = g
      <3>1. sub'[d][g] = Wrote(sub[d][g]) /\ sub[d][g] \in SubStates
        BY <2>1, <2>2 DEF OnlySub
      <3>3. Wrote(sub[d][g]).pc = "drain" /\ Wrote(sub[d][g]).hand = <<>>
        BY <3>1, SubChanges
      <3>2. sub'[d][g].pc = "drain" /\ sub'[d][g].hand = <<>>
        BY <3>1, <3>3
      <3> QED
        BY <3>2
    <2>3. CASE f # g
      BY <2>1, <2>3, <1>1 DEF OnlySub
    <2> QED
      BY <2>2, <2>3
  <1>7. ASSUME NEW f \in FamiliesOf(d), WriterDrained(d, f) PROVE Fine(sub'[d][g])
    <2>1. sub[d][f] \in SubStates /\ sub[d][f].pc = "drain" /\ OnlySub(d, f, Resumed(sub[d][f]))
      BY <1>7, DrainedEffect
    <2>2. CASE f = g
      <3>1. sub[d][g].hand = <<>>
        BY <2>1, <2>2, <1>1, SubsDiffer
      <3>2. sub'[d][g] = Resumed(sub[d][g]) /\ sub[d][g] \in SubStates
        BY <2>1, <2>2 DEF OnlySub
      <3>4. Resumed(sub[d][g]).pc = "get" /\ Resumed(sub[d][g]).hand = sub[d][g].hand
        BY <3>2, SubChanges
      <3>3. sub'[d][g].pc = "get" /\ sub'[d][g].hand = <<>>
        BY <3>1, <3>2, <3>4
      <3> QED
        BY <3>3
    <2>3. CASE f # g
      BY <2>1, <2>3, <1>1 DEF OnlySub
    <2> QED
      BY <2>2, <2>3
  <1>8. ASSUME NEW r \in Requests, Subscribe(d, r) PROVE Fine(sub'[d][g])
    <2> DEFINE f == request[d][r].family
    <2>1. OnlySub(d, f, Registered(f, issued + 1))
      BY <1>8, SubscribeEffect
    <2>2. CASE f = g
      BY <2>1, <2>2 DEF OnlySub, Registered, NoEvents
    <2>3. CASE f # g
      BY <2>1, <2>3, <1>1 DEF OnlySub
    <2> QED
      BY <2>2, <2>3
  <1>9. ASSUME NEW r \in Requests, ReplayStep(d, r) PROVE Fine(sub'[d][g])
    <2> DEFINE q == request[d][r]
    <2>1. CASE q.todo = <<>>
      <3>1. IF sub[d][q.family] \in SubStates /\ sub[d][q.family].id = q.id
            THEN OnlySub(d, q.family, Lifted(sub[d][q.family]))
            ELSE UNCHANGED sub
        BY <1>9, <2>1, ReplayEnds
      <3>2. CASE sub[d][q.family] \in SubStates /\ sub[d][q.family].id = q.id /\ q.family = g
        <4>1. sub'[d][g] = Lifted(sub[d][g]) /\ sub[d][g] \in SubStates /\ sub[d][g] # NoSub
          BY <3>1, <3>2, SubsDiffer DEF OnlySub
        <4>4. Lifted(sub[d][g]).pc = sub[d][g].pc /\ Lifted(sub[d][g]).hand = sub[d][g].hand
          BY <4>1, SubChanges
        <4>2. sub'[d][g].pc = sub[d][g].pc /\ sub'[d][g].hand = sub[d][g].hand
          BY <4>1, <4>4
        <4>3. Fine(sub[d][g])
          BY <4>1, <1>1
        <4> QED
          BY <4>2, <4>3
      <3>3. CASE ~(sub[d][q.family] \in SubStates /\ sub[d][q.family].id = q.id /\ q.family = g)
        <4>1. sub'[d][g] = sub[d][g]
          BY <3>1, <3>3 DEF OnlySub
        <4> QED
          BY <4>1, <1>1
      <3> QED
        BY <3>2, <3>3
    <2>2. CASE q.todo # <<>>
      BY <1>1, <1>9, <2>2, ReplayGoesOn
    <2> QED
      BY <2>1, <2>2
  <1>10. ASSUME NEW f \in FamiliesOf(d), NEW r \in Requests, SendSubscribe(d, f, r) PROVE Fine(sub'[d][g])
    BY <1>1, <1>10 DEF SendSubscribe
  <1>11. CASE Respond(d) \/ Connect(d) \/ Receive(d) \/ SeeClosed(d)
    BY <1>1, <1>11 DEF Respond, Connect, Receive, SeeClosed
  <1>12. CASE Drop(d)
    BY <1>12, DropEffect DEF CutOff
  <1>13. CASE ClientStep(d)
    BY <1>5, <1>6, <1>7, <1>8, <1>9, <1>10, <1>11, <1>12, <1>13 DEF ClientStep, Writer, Handler
  <1> QED
    BY <1>2, <1>3, <1>4, <1>13, Menu

\* The types are kept.
LEMMA TypeStep ==
    ASSUME TypeInv, LogInv, Holding, [Next]_vars
    PROVE  TypeInv'
  <1>1. ASSUME NEW kind \in Events, NEW n \in Nat, PublishedNow(kind, n), Publish(kind, n) PROVE TypeInv'
    <2>1. /\ SubType' /\ RequestType' /\ conn' \in [Clients -> Conns] /\ pub' \in [Families -> Nat]
          /\ UNCHANGED <<issued, wire, answered, clientVars, written>>
      BY <1>1, PublishEffect
    <2>2. runLog' \in Nat /\ unpublished' \in Nat
      BY <1>1 DEF PublishedNow, JobStarts, PublishEnd, PublishNote, PublishRun, PublishToken,
                  TypeInv, BusType, runVars, jobVars
    <2> QED
      BY <2>1, <2>2 DEF TypeInv, CountType, ClientType, BusType, clientVars
  <1>2. ASSUME Stop \/ Crash, CloseAll PROVE TypeInv'
    <2>1. /\ SubType' /\ RequestType' /\ conn' \in [Clients -> Conns]
          /\ UNCHANGED <<issued, wire, answered, clientVars, pub, written>>
      BY <1>2, CloseEffect
    <2>2. runLog' \in Nat /\ unpublished' \in Nat
      BY <1>2 DEF Stop, Crash, TypeInv, BusType, jobVars
    <2> QED
      BY <2>1, <2>2 DEF TypeInv, CountType, ClientType, BusType, clientVars
  <1>3. ASSUME UNCHANGED <<clientVars, sub, issued, request, conn, wire, answered, pub, written>>,
               runLog' \in Nat, unpublished' \in Nat
        PROVE  TypeInv'
    BY <1>3 DEF TypeInv, SubType, RequestType, CountType, ClientType, BusType, clientVars
  <1>4. ASSUME JobEnds \/ Exit \/ Restart \/ Recover PROVE runLog' \in Nat /\ unpublished' \in Nat
    <2>1. NextSeq \in Nat
      BY PreparedIsClean
    <2> QED
      BY <1>4, <2>1 DEF JobEnds, Exit, Restart, Recover, TypeInv, BusType, jobVars, runVars
  <1>5. CASE DaemonStep
    BY <1>1, <1>2, <1>3, <1>4, <1>5, DaemonMenu
  <1>6. ASSUME NEW c \in Clients, NEW f \in FamiliesOf(c), WriterGet(c, f) PROVE TypeInv'
    BY <1>6, GetEffect
    DEF WriterGet, OnlySub, TypeInv, RequestType, CountType, ClientType, BusType, clientVars, jobVars, runVars
  <1>7. ASSUME NEW c \in Clients, NEW f \in FamiliesOf(c), WriterWrite(c, f) PROVE TypeInv'
    <2>1. SubType' /\ sub[c][f] \in SubStates /\ sub[c][f].pc = "lock" /\ Live(c, f)
      BY <1>7, WriteEffect DEF OnlySub, WriterWrite
    <2>2. PICK e \in Queueable : sub[c][f].hand = <<e>>
      BY <2>1 DEF Holding
    <2>3. Head(sub[c][f].hand) = e
      BY <2>2
    <2>4. Frame(e.kind, e.n) \in Frames /\ e.stamp \in Nat
      BY DEF Frame, Frames, Queueable, Kinds
    <2>5. /\ wire' = [wire EXCEPT ![c] = Append(@, Frame(e.kind, e.n))]
          /\ written' = IF Droppable(e) THEN written ELSE [written EXCEPT ![c][f] = e.stamp]
      BY <1>7, <2>3 DEF WriterWrite
    <2>6. wire' \in [Clients -> Seq(Frames)]
      <3>1. wire \in [Clients -> Seq(Frames)]
        BY DEF TypeInv, ClientType
      <3>2. Append(wire[c], Frame(e.kind, e.n)) \in Seq(Frames)
        BY <2>4, <3>1
      <3> QED
        BY <2>5, <3>1, <3>2
    <2>7. CountType'
      <3>1. UNCHANGED subscribes
        BY <1>7 DEF WriterWrite, clientVars
      <3> QED
        BY <2>4, <2>5, <3>1 DEF TypeInv, CountType
    <2>8. RequestType' /\ BusType' /\ UNCHANGED <<conn, cursor, shown, again, answered>>
      BY <1>7 DEF WriterWrite, TypeInv, RequestType, BusType, clientVars, jobVars, runVars
    <2> QED
      BY <2>1, <2>6, <2>7, <2>8 DEF TypeInv, ClientType
  <1>8. ASSUME NEW c \in Clients, NEW f \in FamiliesOf(c), WriterDrained(c, f) PROVE TypeInv'
    BY <1>8, DrainedEffect
    DEF WriterDrained, OnlySub, TypeInv, RequestType, CountType, ClientType, BusType, clientVars, jobVars, runVars
  <1>9. ASSUME NEW c \in Clients, NEW f \in FamiliesOf(c), NEW r \in Requests, SendSubscribe(c, f, r) PROVE TypeInv'
    <2>1. RequestType'
      BY <1>9, SendEffect DEF OnlyRequest
    <2>2. CountType'
      BY <1>9 DEF SendSubscribe, TypeInv, CountType
    <2> QED
      BY <1>9, <2>1, <2>2 DEF SendSubscribe, TypeInv, SubType, ClientType, BusType, jobVars, runVars
  <1>10. ASSUME NEW c \in Clients, NEW r \in Requests, Subscribe(c, r) PROVE TypeInv'
    <2>1. SubType' /\ request[c][r].family \in FamiliesOf(c)
      BY <1>10, SubscribeEffect DEF OnlySub
    <2>2. RequestType'
      BY <1>10, SubscribeEffect DEF OnlyRequest
    <2>3. CountType'
      <3>1. UNCHANGED subscribes /\ written' = [written EXCEPT ![c][request[c][r].family] = pub[request[c][r].family]]
        BY <1>10 DEF Subscribe, clientVars
      <3>2. pub[request[c][r].family] \in Nat
        BY <2>1, FamiliesFacts DEF TypeInv, BusType
      <3> QED
        BY <2>1, <3>1, <3>2 DEF TypeInv, CountType
    <2>4. wire' \in [Clients -> Seq(Frames)] /\ answered' \in [Clients -> Nat]
      <3>1. CASE request[c][r].family = "global"
        BY <1>10, <3>1, SubscribeEffect, AnswerEffect
      <3>2. CASE request[c][r].family # "global"
        BY <1>10, <3>2, SubscribeEffect DEF TypeInv, ClientType
      <3> QED
        BY <3>1, <3>2
    <2> QED
      BY <1>10, <2>1, <2>2, <2>3, <2>4
      DEF Subscribe, TypeInv, ClientType, BusType, clientVars, jobVars, runVars
  <1>11. ASSUME NEW c \in Clients, NEW r \in Requests, ReplayStep(c, r) PROVE TypeInv'
    <2> DEFINE q == request[c][r]
    <2>1. CountType' /\ BusType' /\ UNCHANGED <<conn, cursor, shown, again>>
      BY <1>11 DEF ReplayStep, TypeInv, CountType, BusType, clientVars, jobVars, runVars
    <2>2. CASE q.todo = <<>>
      <3>1. RequestType' /\ Answer(c) /\ (SubType' \/ UNCHANGED sub)
        BY <1>11, <2>2, ReplayEnds DEF OnlySub, OnlyRequest
      <3>2. wire' \in [Clients -> Seq(Frames)] /\ answered' \in [Clients -> Nat]
        BY <3>1, AnswerEffect
      <3> QED
        BY <2>1, <3>1, <3>2 DEF TypeInv, SubType, ClientType
    <2>3. CASE q.todo # <<>>
      <3>1. /\ RequestType' /\ UNCHANGED <<sub, answered>> /\ Head(q.todo) \in Frames
            /\ wire' = [wire EXCEPT ![c] = Append(@, Head(q.todo))]
        BY <1>11, <2>3, ReplayGoesOn DEF OnlyRequest
      <3>2. wire \in [Clients -> Seq(Frames)]
        BY DEF TypeInv, ClientType
      <3>3. Append(wire[c], Head(q.todo)) \in Seq(Frames)
        BY <3>1, <3>2
      <3>4. wire' \in [Clients -> Seq(Frames)]
        BY <3>1, <3>2, <3>3
      <3> QED
        BY <2>1, <3>1, <3>4 DEF TypeInv, SubType, ClientType
    <2> QED
      BY <2>2, <2>3
  <1>12. ASSUME NEW c \in Clients, Connect(c) PROVE TypeInv'
    <2>1. CountType'
      BY <1>12 DEF Connect, TypeInv, CountType
    <2>2. ClientType'
      BY <1>12 DEF Connect, TypeInv, ClientType, Conns
    <2> QED
      BY <1>12, <2>1, <2>2 DEF Connect, TypeInv, SubType, RequestType, BusType, jobVars, runVars
  <1>13. ASSUME NEW c \in Clients, Receive(c) PROVE TypeInv'
    <2> DEFINE e == Head(wire[c])
    <2>1. wire \in [Clients -> Seq(Frames)] /\ wire[c] \in Seq(Frames) /\ wire[c] # <<>>
      BY <1>13 DEF Receive, TypeInv, ClientType
    <2>2. e \in Frames /\ Tail(wire[c]) \in Seq(Frames)
      BY <2>1, TailFacts
    <2>3. e.n \in Nat
      BY <2>2 DEF Frames
    <2>4. wire' \in [Clients -> Seq(Frames)]
      BY <1>13, <2>1, <2>2 DEF Receive
    <2> HIDE DEF e
    <2>5. /\ cursor' \in [Clients -> Nat] /\ shown' \in [Clients -> SUBSET Nat]
          /\ again' \in [Clients -> SUBSET Nat]
      BY <1>13, <2>3 DEF Receive, TypeInv, ClientType, e
    <2> QED
      BY <1>13, <2>4, <2>5
      DEF Receive, TypeInv, SubType, RequestType, CountType, ClientType, BusType, jobVars, runVars
  <1>14. ASSUME NEW c \in Clients, SeeClosed(c) PROVE TypeInv'
    <2>1. ClientType'
      <3>1. <<>> \in Seq(Frames)
        OBVIOUS
      <3> QED
        BY <1>14, <3>1 DEF SeeClosed, Lost, TypeInv, ClientType, Conns, clientVars
    <2> QED
      BY <1>14, <2>1 DEF SeeClosed, TypeInv, SubType, RequestType, CountType, BusType, jobVars, runVars, clientVars
  <1>15. ASSUME NEW c \in Clients, Drop(c) PROVE TypeInv'
    <2>1. UNCHANGED <<runLog, unpublished>>
      BY <1>15 DEF Drop, jobVars, runVars
    <2> QED
      BY <1>15, <2>1, DropEffect DEF TypeInv, CountType, ClientType, BusType, clientVars
  <1>18. ASSUME NEW c \in Clients, Respond(c) PROVE TypeInv'
    <2>1. wire' \in [Clients -> Seq(Frames)] /\ answered' \in [Clients -> Nat]
      BY <1>18, AnswerEffect DEF Respond
    <2> QED
      BY <1>18, <2>1
      DEF Respond, TypeInv, SubType, RequestType, CountType, ClientType, BusType, jobVars, runVars,
          clientVars
  <1>16. ASSUME NEW c \in Clients, ClientStep(c) PROVE TypeInv'
    BY <1>6, <1>7, <1>8, <1>9, <1>10, <1>11, <1>12, <1>13, <1>14, <1>15, <1>16, <1>18
    DEF ClientStep, Writer, Handler
  <1>17. CASE UNCHANGED vars
    <2>1. runLog' \in Nat /\ unpublished' \in Nat
      BY <1>17 DEF vars, TypeInv, BusType
    <2> QED
      BY <1>3, <1>17, <2>1 DEF vars, clientVars
  <1> QED
    BY <1>5, <1>16, <1>17 DEF Next

\* What every later invariant is proved from: the log, the types and the hands.
LEMMA BaseStep == Base /\ [Next]_vars => Base'
  BY LogStep, HoldingStep, TypeStep DEF Base

\* It holds to begin with.
LEMMA BaseInit == Init => Base
  <1> SUFFICES ASSUME Init PROVE Base
    OBVIOUS
  <1>1. LogInv
    BY DEF Init, LogInit, LogInv, LogType, Numbered, Tails, NoCache
  <1>2. SubType /\ RequestType
    BY DEF Init, SubType, RequestType
  <1>3. CountType
    BY DEF Init, CountType
  <1>4. ClientType
    <2>1. <<>> \in Seq(Frames)
      OBVIOUS
    <2> QED
      BY <2>1 DEF Init, ClientType, Conns
  <1>5. BusType /\ Holding
    BY DEF Init, BusType, Holding, Live
  <1> QED
    BY <1>1, <1>2, <1>3, <1>4, <1>5 DEF Base, TypeInv

-----------------------------------------------------------------------------
(***************************************************************************)
(* Every action of a client, field by field.                               *)
(***************************************************************************)
\* Field by field: what became of a subscription.
Becomes(c, f, pc, id, ready, queue, hand) ==
    /\ sub[c][f] \in SubStates /\ sub'[c][f] \in SubStates
    /\ sub'[c][f].pc = pc /\ sub'[c][f].id = id /\ sub'[c][f].ready = ready
    /\ sub'[c][f].queue = queue /\ sub'[c][f].hand = hand
OtherSubs(c, f) == \A g \in FamiliesOf(c) : g # f => sub'[c][g] = sub[c][g]
OtherRequests(c, r) == \A p \in Requests : p # r => request'[c][p] = request[c][p]
SameClient(c) == /\ cursor'[c] = cursor[c] /\ shown'[c] = shown[c] /\ again'[c] = again[c]
                 /\ subscribes'[c] = subscribes[c]
SameWire(c) == wire'[c] = wire[c] /\ answered'[c] = answered[c]
AnsweredOn(c) == wire'[c] = Append(wire[c], Response) /\ answered'[c] = answered[c] + 1
SameStreams == UNCHANGED <<log, cache, acked, job, unpublished, runLog, runAlive, daemon>>

\* Each action of a client in full: what it finds, what it changes, what it leaves.
LEMMA GetFacts ==
    ASSUME Base, NEW c \in Clients, NEW f \in FamiliesOf(c), WriterGet(c, f)
    PROVE  LET s == sub[c][f] IN
           /\ Becomes(c, f, "lock", s.id, s.ready, Tail(s.queue), <<Head(s.queue)>>)
           /\ OtherSubs(c, f) /\ request' = request /\ conn' = conn /\ SameWire(c)
           /\ pub' = pub /\ written' = written /\ issued' = issued /\ SameClient(c) /\ SameStreams
           /\ s.pc = "get" /\ s.ready = TRUE /\ s.queue \in Seq(Queueable) /\ s.queue # <<>>
           /\ s.hand = <<>>
  <1> DEFINE s == sub[c][f]
  <1>1. /\ s \in SubStates /\ s.pc = "get" /\ s.ready = TRUE
        /\ s.queue # <<>> /\ OnlySub(c, f, Taken(s))
    BY GetEffect DEF Base
  <1>2. /\ request' = request /\ conn' = conn /\ SameWire(c)
        /\ pub' = pub /\ written' = written /\ issued' = issued /\ SameClient(c) /\ SameStreams
    BY DEF WriterGet, jobVars, runVars, clientVars, SameClient, SameStreams, SameWire
  <1>3. s.queue \in Seq(Queueable) /\ s.hand = <<>>
    BY <1>1, SubsDiffer DEF Base, Holding, Live
  <1>4. Taken(s) \in SubStates
    BY <1>1, SubChanges
  <1>5. sub'[c][f] = Taken(s) /\ OtherSubs(c, f)
    BY <1>1 DEF OnlySub, OtherSubs
  <1>6. /\ Taken(s).pc = "lock" /\ Taken(s).id = s.id /\ Taken(s).ready = s.ready
        /\ Taken(s).queue = Tail(s.queue) /\ Taken(s).hand = <<Head(s.queue)>>
    BY <1>1 DEF Taken
  <1> QED
    BY <1>1, <1>2, <1>3, <1>4, <1>5, <1>6 DEF Becomes

\* The write of a frame: the wire gets it, and the history its number.
LEMMA WriteFacts ==
    ASSUME Base, NEW c \in Clients, NEW f \in FamiliesOf(c), WriterWrite(c, f)
    PROVE  LET s == sub[c][f] IN
           /\ Becomes(c, f, "drain", s.id, s.ready, s.queue, <<>>)
           /\ OtherSubs(c, f) /\ request' = request /\ conn' = conn
           /\ pub' = pub /\ issued' = issued /\ SameClient(c) /\ SameStreams
           /\ answered' = answered
           /\ s.pc = "lock" /\ LockFree(c)
           /\ \E e \in Queueable :
                 /\ s.hand = <<e>>
                 /\ wire' = [wire EXCEPT ![c] = Append(@, Frame(e.kind, e.n))]
                 /\ wire'[c] = Append(wire[c], Frame(e.kind, e.n))
                 /\ written'[c][f] = IF Droppable(e) THEN written[c][f] ELSE e.stamp
                 /\ \A g \in FamiliesOf(c) : g # f => written'[c][g] = written[c][g]
  <1> DEFINE s == sub[c][f]
  <1>1. /\ s \in SubStates /\ s.pc = "lock" /\ LockFree(c) /\ OnlySub(c, f, Wrote(s)) /\ Live(c, f)
    BY WriteEffect, SubIs DEF Base, TypeInv
  <1>2. /\ request' = request /\ conn' = conn
        /\ pub' = pub /\ issued' = issued /\ SameClient(c) /\ SameStreams
        /\ answered' = answered
    BY DEF WriterWrite, jobVars, runVars, clientVars, SameClient, SameStreams
  <1>3. PICK e \in Queueable : s.hand = <<e>>
    BY <1>1 DEF Base, Holding
  <1>4. Head(s.hand) = e
    BY <1>3
  <1>5. /\ wire' = [wire EXCEPT ![c] = Append(@, Frame(e.kind, e.n))]
        /\ written' = IF Droppable(e) THEN written ELSE [written EXCEPT ![c][f] = e.stamp]
    BY <1>4 DEF WriterWrite
  <1>6. /\ wire'[c] = Append(wire[c], Frame(e.kind, e.n))
        /\ written'[c][f] = IF Droppable(e) THEN written[c][f] ELSE e.stamp
        /\ \A g \in FamiliesOf(c) : g # f => written'[c][g] = written[c][g]
    BY <1>5 DEF Base, TypeInv, ClientType, CountType
  <1>7. sub'[c][f] = Wrote(s) /\ OtherSubs(c, f)
    BY <1>1 DEF OnlySub, OtherSubs
  <1>8. /\ Wrote(s) \in SubStates /\ Wrote(s).pc = "drain" /\ Wrote(s).id = s.id /\ Wrote(s).ready = s.ready
        /\ Wrote(s).queue = s.queue /\ Wrote(s).hand = <<>>
    BY <1>1, SubChanges
  <1>9. Becomes(c, f, "drain", s.id, s.ready, s.queue, <<>>)
    BY <1>1, <1>7, <1>8 DEF Becomes
  <1> QED
    BY <1>1, <1>2, <1>3, <1>5, <1>6, <1>7, <1>9

\* The end of a drain.
LEMMA DrainedFacts ==
    ASSUME Base, NEW c \in Clients, NEW f \in FamiliesOf(c), WriterDrained(c, f)
    PROVE  LET s == sub[c][f] IN
           /\ Becomes(c, f, "get", s.id, s.ready, s.queue, <<>>)
           /\ OtherSubs(c, f) /\ request' = request /\ conn' = conn /\ SameWire(c)
           /\ pub' = pub /\ written' = written /\ issued' = issued /\ SameClient(c) /\ SameStreams
           /\ s.pc = "drain" /\ s.hand = <<>> /\ Len(wire[c]) <= HighWater
  <1> DEFINE s == sub[c][f]
  <1>1. s \in SubStates /\ s.pc = "drain" /\ OnlySub(c, f, Resumed(s)) /\ Live(c, f)
    BY DrainedEffect, SubIs DEF Base, TypeInv
  <1>2. /\ request' = request /\ conn' = conn /\ SameWire(c)
        /\ pub' = pub /\ written' = written /\ issued' = issued /\ SameClient(c) /\ SameStreams
        /\ Len(wire[c]) <= HighWater
    BY DEF WriterDrained, Drained, jobVars, runVars, clientVars, SameClient, SameStreams, SameWire
  <1>3. s.hand = <<>>
    BY <1>1 DEF Base, Holding
  <1>4. sub'[c][f] = Resumed(s) /\ OtherSubs(c, f)
    BY <1>1 DEF OnlySub, OtherSubs
  <1>5. /\ Resumed(s) \in SubStates /\ Resumed(s).pc = "get" /\ Resumed(s).id = s.id
        /\ Resumed(s).ready = s.ready /\ Resumed(s).queue = s.queue /\ Resumed(s).hand = s.hand
    BY <1>1, SubChanges
  <1> QED
    BY <1>1, <1>2, <1>3, <1>4, <1>5 DEF Becomes

\* The command of a client.
LEMMA SendFacts ==
    ASSUME Base, NEW c \in Clients, NEW f \in FamiliesOf(c), NEW r \in Requests, SendSubscribe(c, f, r)
    PROVE  /\ request[c][r] = Idle /\ request'[c][r] = Asked(c, f) /\ Asked(c, f) \in SentStates
           /\ OtherRequests(c, r) /\ sub' = sub /\ conn' = conn /\ SameWire(c)
           /\ pub' = pub /\ written' = written /\ issued' = issued /\ SameStreams
           /\ cursor' = cursor /\ shown' = shown /\ again' = again /\ conn[c] = "open"
           /\ subscribes'[c][f] = subscribes[c][f] + 1
           /\ \A g \in FamiliesOf(c) : g # f => subscribes'[c][g] = subscribes[c][g]
           /\ f # "job" => subscribes[c][f] < 1
  <1>1. /\ request[c][r] = Idle /\ request'[c][r] = Asked(c, f) /\ Asked(c, f) \in SentStates
        /\ OtherRequests(c, r)
    BY SendEffect DEF Base, OnlyRequest, OtherRequests
  <1> QED
    BY <1>1 DEF SendSubscribe, SameWire, SameStreams, jobVars, runVars, Base, TypeInv, CountType

\* The stretch of the handler that registers the subscription.
LEMMA SubscribeFacts ==
    ASSUME Base, NEW c \in Clients, NEW r \in Requests, Subscribe(c, r)
    PROVE  LET q == request[c][r]
               f == q.family IN
           /\ q \in SentStates /\ q.pc = "sent" /\ f \in FamiliesOf(c) /\ q.after \in Nat
           /\ sub'[c][f] \in SubStates
           /\ sub'[c][f].pc = "get" /\ sub'[c][f].id = issued + 1 /\ sub'[c][f].ready = (f = "global")
           /\ sub'[c][f].queue = <<>> /\ sub'[c][f].hand = <<>>
           /\ OtherSubs(c, f) /\ OtherRequests(c, r) /\ conn' = conn
           /\ IF f = "global" THEN AnsweredOn(c) ELSE SameWire(c)
           /\ pub' = pub /\ issued' = issued + 1 /\ SameClient(c) /\ SameStreams
           /\ written'[c][f] = pub[f]
           /\ \A g \in FamiliesOf(c) : g # f => written'[c][g] = written[c][g]
           /\ f = "global" => request'[c][r] = Idle
           /\ f # "global" => /\ request'[c][r] \in ReplayStates
                              /\ request'[c][r].pc = "lock" /\ request'[c][r].family = f
                              /\ request'[c][r].id = issued + 1
                              /\ request'[c][r].todo = Replay(f, q.after)
  <1> DEFINE q == request[c][r]
             f == q.family
             s == Registered(f, issued + 1)
  <1>1. /\ q \in SentStates /\ q.pc = "sent" /\ f \in FamiliesOf(c)
        /\ s \in SubStates /\ OnlySub(c, f, s)
        /\ f = "global" => OnlyRequest(c, r, Idle)
        /\ f # "global" => Replaying(f, q.after) \in ReplayStates /\ OnlyRequest(c, r, Replaying(f, q.after))
    BY SubscribeEffect DEF Base
  <1>2. q.after \in Nat
    BY <1>1, SubsDiffer
  <1>3. s.pc = "get" /\ s.id = issued + 1 /\ s.ready = (f = "global") /\ s.queue = <<>> /\ s.hand = <<>>
    BY DEF Registered, NoEvents
  <1>4. sub'[c][f] = s /\ OtherSubs(c, f)
    BY <1>1 DEF OnlySub, OtherSubs
  <1>5. OtherRequests(c, r)
    BY <1>1 DEF OnlyRequest, OtherRequests
  <1>6. /\ f = "global" => request'[c][r] = Idle
        /\ f # "global" => request'[c][r] = Replaying(f, q.after)
    BY <1>1 DEF OnlyRequest
  <1>7. /\ conn' = conn /\ pub' = pub /\ issued' = issued + 1 /\ SameClient(c) /\ SameStreams
        /\ written' = [written EXCEPT ![c][f] = pub[f]]
    BY DEF Subscribe, jobVars, runVars, clientVars, SameClient, SameStreams
  <1>8. /\ written'[c][f] = pub[f]
        /\ \A g \in FamiliesOf(c) : g # f => written'[c][g] = written[c][g]
    BY <1>1, <1>7 DEF Base, TypeInv, CountType
  <1>9. /\ Replaying(f, q.after).pc = "lock" /\ Replaying(f, q.after).family = f
        /\ Replaying(f, q.after).id = issued + 1 /\ Replaying(f, q.after).todo = Replay(f, q.after)
    BY DEF Replaying
  <1>12. IF f = "global" THEN AnsweredOn(c) ELSE SameWire(c)
    BY SubscribeEffect, AnswerEffect DEF AnsweredOn, SameWire, Base
  <1> HIDE DEF s
  <1>10. /\ sub'[c][f] \in SubStates
         /\ sub'[c][f].pc = "get" /\ sub'[c][f].id = issued + 1 /\ sub'[c][f].ready = (f = "global")
         /\ sub'[c][f].queue = <<>> /\ sub'[c][f].hand = <<>>
    BY <1>1, <1>3, <1>4
  <1>11. f # "global" => /\ request'[c][r] \in ReplayStates
                         /\ request'[c][r].pc = "lock" /\ request'[c][r].family = f
                         /\ request'[c][r].id = issued + 1
                         /\ request'[c][r].todo = Replay(f, q.after)
    BY <1>1, <1>6, <1>9
  <1> QED
    BY <1>1, <1>2, <1>4, <1>5, <1>6, <1>7, <1>8, <1>10, <1>11, <1>12

\* The end of a replay lifts the barrier of its own subscription.
LEMMA ReplayEndFacts ==
    ASSUME Base, NEW c \in Clients, NEW r \in Requests, ReplayStep(c, r), request[c][r].todo = <<>>
    PROVE  LET q == request[c][r]
               f == q.family
               s == sub[c][f] IN
           /\ q \in ReplayStates /\ q.pc \in {"lock", "drain"} /\ f \in FamiliesOf(c)
           /\ (q.pc = "lock" /\ LockFree(c)) \/ (q.pc = "drain" /\ Len(wire[c]) <= HighWater)
           /\ request'[c][r] = Idle /\ OtherRequests(c, r)
           /\ OtherSubs(c, f)
           /\ IF Live(c, f) /\ s.id = q.id THEN Becomes(c, f, s.pc, s.id, TRUE, s.queue, s.hand)
                                           ELSE sub'[c][f] = s
           /\ AnsweredOn(c) /\ conn' = conn /\ pub' = pub /\ written' = written
           /\ issued' = issued /\ SameClient(c) /\ SameStreams
  <1> DEFINE q == request[c][r]
             f == q.family
             s == sub[c][f]
  <1>1. /\ q \in ReplayStates /\ f \in FamiliesOf(c)
        /\ (q.pc = "lock" /\ LockFree(c)) \/ (q.pc = "drain" /\ Drained(c))
        /\ OnlyRequest(c, r, Idle)
        /\ IF s \in SubStates /\ s.id = q.id THEN OnlySub(c, f, Lifted(s)) ELSE UNCHANGED sub
        /\ Answer(c)
    BY ReplayEnds DEF Base
  <1>9. AnsweredOn(c)
    BY <1>1, AnswerEffect DEF AnsweredOn, Base
  <1>2. q.pc \in {"lock", "drain"}
    BY <1>1
  <1>3. /\ conn' = conn /\ pub' = pub /\ written' = written /\ issued' = issued
        /\ SameClient(c) /\ SameStreams
    BY DEF ReplayStep, jobVars, runVars, clientVars, SameClient, SameStreams
  <1>4. request'[c][r] = Idle /\ OtherRequests(c, r)
    BY <1>1 DEF OnlyRequest, OtherRequests
  <1>5. Live(c, f) <=> s \in SubStates
    BY <1>1, SubIs DEF Base, TypeInv
  <1>6. OtherSubs(c, f)
    BY <1>1 DEF OnlySub, OtherSubs
  <1>7. ASSUME Live(c, f), s.id = q.id PROVE Becomes(c, f, s.pc, s.id, TRUE, s.queue, s.hand)
    <2>1. s \in SubStates /\ sub'[c][f] = Lifted(s)
      BY <1>1, <1>5, <1>7 DEF OnlySub
    <2>2. /\ Lifted(s) \in SubStates /\ Lifted(s).pc = s.pc /\ Lifted(s).id = s.id /\ Lifted(s).ready = TRUE
          /\ Lifted(s).queue = s.queue /\ Lifted(s).hand = s.hand
      BY <2>1, SubChanges
    <2> QED
      BY <2>1, <2>2 DEF Becomes
  <1>8. ASSUME ~(Live(c, f) /\ s.id = q.id) PROVE sub'[c][f] = s
    BY <1>1, <1>5, <1>8
  <1> QED
    BY <1>1, <1>2, <1>3, <1>4, <1>6, <1>7, <1>8, <1>9 DEF Drained

\* A replay writes its next frame.
LEMMA ReplayOnFacts ==
    ASSUME Base, NEW c \in Clients, NEW r \in Requests, ReplayStep(c, r), request[c][r].todo # <<>>
    PROVE  LET q == request[c][r] IN
           /\ q \in ReplayStates /\ q.pc \in {"lock", "drain"} /\ q.family \in FamiliesOf(c)
           /\ (q.pc = "lock" /\ LockFree(c)) \/ (q.pc = "drain" /\ Len(wire[c]) <= HighWater)
           /\ request'[c][r] \in ReplayStates /\ request'[c][r].pc = "drain"
           /\ request'[c][r].family = q.family /\ request'[c][r].id = q.id
           /\ request'[c][r].todo = Tail(q.todo) /\ q.todo \in Seq(Frames)
           /\ OtherRequests(c, r) /\ Head(q.todo) \in Frames
           /\ wire' = [wire EXCEPT ![c] = Append(@, Head(q.todo))]
           /\ wire'[c] = Append(wire[c], Head(q.todo))
           /\ sub' = sub /\ conn' = conn /\ pub' = pub /\ written' = written /\ issued' = issued
           /\ answered' = answered /\ SameClient(c) /\ SameStreams
  <1> DEFINE q == request[c][r]
  <1>1. /\ q \in ReplayStates /\ q.family \in FamiliesOf(c)
        /\ (q.pc = "lock" /\ LockFree(c)) \/ (q.pc = "drain" /\ Drained(c))
        /\ Head(q.todo) \in Frames
        /\ Advanced(q) \in ReplayStates
        /\ Advanced(q).id = q.id /\ Advanced(q).family = q.family
        /\ Advanced(q).todo = Tail(q.todo) /\ Advanced(q).pc = "drain"
        /\ OnlyRequest(c, r, Advanced(q))
        /\ UNCHANGED <<sub, answered>>
        /\ wire' = [wire EXCEPT ![c] = Append(@, Head(q.todo))]
    BY ReplayGoesOn DEF Base
  <1>2. q.pc \in {"lock", "drain"} /\ q.todo \in Seq(Frames)
    BY <1>1, SubsDiffer
  <1>3. /\ conn' = conn /\ pub' = pub /\ written' = written /\ issued' = issued
        /\ SameClient(c) /\ SameStreams
    BY DEF ReplayStep, jobVars, runVars, clientVars, SameClient, SameStreams
  <1>4. request'[c][r] = Advanced(q) /\ OtherRequests(c, r)
    BY <1>1 DEF OnlyRequest, OtherRequests
  <1>5. wire'[c] = Append(wire[c], Head(q.todo))
    BY <1>1 DEF Base, TypeInv, ClientType
  <1>6. /\ request'[c][r] \in ReplayStates /\ request'[c][r].pc = "drain"
        /\ request'[c][r].family = q.family /\ request'[c][r].id = q.id
        /\ request'[c][r].todo = Tail(q.todo)
    BY <1>1, <1>4
  <1> QED
    BY <1>1, <1>2, <1>3, <1>4, <1>5, <1>6 DEF Drained

\* The answer to another command.
LEMMA RespondFacts ==
    ASSUME Base, NEW c \in Clients, Respond(c)
    PROVE  /\ conn[c] = "open" /\ AnsweredOn(c)
           /\ sub' = sub /\ request' = request /\ conn' = conn /\ SameClient(c) /\ SameStreams
           /\ pub' = pub /\ written' = written /\ issued' = issued
  <1>1. AnsweredOn(c)
    BY AnswerEffect DEF Respond, AnsweredOn, Base
  <1> QED
    BY <1>1 DEF Respond, SameClient, SameStreams, jobVars, runVars, clientVars

\* A connection is made.
LEMMA ConnectFacts ==
    ASSUME Base, NEW c \in Clients, Connect(c)
    PROVE  /\ daemon = "up" /\ conn[c] = "none" /\ conn'[c] = "open"
           /\ \A f \in FamiliesOf(c) : subscribes'[c][f] = 0
           /\ sub' = sub /\ request' = request /\ wire' = wire /\ cursor' = cursor /\ shown' = shown
           /\ again' = again /\ answered'[c] = 0
           /\ pub' = pub /\ written' = written /\ issued' = issued /\ SameStreams
  BY DEF Connect, Base, TypeInv, ClientType, CountType, SameStreams, jobVars, runVars

\* A client takes note of a frame.
LEMMA ReceiveFacts ==
    ASSUME Base, NEW c \in Clients, Receive(c)
    PROVE  /\ wire[c] \in Seq(Frames) /\ wire[c] # <<>> /\ wire'[c] = Tail(wire[c])
           /\ Head(wire[c]) \in Frames
           /\ cursor'[c] = IF c \in Terminals /\ Head(wire[c]).kind = "job" /\ Head(wire[c]).n > cursor[c]
                           THEN Head(wire[c]).n ELSE cursor[c]
           /\ shown'[c] = IF c \in Terminals /\ Head(wire[c]).kind = "run"
                          THEN shown[c] \cup {Head(wire[c]).n} ELSE shown[c]
           /\ again'[c] = IF c \in Terminals /\ Head(wire[c]).kind = "run"
                               /\ Head(wire[c]).n \in shown[c] \cap Plain
                          THEN again[c] \cup {Head(wire[c]).n} ELSE again[c]
           /\ sub' = sub /\ request' = request /\ conn' = conn /\ subscribes' = subscribes
           /\ answered' = answered
           /\ pub' = pub /\ written' = written /\ issued' = issued /\ SameStreams
  <1>1. wire \in [Clients -> Seq(Frames)] /\ cursor \in [Clients -> Nat] /\ shown \in [Clients -> SUBSET Nat]
        /\ again \in [Clients -> SUBSET Nat]
    BY DEF Base, TypeInv, ClientType
  <1>2. wire[c] \in Seq(Frames) /\ wire[c] # <<>>
    BY <1>1 DEF Receive
  <1>3. Head(wire[c]) \in Frames
    BY <1>2, TailFacts
  <1> QED
    BY <1>1, <1>2, <1>3 DEF Receive, SameStreams, jobVars, runVars

\* A client finds its connection closed.
LEMMA SeeClosedFacts ==
    ASSUME Base, NEW c \in Clients, SeeClosed(c)
    PROVE  /\ conn[c] = "closing" /\ conn'[c] \in Away /\ wire'[c] = <<>>
           /\ sub' = sub /\ request' = request /\ SameClient(c) /\ answered' = answered
           /\ pub' = pub /\ written' = written /\ issued' = issued /\ SameStreams
  BY DEF SeeClosed, Lost, Away, Base, TypeInv, ClientType, SameStreams, SameClient, jobVars, runVars, clientVars

\* A connection breaks.
LEMMA DropFacts ==
    ASSUME Base, NEW c \in Clients, Drop(c)
    PROVE  /\ CutOff(c) /\ conn[c] = "open" /\ conn'[c] \in Away /\ wire'[c] = <<>>
           /\ answered' = answered
           /\ SameClient(c) /\ pub' = pub /\ written' = written /\ issued' = issued /\ SameStreams
  <1>1. CutOff(c) /\ conn'[c] \in Away /\ wire'[c] = <<>>
    BY DropEffect DEF Base
  <1> QED
    BY <1>1 DEF Drop, SameStreams, SameClient, jobVars, runVars, clientVars

-----------------------------------------------------------------------------
(***************************************************************************)
(* Connections and barriers.                                               *)
(***************************************************************************)
\* What is left of a connection that is not open, and of all when the daemon is not up.
Connected(d) ==
    /\ conn[d] \in Away => wire[d] = <<>>
    /\ conn[d] # "open" => /\ \A f \in FamiliesOf(d) : ~Live(d, f)
                           /\ \A r \in Requests : request[d][r] = Idle
    /\ daemon # "up" => conn[d] # "open"

\* The command that will lift the barrier of a subscription.
Lifts(d, f, r) ==
    /\ request[d][r].pc \in {"lock", "drain"}
    /\ request[d][r].family = f
    /\ request[d][r].id = sub[d][f].id

Barred(d) ==
    \A f \in FamiliesOf(d) : Live(d, f) /\ ~sub[d][f].ready =>
        /\ sub[d][f].pc = "get" /\ f # "global"
        /\ \E r \in Requests : Lifts(d, f, r)

\* The commands under way have subscriptions of their own.
OwnIds(d) ==
    \A r \in Requests : request[d][r].pc \in {"lock", "drain"} =>
        /\ request[d][r].id <= issued
        /\ \A p \in Requests : p # r /\ request[d][p].pc \in {"lock", "drain"} =>
              request[d][p].id # request[d][r].id

\* A daemon that is not up has closed all connections.
LEMMA DaemonUp ==
    ASSUME Base, [Next]_vars, NEW d \in Clients, Connected(d), daemon' # "up"
    PROVE  conn'[d] # "open"
  <1>1. CASE daemon # "up"
    <2>1. conn[d] # "open" /\ ~Connect(d)
      BY <1>1 DEF Connected, Connect
    <2>2. ASSUME NEW kind \in Events, NEW n \in Nat, PublishedNow(kind, n), Publish(kind, n),
                 Reached(d, kind, n)
          PROVE  conn'[d] # "open"
      BY <2>1, <2>2 DEF Reached
    <2>3. CASE ClientStep(d)
      <3>1. ASSUME NEW r \in Requests, Handler(d, r) PROVE conn'[d] = conn[d]
        BY <3>1 DEF Handler, Subscribe, ReplayStep
      <3>2. ASSUME NEW f \in FamiliesOf(d), Writer(d, f) PROVE conn'[d] = conn[d]
        BY <3>2 DEF Writer, WriterGet, WriterWrite, WriterDrained
      <3>3. ASSUME NEW f \in FamiliesOf(d), NEW r \in Requests, SendSubscribe(d, f, r)
            PROVE  conn'[d] = conn[d]
        BY <3>3 DEF SendSubscribe
      <3>4. CASE Receive(d)
        BY <2>1, <3>4, ReceiveFacts
      <3>5. CASE SeeClosed(d)
        BY <3>5, SeeClosedFacts DEF Away
      <3>6. CASE Drop(d)
        BY <3>6, DropFacts DEF Away
      <3>7. CASE Respond(d)
        BY <2>1, <3>7 DEF Respond
      <3> QED
        BY <2>1, <2>3, <3>1, <3>2, <3>3, <3>4, <3>5, <3>6, <3>7 DEF ClientStep
    <2> QED
      BY <2>1, <2>2, <2>3, Menu DEF Base, Untouched, Closed
  <1>2. CASE daemon = "up"
    <2>1. ~UNCHANGED daemon
      BY <1>2
    <2>2. ASSUME NEW c \in Clients PROVE ~ClientStep(c)
      BY <2>1
      DEF ClientStep, Writer, WriterGet, WriterWrite, WriterDrained, SendSubscribe, Handler,
          Subscribe, ReplayStep, Respond, Connect, Receive, SeeClosed, Drop
    <2>3. DaemonStep
      BY <2>1, <2>2 DEF Next, vars
    <2>4. ~(Exit \/ Restart \/ Recover \/ JobEnds)
      BY <1>2, <2>1 DEF Exit, Restart, Recover, JobEnds
    <2>5. CloseAll
      BY <2>1, <2>3, <2>4, DaemonMenu DEF Base
    <2> QED
      BY <2>5, CloseEffect DEF Base
  <1> QED
    BY <1>1, <1>2

\* A client without a connection has no subscription, no command and no frames.
LEMMA ConnectedStep ==
    ASSUME Base, [Next]_vars, NEW d \in Clients, Connected(d)
    PROVE  Connected(d)'
  <1>1. daemon' # "up" => conn'[d] # "open"
    BY DaemonUp
  <1> DEFINE Gone == /\ \A f \in FamiliesOf(d) : sub[d][f] = NoSub
                     /\ \A r \in Requests : request[d][r] = Idle
             GoneThen == /\ \A f \in FamiliesOf(d) : sub'[d][f] = NoSub
                         /\ \A r \in Requests : request'[d][r] = Idle
             Goal == /\ conn'[d] \in Away => wire'[d] = <<>>
                     /\ conn'[d] # "open" => GoneThen
  <1>2. conn[d] \in Away => wire[d] = <<>>
    BY DEF Connected
  <1>3. conn[d] # "open" => Gone
    BY DEF Connected, Live
  <1> SUFFICES Goal
    BY <1>1 DEF Connected, Live
  <1> HIDE DEF Connected
  <1>5. CASE Untouched(d)
    BY <1>2, <1>3, <1>5 DEF Untouched, Kept, Quiet
  <1>6. CASE Closed(d)
    BY <1>2, <1>6 DEF Closed, CutOff, Quiet
  <1>7. ASSUME NEW kind \in Events, NEW n \in Nat, Reached(d, kind, n) PROVE Goal
    <2>1. conn'[d] = conn[d] /\ wire'[d] = wire[d] /\ request'[d] = request[d]
      BY <1>7 DEF Reached, Served, Quiet
    <2>2. conn[d] # "open" => \A f \in FamiliesOf(d) : sub'[d][f] = NoSub
      BY <1>3, <1>7 DEF Reached, Served, Live
    <2> QED
      BY <1>2, <1>3, <2>1, <2>2
  <1>8. CASE conn[d] = "open" /\ conn'[d] = "open"
    BY <1>8 DEF Away
  <1>9. ASSUME NEW f \in FamiliesOf(d), Writer(d, f) PROVE Goal
    <2>1. sub[d][f] # NoSub
      BY <1>9 DEF Writer, WriterGet, WriterWrite, WriterDrained, Live
    <2>2. conn[d] = "open" /\ conn'[d] = conn[d]
      BY <2>1, <1>3, <1>9 DEF Writer, WriterGet, WriterWrite, WriterDrained
    <2> QED
      BY <2>2, <1>8
  <1>10. ASSUME NEW r \in Requests, Handler(d, r) PROVE Goal
    <2>1. request[d][r] # Idle
      BY <1>10, SubsDiffer DEF Handler, Subscribe, ReplayStep
    <2>2. conn[d] = "open" /\ conn'[d] = conn[d]
      BY <2>1, <1>3, <1>10 DEF Handler, Subscribe, ReplayStep
    <2> QED
      BY <2>2, <1>8
  <1>11. ASSUME NEW f \in FamiliesOf(d), NEW r \in Requests, SendSubscribe(d, f, r) PROVE Goal
    BY <1>11, <1>8 DEF SendSubscribe
  <1>12. CASE Connect(d)
    <2>1. conn'[d] = "open"
      BY <1>12, ConnectFacts
    <2> QED
      BY <2>1 DEF Away
  <1>17. CASE Respond(d)
    BY <1>8, <1>17 DEF Respond
  <1>13. CASE Receive(d)
    <2>1. wire[d] # <<>> /\ conn[d] \notin Away /\ conn'[d] = conn[d] /\ sub' = sub /\ request' = request
      BY <1>2, <1>13, ReceiveFacts
    <2> QED
      BY <1>3, <2>1
  <1>14. CASE SeeClosed(d)
    BY <1>3, <1>14, SeeClosedFacts
  <1>15. CASE Drop(d)
    BY <1>15, DropFacts DEF CutOff
  <1>16. CASE ClientStep(d)
    BY <1>9, <1>10, <1>11, <1>12, <1>13, <1>14, <1>15, <1>16, <1>17 DEF ClientStep
  <1> QED
    BY <1>5, <1>6, <1>7, <1>16, Menu DEF Base

(***************************************************************************)
(* A subscription that is held back will be let go.                        *)
(***************************************************************************)
LEMMA BarredStep ==
    ASSUME Base, [Next]_vars, NEW d \in Clients, Barred(d)
    PROVE  Barred(d)'
  <1> SUFFICES ASSUME NEW g \in FamiliesOf(d), sub'[d][g] # NoSub, ~sub'[d][g].ready
               PROVE  /\ sub'[d][g].pc = "get" /\ g # "global"
                      /\ \E r \in Requests : Lifts(d, g, r)'
    BY DEF Barred, Live
  <1> DEFINE Goal == /\ sub'[d][g].pc = "get" /\ g # "global"
                     /\ \E r \in Requests : Lifts(d, g, r)'
  <1>1. ASSUME sub[d][g] # NoSub, ~sub[d][g].ready
        PROVE  /\ sub[d][g].pc = "get" /\ g # "global"
               /\ \E r \in Requests : Lifts(d, g, r)
    BY <1>1 DEF Barred, Live
  \* The subscription and the command that lifts its barrier are as they were.
  <1>2. ASSUME sub[d][g] # NoSub, sub'[d][g].pc = sub[d][g].pc, sub'[d][g].id = sub[d][g].id,
               sub'[d][g].ready = sub[d][g].ready,
               \A r \in Requests : Lifts(d, g, r) =>
                    /\ request'[d][r].pc \in {"lock", "drain"}
                    /\ request'[d][r].id = request[d][r].id
                    /\ request'[d][r].family = request[d][r].family
        PROVE  Goal
    <2>1. PICK r \in Requests : Lifts(d, g, r)
      BY <1>1, <1>2
    <2>2. Lifts(d, g, r)'
      BY <1>2, <2>1 DEF Lifts
    <2> QED
      BY <1>1, <1>2, <2>2
  <1>3. ASSUME sub'[d][g] = sub[d][g],
               \A r \in Requests : Lifts(d, g, r) =>
                    /\ request'[d][r].pc \in {"lock", "drain"}
                    /\ request'[d][r].id = request[d][r].id
                    /\ request'[d][r].family = request[d][r].family
        PROVE  Goal
    BY <1>2, <1>3
  <1>4. ASSUME sub'[d][g] = sub[d][g], request'[d] = request[d] PROVE Goal
    BY <1>3, <1>4 DEF Lifts
  <1> SUFFICES Goal
    OBVIOUS
  <1> HIDE DEF Goal
  <1>5. CASE Untouched(d)
    BY <1>4, <1>5 DEF Untouched, Kept
  <1>6. CASE Closed(d)
    BY <1>6 DEF Closed, CutOff
  <1>7. ASSUME NEW kind \in Events, NEW n \in Nat, Reached(d, kind, n) PROVE Goal
    <2>1. request'[d] = request[d]
      BY <1>7 DEF Reached, Served
    <2>2. CASE Live(d, g) /\ Matches(kind, g)
      <3>1. /\ sub[d][g] \in SubStates /\ sub'[d][g] = Queued(sub[d][g], Arriving(kind, n, g))
            /\ Arriving(kind, n, g) \in Queueable /\ sub[d][g] # NoSub
        BY <1>7, <2>2, ArrivingType, FamiliesFacts DEF Reached, Served, Base, TypeInv, Live
      <3>2. /\ sub'[d][g].pc = sub[d][g].pc /\ sub'[d][g].id = sub[d][g].id
            /\ sub'[d][g].ready = sub[d][g].ready
        BY <3>1, QueuedType
      <3>3. \A r \in Requests : Lifts(d, g, r) =>
                    /\ request'[d][r].pc \in {"lock", "drain"}
                    /\ request'[d][r].id = request[d][r].id
                    /\ request'[d][r].family = request[d][r].family
        BY <2>1 DEF Lifts
      <3> QED
        BY <1>2, <3>1, <3>2, <3>3
    <2>3. CASE ~(Live(d, g) /\ Matches(kind, g))
      BY <1>4, <1>7, <2>1, <2>3 DEF Reached, Served
    <2> QED
      BY <2>2, <2>3
  <1>8. ASSUME NEW f \in FamiliesOf(d), Writer(d, f) PROVE Goal
    <2> DEFINE s == sub[d][f]
               t == sub'[d][f]
    <2>1. /\ request' = request /\ OtherSubs(d, f) /\ s \in SubStates /\ t.ready = s.ready
          /\ s.pc # "get" \/ s.ready = TRUE
      <3>1. CASE WriterGet(d, f)
        BY <3>1, GetFacts DEF Becomes
      <3>2. CASE WriterWrite(d, f)
        BY <3>2, WriteFacts DEF Becomes
      <3>3. CASE WriterDrained(d, f)
        BY <3>3, DrainedFacts DEF Becomes
      <3> QED
        BY <1>8, <3>1, <3>2, <3>3 DEF Writer
    <2>2. CASE f = g
      <3>1. sub[d][g] # NoSub
        BY <2>1, <2>2, SubsDiffer
      <3>2. ~sub[d][g].ready
        BY <2>1, <2>2
      <3> QED
        BY <1>1, <2>1, <2>2, <3>1, <3>2
    <2>3. CASE f # g
      BY <1>4, <2>1, <2>3 DEF OtherSubs
    <2> QED
      BY <2>2, <2>3
  <1>9. ASSUME NEW f \in FamiliesOf(d), NEW r \in Requests, SendSubscribe(d, f, r) PROVE Goal
    <2>1. sub' = sub /\ request[d][r] = Idle /\ OtherRequests(d, r)
      BY <1>9, SendFacts
    <2>2. ~Lifts(d, g, r)
      BY <2>1, SubsDiffer DEF Lifts
    <2>3. \A p \in Requests : Lifts(d, g, p) => request'[d][p] = request[d][p] /\ request[d][p].pc \in {"lock", "drain"}
      BY <2>1, <2>2 DEF OtherRequests, Lifts
    <2> QED
      BY <1>3, <2>1, <2>3
  <1>10. ASSUME NEW r \in Requests, Subscribe(d, r) PROVE Goal
    <2> DEFINE f == request[d][r].family
    <2>1. /\ request[d][r].pc = "sent" /\ OtherRequests(d, r) /\ OtherSubs(d, f) /\ f \in FamiliesOf(d)
          /\ sub'[d][f].pc = "get" /\ sub'[d][f].id = issued + 1 /\ sub'[d][f].ready = (f = "global")
          /\ f # "global" => /\ request'[d][r].pc = "lock" /\ request'[d][r].family = f
                             /\ request'[d][r].id = issued + 1
      BY <1>10, SubscribeFacts
    <2>2. CASE f = g
      <3>1. g # "global"
        BY <2>1, <2>2
      <3>2. Lifts(d, g, r)'
        BY <2>1, <2>2, <3>1 DEF Lifts
      <3> QED
        BY <2>1, <2>2, <3>1, <3>2 DEF Goal
    <2>3. CASE f # g
      <3>1. sub'[d][g] = sub[d][g]
        BY <2>1, <2>3 DEF OtherSubs
      <3>2. ~Lifts(d, g, r)
        BY <2>1 DEF Lifts
      <3>3. \A p \in Requests : Lifts(d, g, p) => request'[d][p] = request[d][p] /\ request[d][p].pc \in {"lock", "drain"}
        BY <2>1, <3>2 DEF OtherRequests, Lifts
      <3> QED
        BY <1>3, <3>1, <3>3
    <2> QED
      BY <2>2, <2>3
  <1>11. ASSUME NEW r \in Requests, ReplayStep(d, r), request[d][r].todo = <<>> PROVE Goal
    <2> DEFINE q == request[d][r]
               f == q.family
               s == sub[d][f]
    <2>1. /\ OtherRequests(d, r) /\ OtherSubs(d, f) /\ f \in FamiliesOf(d)
          /\ IF Live(d, f) /\ s.id = q.id THEN Becomes(d, f, s.pc, s.id, TRUE, s.queue, s.hand)
                                          ELSE sub'[d][f] = s
      BY <1>11, ReplayEndFacts
    <2>2. sub'[d][g] = sub[d][g]
      BY <2>1 DEF OtherSubs, Becomes
    <2>3. sub[d][g] # NoSub
      BY <2>2
    <2>4. ~Lifts(d, g, r)
      BY <2>1, <2>2, <2>3 DEF Lifts, Becomes, Live
    <2>5. \A p \in Requests : Lifts(d, g, p) => request'[d][p] = request[d][p] /\ request[d][p].pc \in {"lock", "drain"}
      BY <2>1, <2>4 DEF OtherRequests, Lifts
    <2> QED
      BY <1>3, <2>2, <2>5
  <1>12. ASSUME NEW r \in Requests, ReplayStep(d, r), request[d][r].todo # <<>> PROVE Goal
    <2>1. /\ sub' = sub /\ OtherRequests(d, r) /\ request'[d][r].pc = "drain"
          /\ request'[d][r].family = request[d][r].family /\ request'[d][r].id = request[d][r].id
      BY <1>12, ReplayOnFacts
    <2>2. \A p \in Requests : Lifts(d, g, p) =>
                    /\ request'[d][p].pc \in {"lock", "drain"}
                    /\ request'[d][p].id = request[d][p].id
                    /\ request'[d][p].family = request[d][p].family
      BY <2>1 DEF OtherRequests, Lifts
    <2> QED
      BY <1>3, <2>1, <2>2
  <1>13. CASE Respond(d) \/ Connect(d) \/ Receive(d) \/ SeeClosed(d)
    BY <1>4, <1>13, RespondFacts, ConnectFacts, ReceiveFacts, SeeClosedFacts
  <1>14. CASE Drop(d)
    BY <1>14, DropFacts DEF CutOff
  <1>15. CASE ClientStep(d)
    BY <1>8, <1>9, <1>10, <1>11, <1>12, <1>13, <1>14, <1>15 DEF ClientStep, Handler
  <1>16. Goal
    BY <1>5, <1>6, <1>7, <1>15, Menu DEF Base
  <1> QED
    BY <1>16 DEF Goal

\* No two replays have a subscription in common.
LEMMA OwnIdsStep ==
    ASSUME Base, [Next]_vars, NEW d \in Clients, OwnIds(d)
    PROVE  OwnIds(d)'
  <1> DEFINE Replays(r) == request[d][r].pc \in {"lock", "drain"}
             Goal == \A r \in Requests : request'[d][r].pc \in {"lock", "drain"} =>
                        /\ request'[d][r].id <= issued'
                        /\ \A p \in Requests : p # r /\ request'[d][p].pc \in {"lock", "drain"} =>
                              request'[d][p].id # request'[d][r].id
  <1> SUFFICES Goal
    BY DEF OwnIds
  <1>0. issued \in Nat
    BY DEF Base, TypeInv, BusType
  <1>1. ASSUME \A r \in Requests : request'[d][r].pc \in {"lock", "drain"} =>
                  Replays(r) /\ request'[d][r].id = request[d][r].id,
               issued' \in Nat, issued <= issued'
        PROVE  Goal
    <2>1. ASSUME NEW r \in Requests, Replays(r) PROVE request[d][r].id \in Nat /\ request[d][r].id <= issued
      BY <2>1, RequestIs, SubsDiffer DEF Base, TypeInv, OwnIds
    <2>2. ASSUME NEW r \in Requests, NEW p \in Requests, p # r, Replays(r), Replays(p)
          PROVE  request[d][p].id # request[d][r].id
      BY <2>2 DEF OwnIds
    <2>3. ASSUME NEW r \in Requests, request'[d][r].pc \in {"lock", "drain"} PROVE request'[d][r].id <= issued'
      BY <1>0, <1>1, <2>1, <2>3
    <2>4. ASSUME NEW r \in Requests, request'[d][r].pc \in {"lock", "drain"},
                 NEW p \in Requests, p # r, request'[d][p].pc \in {"lock", "drain"}
          PROVE  request'[d][p].id # request'[d][r].id
      BY <1>1, <2>2, <2>4
    <2> QED
      BY <2>3, <2>4
  <1>2. issued' \in Nat /\ issued <= issued'
    <2>1. UNCHANGED issued \/ issued' = issued + 1
      <3>1. ASSUME NEW c \in Clients, ClientStep(c) PROVE UNCHANGED issued \/ issued' = issued + 1
        <4>1. CASE Respond(c)
          BY <4>1 DEF Respond
        <4>2. CASE ~Respond(c)
          BY <3>1, <4>2
          DEF ClientStep, Writer, WriterGet, WriterWrite, WriterDrained, SendSubscribe, Handler,
              Subscribe, ReplayStep, Connect, Receive, SeeClosed, Drop
        <4> QED
          BY <4>1, <4>2
      <3>2. CASE DaemonStep
        <4>1. ASSUME NEW kind \in Events, NEW n \in Nat, Publish(kind, n) PROVE UNCHANGED issued
          BY <4>1 DEF Publish
        <4> QED
          BY <3>2, <4>1, DaemonMenu DEF Base, CloseAll
      <3> QED
        BY <3>1, <3>2 DEF Next, vars
    <2> QED
      BY <1>0, <2>1
  <1>3. ASSUME request'[d] = request[d] PROVE Goal
    BY <1>1, <1>2, <1>3
  <1> HIDE DEF Goal
  <1>4. CASE Untouched(d)
    BY <1>3, <1>4 DEF Untouched, Kept
  <1>5. ASSUME CutOff(d) PROVE Goal
    BY <1>5, SubsDiffer DEF CutOff, Goal
  <1>6. ASSUME NEW kind \in Events, NEW n \in Nat, Reached(d, kind, n) PROVE Goal
    BY <1>3, <1>6 DEF Reached, Served
  <1>7. ASSUME NEW f \in FamiliesOf(d), Writer(d, f) PROVE Goal
    <2>1. request' = request
      BY <1>7, GetFacts, WriteFacts, DrainedFacts DEF Writer
    <2> QED
      BY <1>3, <2>1
  <1>8. ASSUME NEW f \in FamiliesOf(d), NEW r \in Requests, SendSubscribe(d, f, r) PROVE Goal
    <2>1. OtherRequests(d, r) /\ request'[d][r].pc = "sent"
      BY <1>8, SendFacts, SubsDiffer
    <2> QED
      BY <1>1, <1>2, <2>1 DEF OtherRequests
  <1>9. ASSUME NEW r \in Requests, Subscribe(d, r) PROVE Goal
    <2> DEFINE f == request[d][r].family
    <2>1. /\ OtherRequests(d, r) /\ issued' = issued + 1
          /\ f = "global" => request'[d][r] = Idle
          /\ f # "global" => request'[d][r].id = issued + 1
      BY <1>9, SubscribeFacts
    <2>2. ASSUME NEW p \in Requests, p # r, request'[d][p].pc \in {"lock", "drain"}
          PROVE  Replays(p) /\ request'[d][p].id = request[d][p].id
      BY <2>1, <2>2 DEF OtherRequests
    <2>3. ASSUME NEW p \in Requests, Replays(p) PROVE request[d][p].id \in Nat /\ request[d][p].id <= issued
      BY <2>3, RequestIs, SubsDiffer DEF Base, TypeInv, OwnIds
    <2>4. CASE f = "global"
      <3>1. request'[d][r].pc = "free"
        BY <2>1, <2>4, SubsDiffer
      <3> QED
        BY <1>1, <1>2, <2>2, <3>1
    <2>5. CASE f # "global"
      <3>1. ASSUME NEW p \in Requests, request'[d][p].pc \in {"lock", "drain"} PROVE request'[d][p].id <= issued'
        BY <1>0, <2>1, <2>2, <2>3, <2>5, <3>1
      <3>2. ASSUME NEW p \in Requests, request'[d][p].pc \in {"lock", "drain"}, p # r
            PROVE  request'[d][p].id # request'[d][r].id
        BY <1>0, <2>1, <2>2, <2>3, <2>5, <3>2
      <3>3. ASSUME NEW p \in Requests, request'[d][p].pc \in {"lock", "drain"}, p # r,
                   NEW k \in Requests, request'[d][k].pc \in {"lock", "drain"}, k # r, p # k
            PROVE  request'[d][p].id # request'[d][k].id
        BY <2>2, <3>3 DEF OwnIds
      <3> QED
        BY <3>1, <3>2, <3>3 DEF Goal
    <2> QED
      BY <2>4, <2>5
  <1>10. ASSUME NEW r \in Requests, ReplayStep(d, r), request[d][r].todo = <<>> PROVE Goal
    <2>1. request'[d][r].pc = "free" /\ OtherRequests(d, r)
      BY <1>10, ReplayEndFacts, SubsDiffer
    <2> QED
      BY <1>1, <1>2, <2>1 DEF OtherRequests
  <1>11. ASSUME NEW r \in Requests, ReplayStep(d, r), request[d][r].todo # <<>> PROVE Goal
    <2>1. request'[d][r].id = request[d][r].id /\ Replays(r) /\ OtherRequests(d, r)
      BY <1>11, ReplayOnFacts
    <2> QED
      BY <1>1, <1>2, <2>1 DEF OtherRequests
  <1>12. CASE Respond(d) \/ Connect(d) \/ Receive(d) \/ SeeClosed(d)
    BY <1>3, <1>12, RespondFacts, ConnectFacts, ReceiveFacts, SeeClosedFacts
  <1>13. CASE Drop(d)
    BY <1>5, <1>13, DropFacts
  <1>14. CASE ClientStep(d)
    BY <1>7, <1>8, <1>9, <1>10, <1>11, <1>12, <1>13, <1>14 DEF ClientStep, Handler
  <1> QED
    BY <1>4, <1>5, <1>6, <1>14, Menu DEF Base, Closed

(***************************************************************************)
(* Nothing is lost in the daemon.                                          *)
(***************************************************************************)
States(q) == {i \in DOMAIN q : ~Droppable(q[i])}
Stamps(q) == {q[i].stamp : i \in States(q)}

\* The state events of a queue are those published from lo to hi, in order.
Carries(q, lo, hi) ==
    /\ Stamps(q) = lo..hi
    /\ \A i, j \in States(q) : i < j => q[i].stamp < q[j].stamp

\* Nothing is due of an empty range.
LEMMA CarriesNothing ==
    ASSUME NEW lo \in Nat, NEW hi \in Nat, hi < lo
    PROVE  Carries(<<>>, lo, hi)
  BY DEF Carries, Stamps, States

\* A state event that is appended is the next one due.
LEMMA CarriesState ==
    ASSUME NEW q \in Seq(Queueable), NEW e \in Queueable, NEW lo \in Nat, NEW hi \in Nat,
           Carries(q, lo, hi), lo <= hi + 1, ~Droppable(e), e.stamp = hi + 1
    PROVE  Carries(Append(q, e), lo, hi + 1)
  <1> DEFINE a == Append(q, e)
             L == Len(q) + 1
  <1>1. /\ \A i \in 1..Len(q) : a[i] = q[i]
        /\ a[L] = e /\ DOMAIN a = 1..L /\ DOMAIN q = 1..Len(q) /\ Len(q) \in Nat
    BY AppendFacts
  <1> HIDE DEF a
  <1>2. L \in States(a) /\ \A i : i \in States(a) <=> (i \in States(q) \/ i = L)
    BY <1>1 DEF States
  <1>3. \A i \in States(q) : a[i] = q[i] /\ i < L /\ q[i].stamp \in lo..hi
    <2>1. \A i \in States(q) : a[i] = q[i] /\ i < L
      BY <1>1 DEF States
    <2>2. \A i \in States(q) : q[i].stamp \in lo..hi
      BY DEF Carries, Stamps
    <2> QED
      BY <2>1, <2>2
  <1>4. Stamps(a) = Stamps(q) \cup {hi + 1}
    BY <1>1, <1>2, <1>3 DEF Stamps
  <1>5. Stamps(a) = lo..(hi + 1)
    <2>1. Stamps(q) = lo..hi
      BY DEF Carries
    <2>2. lo..hi \cup {hi + 1} = lo..(hi + 1)
      OBVIOUS
    <2> QED
      BY <1>4, <2>1, <2>2
  <1>6. ASSUME NEW i \in States(a), NEW j \in States(a), i < j PROVE a[i].stamp < a[j].stamp
    <2>1. CASE j = L
      <3>1. i \in States(q)
        BY <1>1, <1>2, <1>6, <2>1 DEF States
      <3>2. a[i] = q[i] /\ q[i].stamp \in lo..hi /\ a[j].stamp = hi + 1
        BY <1>1, <1>3, <2>1, <3>1
      <3> HIDE DEF L
      <3> QED
        BY <3>2
    <2>2. CASE j \in States(q)
      <3>1. i \in States(q)
        BY <1>1, <1>2, <1>3, <1>6, <2>2 DEF States
      <3> QED
        BY <1>3, <1>6, <2>2, <3>1 DEF Carries
    <2> QED
      BY <1>2, <2>1, <2>2
  <1> QED
    BY <1>5, <1>6 DEF Carries, a

\* A display event changes nothing in what is due.
LEMMA CarriesDisplay ==
    ASSUME NEW q \in Seq(Queueable), NEW e \in Queueable, NEW lo, NEW hi,
           Carries(q, lo, hi), Droppable(e)
    PROVE  Carries(Append(q, e), lo, hi)
  <1> DEFINE a == Append(q, e)
             L == Len(q) + 1
  <1>1. /\ \A i \in 1..Len(q) : a[i] = q[i]
        /\ a[L] = e /\ DOMAIN a = 1..L /\ DOMAIN q = 1..Len(q) /\ Len(q) \in Nat
    BY AppendFacts
  <1> HIDE DEF a
  <1>2. States(a) = States(q)
    BY <1>1 DEF States
  <1>3. \A i \in States(q) : a[i] = q[i]
    BY <1>1 DEF States
  <1>4. Stamps(a) = Stamps(q)
    BY <1>2, <1>3 DEF Stamps
  <1>5. Stamps(a) = lo..hi /\ \A i, j \in States(a) : i < j => a[i].stamp < a[j].stamp
    BY <1>2, <1>3, <1>4 DEF Carries
  <1> QED
    BY <1>5 DEF Carries, a

\* Nor does the eviction of one.
LEMMA CarriesEvicted ==
    ASSUME NEW q \in Seq(Queueable), HasDroppable(q), NEW lo, NEW hi, Carries(q, lo, hi)
    PROVE  Carries(Evicted(q), lo, hi)
  <1> PICK k \in 1..Len(q) :
              /\ Droppable(q[k])
              /\ Evicted(q) \in Seq(Queueable) /\ Len(q) \in Nat
              /\ Len(Evicted(q)) = Len(q) - 1 /\ DOMAIN Evicted(q) = 1..(Len(q) - 1)
              /\ \A i \in 1..(Len(q) - 1) : Evicted(q)[i] = IF i < k THEN q[i] ELSE q[i + 1]
    BY EvictedFacts
  <1> DEFINE e == Evicted(q)
             old(i) == IF i < k THEN i ELSE i + 1
             new(i) == IF i < k THEN i ELSE i - 1
  <1>1. \A i \in States(e) : i \in Nat
    BY DEF States
  <1>2. DOMAIN q = 1..Len(q)
    OBVIOUS
  <1>3. \A i \in States(e) : old(i) \in States(q) /\ e[i] = q[old(i)]
    BY <1>2 DEF States
  <1>4. \A i \in States(q) : new(i) \in States(e) /\ e[new(i)] = q[i]
    <2> SUFFICES ASSUME NEW i \in States(q) PROVE new(i) \in States(e) /\ e[new(i)] = q[i]
      OBVIOUS
    <2>1. i \in 1..Len(q) /\ i # k /\ ~Droppable(q[i])
      BY <1>2 DEF States
    <2>2. CASE i < k
      <3>1. new(i) = i /\ i \in 1..(Len(q) - 1)
        BY <2>1, <2>2
      <3>2. e[i] = q[i]
        BY <3>1, <2>2
      <3> QED
        BY <2>1, <3>1, <3>2 DEF States
    <2>3. CASE i > k
      <3>1. new(i) = i - 1 /\ i - 1 \in 1..(Len(q) - 1) /\ ~(i - 1 < k) /\ (i - 1) + 1 = i
        BY <2>1, <2>3
      <3>2. e[i - 1] = q[i]
        BY <3>1
      <3> QED
        BY <2>1, <3>1, <3>2 DEF States
    <2> QED
      BY <2>1, <2>2, <2>3
  <1>5. \A i, j \in Nat : i < j => old(i) < old(j)
    OBVIOUS
  <1> HIDE DEF e, old, new
  <1>6. Stamps(e) = Stamps(q)
    <2>1. ASSUME NEW i \in States(e) PROVE e[i].stamp \in Stamps(q)
      BY <1>3 DEF Stamps
    <2>2. ASSUME NEW i \in States(q) PROVE q[i].stamp \in Stamps(e)
      BY <1>4 DEF Stamps
    <2>3. Stamps(e) \subseteq Stamps(q)
      BY <2>1 DEF Stamps
    <2>4. Stamps(q) \subseteq Stamps(e)
      BY <2>2 DEF Stamps
    <2> QED
      BY <2>3, <2>4
  <1>7. ASSUME NEW i \in States(e), NEW j \in States(e), i < j PROVE e[i].stamp < e[j].stamp
    BY <1>1, <1>3, <1>5, <1>7 DEF Carries
  <1> QED
    BY <1>6, <1>7 DEF Carries, e

\* The event at the head of a queue is the oldest.
LEMMA CarriesTail ==
    ASSUME NEW q \in Seq(Queueable), q # <<>>, NEW lo \in Nat, NEW hi \in Nat, Carries(q, lo, hi)
    PROVE  IF Droppable(Head(q)) THEN Carries(Tail(q), lo, hi)
           ELSE Head(q).stamp = lo /\ lo <= hi /\ Carries(Tail(q), lo + 1, hi)
  <1> DEFINE t == Tail(q)
  <1>1. /\ DOMAIN q = 1..Len(q) /\ Len(q) \in Nat \ {0}
        /\ DOMAIN t = 1..(Len(q) - 1)
        /\ \A i \in 1..(Len(q) - 1) : t[i] = q[i + 1]
        /\ Head(q) = q[1]
    BY TailFacts
  <1> HIDE DEF t
  <1>2. \A i \in States(t) : i \in Nat \ {0} /\ i + 1 \in States(q) /\ t[i] = q[i + 1]
    BY <1>1 DEF States
  <1>3. \A i \in States(q) : i \in Nat \ {0} /\ (i # 1 => i - 1 \in States(t) /\ t[i - 1] = q[i])
    BY <1>1 DEF States
  <1>4. ASSUME NEW i \in States(t), NEW j \in States(t), i < j PROVE t[i].stamp < t[j].stamp
    <2>1. i + 1 \in States(q) /\ j + 1 \in States(q) /\ i + 1 < j + 1
      BY <1>2, <1>4
    <2> QED
      BY <1>2, <2>1 DEF Carries
  <1>5. Stamps(q) = lo..hi
    BY DEF Carries
  <1>6. CASE Droppable(Head(q))
    <2>1. 1 \notin States(q)
      BY <1>1, <1>6 DEF States
    <2>2. ASSUME NEW i \in States(t) PROVE t[i].stamp \in Stamps(q)
      BY <1>2 DEF Stamps
    <2>3. ASSUME NEW i \in States(q) PROVE q[i].stamp \in Stamps(t)
      BY <1>3, <2>1 DEF Stamps
    <2>5. Stamps(t) \subseteq Stamps(q)
      BY <2>2 DEF Stamps
    <2>6. Stamps(q) \subseteq Stamps(t)
      BY <2>3 DEF Stamps
    <2>4. Stamps(t) = Stamps(q)
      BY <2>5, <2>6
    <2> QED
      BY <1>4, <1>5, <1>6, <2>4 DEF Carries, t
  <1>7. CASE ~Droppable(Head(q))
    <2>1. 1 \in States(q)
      BY <1>1, <1>7 DEF States
    <2>2. q[1].stamp \in lo..hi
      BY <1>5, <2>1 DEF Stamps
    <2>3. \A i \in States(t) : q[1].stamp < t[i].stamp /\ t[i].stamp \in lo..hi
      <3>1. ASSUME NEW i \in States(t) PROVE q[1].stamp < t[i].stamp /\ t[i].stamp \in lo..hi
        <4>1. i + 1 \in States(q) /\ 1 < i + 1 /\ t[i] = q[i + 1]
          BY <1>2
        <4> QED
          BY <1>5, <2>1, <4>1 DEF Carries, Stamps
      <3> QED
        BY <3>1
    <2>4. \A n \in lo..hi : n = q[1].stamp \/ n \in Stamps(t)
      <3>1. ASSUME NEW n \in lo..hi, n # q[1].stamp PROVE n \in Stamps(t)
        <4>1. PICK i \in States(q) : q[i].stamp = n
          BY <1>5 DEF Stamps
        <4> QED
          BY <1>3, <3>1, <4>1 DEF Stamps
      <3> QED
        BY <3>1
    <2>5. \A n \in Stamps(t) : q[1].stamp < n /\ n \in lo..hi
      BY <2>3 DEF Stamps
    <2>6. q[1].stamp = lo
      <3>1. lo \in lo..hi
        BY <2>2
      <3>2. lo \notin Stamps(t)
        BY <2>2, <2>5
      <3> QED
        BY <2>4, <3>1, <3>2
    <2>7. Stamps(t) = (lo + 1)..hi
      <3>1. ASSUME NEW n \in Stamps(t) PROVE n \in (lo + 1)..hi
        BY <2>5, <2>6
      <3>2. ASSUME NEW n \in (lo + 1)..hi PROVE n \in Stamps(t)
        BY <2>4, <2>6
      <3> QED
        BY <3>1, <3>2
    <2>8. lo <= hi
      BY <2>2
    <2>9. Head(q).stamp = lo
      BY <1>1, <2>6
    <2>10. Carries(t, lo + 1, hi)
      BY <1>4, <2>7 DEF Carries
    <2> QED
      BY <1>7, <2>8, <2>9, <2>10 DEF t
  <1> QED
    BY <1>6, <1>7

-----------------------------------------------------------------------------
(***************************************************************************)
(* Nothing is lost: what a subscription owes.                              *)
(***************************************************************************)
\* What a subscription has not written yet: the event its writer waits with, then the queue.
HoldsState(s) == s.pc = "lock" /\ ~Droppable(Head(s.hand))
Owes(s, w, p) ==
    /\ w <= p
    /\ IF HoldsState(s) THEN Head(s.hand).stamp = w + 1 /\ w + 1 <= p /\ Carries(s.queue, w + 2, p)
                        ELSE Carries(s.queue, w + 1, p)
Lossless(d) ==
    \A f \in FamiliesOf(d) : Live(d, f) => Owes(sub[d][f], written[d][f], pub[f])

\* Publishing to a subscription that can take the event: one more is owed.
LEMMA QueueOwes ==
    ASSUME NEW s \in SubStates, NEW w \in Nat, NEW p \in Nat, Owes(s, w, p),
           NEW e \in Queueable, ~Overflows(s, e), ~Droppable(e) => e.stamp = p + 1
    PROVE  Owes(Queued(s, e), w, IF Droppable(e) THEN p ELSE p + 1)
  <1> DEFINE t == Queued(s, e)
             h == IF Droppable(e) THEN p ELSE p + 1
             lo == IF HoldsState(s) THEN w + 2 ELSE w + 1
  <1>1. /\ t.pc = s.pc /\ t.hand = s.hand
        /\ t.queue = IF ~Full(s) THEN Append(s.queue, e)
                     ELSE IF Droppable(e) \/ ~HasDroppable(s.queue) THEN s.queue
                     ELSE Append(Evicted(s.queue), e)
    BY QueuedType
  <1>2. HoldsState(t) <=> HoldsState(s)
    BY <1>1 DEF HoldsState
  <1>3. s.queue \in Seq(Queueable) /\ lo \in Nat /\ lo <= p + 1 /\ Carries(s.queue, lo, p)
    BY SubsDiffer DEF Owes
  <1> HIDE DEF lo, t
  <1>4. ASSUME NEW q \in Seq(Queueable), Carries(q, lo, p) PROVE Carries(Append(q, e), lo, h)
    <2>1. CASE Droppable(e)
      BY <1>4, <2>1, CarriesDisplay
    <2>2. CASE ~Droppable(e)
      BY <1>3, <1>4, <2>2, CarriesState
    <2> QED
      BY <2>1, <2>2
  <1>5. Carries(t.queue, lo, h)
    <2>1. CASE ~Full(s)
      BY <1>1, <1>3, <1>4, <2>1
    <2>2. CASE Full(s) /\ Droppable(e)
      BY <1>1, <1>3, <2>2
    <2>3. CASE Full(s) /\ ~Droppable(e)
      <3>1. HasDroppable(s.queue)
        BY <2>3 DEF Overflows
      <3>2. Evicted(s.queue) \in Seq(Queueable) /\ Carries(Evicted(s.queue), lo, p)
        BY <1>3, <3>1, EvictedFacts, CarriesEvicted
      <3> QED
        BY <1>1, <1>4, <2>3, <3>1, <3>2
    <2> QED
      BY <2>1, <2>2, <2>3
  <1>6. p <= h /\ h \in Nat
    OBVIOUS
  <1> HIDE DEF h
  <1> QED
    BY <1>1, <1>2, <1>5, <1>6 DEF Owes, lo, t, h

\* What a subscription owes is what it holds, in every step.
LEMMA LosslessStep ==
    ASSUME Base, [Next]_vars, NEW d \in Clients, Lossless(d)
    PROVE  Lossless(d)'
  <1> SUFFICES ASSUME NEW g \in FamiliesOf(d), sub'[d][g] # NoSub
               PROVE  Owes(sub'[d][g], written'[d][g], pub'[g])
    BY DEF Lossless, Live
  <1> DEFINE s == sub[d][g]
             w == written[d][g]
             p == pub[g]
             Goal == Owes(sub'[d][g], written'[d][g], pub'[g])
  <1> SUFFICES Goal
    OBVIOUS
  <1>1. w \in Nat /\ p \in Nat /\ g \in Families
    BY FamiliesFacts DEF Base, TypeInv, CountType, BusType
  <1>2. ASSUME s # NoSub PROVE Owes(s, w, p) /\ s \in SubStates
    BY <1>2, SubIs DEF Lossless, Live, Base, TypeInv
  <1>3. ASSUME sub'[d][g] = s, written'[d][g] = w, pub'[g] = p PROVE Goal
    BY <1>2, <1>3
  <1>4. CASE Untouched(d) /\ UNCHANGED pub
    BY <1>3, <1>4 DEF Untouched, Kept, Quiet
  <1>5. CASE Closed(d)
    BY <1>5 DEF Closed, CutOff
  <1>6. ASSUME NEW kind \in Events, NEW n \in Nat, Publish(kind, n), Reached(d, kind, n) PROVE Goal
    <2> DEFINE e == Arriving(kind, n, g)
    <2>1. written'[d][g] = w
      BY <1>6 DEF Reached, Quiet
    <2>2. pub' = [f \in Families |-> IF kind # "token" /\ Matches(kind, f) THEN pub[f] + 1 ELSE pub[f]]
      BY <1>6, PublishEffect DEF Base
    <2>3. CASE Live(d, g) /\ Matches(kind, g)
      <3>1. /\ s \in SubStates /\ sub'[d][g] = Queued(s, e) /\ ~Overflows(s, e) /\ s # NoSub
        BY <1>6, <2>3 DEF Reached, Served, Live
      <3>2. e \in Queueable /\ (Droppable(e) <=> kind = "token") /\ (kind # "token" => e.stamp = p + 1)
        BY <1>1, ArrivingType DEF Arriving, Droppable, Base, TypeInv
      <3>3. pub'[g] = IF Droppable(e) THEN p ELSE p + 1
        BY <1>1, <2>2, <2>3, <3>2
      <3>4. Owes(s, w, p)
        BY <1>2, <3>1
      <3> HIDE DEF e, s, w, p
      <3>5. Owes(Queued(s, e), w, IF Droppable(e) THEN p ELSE p + 1)
        BY <1>1, <3>1, <3>2, <3>4, QueueOwes
      <3> QED
        BY <2>1, <3>1, <3>3, <3>5
    <2>4. CASE ~(Live(d, g) /\ Matches(kind, g))
      <3>1. sub'[d][g] = s
        BY <1>6, <2>4 DEF Reached, Served
      <3>2. ~Matches(kind, g)
        BY <2>4, <3>1 DEF Live
      <3>3. pub'[g] = p
        BY <1>1, <2>2, <3>2
      <3> QED
        BY <1>3, <2>1, <3>1, <3>3
    <2> QED
      BY <2>3, <2>4
  <1>7. ASSUME NEW f \in FamiliesOf(d), WriterGet(d, f) PROVE Goal
    <2>1. /\ Becomes(d, f, "lock", sub[d][f].id, sub[d][f].ready, Tail(sub[d][f].queue), <<Head(sub[d][f].queue)>>)
          /\ OtherSubs(d, f) /\ pub' = pub /\ written' = written
          /\ sub[d][f].pc = "get" /\ sub[d][f].queue \in Seq(Queueable) /\ sub[d][f].queue # <<>>
      BY <1>7, GetFacts
    <2>2. CASE f = g
      <3> DEFINE e == Head(s.queue)
                 t == sub'[d][g]
      <3>1. /\ s \in SubStates /\ t.pc = "lock" /\ t.queue = Tail(s.queue) /\ t.hand = <<e>>
            /\ s.pc = "get" /\ s.queue \in Seq(Queueable) /\ s.queue # <<>>
        BY <2>1, <2>2 DEF Becomes
      <3>2. Owes(s, w, p) /\ ~HoldsState(s)
        BY <3>1, <1>2, SubsDiffer DEF HoldsState
      <3>3. w <= p /\ Carries(s.queue, w + 1, p)
        BY <3>2 DEF Owes
      <3>4. IF Droppable(e) THEN Carries(Tail(s.queue), w + 1, p)
            ELSE e.stamp = w + 1 /\ w + 1 <= p /\ Carries(Tail(s.queue), (w + 1) + 1, p)
        <4>1. s.queue \in Seq(Queueable) /\ s.queue # <<>> /\ Carries(s.queue, w + 1, p)
              /\ w + 1 \in Nat /\ p \in Nat
          BY <1>1, <3>1, <3>3
        <4> HIDE DEF s, w, p
        <4> QED
          BY <4>1, CarriesTail
      <3>5. Head(t.hand) = e /\ (w + 1) + 1 = w + 2
        BY <1>1, <3>1
      <3> HIDE DEF e, t
      <3>6. HoldsState(t) <=> ~Droppable(e)
        BY <3>1, <3>5 DEF HoldsState
      <3>7. Owes(t, w, p)
        BY <3>1, <3>3, <3>4, <3>5, <3>6 DEF Owes
      <3> QED
        BY <2>1, <3>7 DEF t
    <2>3. CASE f # g
      BY <1>3, <2>1, <2>3 DEF OtherSubs
    <2> QED
      BY <2>2, <2>3
  <1>8. ASSUME NEW f \in FamiliesOf(d), WriterWrite(d, f) PROVE Goal
    <2>1. /\ Becomes(d, f, "drain", sub[d][f].id, sub[d][f].ready, sub[d][f].queue, <<>>)
          /\ OtherSubs(d, f) /\ pub' = pub /\ sub[d][f].pc = "lock"
      BY <1>8, WriteFacts
    <2>2. PICK e \in Queueable :
                 /\ sub[d][f].hand = <<e>>
                 /\ written'[d][f] = IF Droppable(e) THEN written[d][f] ELSE e.stamp
                 /\ \A k \in FamiliesOf(d) : k # f => written'[d][k] = written[d][k]
      BY <1>8, WriteFacts
    <2>3. CASE f = g
      <3> DEFINE t == sub'[d][g]
      <3>1. /\ s \in SubStates /\ t.pc = "drain" /\ t.queue = s.queue /\ s.pc = "lock" /\ s.hand = <<e>>
            /\ written'[d][g] = IF Droppable(e) THEN w ELSE e.stamp
        BY <2>1, <2>2, <2>3 DEF Becomes
      <3>2. Owes(s, w, p) /\ Head(s.hand) = e
        BY <3>1, <1>2, SubsDiffer
      <3>3. HoldsState(s) <=> ~Droppable(e)
        BY <3>1, <3>2 DEF HoldsState
      <3>4. ~HoldsState(t)
        BY <3>1 DEF HoldsState
      <3>5. CASE Droppable(e)
        BY <2>1, <3>1, <3>2, <3>3, <3>4, <3>5 DEF Owes
      <3>6. CASE ~Droppable(e)
        <4>1. e.stamp = w + 1 /\ w + 1 <= p /\ Carries(s.queue, w + 2, p)
          BY <3>2, <3>3, <3>6 DEF Owes
        <4>2. written'[d][g] = w + 1 /\ (w + 1) + 1 = w + 2 /\ w + 1 \in Nat
          BY <1>1, <3>1, <3>6, <4>1
        <4> HIDE DEF t, s, w, p
        <4>3. Owes(t, w + 1, p)
          BY <3>1, <3>4, <4>1, <4>2 DEF Owes
        <4> QED
          BY <2>1, <4>2, <4>3 DEF t, p
      <3> QED
        BY <3>5, <3>6
    <2>4. CASE f # g
      BY <1>3, <2>1, <2>2, <2>4 DEF OtherSubs
    <2> QED
      BY <2>3, <2>4
  \* The state of the writer task or its barrier changes, and nothing it has to write.
  <1>9. ASSUME NEW f \in FamiliesOf(d), NEW pc, NEW id, NEW ready,
               Becomes(d, f, pc, id, ready, sub[d][f].queue, sub[d][f].hand),
               pc = sub[d][f].pc \/ (pc # "lock" /\ sub[d][f].pc # "lock"),
               OtherSubs(d, f), pub' = pub, written' = written
        PROVE  Goal
    <2>1. CASE f = g
      <3>1. /\ s \in SubStates /\ s # NoSub /\ sub'[d][g].queue = s.queue /\ sub'[d][g].hand = s.hand
            /\ sub'[d][g].pc = pc
        BY <1>9, <2>1, SubsDiffer DEF Becomes
      <3>2. HoldsState(sub'[d][g]) <=> HoldsState(s)
        BY <1>9, <2>1, <3>1 DEF HoldsState
      <3>3. Owes(s, w, p)
        BY <1>2, <3>1
      <3> QED
        BY <1>9, <3>1, <3>2, <3>3 DEF Owes
    <2>2. CASE f # g
      BY <1>3, <1>9, <2>2 DEF OtherSubs
    <2> QED
      BY <2>1, <2>2
  <1>10. ASSUME NEW f \in FamiliesOf(d), WriterDrained(d, f) PROVE Goal
    <2>1. /\ Becomes(d, f, "get", sub[d][f].id, sub[d][f].ready, sub[d][f].queue, <<>>)
          /\ OtherSubs(d, f) /\ pub' = pub /\ written' = written
          /\ sub[d][f].pc = "drain" /\ sub[d][f].hand = <<>>
      BY <1>10, DrainedFacts
    <2> QED
      BY <1>9, <2>1
  <1>11. ASSUME NEW r \in Requests, Subscribe(d, r) PROVE Goal
    <2> DEFINE f == request[d][r].family
    <2>1. /\ f \in FamiliesOf(d) /\ OtherSubs(d, f) /\ pub' = pub
          /\ sub'[d][f].pc = "get" /\ sub'[d][f].queue = <<>>
          /\ written'[d][f] = pub[f]
          /\ \A k \in FamiliesOf(d) : k # f => written'[d][k] = written[d][k]
      BY <1>11, SubscribeFacts
    <2>2. CASE f = g
      <3>1. Carries(<<>>, p + 1, p)
        BY <1>1, CarriesNothing
      <3>2. Owes(sub'[d][g], p, p)
        BY <1>1, <2>1, <2>2, <3>1 DEF Owes, HoldsState
      <3> QED
        BY <2>1, <2>2, <3>2
    <2>3. CASE f # g
      BY <1>3, <2>1, <2>3 DEF OtherSubs
    <2> QED
      BY <2>2, <2>3
  <1>12. ASSUME NEW r \in Requests, ReplayStep(d, r), request[d][r].todo = <<>> PROVE Goal
    <2> DEFINE q == request[d][r]
               f == q.family
    <2>1. /\ OtherSubs(d, f) /\ f \in FamiliesOf(d) /\ pub' = pub /\ written' = written
          /\ IF Live(d, f) /\ sub[d][f].id = q.id
             THEN Becomes(d, f, sub[d][f].pc, sub[d][f].id, TRUE, sub[d][f].queue, sub[d][f].hand)
             ELSE sub'[d][f] = sub[d][f]
      BY <1>12, ReplayEndFacts
    <2> HIDE DEF f, q
    <2>2. CASE Live(d, f) /\ sub[d][f].id = q.id
      <3>1. Becomes(d, f, sub[d][f].pc, sub[d][f].id, TRUE, sub[d][f].queue, sub[d][f].hand)
        BY <2>1, <2>2
      <3> QED
        BY <1>9, <2>1, <3>1
    <2>3. CASE ~(Live(d, f) /\ sub[d][f].id = q.id)
      BY <1>3, <2>1, <2>3 DEF OtherSubs
    <2> QED
      BY <2>2, <2>3
  <1>13. ASSUME sub' = sub, written' = written, pub' = pub PROVE Goal
    BY <1>3, <1>13
  <1>14. ASSUME NEW r \in Requests, ReplayStep(d, r), request[d][r].todo # <<>> PROVE Goal
    BY <1>13, <1>14, ReplayOnFacts
  <1>15. ASSUME NEW f \in FamiliesOf(d), NEW r \in Requests, SendSubscribe(d, f, r) PROVE Goal
    BY <1>13, <1>15, SendFacts
  <1>16. CASE Respond(d) \/ Connect(d) \/ Receive(d) \/ SeeClosed(d)
    BY <1>13, <1>16, RespondFacts, ConnectFacts, ReceiveFacts, SeeClosedFacts
  <1>17. CASE Drop(d)
    BY <1>17, DropFacts DEF CutOff
  <1>18. CASE ClientStep(d)
    BY <1>7, <1>8, <1>10, <1>11, <1>12, <1>14, <1>15, <1>16, <1>17, <1>18
    DEF ClientStep, Writer, Handler
  <1> QED
    BY <1>4, <1>5, <1>6, <1>18, Menu DEF Base

\* What the invariant says is what the property says, of the hand and the queue together.
LEMMA OwesIsDue ==
    ASSUME Base, NEW d \in Clients, NEW f \in FamiliesOf(d), Live(d, f), Lossless(d)
    PROVE  Carries(sub[d][f].hand \o sub[d][f].queue, written[d][f] + 1, pub[f])
  <1> DEFINE s == sub[d][f]
             w == written[d][f]
             p == pub[f]
  <1>1. w \in Nat /\ p \in Nat /\ s \in SubStates /\ Owes(s, w, p)
    BY FamiliesFacts, SubIs DEF Base, TypeInv, CountType, BusType, Lossless
  <1>2. s.queue \in Seq(Queueable)
    BY <1>1, SubsDiffer
  <1>3. IF s.pc = "lock" THEN \E e \in Queueable : s.hand = <<e>> ELSE s.hand = <<>>
    BY DEF Base, Holding
  <1> HIDE DEF s, w, p
  <1>4. CASE s.hand = <<>>
    <2>1. s.hand \o s.queue = s.queue
      BY <1>2, <1>4
    <2>2. s.pc # "lock"
      BY <1>3, <1>4
    <2> QED
      BY <1>1, <2>1, <2>2 DEF Owes, HoldsState, s, w, p
  <1>5. ASSUME NEW e \in Queueable, s.hand = <<e>>, s.pc = "lock"
        PROVE  Carries(s.hand \o s.queue, w + 1, p)
    <2> DEFINE a == <<e>> \o s.queue
               L == Len(s.queue)
    <2>1. /\ DOMAIN a = 1..(L + 1) /\ L \in Nat /\ DOMAIN s.queue = 1..L
          /\ a[1] = e /\ \A i \in 1..L : a[i + 1] = s.queue[i]
      BY <1>2
    <2>2. Head(s.hand) = e /\ s.hand \o s.queue = a
      BY <1>5
    <2>3. HoldsState(s) <=> ~Droppable(e)
      BY <1>5, <2>2 DEF HoldsState
    <2> HIDE DEF a
    <2>4. \A i \in States(s.queue) : i \in 1..L /\ i + 1 \in States(a) /\ a[i + 1] = s.queue[i]
      BY <2>1 DEF States
    <2>5. \A i \in States(a) : i \in 1..(L + 1) /\ (i # 1 => i - 1 \in States(s.queue) /\ a[i] = s.queue[i - 1])
      <3> SUFFICES ASSUME NEW i \in States(a)
                   PROVE  i \in 1..(L + 1) /\ (i # 1 => i - 1 \in States(s.queue) /\ a[i] = s.queue[i - 1])
        OBVIOUS
      <3>1. i \in 1..(L + 1) /\ ~Droppable(a[i])
        BY <2>1 DEF States
      <3>2. ASSUME i # 1 PROVE i - 1 \in 1..L /\ (i - 1) + 1 = i
        BY <2>1, <3>1, <3>2
      <3>3. ASSUME i # 1 PROVE a[i] = s.queue[i - 1]
        BY <2>1, <3>2, <3>3
      <3> QED
        BY <2>1, <3>1, <3>2, <3>3 DEF States
    <2>6. 1 \in States(a) <=> ~Droppable(e)
      BY <2>1 DEF States
    <2>7. CASE Droppable(e)
      <3>1. Carries(s.queue, w + 1, p)
        BY <1>1, <2>3, <2>7 DEF Owes
      <3>2. Stamps(a) \subseteq Stamps(s.queue)
        BY <2>5, <2>6, <2>7 DEF Stamps
      <3>3. Stamps(s.queue) \subseteq Stamps(a)
        BY <2>4 DEF Stamps
      <3>4. ASSUME NEW i \in States(a), NEW j \in States(a), i < j PROVE a[i].stamp < a[j].stamp
        <4>1. i # 1 /\ j # 1
          BY <2>6, <2>7, <3>4
        <4>2. i - 1 \in States(s.queue) /\ j - 1 \in States(s.queue) /\ i - 1 < j - 1
          BY <2>5, <3>4, <4>1
        <4> QED
          BY <2>5, <3>1, <4>1, <4>2 DEF Carries
      <3> QED
        BY <2>2, <3>1, <3>2, <3>3, <3>4 DEF Carries
    <2>8. CASE ~Droppable(e)
      <3>1. e.stamp = w + 1 /\ w + 1 <= p /\ Carries(s.queue, w + 2, p)
        BY <1>1, <2>2, <2>3, <2>8 DEF Owes
      <3>2. Stamps(s.queue) = (w + 2)..p
        BY <3>1 DEF Carries
      <3>3. ASSUME NEW i \in States(a) PROVE a[i].stamp \in {w + 1} \cup Stamps(s.queue)
        BY <2>1, <2>5, <3>1 DEF Stamps
      <3>4. Stamps(a) \subseteq {w + 1} \cup Stamps(s.queue)
        BY <3>3 DEF Stamps
      <3>5. w + 1 \in Stamps(a)
        BY <2>1, <2>6, <2>8, <3>1 DEF Stamps
      <3>6. Stamps(s.queue) \subseteq Stamps(a)
        BY <2>4 DEF Stamps
      <3>7. {w + 1} \cup (w + 2)..p = (w + 1)..p
        BY <1>1, <3>1
      <3>8. Stamps(a) = (w + 1)..p
        BY <3>2, <3>4, <3>5, <3>6, <3>7
      <3>9. ASSUME NEW i \in States(a), NEW j \in States(a), i < j PROVE a[i].stamp < a[j].stamp
        <4>1. i \in 1..(L + 1) /\ j \in 1..(L + 1) /\ j # 1
          BY <2>1, <2>5, <3>9
        <4>2. j - 1 \in States(s.queue) /\ a[j] = s.queue[j - 1]
          BY <2>5, <4>1
        <4>3. CASE i = 1
          <5>1. a[j].stamp \in (w + 2)..p
            BY <3>2, <4>2 DEF Stamps
          <5> QED
            BY <1>1, <2>1, <3>1, <4>3, <5>1
        <4>4. CASE i # 1
          <5>1. i - 1 \in States(s.queue) /\ a[i] = s.queue[i - 1] /\ i - 1 < j - 1
            BY <2>5, <3>9, <4>1, <4>4
          <5> QED
            BY <3>1, <4>2, <5>1 DEF Carries
        <4> QED
          BY <4>3, <4>4
      <3> QED
        BY <2>2, <3>8, <3>9 DEF Carries
    <2> QED
      BY <2>7, <2>8
  <1> QED
    BY <1>3, <1>4, <1>5 DEF s, w, p

-----------------------------------------------------------------------------
(***************************************************************************)
(* How many commands, and what they may leave in the transport.            *)
(***************************************************************************)
Sent(d, f) == {r \in Requests : request[d][r].pc = "sent" /\ request[d][r].family = f}

\* A client asks for the events of a run, or for all, once on a connection.
Single(d) ==
    \A f \in FamiliesOf(d) : f # "job" =>
        /\ subscribes[d][f] <= 1
        /\ Live(d, f) => Sent(d, f) = {}
        /\ Live(d, f) \/ Sent(d, f) # {} => subscribes[d][f] = 1
        /\ \A r, p \in Sent(d, f) : r = p

\* The commands a client has sent and the daemon has not begun.
LEMMA SentIs ==
    ASSUME TypeInv, NEW d \in Clients, NEW f \in FamiliesOf(d), NEW r
    PROVE  /\ r \in Sent(d, f) <=> r \in Requests /\ request[d][r].pc = "sent" /\ request[d][r].family = f
           /\ r \in Sent(d, f)' <=> r \in Requests /\ request'[d][r].pc = "sent" /\ request'[d][r].family = f
  BY DEF Sent

\* A step that asks for nothing can only answer.
LEMMA SentKept ==
    ASSUME NEW d, NEW f,
           \A r \in Requests : request'[d][r] = request[d][r]
                \/ (request[d][r].pc # "sent" /\ request'[d][r].pc # "sent")
    PROVE  Sent(d, f)' = Sent(d, f)
  BY DEF Sent

\* A run and the whole are subscribed to once on a connection.
LEMMA SingleStep ==
    ASSUME Base, [Next]_vars, NEW d \in Clients, Connected(d), Single(d)
    PROVE  Single(d)'
  <1> SUFFICES ASSUME NEW g \in FamiliesOf(d), g # "job"
               PROVE  /\ subscribes'[d][g] <= 1
                      /\ sub'[d][g] # NoSub => Sent(d, g)' = {}
                      /\ sub'[d][g] # NoSub \/ Sent(d, g)' # {} => subscribes'[d][g] = 1
                      /\ \A r, p \in Sent(d, g)' : r = p
    BY DEF Single, Live
  <1> DEFINE Goal == /\ subscribes'[d][g] <= 1
                     /\ sub'[d][g] # NoSub => Sent(d, g)' = {}
                     /\ sub'[d][g] # NoSub \/ Sent(d, g)' # {} => subscribes'[d][g] = 1
                     /\ \A r, p \in Sent(d, g)' : r = p
  <1> SUFFICES Goal
    OBVIOUS
  <1>1. /\ subscribes[d][g] <= 1 /\ subscribes[d][g] \in Nat
        /\ sub[d][g] # NoSub => Sent(d, g) = {}
        /\ sub[d][g] # NoSub \/ Sent(d, g) # {} => subscribes[d][g] = 1
        /\ \A r, p \in Sent(d, g) : r = p
    BY DEF Single, Live, Base, TypeInv, CountType
  <1>2. ASSUME (sub'[d][g] # NoSub => sub[d][g] # NoSub), Sent(d, g)' = Sent(d, g),
               subscribes'[d][g] = subscribes[d][g]
        PROVE  Goal
    BY <1>1, <1>2
  <1>3. ASSUME (sub'[d][g] # NoSub => sub[d][g] # NoSub), request'[d] = request[d],
               subscribes'[d][g] = subscribes[d][g]
        PROVE  Goal
    BY <1>2, <1>3, SentKept
  <1>4. ASSUME CutOff(d), subscribes'[d][g] = subscribes[d][g] PROVE Goal
    <2>1. Sent(d, g)' = {} /\ sub'[d][g] = NoSub
      BY <1>4, SubsDiffer DEF Sent, CutOff
    <2> QED
      BY <1>1, <1>4, <2>1
  <1> HIDE DEF Goal
  <1>5. CASE Untouched(d)
    BY <1>3, <1>5 DEF Untouched, Kept, Quiet
  <1>6. CASE Closed(d)
    BY <1>4, <1>6 DEF Closed, Quiet
  <1>7. ASSUME NEW kind \in Events, NEW n \in Nat, Reached(d, kind, n) PROVE Goal
    BY <1>3, <1>7 DEF Reached, Served, Quiet, Live
  <1>8. ASSUME NEW f \in FamiliesOf(d), Writer(d, f) PROVE Goal
    <2>1. /\ request' = request /\ OtherSubs(d, f) /\ sub[d][f] \in SubStates /\ SameClient(d)
      <3>1. CASE WriterGet(d, f)
        BY <3>1, GetFacts DEF Becomes
      <3>2. CASE WriterWrite(d, f)
        BY <3>2, WriteFacts DEF Becomes
      <3>3. CASE WriterDrained(d, f)
        BY <3>3, DrainedFacts DEF Becomes
      <3> QED
        BY <1>8, <3>1, <3>2, <3>3 DEF Writer
    <2> QED
      BY <1>3, <2>1, SubsDiffer DEF OtherSubs, SameClient
  <1>9. ASSUME NEW f \in FamiliesOf(d), NEW r \in Requests, SendSubscribe(d, f, r) PROVE Goal
    <2>1. /\ request[d][r] = Idle /\ request'[d][r] = Asked(d, f) /\ OtherRequests(d, r) /\ sub' = sub
          /\ subscribes'[d][f] = subscribes[d][f] + 1
          /\ \A k \in FamiliesOf(d) : k # f => subscribes'[d][k] = subscribes[d][k]
          /\ f # "job" => subscribes[d][f] < 1
      BY <1>9, SendFacts
    <2>2. Asked(d, f).pc = "sent" /\ Asked(d, f).family = f /\ request[d][r].pc # "sent"
      BY <2>1, SubsDiffer DEF Asked
    <2>3. \A p : p \in Sent(d, g)' <=> (p \in Sent(d, g) \/ (p = r /\ f = g))
      BY <2>1, <2>2 DEF Sent, OtherRequests
    <2>4. CASE f = g
      <3>1. subscribes[d][g] = 0 /\ subscribes'[d][g] = 1
        BY <1>1, <2>1, <2>4
      <3>2. Sent(d, g) = {} /\ sub[d][g] = NoSub
        BY <1>1, <3>1
      <3> QED
        BY <2>1, <2>3, <2>4, <3>1, <3>2 DEF Goal
    <2>5. CASE f # g
      <3>1. Sent(d, g)' = Sent(d, g)
        BY <2>3, <2>5
      <3> QED
        BY <1>2, <2>1, <2>5, <3>1
    <2> QED
      BY <2>4, <2>5
  <1>10. ASSUME NEW r \in Requests, Subscribe(d, r) PROVE Goal
    <2> DEFINE f == request[d][r].family
    <2>1. /\ request[d][r].pc = "sent" /\ OtherRequests(d, r) /\ OtherSubs(d, f) /\ f \in FamiliesOf(d)
          /\ SameClient(d)
          /\ f = "global" => request'[d][r] = Idle
          /\ f # "global" => request'[d][r].pc = "lock"
      BY <1>10, SubscribeFacts
    <2>2. request'[d][r].pc # "sent"
      BY <2>1, SubsDiffer
    <2>3. \A p : p \in Sent(d, g)' <=> (p \in Sent(d, g) /\ p # r)
      BY <2>1, <2>2 DEF Sent, OtherRequests
    <2>4. CASE f = g
      <3>1. r \in Sent(d, g)
        BY <2>1, <2>4 DEF Sent
      <3>2. subscribes[d][g] = 1 /\ Sent(d, g)' = {}
        BY <1>1, <2>3, <3>1
      <3> QED
        BY <2>1, <3>2 DEF SameClient, Goal
    <2>5. CASE f # g
      <3>1. Sent(d, g)' = Sent(d, g)
        <4>1. r \notin Sent(d, g)
          BY <2>5 DEF Sent
        <4> QED
          BY <2>3, <4>1
      <3> QED
        BY <1>2, <2>1, <2>5, <3>1 DEF OtherSubs, SameClient
    <2> QED
      BY <2>4, <2>5
  <1>11. ASSUME NEW r \in Requests, ReplayStep(d, r) PROVE Goal
    <2> DEFINE q == request[d][r]
               f == q.family
    <2>1. CASE q.todo = <<>>
      <3>1. /\ OtherRequests(d, r) /\ OtherSubs(d, f) /\ SameClient(d) /\ q.pc \in {"lock", "drain"}
            /\ request'[d][r] = Idle
            /\ IF Live(d, f) /\ sub[d][f].id = q.id
               THEN Becomes(d, f, sub[d][f].pc, sub[d][f].id, TRUE, sub[d][f].queue, sub[d][f].hand)
               ELSE sub'[d][f] = sub[d][f]
        BY <1>11, <2>1, ReplayEndFacts
      <3>2. Sent(d, g)' = Sent(d, g)
        BY <3>1, SubsDiffer, SentKept DEF OtherRequests
      <3>3. sub'[d][g] # NoSub => sub[d][g] # NoSub
        BY <3>1 DEF OtherSubs, Live
      <3> QED
        BY <1>2, <3>1, <3>2, <3>3 DEF SameClient
    <2>2. CASE q.todo # <<>>
      <3>1. /\ OtherRequests(d, r) /\ sub' = sub /\ SameClient(d) /\ q.pc \in {"lock", "drain"}
            /\ request'[d][r].pc = "drain"
        BY <1>11, <2>2, ReplayOnFacts
      <3>2. Sent(d, g)' = Sent(d, g)
        BY <3>1, SentKept DEF OtherRequests
      <3> QED
        BY <1>2, <3>1, <3>2 DEF SameClient
    <2> QED
      BY <2>1, <2>2
  <1>12. CASE Connect(d)
    <2>1. conn[d] = "none" /\ subscribes'[d][g] = 0 /\ sub' = sub /\ request' = request
      BY <1>12, ConnectFacts
    <2>2. sub[d][g] = NoSub /\ \A r \in Requests : request[d][r] = Idle
      BY <2>1 DEF Connected, Live, Away
    <2>3. Sent(d, g)' = {}
      BY <2>1, <2>2, SubsDiffer DEF Sent
    <2> QED
      BY <2>1, <2>2, <2>3 DEF Goal
  <1>13. CASE Respond(d) \/ Receive(d) \/ SeeClosed(d)
    BY <1>3, <1>13, RespondFacts, ReceiveFacts, SeeClosedFacts DEF SameClient
  <1>14. CASE Drop(d)
    BY <1>4, <1>14, DropFacts DEF SameClient
  <1>15. CASE ClientStep(d)
    BY <1>8, <1>9, <1>10, <1>11, <1>12, <1>13, <1>14, <1>15 DEF ClientStep, Handler
  <1> QED
    BY <1>5, <1>6, <1>7, <1>15, Menu DEF Base

\* The commands of a terminal for its job that the daemon has begun.
Begun(d) == subscribes[d]["job"] - Cardinality(Sent(d, "job"))
Counted(d) ==
    d \in Terminals => /\ IsFiniteSet(Sent(d, "job")) /\ Begun(d) \in Nat
                       /\ Live(d, "job") => Begun(d) >= 1

\* The subscriptions of this connection that replaced another one.
Extra(d) == IF d \in Terminals /\ Begun(d) > 1 THEN Begun(d) - 1 ELSE 0

\* What is in the transport beside the responses of this connection.
Pushed(d) == Len(wire[d]) - answered[d]

Bounded(d) ==
    /\ conn[d] = "open" => Pushed(d) <= HighWater + (IF LockFree(d) THEN 0 ELSE 1) + Extra(d)
    /\ Pushed(d) <= HighWater + 1 + Replacements(d)

\* A response does not count, a frame of a subscription does.
LEMMA PushedIs ==
    ASSUME Base, Base', NEW d \in Clients
    PROVE  /\ HighWater \in Nat /\ Pushed(d) \in Int /\ Pushed(d)' \in Int
           /\ Len(wire[d]) <= HighWater => Pushed(d) <= HighWater
           /\ SameWire(d) \/ AnsweredOn(d) => Pushed(d)' = Pushed(d)
           /\ wire'[d] = <<>> => Pushed(d)' <= 0
           /\ wire[d] # <<>> /\ wire'[d] = Tail(wire[d]) /\ answered'[d] = answered[d] =>
                 Pushed(d)' <= Pushed(d)
           /\ \A e : wire'[d] = Append(wire[d], e) /\ answered'[d] = answered[d] =>
                 Pushed(d)' = Pushed(d) + 1
  <1>1. /\ wire[d] \in Seq(Frames) /\ wire'[d] \in Seq(Frames)
        /\ answered[d] \in Nat /\ answered'[d] \in Nat
    BY DEF Base, TypeInv, ClientType
  <1>2. HighWater \in Nat /\ Len(wire[d]) \in Nat /\ Len(wire'[d]) \in Nat
    BY <1>1, DeliveryAssumption
  <1>3. \A e : Len(Append(wire[d], e)) = Len(wire[d]) + 1
    BY <1>1
  <1>4. wire[d] # <<>> => Len(Tail(wire[d])) <= Len(wire[d])
    BY <1>1, TailFacts
  <1>5. wire'[d] = <<>> => Len(wire'[d]) = 0
    OBVIOUS
  <1>6. SameWire(d) \/ AnsweredOn(d) => Pushed(d)' = Pushed(d)
    <2>1. CASE SameWire(d)
      BY <2>1 DEF SameWire, Pushed
    <2>2. CASE AnsweredOn(d)
      <3>1. Len(wire'[d]) = Len(wire[d]) + 1 /\ answered'[d] = answered[d] + 1
        BY <1>3, <2>2 DEF AnsweredOn
      <3> QED
        BY <1>1, <1>2, <3>1 DEF Pushed
    <2> QED
      BY <2>1, <2>2
  <1>7. \A e : wire'[d] = Append(wire[d], e) /\ answered'[d] = answered[d] =>
               Pushed(d)' = Pushed(d) + 1
    BY <1>1, <1>2, <1>3 DEF Pushed
  <1>8. /\ Pushed(d) \in Int /\ Pushed(d)' \in Int
        /\ Len(wire[d]) <= HighWater => Pushed(d) <= HighWater
        /\ Len(wire'[d]) = 0 => Pushed(d)' <= 0
        /\ Len(wire'[d]) <= Len(wire[d]) /\ answered'[d] = answered[d] => Pushed(d)' <= Pushed(d)
    BY <1>1, <1>2 DEF Pushed
  <1> QED
    BY <1>2, <1>4, <1>5, <1>6, <1>7, <1>8

\* How the count of a terminal goes on: it never falls but on a new connection.
LEMMA CountedStep ==
    ASSUME Base, [Next]_vars, NEW d \in Terminals, Connected(d), Counted(d)
    PROVE  /\ Counted(d)'
           /\ ~Connect(d) => Begun(d)' >= Begun(d)
           /\ \A r \in Requests : Subscribe(d, r) /\ request[d][r].family = "job" =>
                 Begun(d)' = Begun(d) + 1
           /\ subscribes'[d]["job"] >= Begun(d)'
  <1> DEFINE S == Sent(d, "job")
             n == subscribes[d]["job"]
             nn == subscribes'[d]["job"]
             Grows == /\ IsFiniteSet(S') /\ nn - Cardinality(S') \in Nat
                      /\ sub'[d]["job"] # NoSub => nn - Cardinality(S') >= 1
                      /\ nn >= nn - Cardinality(S')
             More == nn - Cardinality(S') >= n - Cardinality(S)
             Counts == \A r \in Requests : Subscribe(d, r) /\ request[d][r].family = "job" =>
                          nn - Cardinality(S') = n - Cardinality(S) + 1
  <1>0. d \in Clients /\ "job" \in FamiliesOf(d)
    BY FamiliesFacts
  <1>1. /\ IsFiniteSet(S) /\ Cardinality(S) \in Nat /\ n \in Nat /\ n - Cardinality(S) \in Nat
        /\ sub[d]["job"] # NoSub => n - Cardinality(S) >= 1
    BY <1>0, FS_CardinalityType DEF Counted, Begun, Live, Base, TypeInv, CountType
  <1> SUFFICES Grows /\ (~Connect(d) => More) /\ Counts
    BY DEF Counted, Begun, Live
  <1> DEFINE Goal == Grows /\ (~Connect(d) => More) /\ Counts
  <1>2. ASSUME sub'[d]["job"] # NoSub => sub[d]["job"] # NoSub, S' = S, nn = n, Counts PROVE Goal
    BY <1>1, <1>2
  <1>3. ASSUME request'[d] = request[d] PROVE S' = S /\ Counts
    <2>1. S' = S
      BY <1>3, SentKept
    <2>2. ASSUME NEW r \in Requests PROVE ~Subscribe(d, r)
      <3>1. ASSUME Subscribe(d, r) PROVE FALSE
        <4>1. request[d][r].pc = "sent" /\ request'[d][r].pc # "sent"
          BY <1>0, <3>1, SubscribeFacts, SubsDiffer
        <4> QED
          BY <1>3, <4>1
      <3> QED
        BY <3>1
    <2> QED
      BY <2>1, <2>2
  <1>4. ASSUME sub'[d]["job"] # NoSub => sub[d]["job"] # NoSub, request'[d] = request[d], nn = n PROVE Goal
    BY <1>2, <1>3, <1>4
  <1>5. ASSUME \A r \in Requests : request'[d][r].pc # "sent", sub'[d]["job"] = NoSub, nn = n,
               \A r \in Requests : Subscribe(d, r) => FALSE
        PROVE  Goal
    <2>1. S' = {}
      BY <1>5 DEF Sent
    <2>2. IsFiniteSet(S') /\ Cardinality(S') = 0
      BY <2>1, FS_EmptySet
    <2> QED
      BY <1>1, <1>5, <2>2
  <1>6. ASSUME CutOff(d), nn = n PROVE Goal
    <2>1. \A r \in Requests : request'[d][r].pc # "sent"
      BY <1>6, SubsDiffer DEF CutOff
    <2>2. sub'[d]["job"] = NoSub
      BY <1>0, <1>6 DEF CutOff
    <2>3. ASSUME NEW r \in Requests, Subscribe(d, r) PROVE FALSE
      <3>1. sub'[d][request[d][r].family] \in SubStates /\ request[d][r].family \in FamiliesOf(d)
        BY <1>0, <2>3, SubscribeFacts
      <3> QED
        BY <1>6, <3>1, SubsDiffer DEF CutOff
    <2> QED
      BY <1>5, <1>6, <2>1, <2>2, <2>3
  <1> SUFFICES Goal
    OBVIOUS
  <1> HIDE DEF Goal
  <1>7. CASE Untouched(d)
    BY <1>4, <1>7 DEF Untouched, Kept, Quiet
  <1>8. CASE Closed(d)
    BY <1>6, <1>8 DEF Closed, Quiet
  <1>9. ASSUME NEW kind \in Events, NEW k \in Nat, Reached(d, kind, k) PROVE Goal
    BY <1>0, <1>4, <1>9 DEF Reached, Served, Quiet, Live
  <1>10. ASSUME NEW f \in FamiliesOf(d), Writer(d, f) PROVE Goal
    <2>1. /\ request' = request /\ OtherSubs(d, f) /\ sub[d][f] \in SubStates /\ SameClient(d)
      <3>1. CASE WriterGet(d, f)
        BY <1>0, <3>1, GetFacts DEF Becomes
      <3>2. CASE WriterWrite(d, f)
        BY <1>0, <3>2, WriteFacts DEF Becomes
      <3>3. CASE WriterDrained(d, f)
        BY <1>0, <3>3, DrainedFacts DEF Becomes
      <3> QED
        BY <1>10, <3>1, <3>2, <3>3 DEF Writer
    <2> QED
      BY <1>0, <1>4, <2>1, SubsDiffer DEF OtherSubs, SameClient
  <1>11. ASSUME NEW f \in FamiliesOf(d), NEW r \in Requests, SendSubscribe(d, f, r) PROVE Goal
    <2>1. /\ request[d][r] = Idle /\ request'[d][r] = Asked(d, f) /\ OtherRequests(d, r) /\ sub' = sub
          /\ subscribes'[d][f] = subscribes[d][f] + 1
          /\ \A k \in FamiliesOf(d) : k # f => subscribes'[d][k] = subscribes[d][k]
          /\ issued' = issued
      BY <1>0, <1>11, SendFacts
    <2>2. Asked(d, f).pc = "sent" /\ Asked(d, f).family = f /\ request[d][r].pc # "sent"
      BY <2>1, SubsDiffer DEF Asked
    <2>3. \A p : p \in S' <=> (p \in S \/ (p = r /\ f = "job"))
      BY <2>1, <2>2 DEF Sent, OtherRequests
    <2>4. Counts
      <3>1. ASSUME NEW p \in Requests, Subscribe(d, p) PROVE FALSE
        <4>1. issued' = issued + 1 /\ issued \in Nat
          BY <1>0, <3>1, SubscribeFacts DEF Base, TypeInv, BusType
        <4> QED
          BY <2>1, <4>1
      <3> QED
        BY <3>1
    <2>5. CASE f = "job"
      <3>1. S' = S \cup {r} /\ r \notin S
        BY <2>2, <2>3, <2>5 DEF Sent
      <3>2. IsFiniteSet(S') /\ Cardinality(S') = Cardinality(S) + 1
        BY <1>1, <3>1, FS_AddElement
      <3>3. nn = n + 1
        BY <2>1, <2>5
      <3> HIDE DEF S, n, nn
      <3>4. /\ nn - Cardinality(S') \in Nat /\ nn - Cardinality(S') = n - Cardinality(S)
            /\ nn >= nn - Cardinality(S')
        BY <1>1, <3>2, <3>3
      <3> QED
        BY <1>1, <2>1, <2>4, <3>2, <3>4 DEF Goal
    <2>6. CASE f # "job"
      <3>1. S' = S
        BY <2>3, <2>6
      <3> QED
        BY <1>0, <1>2, <2>1, <2>4, <2>6, <3>1
    <2> QED
      BY <2>5, <2>6
  <1>12. ASSUME NEW r \in Requests, Subscribe(d, r) PROVE Goal
    <2> DEFINE f == request[d][r].family
    <2>1. /\ request[d][r].pc = "sent" /\ OtherRequests(d, r) /\ OtherSubs(d, f) /\ f \in FamiliesOf(d)
          /\ SameClient(d) /\ request'[d][r].pc # "sent"
      BY <1>0, <1>12, SubscribeFacts, SubsDiffer
    <2>2. \A p : p \in S' <=> (p \in S /\ p # r)
      BY <2>1 DEF Sent, OtherRequests
    <2>3. nn = n
      BY <2>1 DEF SameClient
    <2>4. ASSUME NEW p \in Requests, Subscribe(d, p) PROVE p = r
      <3>1. request[d][p].pc = "sent" /\ request'[d][p].pc # "sent"
        BY <1>0, <2>4, SubscribeFacts, SubsDiffer
      <3> QED
        BY <2>1, <3>1 DEF OtherRequests
    <2>5. CASE f = "job"
      <3>1. S' = S \ {r} /\ r \in S
        BY <2>1, <2>2, <2>5 DEF Sent
      <3>2. IsFiniteSet(S') /\ Cardinality(S') = Cardinality(S) - 1
        BY <1>1, <3>1, FS_RemoveElement
      <3>3. Cardinality(S') \in Nat
        BY <3>2, FS_CardinalityType
      <3> HIDE DEF S, n, nn
      <3>4. /\ nn - Cardinality(S') \in Nat /\ nn - Cardinality(S') = n - Cardinality(S) + 1
            /\ nn >= nn - Cardinality(S') /\ nn - Cardinality(S') >= 1
            /\ nn - Cardinality(S') >= n - Cardinality(S)
        BY <1>1, <2>3, <3>2, <3>3
      <3> QED
        BY <3>2, <3>4 DEF Goal
    <2>6. CASE f # "job"
      <3>1. S' = S
        <4>1. r \notin S
          BY <2>6 DEF Sent
        <4> QED
          BY <2>2, <4>1
      <3>2. Counts
        BY <2>4, <2>6
      <3> QED
        BY <1>0, <1>2, <2>1, <2>3, <2>6, <3>1, <3>2 DEF OtherSubs
    <2> QED
      BY <2>5, <2>6
  <1>13. ASSUME NEW r \in Requests, ReplayStep(d, r) PROVE Goal
    <2> DEFINE q == request[d][r]
               f == q.family
    <2>1. issued' = issued /\ SameClient(d)
      BY <1>13 DEF ReplayStep, SameClient, clientVars
    <2>2. Counts
      <3>1. ASSUME NEW p \in Requests, Subscribe(d, p) PROVE FALSE
        <4>1. issued' = issued + 1 /\ issued \in Nat
          BY <1>0, <3>1, SubscribeFacts DEF Base, TypeInv, BusType
        <4> QED
          BY <2>1, <4>1
      <3> QED
        BY <3>1
    <2>3. CASE q.todo = <<>>
      <3>1. /\ OtherRequests(d, r) /\ OtherSubs(d, f) /\ q.pc \in {"lock", "drain"}
            /\ request'[d][r] = Idle
            /\ IF Live(d, f) /\ sub[d][f].id = q.id
               THEN Becomes(d, f, sub[d][f].pc, sub[d][f].id, TRUE, sub[d][f].queue, sub[d][f].hand)
               ELSE sub'[d][f] = sub[d][f]
        BY <1>0, <1>13, <2>3, ReplayEndFacts
      <3>2. S' = S
        BY <3>1, SubsDiffer, SentKept DEF OtherRequests
      <3>3. sub'[d]["job"] # NoSub => sub[d]["job"] # NoSub
        BY <1>0, <3>1 DEF OtherSubs, Live
      <3> QED
        BY <1>2, <2>1, <2>2, <3>2, <3>3 DEF SameClient
    <2>4. CASE q.todo # <<>>
      <3>1. /\ OtherRequests(d, r) /\ sub' = sub /\ q.pc \in {"lock", "drain"}
            /\ request'[d][r].pc = "drain"
        BY <1>0, <1>13, <2>4, ReplayOnFacts
      <3>2. S' = S
        BY <3>1, SentKept DEF OtherRequests
      <3> QED
        BY <1>2, <2>1, <2>2, <3>1, <3>2 DEF SameClient
    <2> QED
      BY <2>3, <2>4
  <1>14. CASE Connect(d)
    <2>1. conn[d] = "none" /\ nn = 0 /\ sub' = sub /\ request' = request
      BY <1>0, <1>14, ConnectFacts
    <2>2. sub[d]["job"] = NoSub /\ \A r \in Requests : request[d][r] = Idle
      BY <1>0, <2>1 DEF Connected, Live, Away
    <2>3. S' = {}
      BY <2>1, <2>2, SubsDiffer DEF Sent
    <2>4. IsFiniteSet(S') /\ Cardinality(S') = 0
      BY <2>3, FS_EmptySet
    <2>5. Counts
      BY <1>3, <2>1
    <2> QED
      BY <1>14, <2>1, <2>2, <2>4, <2>5 DEF Goal
  <1>15. CASE Respond(d) \/ Receive(d) \/ SeeClosed(d)
    BY <1>0, <1>4, <1>15, RespondFacts, ReceiveFacts, SeeClosedFacts DEF SameClient
  <1>16. CASE Drop(d)
    BY <1>0, <1>6, <1>16, DropFacts DEF SameClient
  <1>17. CASE ClientStep(d)
    BY <1>10, <1>11, <1>12, <1>13, <1>14, <1>15, <1>16, <1>17 DEF ClientStep, Handler
  <1> QED
    BY <1>0, <1>7, <1>8, <1>9, <1>17, Menu DEF Base

\* The frames in the transport stay within the bound.
LEMMA BoundedStep ==
    ASSUME Base, [Next]_vars, NEW d \in Clients, Connected(d), Single(d), Counted(d), Bounded(d)
    PROVE  Bounded(d)'
  <1> DEFINE L == Pushed(d)
             M == Pushed(d)'
             lag == IF LockFree(d) THEN 0 ELSE 1
             lagThen == IF LockFree(d)' THEN 0 ELSE 1
             x == Extra(d)
             y == Extra(d)'
             most == Replacements(d)
             mostThen == Replacements(d)'
             Low == M <= HighWater + lagThen + y
             High == M <= HighWater + 1 + mostThen
  <1>0. /\ HighWater \in Nat /\ L \in Int /\ M \in Int
        /\ Len(wire[d]) <= HighWater => L <= HighWater
        /\ SameWire(d) \/ AnsweredOn(d) => M = L
        /\ wire'[d] = <<>> => M <= 0
        /\ wire[d] # <<>> /\ wire'[d] = Tail(wire[d]) /\ answered'[d] = answered[d] => M <= L
        /\ \A e : wire'[d] = Append(wire[d], e) /\ answered'[d] = answered[d] => M = L + 1
    BY BaseStep, PushedIs
  <1>1. /\ conn[d] = "open" => L <= HighWater + lag + x
        /\ L <= HighWater + 1 + most
    BY DEF Bounded
  <1>2. /\ x \in Nat /\ y \in Nat /\ most \in Nat /\ mostThen \in Nat /\ y <= mostThen
        /\ subscribes'[d] = subscribes[d] => mostThen = most
        /\ ~Connect(d) => x <= y
    <2>1. CASE d \in Terminals
      <3>1. subscribes[d]["job"] \in Nat /\ subscribes'[d]["job"] \in Nat
        <4>1. Base' /\ "job" \in FamiliesOf(d)
          BY <2>1, BaseStep, FamiliesFacts
        <4> QED
          BY <4>1 DEF Base, TypeInv, CountType
      <3>2. /\ Begun(d) \in Nat /\ Begun(d)' \in Nat
            /\ ~Connect(d) => Begun(d)' >= Begun(d)
            /\ subscribes'[d]["job"] >= Begun(d)'
        BY <2>1, CountedStep DEF Counted
      <3> QED
        BY <2>1, <3>1, <3>2 DEF Extra, Replacements
    <2>2. CASE d \notin Terminals
      BY <2>2 DEF Extra, Replacements
    <2> QED
      BY <2>1, <2>2
  <1> SUFFICES (conn'[d] = "open" => Low) /\ High
    BY DEF Bounded
  <1>3. LockFree(d)' <=> /\ \A f \in FamiliesOf(d) : sub'[d][f].pc # "drain"
                         /\ \A r \in Requests : request'[d][r].pc # "drain"
    BY DEF LockFree
  <1> DEFINE Goal == (conn'[d] = "open" => Low) /\ High
  <1> HIDE DEF L, M, lag, lagThen, x, y, most, mostThen
  <1>20. lag \in {0, 1} /\ lagThen \in {0, 1}
    BY DEF lag, lagThen
  \* What is in the buffer of an open connection is also bounded by the commands.
  <1>4. ASSUME Low PROVE Goal
    BY <1>0, <1>2, <1>4, <1>20
  <1>5. ASSUME conn'[d] # "open", M <= L, subscribes'[d] = subscribes[d] PROVE Goal
    BY <1>0, <1>1, <1>2, <1>5
  <1>6. ASSUME M <= 0 PROVE Goal
    BY <1>0, <1>2, <1>6, <1>20
  <1>7. ASSUME M <= L, LockFree(d)' => LockFree(d), subscribes'[d] = subscribes[d],
               conn'[d] = conn[d], ~Connect(d)
        PROVE  Goal
    <2>1. CASE conn[d] = "open"
      <3>1. lag <= lagThen
        BY <1>7 DEF lag, lagThen
      <3>2. Low
        BY <1>0, <1>1, <1>2, <1>7, <1>20, <2>1, <3>1
      <3> QED
        BY <1>4, <3>2
    <2>2. CASE conn[d] # "open"
      BY <1>5, <1>7, <2>2
    <2> QED
      BY <2>1, <2>2
  <1>8. ASSUME LockFree(d)' <=> LockFree(d), SameWire(d) \/ AnsweredOn(d),
               subscribes'[d] = subscribes[d], conn'[d] = conn[d]
        PROVE  Goal
    <2>1. M = L
      BY <1>0, <1>8
    <2>2. ~Connect(d)
      BY <1>8, ConnectFacts
    <2> QED
      BY <1>0, <1>7, <1>8, <2>1, <2>2
  <1>9. ASSUME SameWire(d) \/ AnsweredOn(d), L <= HighWater PROVE Goal
    <2>1. M = L
      BY <1>0, <1>9
    <2>2. Low
      BY <1>0, <1>2, <1>9, <1>20, <2>1
    <2> QED
      BY <1>4, <2>2
  \* A frame is written by whoever takes the lock, or has drained the last one.
  <1>10. ASSUME NEW e, wire'[d] = Append(wire[d], e), answered'[d] = answered[d],
                ~LockFree(d)', conn[d] = "open", LockFree(d) \/ L <= HighWater, ~Connect(d)
         PROVE  Goal
    <2>1. M = L + 1
      BY <1>0, <1>10
    <2>2. lagThen = 1
      BY <1>10 DEF lagThen
    <2>3. LockFree(d) => lag = 0
      BY DEF lag
    <2>4. Low
      BY <1>0, <1>1, <1>2, <1>10, <2>1, <2>2, <2>3
    <2> QED
      BY <1>4, <2>4
  <1> SUFFICES Goal
    OBVIOUS
  <1> HIDE DEF Goal
  <1>11. CASE Untouched(d)
    <2>1. LockFree(d)' <=> LockFree(d)
      BY <1>3, <1>11 DEF Untouched, Kept, LockFree
    <2> QED
      BY <1>8, <1>11, <2>1 DEF Untouched, Quiet, SameWire
  <1>12. CASE Closed(d)
    <2>1. SameWire(d) /\ conn'[d] # "open" /\ subscribes'[d] = subscribes[d]
      BY <1>12 DEF Closed, Quiet, SameWire
    <2>2. M = L
      BY <1>0, <2>1
    <2> QED
      BY <1>0, <1>5, <2>1, <2>2
  <1>13. ASSUME NEW kind \in Events, NEW n \in Nat, Reached(d, kind, n) PROVE Goal
    <2>1. \A f \in FamiliesOf(d) : sub'[d][f].pc = sub[d][f].pc
      <3> SUFFICES ASSUME NEW f \in FamiliesOf(d) PROVE sub'[d][f].pc = sub[d][f].pc
        OBVIOUS
      <3>1. CASE Live(d, f) /\ Matches(kind, f)
        <4>1. /\ sub[d][f] \in SubStates /\ sub'[d][f] = Queued(sub[d][f], Arriving(kind, n, f))
              /\ Arriving(kind, n, f) \in Queueable
          BY <1>13, <3>1, ArrivingType, FamiliesFacts DEF Reached, Served, Base, TypeInv
        <4> QED
          BY <4>1, QueuedType
      <3>2. CASE ~(Live(d, f) /\ Matches(kind, f))
        BY <1>13, <3>2 DEF Reached, Served
      <3> QED
        BY <3>1, <3>2
    <2>2. LockFree(d)' <=> LockFree(d)
      BY <1>3, <1>13, <2>1 DEF Reached, Served, LockFree
    <2> QED
      BY <1>8, <1>13, <2>2 DEF Reached, Quiet, SameWire
  <1>14. ASSUME NEW f \in FamiliesOf(d), WriterGet(d, f) PROVE Goal
    <2>1. /\ sub[d][f].pc = "get" /\ sub'[d][f].pc = "lock" /\ OtherSubs(d, f) /\ request' = request
          /\ conn' = conn /\ SameWire(d) /\ SameClient(d)
      BY <1>14, GetFacts DEF Becomes
    <2>2. LockFree(d)' <=> LockFree(d)
      BY <1>3, <2>1 DEF LockFree, OtherSubs
    <2> QED
      BY <1>8, <2>1, <2>2 DEF SameClient
  <1>15. ASSUME NEW f \in FamiliesOf(d), WriterWrite(d, f) PROVE Goal
    <2>1. /\ sub'[d][f].pc = "drain" /\ LockFree(d) /\ sub[d][f] \in SubStates /\ conn' = conn
          /\ \E e \in Queueable : wire'[d] = Append(wire[d], Frame(e.kind, e.n))
          /\ answered'[d] = answered[d]
      BY <1>15, WriteFacts DEF Becomes
    <2>2. conn[d] = "open"
      BY <2>1, SubsDiffer DEF Connected, Live
    <2>3. ~LockFree(d)'
      BY <1>3, <2>1
    <2>4. ~Connect(d)
      BY <2>2, ConnectFacts
    <2> QED
      BY <1>10, <2>1, <2>2, <2>3, <2>4
  <1>16. ASSUME NEW f \in FamiliesOf(d), WriterDrained(d, f) PROVE Goal
    BY <1>0, <1>9, <1>16, DrainedFacts
  <1>17. ASSUME NEW f \in FamiliesOf(d), NEW r \in Requests, SendSubscribe(d, f, r) PROVE Goal
    <2>1. /\ request[d][r] = Idle /\ request'[d][r].pc = "sent" /\ OtherRequests(d, r) /\ sub' = sub
          /\ conn' = conn /\ SameWire(d) /\ conn[d] = "open"
      BY <1>17, SendFacts, SubsDiffer
    <2>2. LockFree(d)' <=> LockFree(d)
      BY <1>3, <2>1, SubsDiffer DEF LockFree, OtherRequests
    <2>3. M = L /\ lag = lagThen /\ ~Connect(d)
      BY <1>0, <2>1, <2>2, ConnectFacts DEF lag, lagThen
    <2>4. Low
      BY <1>0, <1>1, <1>2, <1>20, <2>1, <2>3
    <2> QED
      BY <1>4, <2>4
  <1>18. ASSUME NEW r \in Requests, Subscribe(d, r) PROVE Goal
    <2> DEFINE f == request[d][r].family
    <2>1. /\ request[d][r].pc = "sent" /\ OtherRequests(d, r) /\ OtherSubs(d, f) /\ f \in FamiliesOf(d)
          /\ sub'[d][f].pc = "get" /\ conn' = conn /\ SameClient(d)
          /\ SameWire(d) \/ AnsweredOn(d)
      BY <1>18, SubscribeFacts
    <2>2. conn[d] = "open"
      BY <2>1, SubsDiffer DEF Connected
    <2>3. M = L /\ ~Connect(d)
      BY <1>0, <2>1, <2>2, ConnectFacts
    <2>4. ASSUME ~Live(d, f) PROVE Goal
      <3>1. LockFree(d)' => LockFree(d)
        BY <1>3, <2>1, <2>4, SubsDiffer DEF LockFree, OtherSubs, OtherRequests, Live
      <3> QED
        BY <1>0, <1>7, <2>1, <2>3, <3>1 DEF SameClient
    <2>5. CASE f = "job" /\ Live(d, f)
      <3>1. d \in Terminals
        BY <2>1, <2>5, FamiliesFacts
      <3>2. Begun(d)' = Begun(d) + 1 /\ Begun(d) \in Nat /\ Begun(d) >= 1
        BY <1>18, <2>5, <3>1, CountedStep DEF Counted
      <3>3. y = x + 1
        BY <3>1, <3>2 DEF Extra, x, y
      <3>4. Low
        BY <1>0, <1>1, <1>2, <1>20, <2>2, <2>3, <3>3
      <3> QED
        BY <1>4, <3>4
    <2>6. CASE f # "job"
      <3>1. r \in Sent(d, f)
        BY <2>1 DEF Sent
      <3>2. ~Live(d, f)
        BY <2>1, <2>6, <3>1 DEF Single
      <3> QED
        BY <2>4, <3>2
    <2> QED
      BY <2>4, <2>5, <2>6
  <1>19. ASSUME NEW r \in Requests, ReplayStep(d, r), request[d][r].todo = <<>> PROVE Goal
    <2> DEFINE q == request[d][r]
               f == q.family
    <2>1. /\ (q.pc = "lock" /\ LockFree(d)) \/ (q.pc = "drain" /\ Len(wire[d]) <= HighWater)
          /\ request'[d][r] = Idle /\ OtherRequests(d, r)
          /\ OtherSubs(d, f) /\ AnsweredOn(d) /\ conn' = conn /\ SameClient(d)
          /\ IF Live(d, f) /\ sub[d][f].id = q.id
             THEN Becomes(d, f, sub[d][f].pc, sub[d][f].id, TRUE, sub[d][f].queue, sub[d][f].hand)
             ELSE sub'[d][f] = sub[d][f]
      BY <1>19, ReplayEndFacts
    <2>2. CASE q.pc = "drain" /\ Len(wire[d]) <= HighWater
      BY <1>0, <1>9, <2>1, <2>2
    <2>3. CASE q.pc = "lock" /\ LockFree(d)
      <3>1. \A g \in FamiliesOf(d) : sub'[d][g].pc = sub[d][g].pc
        BY <2>1 DEF OtherSubs, Becomes
      <3>2. LockFree(d)'
        BY <1>3, <2>1, <2>3, <3>1, SubsDiffer DEF LockFree, OtherRequests
      <3> QED
        BY <1>8, <2>1, <2>3, <3>2 DEF SameClient
    <2> QED
      BY <2>1, <2>2, <2>3
  <1>21. ASSUME NEW r \in Requests, ReplayStep(d, r), request[d][r].todo # <<>> PROVE Goal
    <2> DEFINE q == request[d][r]
    <2>1. /\ (q.pc = "lock" /\ LockFree(d)) \/ (q.pc = "drain" /\ Len(wire[d]) <= HighWater)
          /\ request'[d][r].pc = "drain" /\ q.pc \in {"lock", "drain"} /\ conn' = conn
          /\ wire'[d] = Append(wire[d], Head(q.todo)) /\ answered'[d] = answered[d]
      BY <1>21, ReplayOnFacts
    <2>2. conn[d] = "open"
      BY <2>1, SubsDiffer DEF Connected
    <2>3. ~LockFree(d)' /\ ~Connect(d)
      BY <1>3, <2>1, <2>2, ConnectFacts
    <2>4. LockFree(d) \/ L <= HighWater
      BY <1>0, <2>1
    <2> QED
      BY <1>10, <2>1, <2>2, <2>3, <2>4
  <1>22. CASE Connect(d)
    <2>1. conn[d] = "none" /\ wire'[d] = wire[d]
      BY <1>22, ConnectFacts
    <2>2. M <= 0
      BY <1>0, <2>1 DEF Connected, Away
    <2> QED
      BY <1>6, <2>2
  <1>23. CASE Receive(d)
    <2>1. /\ wire[d] # <<>> /\ wire'[d] = Tail(wire[d]) /\ sub' = sub /\ request' = request /\ conn' = conn
          /\ subscribes' = subscribes /\ answered' = answered
      BY <1>23, ReceiveFacts
    <2>2. M <= L
      BY <1>0, <2>1
    <2>3. LockFree(d)' <=> LockFree(d)
      BY <1>3, <2>1 DEF LockFree
    <2>4. ~Connect(d)
      BY <2>1, ConnectFacts
    <2> QED
      BY <1>7, <2>1, <2>2, <2>3, <2>4
  <1>24. CASE SeeClosed(d)
    <2>1. M <= 0
      BY <1>0, <1>24, SeeClosedFacts
    <2> QED
      BY <1>6, <2>1
  <1>25. CASE Drop(d)
    <2>1. M <= 0
      BY <1>0, <1>25, DropFacts
    <2> QED
      BY <1>6, <2>1
  <1>27. CASE Respond(d)
    <2>1. LockFree(d)' <=> LockFree(d)
      BY <1>3, <1>27, RespondFacts DEF LockFree
    <2> QED
      BY <1>8, <1>27, <2>1, RespondFacts DEF SameClient
  <1>26. CASE ClientStep(d)
    BY <1>14, <1>15, <1>16, <1>17, <1>18, <1>19, <1>21, <1>22, <1>23, <1>24, <1>25, <1>26, <1>27
    DEF ClientStep, Writer, Handler
  <1> QED
    BY <1>11, <1>12, <1>13, <1>26, Menu DEF Base

-----------------------------------------------------------------------------
(***************************************************************************)
(* The invariants of the subscriptions and what they say.                  *)
(***************************************************************************)
WellServed(d) == Connected(d) /\ Barred(d) /\ OwnIds(d) /\ Lossless(d) /\ Single(d) /\ Counted(d) /\ Bounded(d)
DInv == Base /\ \A d \in Clients : WellServed(d)

\* All of it holds to begin with.
LEMMA DInit == Init => DInv
  <1> SUFFICES ASSUME Init, NEW d \in Clients PROVE WellServed(d)
    BY BaseInit DEF DInv
  <1>1. /\ \A f \in FamiliesOf(d) : ~Live(d, f) /\ subscribes[d][f] = 0
        /\ \A r \in Requests : request[d][r] = Idle
        /\ conn[d] = "none" /\ wire[d] = <<>> /\ answered[d] = 0 /\ daemon = "up"
    BY DEF Init, Live
  <1>2. \A f : Sent(d, f) = {}
    BY <1>1, SubsDiffer DEF Sent
  <1>3. Connected(d) /\ Barred(d) /\ OwnIds(d) /\ Lossless(d)
    BY <1>1, SubsDiffer DEF Connected, Barred, OwnIds, Lossless
  <1>4. Single(d)
    BY <1>1, <1>2 DEF Single
  <1>5. Counted(d)
    <2> SUFFICES ASSUME d \in Terminals PROVE Counted(d)
      BY DEF Counted
    <2>1. IsFiniteSet({}) /\ Cardinality({}) = 0
      BY FS_EmptySet
    <2>2. "job" \in FamiliesOf(d) /\ subscribes[d]["job"] = 0
      BY <1>1, FamiliesFacts
    <2>3. Sent(d, "job") = {}
      BY <1>2
    <2>4. IsFiniteSet(Sent(d, "job")) /\ Cardinality(Sent(d, "job")) = 0
      BY <2>1, <2>3
    <2>5. subscribes[d]["job"] - Cardinality(Sent(d, "job")) = 0
      BY <2>2, <2>4
    <2>6. Begun(d) = 0
      BY <2>5 DEF Begun
    <2>7. ~Live(d, "job")
      BY <1>1, <2>2
    <2> QED
      BY <2>4, <2>6, <2>7 DEF Counted
  <1>6. Bounded(d)
    <2>1. HighWater \in Nat /\ Pushed(d) = 0
      BY <1>1, DeliveryAssumption DEF Pushed
    <2>2. Replacements(d) \in Nat
      <3>1. d \in Terminals => subscribes[d]["job"] = 0
        BY <1>1, FamiliesFacts
      <3> QED
        BY <3>1 DEF Replacements
    <2> QED
      BY <1>1, <2>1, <2>2 DEF Bounded
  <1> QED
    BY <1>3, <1>4, <1>5, <1>6 DEF WellServed

\* All of it is kept by every step.
LEMMA DStep == DInv /\ [Next]_vars => DInv'
  <1> SUFFICES ASSUME DInv, [Next]_vars, NEW d \in Clients PROVE WellServed(d)'
    BY BaseStep DEF DInv
  <1>1. Base /\ Connected(d) /\ Barred(d) /\ OwnIds(d) /\ Lossless(d) /\ Single(d) /\ Counted(d) /\ Bounded(d)
    BY DEF DInv, WellServed
  <1>2. Connected(d)' /\ Barred(d)' /\ OwnIds(d)' /\ Lossless(d)'
    BY <1>1, ConnectedStep, BarredStep, OwnIdsStep, LosslessStep
  <1>3. Single(d)' /\ Bounded(d)'
    BY <1>1, SingleStep, BoundedStep
  <1>4. Counted(d)'
    <2>1. CASE d \in Terminals
      BY <1>1, <2>1, CountedStep
    <2>2. CASE d \notin Terminals
      BY <2>2 DEF Counted
    <2> QED
      BY <2>1, <2>2
  <1> QED
    BY <1>2, <1>3, <1>4 DEF WellServed

\* So it always holds.
LEMMA DHolds == Spec => []DInv
  BY DInit, DStep, PTL DEF Spec

\* No interleaving of subscribe commands, replays, overflows and lost
\* connections leaves a subscription behind a barrier nobody lifts
\* (subscribe, activate in its finally).
THEOREM SubscriptionIsServed == Spec => []BarrierWillLift
  <1>1. DInv => BarrierWillLift
    BY DEF DInv, WellServed, Barred, Lifts, BarrierWillLift
  <1> QED
    BY <1>1, DHolds, PTL

\* What the transport holds for a client that does not read is bounded, for
\* every high-water mark and every number of concurrent commands, up to the
\* responses to the client's own commands (write_lock, _send).
THEOREM BufferHolds == Spec => []BufferIsBounded
  <1>1. ASSUME DInv, NEW c \in Clients
        PROVE  Len(wire[c]) <= HighWater + 1 + Replacements(c) + answered[c]
    <2>1. /\ wire \in [Clients -> Seq(Frames)] /\ answered \in [Clients -> Nat]
          /\ \A f \in FamiliesOf(c) : subscribes[c][f] \in Nat
      BY <1>1 DEF DInv, Base, TypeInv, ClientType, CountType
    <2>2. Replacements(c) \in Nat
      BY <2>1, FamiliesFacts DEF Replacements
    <2>3. Pushed(c) <= HighWater + 1 + Replacements(c)
      BY <1>1 DEF DInv, WellServed, Bounded
    <2>4. Len(wire[c]) \in Nat /\ answered[c] \in Nat /\ HighWater \in Nat
      BY <2>1, DeliveryAssumption
    <2> QED
      BY <2>2, <2>3, <2>4 DEF Pushed
  <1>2. DInv => BufferIsBounded
    BY <1>1 DEF BufferIsBounded
  <1> QED
    BY <1>2, DHolds, PTL

\* No state event published to a live subscription is lost or reordered in
\* the daemon, for every size of its queue (handle, _evict_droppable).
THEOREM NothingLost == Spec => []NoStateLost
  <1>1. ASSUME DInv, NEW c \in Clients, NEW f \in FamiliesOf(c), Live(c, f)
        PROVE  LET due    == sub[c][f].hand \o sub[c][f].queue
                   states == {i \in DOMAIN due : ~Droppable(due[i])}
               IN  /\ {due[i].stamp : i \in states} = (written[c][f] + 1)..pub[f]
                   /\ \A i, j \in states : i < j => due[i].stamp < due[j].stamp
    BY <1>1, OwesIsDue DEF DInv, WellServed, Carries, Stamps, States
  <1>2. DInv => NoStateLost
    BY <1>1 DEF NoStateLost
  <1> QED
    BY <1>2, DHolds, PTL

-----------------------------------------------------------------------------
(***************************************************************************)
(* The streams: the events of the job and of the run.                      *)
(***************************************************************************)
\* What is numbered and kept: the events of the job and those of the run.
Streams == {"job", "run"}
Persisted(s) == IF s = "job" THEN Len(log.rows) ELSE runLog

\* How many of them have been published.
Published(s) ==
    IF s = "run" THEN runLog ELSE IF unpublished # 0 THEN unpublished - 1 ELSE Len(log.rows)
Ended == unpublished # 0 => job = "ended" /\ unpublished = Len(log.rows)

\* The log never shrinks and grows by one row at a time, crashes included.
LEMMA RowsGrow ==
    ASSUME LogInv, [Next]_vars
    PROVE  /\ LogInv' /\ Len(log.rows) \in Nat
           /\ Len(log'.rows) \in {Len(log.rows), Len(log.rows) + 1}
           /\ AppendEvent => Len(log'.rows) = Len(log.rows) + 1
           /\ AppendEvent => NextSeq = Len(log'.rows)
           /\ NextSeq = Len(log.rows) + 1
  <1>1. LogInv'
    BY LogStep
  <1>2. Len(log.rows) \in Nat
    BY DEF LogInv, LogType
  <1>3. NextSeq = Len(log.rows) + 1
    BY PreparedIsClean
  <1>4. ASSUME AppendEvent PROVE Len(log'.rows) = Len(log.rows) + 1
    BY <1>4, PreparedIsClean, WrittenIsNumbered DEF AppendEvent
  <1>5. ASSUME CrashLog PROVE Len(log'.rows) \in {Len(log.rows), Len(log.rows) + 1}
    <2> DEFINE w == Written(Prepared, NextSeq)
    <2>1. /\ Prepared \in Logs /\ Prepared.rows = log.rows /\ Numbered(Prepared) /\ Prepared.tail = "clean"
      BY PreparedIsClean
    <2>2. w \in Logs /\ Len(w.rows) = Len(log.rows) + 1
      BY <2>1, <1>3, WrittenIsNumbered
    <2>3. log' \in {log, Prepared, w, [Prepared EXCEPT !.tail = "torn"], [w EXCEPT !.tail = "bare"]}
      BY <1>5, <2>1 DEF CrashLog, Interrupted
    <2>4. [Prepared EXCEPT !.tail = "torn"].rows = log.rows
      BY <2>1 DEF Logs
    <2> HIDE DEF w
    <2>5. [w EXCEPT !.tail = "bare"].rows = w.rows
      BY <2>2 DEF Logs
    <2> QED
      BY <2>1, <2>2, <2>3, <2>4, <2>5
  <1>6. AppendEvent \/ CrashLog \/ log' = log
    <2>1. ASSUME DaemonStep PROVE AppendEvent \/ CrashLog \/ log' = log
      BY <2>1 DEF DaemonStep, JobStarts, JobEnds, PublishEnd, PublishNote, PublishRun, PublishToken,
                  Stop, Exit, Crash, Restart, Recover, jobVars
    <2>2. ASSUME NEW c \in Clients, ClientStep(c) PROVE log' = log
      BY <2>2 DEF ClientStep, Writer, WriterGet, WriterWrite, WriterDrained, SendSubscribe, Handler,
                  Subscribe, ReplayStep, Respond, Connect, Receive, SeeClosed, Drop, jobVars
    <2> QED
      BY <2>1, <2>2 DEF Next, vars
  <1> QED
    BY <1>1, <1>2, <1>3, <1>4, <1>5, <1>6

\* A client changes nothing of what is published.
LEMMA ClientKeeps ==
    ASSUME NEW c \in Clients, ClientStep(c)
    PROVE  SameStreams
  BY DEF ClientStep, Writer, WriterGet, WriterWrite, WriterDrained, SendSubscribe, Handler,
         Subscribe, ReplayStep, Respond, Connect, Receive, SeeClosed, Drop, SameStreams, jobVars, runVars

\* How the streams go on.  An event is published in the order of its number.
LEMMA StreamsGoOn ==
    ASSUME Base, Ended, [Next]_vars
    PROVE  /\ Ended'
           /\ job = "dead" => job' = "dead"
           /\ \A s \in Streams :
                 /\ Persisted(s) \in Nat /\ Published(s) \in Nat /\ Published(s) <= Persisted(s)
                 /\ Persisted(s)' \in {Persisted(s), Persisted(s) + 1}
                 /\ \A n : PublishedNow(s, n) => /\ n = Published(s) + 1 /\ Published(s)' = n
                                                 /\ n <= Persisted(s)' /\ n \in Nat
                                                 /\ ~(s = "job" /\ job = "dead")
                 /\ \A k, n : PublishedNow(k, n) /\ k # s => Published(s)' = Published(s)
                 /\ \/ daemon # "up" \/ daemon' # "up"
                    \/ Published(s)' = Published(s)
                    \/ PublishedNow(s, Published(s) + 1)
  <1> DEFINE rows == Len(log.rows)
             rows1 == Len(log'.rows)
  <1>1. /\ rows \in Nat /\ rows1 \in {rows, rows + 1}
        /\ AppendEvent => rows1 = rows + 1 /\ NextSeq = rows1
        /\ NextSeq = rows + 1
        /\ log' = log => rows1 = rows
    BY RowsGrow DEF Base
  <1>2. runLog \in Nat /\ unpublished \in Nat
    BY DEF Base, TypeInv, BusType
  <1> HIDE DEF rows, rows1
  <1> DEFINE Goal ==
        /\ unpublished' # 0 => job' = "ended" /\ unpublished' = rows1
        /\ job = "dead" => job' = "dead"
        /\ runLog' \in {runLog, runLog + 1}
        /\ LET due == IF unpublished # 0 THEN unpublished - 1 ELSE rows
               due1 == IF unpublished' # 0 THEN unpublished' - 1 ELSE rows1 IN
           /\ due \in Nat /\ due <= rows
           /\ \A n : PublishedNow("job", n) => n = due + 1 /\ due1 = n /\ n <= rows1 /\ job # "dead"
           /\ \A n : PublishedNow("run", n) => n = runLog + 1 /\ runLog' = n
           /\ \A k, n : PublishedNow(k, n) /\ k # "job" => due1 = due
           /\ \A k, n : PublishedNow(k, n) /\ k # "run" => runLog' = runLog
           /\ daemon # "up" \/ daemon' # "up" \/ due1 = due \/ PublishedNow("job", due + 1)
           /\ runLog' = runLog \/ PublishedNow("run", runLog + 1)
  <1>3. unpublished # 0 => job = "ended" /\ unpublished = rows
    BY DEF Ended, rows
  <1>4. ASSUME JobStarts PROVE Goal
    BY <1>1, <1>2, <1>3, <1>4 DEF JobStarts, PublishedNow, PublishEnd, PublishNote, PublishRun, PublishToken, runVars, jobVars
  <1>5. ASSUME PublishEnd PROVE Goal
    BY <1>1, <1>2, <1>3, <1>5 DEF PublishEnd, JobStarts, PublishedNow, PublishNote, PublishRun, PublishToken, runVars, jobVars
  <1>6. ASSUME PublishNote \/ PublishRun \/ PublishToken PROVE Goal
    BY <1>1, <1>2, <1>3, <1>6 DEF PublishEnd, JobStarts, PublishedNow, PublishNote, PublishRun, PublishToken, runVars, jobVars
  <1>7. ASSUME JobEnds PROVE Goal
    BY <1>1, <1>2, <1>3, <1>7 DEF JobEnds, JobStarts, PublishEnd, PublishedNow, PublishNote, PublishRun, PublishToken, runVars, jobVars
  <1>8. ASSUME Stop \/ Exit \/ Crash \/ Restart \/ Recover PROVE Goal
    BY <1>1, <1>2, <1>3, <1>8 DEF Stop, Exit, Crash, Restart, Recover, Active, Sealed, PublishedNow,
       JobStarts, PublishEnd, PublishNote, PublishRun, PublishToken, runVars, jobVars
  <1>9. ASSUME SameStreams PROVE Goal
    BY <1>1, <1>2, <1>3, <1>9 DEF SameStreams, PublishedNow,
       JobStarts, PublishEnd, PublishNote, PublishRun, PublishToken
  <1>10. SameStreams \/ DaemonStep
    BY ClientKeeps DEF Next, vars, SameStreams
  <1>11. Goal
    BY <1>4, <1>5, <1>6, <1>7, <1>8, <1>9, <1>10 DEF DaemonStep
  <1> QED
    BY <1>1, <1>2, <1>11 DEF Ended, Streams, Persisted, Published, rows, rows1

-----------------------------------------------------------------------------
(***************************************************************************)
(* The feed of a stream to a terminal.                                     *)
(***************************************************************************)
\* What a terminal has seen, what is on the way to it, what its writer has in
\* hand, and what a replay has yet to write before the barrier is lifted.
Known(d, s) == IF s = "job" THEN 1..cursor[d] ELSE shown[d]
OnWay(d, s) == Known(d, s) \cup Numbers(wire[d], s)
InHand(d, s) == OnWay(d, s) \cup Numbers(sub[d][s].hand, s)
UnderWay(d, r) == request[d][r].pc \in {"lock", "drain"}
Coming(d, s) ==
    {m \in Nat : /\ ~sub[d][s].ready
                 /\ \E r \in Requests : Lifts(d, s, r) /\ m \in Numbers(request[d][r].todo, s)}

\* What arrives at a terminal is in order and is on disk.
Arrives(d, s) ==
    /\ \E k \in Nat : Known(d, s) = 1..k
    /\ Gapless(wire[d], s, Known(d, s))
    /\ OnWay(d, s) \subseteq 1..Persisted(s)
Replays(d, s) ==
    \A r \in Requests : UnderWay(d, r) =>
        /\ Gapless(request[d][r].todo, s, OnWay(d, s))
        /\ Numbers(request[d][r].todo, s) \subseteq 1..Persisted(s)
Queues(d, s) ==
    Live(d, s) =>
        /\ Gapless(sub[d][s].hand, s, OnWay(d, s))
        /\ Gapless(sub[d][s].queue, s, InHand(d, s) \cup Coming(d, s))
        /\ Numbers(sub[d][s].hand, s) \cup Numbers(sub[d][s].queue, s) \subseteq 1..Persisted(s)

\* What a subscription brings is all that has been published.
Complete(d, s) ==
    Live(d, s) /\ ~(s = "job" /\ job = "dead") =>
        1..Published(s) \subseteq InHand(d, s) \cup Coming(d, s) \cup Numbers(sub[d][s].queue, s)

\* A subscription gets the events of its own family.
Sorted(d, s) ==
    \A f \in FamiliesOf(d) \ {s} : Live(d, f) =>
        Numbers(sub[d][f].queue, s) = {} /\ Numbers(sub[d][f].hand, s) = {}

Feed(d, s) == Arrives(d, s) /\ Replays(d, s) /\ Queues(d, s) /\ Complete(d, s) /\ Sorted(d, s)

\* A command asks from the cursor, or from a place before it.
Asks(d) ==
    \A r \in Requests : request[d][r].pc = "sent" =>
        request[d][r].after <= IF request[d][r].family = "job" THEN cursor[d] ELSE 0

\* A wire that brings the events of a stream as before.
SameNews(d, s) ==
    /\ Numbers(wire'[d], s) = Numbers(wire[d], s)
    /\ Gapless(wire[d], s, Known(d, s)) => Gapless(wire'[d], s, Known(d, s))

\* A response is no event.
LEMMA AnswerIsNoNews ==
    ASSUME Base, NEW d \in Clients, NEW s \in Streams, wire'[d] = wire[d] \/ AnsweredOn(d)
    PROVE  SameNews(d, s)
  <1>1. wire[d] \in Seq(Frames)
    BY DEF Base, TypeInv, ClientType
  <1>2. Response.kind # s
    BY DEF Response, Frame, Streams
  <1>3. CASE AnsweredOn(d)
    <2>1. wire'[d] = Append(wire[d], Response)
      BY <1>3 DEF AnsweredOn
    <2>4. Numbers(Append(wire[d], Response), s) =
             Numbers(wire[d], s) \cup (IF Response.kind = s THEN {Response.n} ELSE {})
      BY <1>1, AppendNumbers
    <2>2. Numbers(Append(wire[d], Response), s) = Numbers(wire[d], s)
      BY <1>2, <2>4
    <2>3. Gapless(wire[d], s, Known(d, s)) => Gapless(Append(wire[d], Response), s, Known(d, s))
      BY <1>1, <1>2, AppendGapless
    <2> QED
      BY <2>1, <2>2, <2>3 DEF SameNews
  <1>4. CASE wire'[d] = wire[d]
    BY <1>4 DEF SameNews
  <1> QED
    BY <1>3, <1>4

\* Coming, element by element.
LEMMA ComingIs ==
    ASSUME NEW d, NEW s, NEW m
    PROVE  /\ m \in Coming(d, s) <=>
                 m \in Nat /\ ~sub[d][s].ready /\ \E r \in Requests : Lifts(d, s, r) /\ m \in Numbers(request[d][r].todo, s)
           /\ m \in Coming(d, s)' <=>
                 m \in Nat /\ ~sub'[d][s].ready /\ \E r \in Requests : Lifts(d, s, r)' /\ m \in Numbers(request'[d][r].todo, s)
  BY DEF Coming

\* Nothing changes for the terminal.
LEMMA StillFeeds ==
    ASSUME NEW d \in Terminals, NEW s \in Streams, Feed(d, s),
           sub'[d] = sub[d], request'[d] = request[d], SameNews(d, s),
           cursor'[d] = cursor[d], shown'[d] = shown[d],
           Persisted(s) \in Nat, Persisted(s)' \in {Persisted(s), Persisted(s) + 1},
           job = "dead" => job' = "dead",
           Live(d, s) => Published(s)' = Published(s)
    PROVE  Feed(d, s)'
  <1>1. Known(d, s)' = Known(d, s)
    BY DEF Known
  <1>2. OnWay(d, s)' = OnWay(d, s)
    BY <1>1 DEF OnWay, SameNews
  <1>3. InHand(d, s)' = InHand(d, s)
    BY <1>2 DEF InHand
  <1>4. Coming(d, s)' = Coming(d, s)
    BY DEF Coming, Lifts
  <1>5. 1..Persisted(s) \subseteq 1..Persisted(s)'
    OBVIOUS
  <1>6. Arrives(d, s)'
    BY <1>1, <1>2, <1>5 DEF Feed, Arrives, SameNews
  <1>7. Replays(d, s)'
    BY <1>2, <1>5 DEF Feed, Replays, UnderWay
  <1>8. Queues(d, s)'
    BY <1>2, <1>3, <1>4, <1>5 DEF Feed, Queues, Live
  <1>9. Complete(d, s)'
    BY <1>3, <1>4 DEF Feed, Complete, Live
  <1>10. Sorted(d, s)'
    BY DEF Feed, Sorted, Live
  <1> QED
    BY <1>6, <1>7, <1>8, <1>9, <1>10 DEF Feed

\* The subscriptions and the commands of the terminal are gone.
LEMMA CutFeeds ==
    ASSUME NEW d \in Terminals, NEW s \in Streams, Arrives(d, s),
           \A f \in FamiliesOf(d) : sub'[d][f] = NoSub, \A r \in Requests : request'[d][r] = Idle,
           wire'[d] = wire[d] \/ wire'[d] = <<>>,
           cursor'[d] = cursor[d], shown'[d] = shown[d],
           Persisted(s) \in Nat, Persisted(s)' \in {Persisted(s), Persisted(s) + 1}
    PROVE  Feed(d, s)'
  <1>0. s \in FamiliesOf(d)
    BY FamiliesFacts DEF Streams
  <1>1. Known(d, s)' = Known(d, s)
    BY DEF Known
  <1>2. Gapless(wire'[d], s, Known(d, s)) /\ Numbers(wire'[d], s) \subseteq Numbers(wire[d], s)
    BY NothingGapless DEF Arrives
  <1>5. 1..Persisted(s) \subseteq 1..Persisted(s)'
    OBVIOUS
  <1>6. Arrives(d, s)'
    BY <1>1, <1>2, <1>5 DEF Arrives, OnWay
  <1>7. \A r \in Requests : ~UnderWay(d, r)'
    BY SubsDiffer DEF UnderWay
  <1>8. \A f \in FamiliesOf(d) : ~Live(d, f)'
    BY DEF Live
  <1> QED
    BY <1>0, <1>6, <1>7, <1>8 DEF Feed, Replays, Queues, Complete, Sorted

\* What an event published to a subscription does to its queue.
LEMMA QueueGets ==
    ASSUME NEW u \in SubStates, NEW e \in Queueable, ~Overflows(u, e), NEW s \in Streams, NEW known,
           Gapless(u.queue, s, known),
           e.kind = s => 1..(e.n - 1) \subseteq known \cup Numbers(u.queue, s)
    PROVE  /\ Gapless(Queued(u, e).queue, s, known)
           /\ Numbers(Queued(u, e).queue, s) =
                 Numbers(u.queue, s) \cup (IF e.kind = s THEN {e.n} ELSE {})
  <1> DEFINE q == u.queue
             r == Evicted(u.queue)
             Good(p) == /\ Gapless(p, s, known)
                        /\ Numbers(p, s) = Numbers(q, s) \cup (IF e.kind = s THEN {e.n} ELSE {})
  <1>0. s # "token" /\ q \in Seq(Queueable)
    BY SubsDiffer DEF Streams
  <1>1. Good(Append(q, e))
    BY <1>0, AppendNumbers, AppendGapless
  <1>2. ASSUME HasDroppable(q) PROVE Good(Append(r, e))
    <2>1. r \in Seq(Queueable)
      BY <1>0, <1>2, EvictedFacts
    <2>2. Numbers(r, s) = Numbers(q, s) /\ Gapless(r, s, known)
      BY <1>0, <1>2, EvictedStates
    <2> HIDE DEF r, q
    <2>3. Gapless(Append(r, e), s, known)
      BY <2>1, <2>2, AppendGapless DEF q
    <2>4. Numbers(Append(r, e), s) = Numbers(r, s) \cup (IF e.kind = s THEN {e.n} ELSE {})
      BY <2>1, AppendNumbers
    <2> QED
      BY <2>2, <2>3, <2>4
  <1>3. ASSUME e.kind # s PROVE Good(q)
    BY <1>3
  <1>4. e.kind = s => ~Droppable(e)
    BY <1>0 DEF Droppable
  <1>5. Queued(u, e).queue = Append(q, e) \/ (HasDroppable(q) /\ Queued(u, e).queue = Append(r, e))
        \/ (e.kind # s /\ Queued(u, e).queue = q)
    BY <1>4, QueuedType DEF Overflows
  <1> DEFINE p == Queued(u, e).queue
  <1>6. Good(p)
    <2>1. p = Append(q, e) \/ (HasDroppable(q) /\ p = Append(r, e)) \/ (e.kind # s /\ p = q)
      BY <1>5
    <2> HIDE DEF p, r, q, Good
    <2> QED
      BY <1>1, <1>2, <1>3, <2>1
  <1> QED
    BY <1>6

\* An event is published to the terminal: it is the next of its stream.
LEMMA ReachedFeeds ==
    ASSUME Base, Ended, [Next]_vars, NEW d \in Terminals, NEW s \in Streams, Feed(d, s),
           NEW kind \in Events, NEW n \in Nat, PublishedNow(kind, n), Reached(d, kind, n)
    PROVE  Feed(d, s)'
  <1>1. /\ Persisted(s) \in Nat /\ Published(s) \in Nat /\ Published(s) <= Persisted(s)
        /\ Persisted(s)' \in {Persisted(s), Persisted(s) + 1}
        /\ kind = s => n = Published(s) + 1 /\ Published(s)' = n /\ n <= Persisted(s)'
                       /\ ~(s = "job" /\ job = "dead")
        /\ kind # s => Published(s)' = Published(s)
        /\ job = "dead" => job' = "dead"
    BY StreamsGoOn
  <1>2. d \in Clients /\ FamiliesOf(d) = {"job", "run"} /\ s \in FamiliesOf(d) /\ s \in Families
    BY FamiliesFacts DEF Streams, Families
  <1>3. /\ wire'[d] = wire[d] /\ cursor'[d] = cursor[d] /\ shown'[d] = shown[d]
        /\ request'[d] = request[d] /\ Served(d, kind, n)
    BY DEF Reached, Quiet, Served
  <1>4. Known(d, s)' = Known(d, s) /\ OnWay(d, s)' = OnWay(d, s)
    BY <1>3 DEF Known, OnWay
  <1>5. 1..Persisted(s) \subseteq 1..Persisted(s)'
    BY <1>1
  <1>6. Arrives(d, s)' /\ Replays(d, s)'
    BY <1>3, <1>4, <1>5 DEF Feed, Arrives, Replays, UnderWay
  <1>7. ASSUME NEW f \in FamiliesOf(d), Live(d, f), Matches(kind, f)
        PROVE  LET e == Arriving(kind, n, f) IN
               /\ e \in Queueable /\ e.kind = kind /\ e.n = n /\ sub[d][f] \in SubStates
               /\ ~Overflows(sub[d][f], e) /\ sub'[d][f] = Queued(sub[d][f], e)
    <2>1. f \in Families
      BY <1>2, FamiliesFacts
    <2>2. Arriving(kind, n, f) \in Queueable
      BY <2>1, ArrivingType DEF Base, TypeInv
    <2> QED
      BY <1>3, <1>7, <2>2 DEF Served, Arriving
  <1>8. ASSUME NEW f \in FamiliesOf(d), ~(Live(d, f) /\ Matches(kind, f))
        PROVE  sub'[d][f] = sub[d][f]
    BY <1>3, <1>8 DEF Served
  <1>9. ASSUME NEW f \in FamiliesOf(d)
        PROVE  /\ Live(d, f)' <=> Live(d, f)
               /\ sub'[d][f].id = sub[d][f].id /\ sub'[d][f].ready = sub[d][f].ready
               /\ sub'[d][f].hand = sub[d][f].hand
    <2>1. CASE Live(d, f) /\ Matches(kind, f)
      <3> DEFINE e == Arriving(kind, n, f)
      <3>1. Queued(sub[d][f], e) \in SubStates /\ Queued(sub[d][f], e).id = sub[d][f].id
            /\ Queued(sub[d][f], e).ready = sub[d][f].ready /\ Queued(sub[d][f], e).hand = sub[d][f].hand
        BY <1>7, <2>1, QueuedType
      <3>2. sub'[d][f] = Queued(sub[d][f], e)
        BY <1>7, <2>1
      <3> HIDE DEF e
      <3> QED
        BY <3>1, <3>2, <2>1, SubsDiffer DEF Live
    <2>2. CASE ~(Live(d, f) /\ Matches(kind, f))
      BY <1>8, <2>2 DEF Live
    <2> QED
      BY <2>1, <2>2
  <1>10. InHand(d, s)' = InHand(d, s)
    BY <1>2, <1>4, <1>9 DEF InHand
  <1>11. Coming(d, s)' = Coming(d, s)
    BY <1>2, <1>3, <1>9 DEF Coming, Lifts
  \* The queue of the stream's own subscription.
  <1> DEFINE known == InHand(d, s) \cup Coming(d, s)
             new == IF kind = s THEN {n} ELSE {}
  <1>12. ASSUME Live(d, s)
         PROVE  /\ Gapless(sub'[d][s].queue, s, known)
                /\ Numbers(sub'[d][s].queue, s) = Numbers(sub[d][s].queue, s) \cup new
    <2>1. Gapless(sub[d][s].queue, s, known)
      BY <1>12 DEF Feed, Queues
    <2>2. CASE Matches(kind, s)
      <3> DEFINE e == Arriving(kind, n, s)
                 u == sub[d][s]
      <3>1. e \in Queueable /\ e.kind = kind /\ e.n = n /\ u \in SubStates /\ ~Overflows(u, e)
            /\ sub'[d][s] = Queued(u, e)
        BY <1>2, <1>7, <1>12, <2>2
      <3>2. kind = s => 1..(n - 1) \subseteq known \cup Numbers(u.queue, s)
        BY <1>1, <1>12 DEF Feed, Complete
      <3>3. Gapless(u.queue, s, known)
        BY <2>1
      <3> HIDE DEF e, u, known
      <3>4. /\ Gapless(Queued(u, e).queue, s, known)
            /\ Numbers(Queued(u, e).queue, s) = Numbers(u.queue, s) \cup (IF e.kind = s THEN {e.n} ELSE {})
        <4>1. e.kind = s => 1..(e.n - 1) \subseteq known \cup Numbers(u.queue, s)
          BY <3>1, <3>2
        <4>2. u \in SubStates /\ e \in Queueable /\ ~Overflows(u, e)
          BY <3>1
        <4> QED
          BY <3>3, <4>1, <4>2, QueueGets
      <3> QED
        BY <3>1, <3>4 DEF u
    <2>3. CASE ~Matches(kind, s)
      <3>1. kind # s
        BY <2>3 DEF Matches, Streams
      <3> QED
        BY <1>2, <1>8, <2>1, <2>3, <3>1
    <2> QED
      BY <2>2, <2>3
  <1>13. Queues(d, s)'
    <2> SUFFICES ASSUME Live(d, s)' PROVE
            /\ Gapless(sub'[d][s].hand, s, OnWay(d, s)')
            /\ Gapless(sub'[d][s].queue, s, InHand(d, s)' \cup Coming(d, s)')
            /\ Numbers(sub'[d][s].hand, s) \cup Numbers(sub'[d][s].queue, s) \subseteq 1..Persisted(s)'
      BY DEF Queues
    <2>1. Live(d, s) /\ sub'[d][s].hand = sub[d][s].hand
      BY <1>2, <1>9
    <2>2. new \subseteq 1..Persisted(s)'
      BY <1>1
    <2> HIDE DEF new
    <2> QED
      BY <1>4, <1>5, <1>10, <1>11, <1>12, <2>1, <2>2 DEF Feed, Queues
  <1>14. Complete(d, s)'
    <2> SUFFICES ASSUME Live(d, s)', ~(s = "job" /\ job' = "dead")
                 PROVE  1..Published(s)' \subseteq InHand(d, s)' \cup Coming(d, s)' \cup Numbers(sub'[d][s].queue, s)
      BY DEF Complete
    <2>1. Live(d, s)
      BY <1>2, <1>9
    <2>2. 1..Published(s) \subseteq known \cup Numbers(sub[d][s].queue, s)
      BY <1>1, <2>1 DEF Feed, Complete
    <2>3. 1..Published(s)' \subseteq 1..Published(s) \cup new
      BY <1>1
    <2> HIDE DEF new
    <2> QED
      BY <1>10, <1>11, <1>12, <2>1, <2>2, <2>3
  <1>15. Sorted(d, s)'
    <2> SUFFICES ASSUME NEW f \in FamiliesOf(d) \ {s}, Live(d, f)'
                 PROVE  Numbers(sub'[d][f].queue, s) = {} /\ Numbers(sub'[d][f].hand, s) = {}
      BY DEF Sorted
    <2>1. Live(d, f) /\ sub'[d][f].hand = sub[d][f].hand
      BY <1>9
    <2>2. Numbers(sub[d][f].queue, s) = {} /\ Numbers(sub[d][f].hand, s) = {}
      BY <2>1 DEF Feed, Sorted
    <2>3. CASE Matches(kind, f)
      <3> DEFINE e == Arriving(kind, n, f)
                 u == sub[d][f]
      <3>1. e \in Queueable /\ e.kind = kind /\ e.n = n /\ u \in SubStates /\ ~Overflows(u, e)
            /\ sub'[d][f] = Queued(u, e)
        BY <1>7, <2>1, <2>3
      <3>2. kind # s
        BY <1>2, <2>3 DEF Matches, Streams
      <3>3. Gapless(u.queue, s, Nat)
        BY <2>2 DEF Gapless, Numbers
      <3> HIDE DEF e, u
      <3>4. Numbers(Queued(u, e).queue, s) = Numbers(u.queue, s) \cup (IF e.kind = s THEN {e.n} ELSE {})
        BY <3>1, <3>2, <3>3, QueueGets
      <3>5. Numbers(u.queue, s) = {}
        BY <2>2 DEF u
      <3> QED
        BY <2>1, <2>2, <3>1, <3>2, <3>4, <3>5
    <2>4. CASE ~Matches(kind, f)
      BY <1>8, <2>1, <2>2, <2>4
    <2> QED
      BY <2>3, <2>4
  <1> QED
    BY <1>6, <1>13, <1>14, <1>15 DEF Feed

\* What clients do leaves the streams as they are.
LEMMA StreamsStay ==
    ASSUME SameStreams, NEW s \in Streams
    PROVE  Persisted(s)' = Persisted(s) /\ Published(s)' = Published(s) /\ job' = job
  BY DEF SameStreams, Persisted, Published

\* A terminal subscribes to the two streams.
LEMMA TerminalFacts ==
    ASSUME NEW d \in Terminals
    PROVE  /\ d \in Clients /\ FamiliesOf(d) = Streams /\ Streams = {"job", "run"}
           /\ Streams \subseteq Families
  BY FamiliesFacts DEF Streams, Families

\* One frame in a row of its own.
LEMMA OneFrame ==
    ASSUME NEW S, NEW e \in S, NEW s, NEW known, e.kind = s => 1..(e.n - 1) \subseteq known
    PROVE  /\ Gapless(<<e>>, s, known)
           /\ Numbers(<<e>>, s) = IF e.kind = s THEN {e.n} ELSE {}
  <1>1. <<e>> = Append(<<>>, e) /\ <<>> \in Seq(S)
    OBVIOUS
  <1>2. Gapless(<<>>, s, known) /\ Numbers(<<>>, s) = {}
    BY NothingGapless
  <1>3. Gapless(Append(<<>>, e), s, known)
    BY <1>1, <1>2, AppendGapless
  <1>4. Numbers(Append(<<>>, e), s) = Numbers(<<>>, s) \cup (IF e.kind = s THEN {e.n} ELSE {})
    BY <1>1, AppendNumbers
  <1> QED
    BY <1>1, <1>2, <1>3, <1>4

\* And the other way round.
LEMMA OneFrameKnows ==
    ASSUME NEW S, NEW e \in S, NEW s, NEW known, Gapless(<<e>>, s, known), e.kind = s
    PROVE  1..(e.n - 1) \subseteq known
  <1>1. <<e>> \in Seq(S) /\ <<e>> # <<>> /\ Head(<<e>>) = e
    OBVIOUS
  <1> QED
    BY <1>1, TailGapless

\* A writer takes an event from its queue.
LEMMA GetFeeds ==
    ASSUME Base, NEW d \in Terminals, NEW s \in Streams, Feed(d, s), NEW f \in FamiliesOf(d), WriterGet(d, f)
    PROVE  Feed(d, s)'
  <1>0. d \in Clients /\ FamiliesOf(d) = Streams
    BY TerminalFacts
  <1> DEFINE u == sub[d][f]
             q == u.queue
             e == Head(q)
             more == IF e.kind = s THEN {e.n} ELSE {}
  <1>1. /\ Becomes(d, f, "lock", u.id, u.ready, Tail(q), <<e>>)
        /\ OtherSubs(d, f) /\ request' = request /\ wire'[d] = wire[d] /\ SameClient(d) /\ SameStreams
        /\ u.ready = TRUE /\ q \in Seq(Queueable) /\ q # <<>> /\ u.hand = <<>>
    BY <1>0, GetFacts DEF SameWire
  <1>2. Persisted(s)' = Persisted(s) /\ Published(s)' = Published(s) /\ job' = job
    BY <1>1, StreamsStay
  <1>3. Known(d, s)' = Known(d, s) /\ OnWay(d, s)' = OnWay(d, s)
    BY <1>1 DEF Known, OnWay, SameClient
  <1>4. Arrives(d, s)' /\ Replays(d, s)'
    BY <1>1, <1>2, <1>3 DEF Feed, Arrives, Replays, UnderWay
  <1>5. e \in Queueable /\ Tail(q) \in Seq(Queueable)
    BY <1>1
  <1>6. Numbers(q, s) = Numbers(Tail(q), s) \cup more
    BY <1>1, TailNumbers
  <1>7. Numbers(<<e>>, s) = more
    BY <1>5, OneFrame, NothingGapless DEF Numbers, Of
  <1>8. Live(d, f) /\ Live(d, f)' /\ sub'[d][f].queue = Tail(q) /\ sub'[d][f].hand = <<e>>
        /\ sub'[d][f].ready = u.ready /\ sub'[d][f].id = u.id
    BY <1>1, SubsDiffer DEF Becomes, Live
  <1> HIDE DEF e, q
  <1>9. CASE f = s
    <2>1. Coming(d, s) = {} /\ Coming(d, s)' = {}
      BY <1>1, <1>8, <1>9 DEF Coming
    <2>2. InHand(d, s) = OnWay(d, s) /\ Numbers(<<>>, s) = {}
      BY <1>1, <1>9, NothingGapless DEF InHand
    <2>3. InHand(d, s)' = OnWay(d, s) \cup more
      BY <1>3, <1>7, <1>8, <1>9 DEF InHand
    <2>4. Gapless(q, s, OnWay(d, s)) /\ Numbers(q, s) \subseteq 1..Persisted(s)
      BY <1>8, <1>9, <2>1, <2>2 DEF Feed, Queues, q
    <2>5. /\ Gapless(Tail(q), s, OnWay(d, s) \cup more)
          /\ e.kind = s => 1..(e.n - 1) \subseteq OnWay(d, s)
      BY <1>1, <2>4, TailGapless DEF q, e
    <2>6. Gapless(<<e>>, s, OnWay(d, s))
      BY <1>5, <2>5, OneFrame
    <2>7. Queues(d, s)'
      BY <1>2, <1>3, <1>6, <1>7, <1>8, <1>9, <2>1, <2>3, <2>4, <2>5, <2>6 DEF Queues
    <2>8. Complete(d, s)'
      BY <1>2, <1>6, <1>8, <1>9, <2>1, <2>2, <2>3 DEF Feed, Complete, q
    <2>9. Sorted(d, s)'
      BY <1>1, <1>9 DEF Feed, Sorted, Live, OtherSubs
    <2> QED
      BY <1>4, <2>7, <2>8, <2>9 DEF Feed
  <1>10. CASE f # s
    <2>1. sub'[d][s] = sub[d][s]
      BY <1>0, <1>1, <1>10 DEF OtherSubs
    <2>2. InHand(d, s)' = InHand(d, s) /\ Coming(d, s)' = Coming(d, s)
      BY <1>1, <1>3, <2>1 DEF InHand, Coming, Lifts
    <2>3. Queues(d, s)' /\ Complete(d, s)'
      BY <1>2, <1>3, <2>1, <2>2 DEF Feed, Queues, Complete, Live
    <2>4. Numbers(q, s) = {}
      BY <1>8, <1>10 DEF Feed, Sorted, q
    <2>5. Sorted(d, s)'
      BY <1>1, <1>6, <1>7, <1>8, <2>4 DEF Feed, Sorted, Live, OtherSubs
    <2> QED
      BY <1>4, <2>3, <2>5 DEF Feed
  <1> QED
    BY <1>9, <1>10

\* A writer is done with draining.
LEMMA DrainedFeeds ==
    ASSUME Base, NEW d \in Terminals, NEW s \in Streams, Feed(d, s), NEW f \in FamiliesOf(d), WriterDrained(d, f)
    PROVE  Feed(d, s)'
  <1>0. d \in Clients /\ FamiliesOf(d) = Streams
    BY TerminalFacts
  <1>1. /\ Becomes(d, f, "get", sub[d][f].id, sub[d][f].ready, sub[d][f].queue, <<>>)
        /\ OtherSubs(d, f) /\ request' = request /\ wire'[d] = wire[d] /\ SameClient(d) /\ SameStreams
        /\ sub[d][f].hand = <<>>
    BY <1>0, DrainedFacts DEF SameWire
  <1>2. Persisted(s)' = Persisted(s) /\ Published(s)' = Published(s) /\ job' = job
    BY <1>1, StreamsStay
  <1>3. Known(d, s)' = Known(d, s) /\ OnWay(d, s)' = OnWay(d, s)
    BY <1>1 DEF Known, OnWay, SameClient
  <1>4. Arrives(d, s)' /\ Replays(d, s)'
    BY <1>1, <1>2, <1>3 DEF Feed, Arrives, Replays, UnderWay
  <1>5. ASSUME NEW g \in FamiliesOf(d)
        PROVE  /\ Live(d, g)' <=> Live(d, g)
               /\ sub'[d][g].id = sub[d][g].id /\ sub'[d][g].ready = sub[d][g].ready
               /\ sub'[d][g].queue = sub[d][g].queue /\ sub'[d][g].hand = sub[d][g].hand
    BY <1>1, SubsDiffer DEF Live, Becomes, OtherSubs
  <1>6. InHand(d, s)' = InHand(d, s) /\ Coming(d, s)' = Coming(d, s)
    BY <1>0, <1>1, <1>3, <1>5 DEF InHand, Coming, Lifts
  <1>7. Queues(d, s)' /\ Complete(d, s)'
    BY <1>0, <1>2, <1>3, <1>5, <1>6 DEF Feed, Queues, Complete
  <1>8. Sorted(d, s)'
    BY <1>5 DEF Feed, Sorted
  <1> QED
    BY <1>4, <1>7, <1>8 DEF Feed

\* A frame goes to the wire that everything before is known or on its way for.
LEMMA WireGets ==
    ASSUME Base, Base', NEW d \in Terminals, NEW s \in Streams, Arrives(d, s), SameStreams,
           cursor'[d] = cursor[d], shown'[d] = shown[d],
           NEW e \in Frames, wire'[d] = Append(wire[d], e),
           e.kind = s => 1..(e.n - 1) \subseteq OnWay(d, s) /\ e.n \in 1..Persisted(s)
    PROVE  /\ Arrives(d, s)'
           /\ OnWay(d, s)' = OnWay(d, s) \cup (IF e.kind = s THEN {e.n} ELSE {})
           /\ Known(d, s)' = Known(d, s)
  <1>0. d \in Clients /\ wire[d] \in Seq(Frames)
    BY TerminalFacts DEF Base, TypeInv, ClientType
  <1>1. Persisted(s)' = Persisted(s)
    BY StreamsStay
  <1>2. Known(d, s)' = Known(d, s)
    BY DEF Known
  <1>3. Numbers(wire'[d], s) = Numbers(wire[d], s) \cup (IF e.kind = s THEN {e.n} ELSE {})
    BY <1>0, AppendNumbers
  <1>4. Gapless(wire'[d], s, Known(d, s))
    BY <1>0, AppendGapless DEF Arrives, OnWay
  <1> QED
    BY <1>1, <1>2, <1>3, <1>4 DEF Arrives, OnWay

\* A writer writes the event it has in hand.
LEMMA WriteFeeds ==
    ASSUME Base, Base', NEW d \in Terminals, NEW s \in Streams, Feed(d, s), NEW f \in FamiliesOf(d), WriterWrite(d, f)
    PROVE  Feed(d, s)'
  <1>0. d \in Clients /\ FamiliesOf(d) = Streams
    BY TerminalFacts
  <1> DEFINE u == sub[d][f]
  <1>1. /\ Becomes(d, f, "drain", u.id, u.ready, u.queue, <<>>)
        /\ OtherSubs(d, f) /\ request' = request /\ SameClient(d) /\ SameStreams
    BY <1>0, WriteFacts
  <1>2. PICK e \in Queueable : u.hand = <<e>> /\ wire'[d] = Append(wire[d], Frame(e.kind, e.n))
    BY <1>0, WriteFacts
  <1> DEFINE w == Frame(e.kind, e.n)
             more == IF e.kind = s THEN {e.n} ELSE {}
  <1>3. w \in Frames /\ w.kind = e.kind /\ w.n = e.n
    BY DEF Frames, Queueable, Frame, Kinds
  <1>4. Persisted(s)' = Persisted(s) /\ Published(s)' = Published(s) /\ job' = job
    BY <1>1, StreamsStay
  <1>5. Live(d, f) /\ Live(d, f)' /\ sub'[d][f].queue = u.queue /\ sub'[d][f].hand = <<>>
        /\ sub'[d][f].ready = u.ready /\ sub'[d][f].id = u.id
    BY <1>1, SubsDiffer DEF Becomes, Live
  <1>6. Numbers(<<e>>, s) = more
    BY OneFrame DEF Numbers, Of
  <1>7. e.kind = s => f = s /\ 1..(e.n - 1) \subseteq OnWay(d, s) /\ e.n \in 1..Persisted(s)
    <2> SUFFICES ASSUME e.kind = s PROVE f = s /\ 1..(e.n - 1) \subseteq OnWay(d, s) /\ e.n \in 1..Persisted(s)
      OBVIOUS
    <2>1. f = s
      BY <1>2, <1>5, <1>6 DEF Feed, Sorted
    <2>2. Gapless(<<e>>, s, OnWay(d, s)) /\ Numbers(<<e>>, s) \subseteq 1..Persisted(s)
      BY <1>2, <1>5, <2>1 DEF Feed, Queues
    <2> QED
      BY <1>6, <2>1, <2>2, OneFrameKnows
  <1>8. /\ Arrives(d, s)' /\ OnWay(d, s)' = OnWay(d, s) \cup more /\ Known(d, s)' = Known(d, s)
    <2>1. cursor'[d] = cursor[d] /\ shown'[d] = shown[d] /\ wire'[d] = Append(wire[d], w)
      BY <1>1, <1>2 DEF SameClient
    <2>2. w.kind = s => 1..(w.n - 1) \subseteq OnWay(d, s) /\ w.n \in 1..Persisted(s)
      BY <1>3, <1>7
    <2> HIDE DEF w
    <2> QED
      BY <1>1, <1>3, <2>1, <2>2, WireGets DEF Feed
  <1>9. Replays(d, s)'
    <2> SUFFICES ASSUME NEW r \in Requests, UnderWay(d, r)'
                 PROVE  /\ Gapless(request'[d][r].todo, s, OnWay(d, s)')
                        /\ Numbers(request'[d][r].todo, s) \subseteq 1..Persisted(s)'
      BY DEF Replays
    <2>1. /\ Gapless(request[d][r].todo, s, OnWay(d, s))
          /\ Numbers(request[d][r].todo, s) \subseteq 1..Persisted(s)
      BY <1>1 DEF Feed, Replays, UnderWay
    <2>2. Gapless(request[d][r].todo, s, OnWay(d, s)')
      BY <1>8, <2>1, MoreKnown
    <2> QED
      BY <1>1, <1>4, <2>1, <2>2
  <1>10. CASE f = s
    <2>1. Coming(d, s)' = Coming(d, s)
      BY <1>1, <1>5, <1>10 DEF Coming, Lifts
    <2>2. InHand(d, s) = OnWay(d, s) \cup more
      BY <1>2, <1>6, <1>10 DEF InHand
    <2>3. Numbers(<<>>, s) = {} /\ Gapless(<<>>, s, OnWay(d, s)')
      BY NothingGapless
    <2>4. InHand(d, s)' = OnWay(d, s) \cup more
      BY <1>5, <1>8, <1>10, <2>3 DEF InHand
    <2>5. Queues(d, s)'
      BY <1>4, <1>5, <1>8, <1>10, <2>1, <2>2, <2>3, <2>4 DEF Feed, Queues
    <2>6. Complete(d, s)'
      BY <1>4, <1>5, <1>10, <2>1, <2>2, <2>4 DEF Feed, Complete
    <2>7. Sorted(d, s)'
      BY <1>1, <1>10 DEF Feed, Sorted, Live, OtherSubs
    <2> QED
      BY <1>8, <1>9, <2>5, <2>6, <2>7 DEF Feed
  <1>11. CASE f # s
    <2>1. sub'[d][s] = sub[d][s]
      BY <1>0, <1>1, <1>11 DEF OtherSubs
    <2>2. OnWay(d, s)' = OnWay(d, s)
      BY <1>7, <1>8, <1>11
    <2>3. InHand(d, s)' = InHand(d, s) /\ Coming(d, s)' = Coming(d, s)
      BY <1>1, <2>1, <2>2 DEF InHand, Coming, Lifts
    <2>4. Queues(d, s)' /\ Complete(d, s)'
      BY <1>4, <2>1, <2>2, <2>3 DEF Feed, Queues, Complete, Live
    <2>5. Numbers(<<>>, s) = {}
      BY NothingGapless
    <2>6. Sorted(d, s)'
      BY <1>1, <1>5, <2>5 DEF Feed, Sorted, Live, OtherSubs
    <2> QED
      BY <1>8, <1>9, <2>4, <2>6 DEF Feed
  <1> QED
    BY <1>10, <1>11

\* The terminal sends a command.
LEMMA SendFeeds ==
    ASSUME Base, NEW d \in Terminals, NEW s \in Streams, Feed(d, s), NEW f \in FamiliesOf(d), NEW r \in Requests,
           SendSubscribe(d, f, r)
    PROVE  Feed(d, s)'
  <1>0. d \in Clients /\ s \in FamiliesOf(d)
    BY TerminalFacts
  <1>1. /\ request[d][r] = Idle /\ request'[d][r] = Asked(d, f) /\ Asked(d, f) \in SentStates
        /\ OtherRequests(d, r) /\ sub' = sub /\ wire'[d] = wire[d]
        /\ cursor' = cursor /\ shown' = shown /\ SameStreams
    BY <1>0, SendFacts DEF SameWire
  <1>2. Persisted(s)' = Persisted(s) /\ Published(s)' = Published(s) /\ job' = job
    BY <1>1, StreamsStay
  <1>3. Known(d, s)' = Known(d, s) /\ OnWay(d, s)' = OnWay(d, s)
    BY <1>1 DEF Known, OnWay
  <1>4. ~UnderWay(d, r) /\ ~UnderWay(d, r)'
    BY <1>1, SubsDiffer DEF UnderWay
  <1>5. \A p \in Requests : p # r => request'[d][p] = request[d][p]
    BY <1>1 DEF OtherRequests
  <1>6. Arrives(d, s)'
    BY <1>1, <1>2, <1>3 DEF Feed, Arrives
  <1>7. Replays(d, s)'
    BY <1>2, <1>3, <1>4, <1>5 DEF Feed, Replays, UnderWay
  <1>8. InHand(d, s)' = InHand(d, s)
    BY <1>1, <1>3 DEF InHand
  <1>9. Coming(d, s)' = Coming(d, s)
    <2>1. ASSUME NEW m PROVE m \in Coming(d, s)' <=> m \in Coming(d, s)
      BY <1>1, <1>4, <1>5, ComingIs DEF Lifts, UnderWay
    <2> QED
      BY <2>1
  <1>10. Queues(d, s)' /\ Complete(d, s)' /\ Sorted(d, s)'
    BY <1>1, <1>2, <1>3, <1>8, <1>9 DEF Feed, Queues, Complete, Sorted, Live
  <1> QED
    BY <1>6, <1>7, <1>10 DEF Feed

\* A subscription is replaced: the replay brings what the terminal does not know.
LEMMA SubscribeFeeds ==
    ASSUME Base, Ended, NEW d \in Terminals, Asks(d), NEW s \in Streams, Feed(d, s), NEW r \in Requests, Subscribe(d, r)
    PROVE  Feed(d, s)'
  <1>0. d \in Clients /\ s \in FamiliesOf(d) /\ FamiliesOf(d) = Streams /\ Streams = {"job", "run"}
    BY TerminalFacts
  <1> DEFINE q == request[d][r]
             f == q.family
             todo == Replay(f, q.after)
  <1>1. /\ q.pc = "sent" /\ f \in FamiliesOf(d) /\ q.after \in Nat
        /\ sub'[d][f] \in SubStates
        /\ sub'[d][f].ready = (f = "global") /\ sub'[d][f].id = issued + 1
        /\ sub'[d][f].queue = <<>> /\ sub'[d][f].hand = <<>>
        /\ OtherSubs(d, f) /\ OtherRequests(d, r) /\ SameNews(d, s) /\ SameClient(d) /\ SameStreams
    BY <1>0, SubscribeFacts, AnswerIsNoNews DEF SameWire
  <1>2. /\ request'[d][r].pc = "lock" /\ request'[d][r].family = f
        /\ request'[d][r].id = issued + 1 /\ request'[d][r].todo = todo
    <2>1. f # "global"
      BY <1>0, <1>1
    <2>2. request'[d][r].id = issued + 1 /\ request'[d][r].todo = Replay(request[d][r].family, request[d][r].after)
          /\ request'[d][r].pc = "lock" /\ request'[d][r].family = f
      BY <1>0, <2>1, SubscribeFacts
    <2> QED
      BY <2>2
  <1>3. Persisted(s)' = Persisted(s) /\ Published(s)' = Published(s) /\ job' = job
    BY <1>1, StreamsStay
  <1>4. Known(d, s)' = Known(d, s) /\ OnWay(d, s)' = OnWay(d, s)
    BY <1>1 DEF Known, OnWay, SameClient, SameNews
  <1>5. \A p \in Requests : p # r => request'[d][p] = request[d][p]
    BY <1>1 DEF OtherRequests
  <1>6. ~UnderWay(d, r)
    BY <1>1 DEF UnderWay
  <1>7. Arrives(d, s)'
    BY <1>1, <1>3, <1>4 DEF Feed, Arrives, SameNews
  <1>8. /\ todo \in Seq(Frames) /\ \A t : t # f => Of(todo, t) = {}
        /\ f = "job" /\ job # "dead" => Numbers(todo, f) = (q.after + 1)..Len(log.rows)
        /\ f = "job" => Numbers(todo, f) \subseteq 1..Len(log.rows)
        /\ f = "run" => Numbers(todo, f) = 1..runLog
        /\ Gapless(todo, f, 1..q.after)
    <2>1. f \in Families /\ runLog \in Nat /\ LogInv
      BY <1>0, <1>1, TerminalFacts DEF Base, TypeInv, BusType
    <2> QED
      BY <1>1, <2>1, ReplayIs
  <1> HIDE DEF todo
  <1>9. 1..q.after \subseteq Known(d, f)
    <2>1. q.after <= IF f = "job" THEN cursor[d] ELSE 0
      BY <1>1 DEF Asks
    <2>2. cursor[d] \in Nat
      BY <1>0 DEF Base, TypeInv, ClientType
    <2> QED
      BY <1>1, <2>1, <2>2 DEF Known
  <1>10. Gapless(todo, s, OnWay(d, s)) /\ Numbers(todo, s) \subseteq 1..Persisted(s)
    <2>1. CASE f = s
      <3>1. Gapless(todo, s, OnWay(d, s))
        <4>1. 1..q.after \subseteq OnWay(d, s)
          BY <1>9, <2>1 DEF OnWay
        <4> QED
          BY <1>8, <2>1, <4>1, MoreKnown
      <3>2. Numbers(todo, s) \subseteq 1..Persisted(s)
        BY <1>0, <1>8, <2>1 DEF Persisted
      <3> QED
        BY <3>1, <3>2
    <2>2. CASE f # s
      BY <1>8, <2>2 DEF Gapless, Numbers
    <2> QED
      BY <2>1, <2>2
  <1>11. Replays(d, s)'
    BY <1>2, <1>3, <1>4, <1>5, <1>10 DEF Feed, Replays, UnderWay
  <1>12. CASE f = s
    <2>1. Live(d, s)' /\ sub'[d][s].queue = <<>> /\ sub'[d][s].hand = <<>>
          /\ ~sub'[d][s].ready /\ sub'[d][s].id = issued + 1
      BY <1>0, <1>1, <1>12, SubsDiffer DEF Live
    <2>2. \A known : Gapless(<<>>, s, known) /\ Numbers(<<>>, s) = {}
      BY NothingGapless
    <2>3. Queues(d, s)'
      BY <2>1, <2>2 DEF Queues
    <2>4. Numbers(todo, s) \subseteq Coming(d, s)'
      <3>1. Lifts(d, s, r)'
        BY <1>2, <1>12, <2>1 DEF Lifts
      <3>2. Numbers(todo, s) \subseteq Nat
        BY <1>10
      <3> QED
        BY <1>2, <2>1, <3>1, <3>2, ComingIs
    <2>5. ~(s = "job" /\ job = "dead") => 1..Published(s) \subseteq Known(d, s) \cup Numbers(todo, s)
      <3> SUFFICES ASSUME ~(s = "job" /\ job = "dead")
                   PROVE  1..Published(s) \subseteq Known(d, s) \cup Numbers(todo, s)
        OBVIOUS
      <3>1. Len(log.rows) \in Nat /\ unpublished \in Nat /\ runLog \in Nat
        BY DEF Base, LogInv, LogType, TypeInv, BusType
      <3>2. CASE s = "job"
        <4>1. Published(s) <= Len(log.rows) /\ Published(s) \in Int
          BY <3>1, <3>2 DEF Published, Ended
        <4>2. Numbers(todo, s) = (q.after + 1)..Len(log.rows) /\ 1..q.after \subseteq Known(d, s)
          BY <1>8, <1>9, <1>12, <3>2
        <4> QED
          BY <1>1, <3>1, <4>1, <4>2
      <3>3. CASE s = "run"
        BY <1>8, <1>12, <3>3 DEF Published
      <3> QED
        BY <1>0, <3>2, <3>3
    <2>6. Complete(d, s)'
      <3>1. Known(d, s) \subseteq InHand(d, s)'
        BY <1>4 DEF InHand, OnWay
      <3> QED
        BY <1>3, <2>4, <2>5, <3>1 DEF Complete
    <2>7. Sorted(d, s)'
      BY <1>1, <1>12 DEF Feed, Sorted, Live, OtherSubs
    <2> QED
      BY <1>7, <1>11, <2>3, <2>6, <2>7 DEF Feed
  <1>13. CASE f # s
    <2>1. sub'[d][s] = sub[d][s]
      BY <1>0, <1>1, <1>13 DEF OtherSubs
    <2>2. InHand(d, s)' = InHand(d, s)
      BY <1>4, <2>1 DEF InHand
    <2>3. ~Lifts(d, s, r) /\ ~Lifts(d, s, r)'
      BY <1>2, <1>6, <1>13 DEF Lifts, UnderWay
    <2>4. \A p \in Requests : p # r => (Lifts(d, s, p)' <=> Lifts(d, s, p))
      BY <1>5, <2>1 DEF Lifts
    <2>5. Coming(d, s)' = Coming(d, s)
      <3>1. ASSUME NEW m PROVE m \in Coming(d, s)' <=> m \in Coming(d, s)
        BY <1>5, <2>1, <2>3, <2>4, ComingIs
      <3> QED
        BY <3>1
    <2>6. Queues(d, s)' /\ Complete(d, s)'
      BY <1>3, <1>4, <2>1, <2>2, <2>5 DEF Feed, Queues, Complete, Live
    <2>7. Sorted(d, s)'
      <3>1. Numbers(<<>>, s) = {}
        BY NothingGapless
      <3> QED
        BY <1>1, <3>1 DEF Feed, Sorted, Live, OtherSubs
    <2> QED
      BY <1>7, <1>11, <2>6, <2>7 DEF Feed
  <1> QED
    BY <1>12, <1>13

\* A replay is over: nothing more is coming, all of it is on its way.
LEMMA ReplayEndFeeds ==
    ASSUME Base, NEW d \in Terminals, OwnIds(d), NEW s \in Streams, Feed(d, s), NEW r \in Requests,
           ReplayStep(d, r), request[d][r].todo = <<>>
    PROVE  Feed(d, s)'
  <1>0. d \in Clients /\ s \in FamiliesOf(d)
    BY TerminalFacts
  <1> DEFINE q == request[d][r]
             f == q.family
             u == sub[d][f]
  <1>1. /\ q.pc \in {"lock", "drain"} /\ f \in FamiliesOf(d)
        /\ request'[d][r] = Idle /\ OtherRequests(d, r) /\ OtherSubs(d, f)
        /\ IF Live(d, f) /\ u.id = q.id THEN Becomes(d, f, u.pc, u.id, TRUE, u.queue, u.hand)
                                        ELSE sub'[d][f] = u
        /\ SameNews(d, s) /\ SameClient(d) /\ SameStreams
    BY <1>0, ReplayEndFacts, AnswerIsNoNews
  <1>2. Persisted(s)' = Persisted(s) /\ Published(s)' = Published(s) /\ job' = job
    BY <1>1, StreamsStay
  <1>3. Known(d, s)' = Known(d, s) /\ OnWay(d, s)' = OnWay(d, s)
    BY <1>1 DEF Known, OnWay, SameClient, SameNews
  <1>4. \A p \in Requests : p # r => request'[d][p] = request[d][p]
    BY <1>1 DEF OtherRequests
  <1>5. ~UnderWay(d, r)'
    BY <1>1, SubsDiffer DEF UnderWay
  <1>6. Arrives(d, s)' /\ Replays(d, s)'
    BY <1>1, <1>2, <1>3, <1>4, <1>5 DEF Feed, Arrives, Replays, UnderWay, SameNews
  <1>7. ASSUME NEW g \in FamiliesOf(d)
        PROVE  /\ Live(d, g)' <=> Live(d, g)
               /\ Live(d, g) => /\ sub'[d][g].id = sub[d][g].id
                                /\ sub'[d][g].queue = sub[d][g].queue /\ sub'[d][g].hand = sub[d][g].hand
    <2>1. CASE g = f /\ Live(d, f) /\ u.id = q.id
      BY <1>1, <2>1, SubsDiffer DEF Live, Becomes
    <2>2. CASE ~(g = f /\ Live(d, f) /\ u.id = q.id)
      BY <1>1, <2>2 DEF Live, OtherSubs
    <2> QED
      BY <2>1, <2>2
  <1>8. ASSUME Live(d, s) PROVE InHand(d, s)' = InHand(d, s)
    BY <1>0, <1>3, <1>7, <1>8 DEF InHand
  <1>9. ASSUME Live(d, s) PROVE Coming(d, s)' = Coming(d, s)
    <2>1. Numbers(<<>>, s) = {}
      BY NothingGapless
    <2>2. CASE f = s /\ u.id = q.id
      <3>1. sub'[d][s].ready = TRUE
        BY <1>1, <1>9, <2>2 DEF Becomes
      <3>2. Coming(d, s)' = {}
        BY <3>1 DEF Coming
      <3>3. ASSUME NEW p \in Requests, Lifts(d, s, p) PROVE p = r
        BY <1>1, <2>2, <3>3 DEF Lifts, OwnIds
      <3>4. \A m : m \notin Coming(d, s)
        BY <2>1, <3>3, ComingIs
      <3> QED
        BY <3>2, <3>4
    <2>3. CASE ~(f = s /\ u.id = q.id)
      <3>1. sub'[d][s] = sub[d][s]
        BY <1>0, <1>1, <2>3 DEF OtherSubs
      <3>2. ~Lifts(d, s, r)
        BY <2>3 DEF Lifts
      <3>3. ~Lifts(d, s, r)'
        BY <1>5 DEF Lifts, UnderWay
      <3>4. \A p \in Requests : p # r => (Lifts(d, s, p)' <=> Lifts(d, s, p))
        BY <1>4, <3>1 DEF Lifts
      <3>5. ASSUME NEW m PROVE m \in Coming(d, s)' <=> m \in Coming(d, s)
        BY <1>4, <3>1, <3>2, <3>3, <3>4, ComingIs
      <3> QED
        BY <3>5
    <2> QED
      BY <2>2, <2>3
  <1>10. Queues(d, s)'
    BY <1>0, <1>2, <1>3, <1>7, <1>8, <1>9 DEF Feed, Queues
  <1>11. Complete(d, s)'
    BY <1>0, <1>2, <1>7, <1>8, <1>9 DEF Feed, Complete
  <1>12. Sorted(d, s)'
    BY <1>7 DEF Feed, Sorted
  <1> QED
    BY <1>6, <1>10, <1>11, <1>12 DEF Feed

\* A replay writes a frame: what was coming is on its way.
LEMMA ReplayOnFeeds ==
    ASSUME Base, Base', NEW d \in Terminals, NEW s \in Streams, Feed(d, s), NEW r \in Requests,
           ReplayStep(d, r), request[d][r].todo # <<>>
    PROVE  Feed(d, s)'
  <1>0. d \in Clients /\ s \in FamiliesOf(d)
    BY TerminalFacts
  <1> DEFINE q == request[d][r]
             w == Head(q.todo)
             more == IF w.kind = s THEN {w.n} ELSE {}
  <1>1. /\ q.pc \in {"lock", "drain"}
        /\ request'[d][r].pc = "drain" /\ request'[d][r].family = q.family /\ request'[d][r].id = q.id
        /\ request'[d][r].todo = Tail(q.todo) /\ q.todo \in Seq(Frames) /\ q.todo # <<>>
        /\ OtherRequests(d, r) /\ w \in Frames /\ wire'[d] = Append(wire[d], w)
        /\ sub' = sub /\ SameClient(d) /\ SameStreams
    BY <1>0, ReplayOnFacts
  <1>2. Persisted(s)' = Persisted(s) /\ Published(s)' = Published(s) /\ job' = job
    BY <1>1, StreamsStay
  <1>3. Gapless(q.todo, s, OnWay(d, s)) /\ Numbers(q.todo, s) \subseteq 1..Persisted(s)
    BY <1>1 DEF Feed, Replays, UnderWay
  <1>4. /\ Gapless(Tail(q.todo), s, OnWay(d, s) \cup more)
        /\ w.kind = s => 1..(w.n - 1) \subseteq OnWay(d, s)
        /\ Numbers(q.todo, s) = Numbers(Tail(q.todo), s) \cup more
    BY <1>1, <1>3, TailGapless, TailNumbers
  <1>5. w.kind = s => w.n \in 1..Persisted(s)
    BY <1>3, <1>4
  <1> HIDE DEF w
  <1>6. Arrives(d, s)' /\ OnWay(d, s)' = OnWay(d, s) \cup more /\ Known(d, s)' = Known(d, s)
    <2>1. cursor'[d] = cursor[d] /\ shown'[d] = shown[d]
      BY <1>1 DEF SameClient
    <2>2. w.kind = s => 1..(w.n - 1) \subseteq OnWay(d, s) /\ w.n \in 1..Persisted(s)
      BY <1>4, <1>5
    <2> QED
      BY <1>1, <2>1, <2>2, WireGets DEF Feed
  <1> HIDE DEF more
  <1>7. \A p \in Requests : p # r => request'[d][p] = request[d][p]
    BY <1>1 DEF OtherRequests
  <1>8. Replays(d, s)'
    <2> SUFFICES ASSUME NEW p \in Requests, UnderWay(d, p)'
                 PROVE  /\ Gapless(request'[d][p].todo, s, OnWay(d, s)')
                        /\ Numbers(request'[d][p].todo, s) \subseteq 1..Persisted(s)'
      BY DEF Replays
    <2>1. CASE p = r
      BY <1>1, <1>2, <1>3, <1>4, <1>6, <2>1
    <2>2. CASE p # r
      <3>1. /\ Gapless(request[d][p].todo, s, OnWay(d, s))
            /\ Numbers(request[d][p].todo, s) \subseteq 1..Persisted(s)
        BY <1>7, <2>2 DEF Feed, Replays, UnderWay
      <3>2. Gapless(request[d][p].todo, s, OnWay(d, s)')
        BY <1>6, <3>1, MoreKnown
      <3> QED
        BY <1>2, <1>7, <2>2, <3>1, <3>2
    <2> QED
      BY <2>1, <2>2
  <1>9. \A p \in Requests : Lifts(d, s, p)' <=> Lifts(d, s, p)
    BY <1>1, <1>7 DEF Lifts
  <1>10. Coming(d, s) \subseteq Coming(d, s)' \cup more
    <2> SUFFICES ASSUME NEW m \in Coming(d, s), m \notin more PROVE m \in Coming(d, s)'
      OBVIOUS
    <2>1. PICK p \in Requests : Lifts(d, s, p) /\ m \in Numbers(request[d][p].todo, s)
      BY ComingIs
    <2>2. m \in Nat /\ ~sub[d][s].ready
      BY ComingIs
    <2>3. m \in Numbers(request'[d][p].todo, s)
      BY <1>1, <1>4, <1>7, <2>1
    <2> QED
      BY <1>1, <1>9, <2>1, <2>2, <2>3, ComingIs
  <1>11. InHand(d, s)' = InHand(d, s) \cup more
    BY <1>1, <1>6 DEF InHand
  <1>12. Queues(d, s)'
    <2> SUFFICES ASSUME Live(d, s)' PROVE
            /\ Gapless(sub[d][s].hand, s, OnWay(d, s)')
            /\ Gapless(sub[d][s].queue, s, InHand(d, s)' \cup Coming(d, s)')
            /\ Numbers(sub[d][s].hand, s) \cup Numbers(sub[d][s].queue, s) \subseteq 1..Persisted(s)
      BY <1>1, <1>2 DEF Queues
    <2>1. /\ Gapless(sub[d][s].hand, s, OnWay(d, s))
          /\ Gapless(sub[d][s].queue, s, InHand(d, s) \cup Coming(d, s))
          /\ Numbers(sub[d][s].hand, s) \cup Numbers(sub[d][s].queue, s) \subseteq 1..Persisted(s)
      BY <1>1 DEF Feed, Queues, Live
    <2>2. Gapless(sub[d][s].hand, s, OnWay(d, s)')
      BY <1>6, <2>1, MoreKnown
    <2>3. Gapless(sub[d][s].queue, s, InHand(d, s)' \cup Coming(d, s)')
      <3>1. InHand(d, s) \cup Coming(d, s) \subseteq InHand(d, s)' \cup Coming(d, s)'
        BY <1>10, <1>11
      <3> QED
        BY <2>1, <3>1, MoreKnown
    <2> QED
      BY <2>1, <2>2, <2>3
  <1>13. Complete(d, s)'
    BY <1>1, <1>2, <1>10, <1>11 DEF Feed, Complete, Live
  <1>14. Sorted(d, s)'
    BY <1>1 DEF Feed, Sorted, Live
  <1> QED
    BY <1>6, <1>8, <1>12, <1>13, <1>14 DEF Feed

\* What a terminal takes note of is the next event of a stream, or one it has
\* taken note of before.
LEMMA ReceiveIs ==
    ASSUME Base, NEW d \in Terminals, NEW s \in Streams, Arrives(d, s), Receive(d)
    PROVE  LET e == Head(wire[d])
               more == IF e.kind = s THEN {e.n} ELSE {} IN
           /\ Known(d, s)' = Known(d, s) \cup more
           /\ OnWay(d, s)' = OnWay(d, s)
           /\ Arrives(d, s)'
           /\ \A k \in Nat : Known(d, s) = 1..k =>
                 Known(d, s)' = 1..k \/ (Known(d, s)' = 1..(k + 1) /\ k + 1 <= Persisted(s) /\ e.kind = s)
  <1>0. d \in Clients /\ Streams = {"job", "run"}
    BY TerminalFacts
  <1> DEFINE e == Head(wire[d])
             more == IF e.kind = s THEN {e.n} ELSE {}
  <1>1. /\ wire[d] \in Seq(Frames) /\ wire[d] # <<>> /\ wire'[d] = Tail(wire[d]) /\ e \in Frames
        /\ cursor'[d] = IF e.kind = "job" /\ e.n > cursor[d] THEN e.n ELSE cursor[d]
        /\ shown'[d] = IF e.kind = "run" THEN shown[d] \cup {e.n} ELSE shown[d]
        /\ SameStreams
    BY <1>0, ReceiveFacts
  <1>2. Persisted(s)' = Persisted(s) /\ Persisted(s) \in Nat
    <2>1. Len(log.rows) \in Nat /\ runLog \in Nat
      BY DEF Base, LogInv, LogType, TypeInv, BusType
    <2> QED
      BY <1>1, <2>1, StreamsStay DEF Persisted
  <1>3. PICK k \in Nat : Known(d, s) = 1..k
    BY DEF Arrives
  <1>4. /\ Gapless(Tail(wire[d]), s, Known(d, s) \cup more)
        /\ e.kind = s => 1..(e.n - 1) \subseteq Known(d, s)
        /\ Numbers(wire[d], s) = Numbers(Tail(wire[d]), s) \cup more
    BY <1>1, TailGapless, TailNumbers DEF Arrives
  <1>5. e.kind = s => e.n \in 1..Persisted(s)
    BY <1>4 DEF Arrives, OnWay
  <1> HIDE DEF e
  <1>6. e.kind = s => e.n \in 1..(k + 1)
    <2> SUFFICES ASSUME e.kind = s PROVE e.n \in 1..(k + 1)
      OBVIOUS
    <2>1. e.n \in Nat \ {0} /\ 1..(e.n - 1) \subseteq 1..k
      BY <1>2, <1>3, <1>4, <1>5
    <2>2. CASE e.n = 1
      BY <2>2
    <2>3. CASE e.n # 1
      <3>1. e.n - 1 \in 1..(e.n - 1)
        BY <2>1, <2>3
      <3> QED
        BY <2>1, <3>1
    <2> QED
      BY <2>2, <2>3
  <1>7. 1..k \cup more = 1..k \/ (1..k \cup more = 1..(k + 1) /\ e.kind = s /\ e.n = k + 1)
    <2>1. CASE e.kind = s /\ e.n = k + 1
      BY <2>1
    <2>2. CASE ~(e.kind = s /\ e.n = k + 1)
      BY <1>6, <2>2
    <2> QED
      BY <2>1, <2>2
  <1>8. Known(d, s)' = Known(d, s) \cup more
    <2>1. CASE s = "job"
      <3>1. cursor[d] \in Nat
        BY <1>0 DEF Base, TypeInv, ClientType
      <3>2. Known(d, s) = 1..cursor[d] /\ Known(d, s)' = 1..cursor'[d]
        BY <2>1 DEF Known
      <3>3. e.kind = "job" => e.n \in Nat \ {0} /\ 1..(e.n - 1) \subseteq 1..cursor[d]
        <4>1. e.kind = "job" => e.n \in Nat \ {0}
          BY <1>2, <1>5, <2>1
        <4>2. e.kind = "job" => 1..(e.n - 1) \subseteq Known(d, s)
          BY <1>4, <2>1
        <4> QED
          BY <3>2, <4>1, <4>2
      <3>4. e.kind = "job" => e.n \in 1..(cursor[d] + 1)
        <4> SUFFICES ASSUME e.kind = "job", e.n # 1 PROVE e.n \in 1..(cursor[d] + 1)
          BY <3>1
        <4>1. e.n - 1 \in 1..(e.n - 1)
          BY <3>3
        <4> QED
          BY <3>1, <3>3, <4>1
      <3>5. CASE e.kind = "job" /\ e.n > cursor[d]
        <4>1. e.n = cursor[d] + 1 /\ cursor'[d] = cursor[d] + 1
          BY <1>1, <3>1, <3>4, <3>5
        <4>2. 1..(cursor[d] + 1) = 1..cursor[d] \cup {cursor[d] + 1}
          BY <3>1
        <4> QED
          BY <2>1, <3>2, <3>5, <4>1, <4>2
      <3>6. CASE e.kind = "job" /\ ~(e.n > cursor[d])
        <4>1. e.n \in 1..cursor[d] /\ cursor'[d] = cursor[d]
          BY <1>1, <3>1, <3>4, <3>6
        <4> QED
          BY <2>1, <3>2, <3>6, <4>1
      <3>7. CASE e.kind # "job"
        BY <1>1, <2>1, <3>2, <3>7
      <3> QED
        BY <3>5, <3>6, <3>7
    <2>2. CASE s = "run"
      BY <1>1, <2>2 DEF Known
    <2> QED
      BY <1>0, <2>1, <2>2
  <1>9. OnWay(d, s)' = OnWay(d, s)
    BY <1>1, <1>4, <1>8 DEF OnWay
  <1>10. Arrives(d, s)'
    <2>1. \E m \in Nat : Known(d, s)' = 1..m
      BY <1>3, <1>7, <1>8
    <2> QED
      BY <1>1, <1>2, <1>4, <1>8, <1>9, <2>1 DEF Arrives
  <1>11. ASSUME NEW m \in Nat, Known(d, s) = 1..m PROVE m = k
    <2>1. 1..m = 1..k
      BY <1>3, <1>11
    <2> QED
      BY <2>1
  <1>12. \A m \in Nat : Known(d, s) = 1..m =>
            Known(d, s)' = 1..m \/ (Known(d, s)' = 1..(m + 1) /\ m + 1 <= Persisted(s) /\ e.kind = s)
    BY <1>2, <1>3, <1>5, <1>7, <1>8, <1>11
  <1> QED
    BY <1>8, <1>9, <1>10, <1>12 DEF e

\* Another command of the terminal is answered.
LEMMA RespondFeeds ==
    ASSUME Base, NEW d \in Terminals, NEW s \in Streams, Feed(d, s), Respond(d),
           Persisted(s) \in Nat
    PROVE  Feed(d, s)'
  <1>1. /\ sub' = sub /\ request' = request /\ SameClient(d) /\ SameStreams /\ SameNews(d, s)
    BY TerminalFacts, RespondFacts, AnswerIsNoNews
  <1> QED
    BY <1>1, StreamsStay, StillFeeds DEF SameClient

\* The terminal reads a frame: what was on its way is known.
LEMMA ReceiveFeeds ==
    ASSUME Base, NEW d \in Terminals, NEW s \in Streams, Feed(d, s), Receive(d)
    PROVE  Feed(d, s)'
  <1>0. d \in Clients
    BY TerminalFacts
  <1>1. sub' = sub /\ request' = request /\ SameStreams
    BY <1>0, ReceiveFacts
  <1>2. Persisted(s)' = Persisted(s) /\ Published(s)' = Published(s) /\ job' = job
    BY <1>1, StreamsStay
  <1>3. Arrives(d, s)' /\ OnWay(d, s)' = OnWay(d, s)
    BY ReceiveIs DEF Feed
  <1>4. InHand(d, s)' = InHand(d, s) /\ Coming(d, s)' = Coming(d, s)
    BY <1>1, <1>3 DEF InHand, Coming, Lifts
  <1> QED
    BY <1>1, <1>2, <1>3, <1>4 DEF Feed, Replays, UnderWay, Queues, Complete, Sorted, Live

-----------------------------------------------------------------------------
(***************************************************************************)
(* Every step keeps the feeds.                                             *)
(***************************************************************************)
\* What is published is counted.
LEMMA PublishedMoves ==
    ASSUME Base, NEW s \in Streams, NEW n \in Nat, PublishedNow(s, n)
    PROVE  pub'[s] # pub[s]
  <1>1. s \in Events /\ s \in Families /\ s # "token" /\ Matches(s, s)
    BY DEF Streams, Events, Families, Matches
  <1>2. Publish(s, n)
    BY DEF PublishedNow, Streams, JobStarts, PublishEnd, PublishRun
  <1>3. pub'[s] = pub[s] + 1 /\ pub[s] \in Nat
    <2>1. pub' = [f \in Families |-> IF s # "token" /\ Matches(s, f) THEN pub[f] + 1 ELSE pub[f]]
      BY <1>1, <1>2, PublishEffect DEF Base
    <2> QED
      BY <1>1, <2>1 DEF Base, TypeInv, BusType
  <1> QED
    BY <1>3

\* Every step keeps the feed of every stream.
LEMMA FeedStep ==
    ASSUME DInv, DInv', Ended, [Next]_vars, NEW d \in Terminals, Asks(d), NEW s \in Streams, Feed(d, s)
    PROVE  Feed(d, s)'
  <1>0. /\ Base /\ Base' /\ TypeInv /\ LogInv /\ d \in Clients /\ s \in FamiliesOf(d)
        /\ Connected(d) /\ Connected(d)' /\ OwnIds(d)
    BY TerminalFacts DEF DInv, WellServed, Base
  <1>1. /\ Persisted(s) \in Nat /\ Persisted(s)' \in {Persisted(s), Persisted(s) + 1}
        /\ Published(s) \in Nat
        /\ job = "dead" => job' = "dead"
        /\ daemon # "up" \/ daemon' # "up" \/ Published(s)' = Published(s) \/ PublishedNow(s, Published(s) + 1)
    BY <1>0, StreamsGoOn
  <1>2. CASE Untouched(d) /\ UNCHANGED pub
    <2>1. ~PublishedNow(s, Published(s) + 1)
      BY <1>0, <1>1, <1>2, PublishedMoves
    <2>2. daemon # "up" => ~Live(d, s)
      BY <1>0 DEF Connected
    <2>3. daemon' # "up" => ~Live(d, s)
      BY <1>0, <1>2 DEF Connected, Live, Untouched, Kept
    <2>4. Live(d, s) => Published(s)' = Published(s)
      BY <1>1, <2>1, <2>2, <2>3
    <2>5. sub'[d] = sub[d] /\ request'[d] = request[d] /\ SameNews(d, s)
          /\ cursor'[d] = cursor[d] /\ shown'[d] = shown[d]
      BY <1>0, <1>2, AnswerIsNoNews DEF Untouched, Kept, Quiet
    <2> QED
      BY <1>1, <2>4, <2>5, StillFeeds
  <1>3. CASE Closed(d)
    <2>1. /\ \A f \in FamiliesOf(d) : sub'[d][f] = NoSub
          /\ \A r \in Requests : request'[d][r] = Idle
          /\ wire'[d] = wire[d] /\ cursor'[d] = cursor[d] /\ shown'[d] = shown[d]
      BY <1>3 DEF Closed, CutOff, Quiet
    <2> QED
      BY <1>1, <2>1, CutFeeds DEF Feed
  <1>4. ASSUME NEW kind \in Events, NEW n \in Nat, PublishedNow(kind, n), Reached(d, kind, n)
        PROVE  Feed(d, s)'
    BY <1>0, <1>4, ReachedFeeds
  <1>5. CASE ClientStep(d)
    <2>1. ASSUME NEW f \in FamiliesOf(d), Writer(d, f) PROVE Feed(d, s)'
      BY <1>0, <2>1, GetFeeds, WriteFeeds, DrainedFeeds DEF Writer
    <2>2. ASSUME NEW f \in FamiliesOf(d), NEW r \in Requests, SendSubscribe(d, f, r) PROVE Feed(d, s)'
      BY <1>0, <2>2, SendFeeds
    <2>3. ASSUME NEW r \in Requests, Subscribe(d, r) PROVE Feed(d, s)'
      BY <1>0, <2>3, SubscribeFeeds
    <2>4. ASSUME NEW r \in Requests, ReplayStep(d, r) PROVE Feed(d, s)'
      <3>1. CASE request[d][r].todo = <<>>
        BY <1>0, <2>4, <3>1, ReplayEndFeeds
      <3>2. CASE request[d][r].todo # <<>>
        BY <1>0, <2>4, <3>2, ReplayOnFeeds
      <3> QED
        BY <3>1, <3>2
    <2>5. ASSUME SameStreams PROVE Persisted(s)' = Persisted(s) /\ Published(s)' = Published(s)
      BY <2>5, StreamsStay
    <2>6. CASE Connect(d)
      <3>1. sub' = sub /\ request' = request /\ wire' = wire /\ cursor' = cursor /\ shown' = shown /\ SameStreams
        BY <1>0, <2>6, ConnectFacts
      <3>2. SameNews(d, s)
        BY <1>0, <3>1, AnswerIsNoNews
      <3> QED
        BY <1>1, <2>5, <3>1, <3>2, StillFeeds
    <2>7. CASE Receive(d)
      BY <1>0, <2>7, ReceiveFeeds
    <2>8. CASE SeeClosed(d)
      <3>1. /\ conn[d] = "closing" /\ wire'[d] = <<>>
            /\ sub' = sub /\ request' = request /\ SameClient(d) /\ SameStreams
        BY <1>0, <2>8, SeeClosedFacts
      <3>2. /\ \A f \in FamiliesOf(d) : sub'[d][f] = NoSub
            /\ \A r \in Requests : request'[d][r] = Idle
        BY <1>0, <3>1 DEF Connected, Live
      <3>3. cursor'[d] = cursor[d] /\ shown'[d] = shown[d]
        BY <3>1 DEF SameClient
      <3> QED
        BY <1>1, <3>1, <3>2, <3>3, CutFeeds DEF Feed
    <2>9. CASE Drop(d)
      <3>1. CutOff(d) /\ wire'[d] = <<>> /\ SameClient(d)
        BY <1>0, <2>9, DropFacts
      <3>2. /\ \A f \in FamiliesOf(d) : sub'[d][f] = NoSub
            /\ \A r \in Requests : request'[d][r] = Idle
            /\ cursor'[d] = cursor[d] /\ shown'[d] = shown[d]
        BY <3>1 DEF CutOff, SameClient
      <3> QED
        BY <1>1, <3>1, <3>2, CutFeeds DEF Feed
    <2>10. CASE Respond(d)
      BY <1>0, <1>1, <2>10, RespondFeeds
    <2> QED
      BY <1>5, <2>1, <2>2, <2>3, <2>4, <2>6, <2>7, <2>8, <2>9, <2>10 DEF ClientStep, Handler
  <1> QED
    BY <1>0, <1>2, <1>3, <1>4, <1>5, Menu

\* A command never asks from beyond the cursor.
LEMMA AsksStep ==
    ASSUME DInv, [Next]_vars, NEW d \in Terminals, Asks(d), \A s \in Streams : Arrives(d, s)
    PROVE  Asks(d)'
  <1>0. /\ Base /\ TypeInv /\ LogInv /\ d \in Clients /\ Connected(d) /\ cursor[d] \in Nat
    BY TerminalFacts DEF DInv, WellServed, Base, TypeInv, ClientType
  <1> DEFINE Old(r) == request'[d][r] = request[d][r] \/ request'[d][r].pc # "sent"
             Later == cursor'[d] \in Nat /\ cursor'[d] >= cursor[d]
  <1>1. ASSUME Later, \A r \in Requests : Old(r) PROVE Asks(d)'
    <2> SUFFICES ASSUME NEW r \in Requests, request'[d][r].pc = "sent"
                 PROVE  request'[d][r].after <= IF request'[d][r].family = "job" THEN cursor'[d] ELSE 0
      BY DEF Asks
    <2>1. request'[d][r] = request[d][r]
      BY <1>1
    <2>2. request[d][r] \in SentStates
      BY <1>0, <2>1, RequestIs DEF TypeInv
    <2>3. request[d][r].after \in Nat
      BY <2>2, SubsDiffer
    <2>4. request[d][r].after <= IF request[d][r].family = "job" THEN cursor[d] ELSE 0
      BY <2>1 DEF Asks
    <2> QED
      BY <1>0, <1>1, <2>1, <2>3, <2>4
  <1>2. ASSUME cursor'[d] = cursor[d] PROVE Later
    BY <1>0, <1>2
  <1>3. ASSUME request'[d] = request[d] PROVE \A r \in Requests : Old(r)
    BY <1>3
  <1>4. ASSUME \A r \in Requests : request'[d][r] = Idle PROVE \A r \in Requests : Old(r)
    BY <1>4, SubsDiffer
  <1> HIDE DEF Old, Later
  <1>5. CASE Untouched(d)
    BY <1>1, <1>2, <1>3, <1>5 DEF Untouched, Kept, Quiet
  <1>6. CASE Closed(d)
    BY <1>1, <1>2, <1>4, <1>6 DEF Closed, CutOff, Quiet
  <1>7. ASSUME NEW kind, NEW n, Reached(d, kind, n) PROVE Asks(d)'
    BY <1>1, <1>2, <1>3, <1>7 DEF Reached, Served, Quiet
  <1>8. CASE ClientStep(d)
    <2>1. ASSUME NEW f \in FamiliesOf(d), Writer(d, f) PROVE Asks(d)'
      <3>1. request' = request /\ SameClient(d)
        BY <1>0, <2>1, GetFacts, WriteFacts, DrainedFacts DEF Writer
      <3> QED
        BY <1>1, <1>2, <1>3, <3>1 DEF SameClient
    <2>2. ASSUME NEW f \in FamiliesOf(d), NEW r \in Requests, SendSubscribe(d, f, r) PROVE Asks(d)'
      <3>1. request'[d][r] = Asked(d, f) /\ OtherRequests(d, r) /\ cursor' = cursor
        BY <1>0, <2>2, SendFacts
      <3>2. ASSUME NEW p \in Requests, request'[d][p].pc = "sent"
            PROVE  request'[d][p].after <= IF request'[d][p].family = "job" THEN cursor'[d] ELSE 0
        <4>1. CASE p = r
          BY <1>0, <3>1, <4>1 DEF Asked
        <4>2. CASE p # r
          BY <3>1, <3>2, <4>2 DEF OtherRequests, Asks
        <4> QED
          BY <4>1, <4>2
      <3> QED
        BY <3>2 DEF Asks
    <2>3. ASSUME NEW r \in Requests, Handler(d, r) PROVE Asks(d)'
      <3>1. OtherRequests(d, r) /\ SameClient(d) /\ request'[d][r].pc # "sent"
        <4>1. CASE Subscribe(d, r)
          BY <1>0, <4>1, SubscribeFacts, SubsDiffer
        <4>2. CASE ReplayStep(d, r) /\ request[d][r].todo = <<>>
          BY <1>0, <4>2, ReplayEndFacts, SubsDiffer
        <4>3. CASE ReplayStep(d, r) /\ request[d][r].todo # <<>>
          BY <1>0, <4>3, ReplayOnFacts
        <4> QED
          BY <2>3, <4>1, <4>2, <4>3 DEF Handler
      <3> QED
        BY <1>1, <1>2, <3>1 DEF SameClient, OtherRequests, Old
    <2>4. CASE Connect(d)
      BY <1>0, <1>1, <1>2, <1>3, <2>4, ConnectFacts
    <2>5. CASE Receive(d)
      <3>1. request' = request /\ Head(wire[d]) \in Frames
            /\ cursor'[d] = IF Head(wire[d]).kind = "job" /\ Head(wire[d]).n > cursor[d]
                            THEN Head(wire[d]).n ELSE cursor[d]
        BY <1>0, <2>5, ReceiveFacts
      <3>2. Later
        BY <1>0, <3>1 DEF Later, Frames
      <3> QED
        BY <1>1, <1>3, <3>1, <3>2
    <2>6. CASE SeeClosed(d)
      BY <1>0, <1>1, <1>2, <1>3, <2>6, SeeClosedFacts DEF SameClient
    <2>7. CASE Drop(d)
      BY <1>0, <1>1, <1>2, <1>4, <2>7, DropFacts DEF SameClient, CutOff
    <2>8. CASE Respond(d)
      BY <1>0, <1>1, <1>2, <1>3, <2>8, RespondFacts DEF SameClient
    <2> QED
      BY <1>8, <2>1, <2>2, <2>3, <2>4, <2>5, <2>6, <2>7, <2>8 DEF ClientStep
  <1> QED
    BY <1>0, <1>5, <1>6, <1>7, <1>8, Menu

-----------------------------------------------------------------------------
(***************************************************************************)
(* The delivery implements the channel.                                    *)
(***************************************************************************)
CInv == /\ DInv /\ Ended
        /\ \A d \in Terminals : Asks(d) /\ \A s \in Streams : Feed(d, s)

\* The feeds are in order to begin with.
LEMMA CInit == Init => CInv
  <1> SUFFICES ASSUME Init PROVE CInv
    OBVIOUS
  <1>1. DInv /\ Ended
    BY DInit DEF Init, Ended
  <1>2. ASSUME NEW d \in Terminals PROVE Asks(d) /\ \A s \in Streams : Feed(d, s)
    <2>1. d \in Clients /\ FamiliesOf(d) = Streams
      BY TerminalFacts
    <2>2. /\ \A f \in FamiliesOf(d) : ~Live(d, f)
          /\ \A r \in Requests : request[d][r] = Idle
          /\ wire[d] = <<>> /\ cursor[d] = 0 /\ shown[d] = {}
      BY <2>1 DEF Init, Live
    <2>3. Asks(d)
      BY <2>2, SubsDiffer DEF Asks
    <2>4. ASSUME NEW s \in Streams PROVE Feed(d, s)
      <3>1. Known(d, s) = 1..0
        BY <2>2 DEF Known
      <3>2. Gapless(wire[d], s, Known(d, s)) /\ Numbers(wire[d], s) = {}
        BY <2>2, NothingGapless
      <3>3. Arrives(d, s)
        BY <3>1, <3>2 DEF Arrives, OnWay
      <3>4. \A r \in Requests : ~UnderWay(d, r)
        BY <2>2, SubsDiffer DEF UnderWay
      <3> QED
        BY <2>1, <2>2, <2>4, <3>3, <3>4 DEF Feed, Replays, Queues, Complete, Sorted
    <2> QED
      BY <2>3, <2>4
  <1> QED
    BY <1>1, <1>2 DEF CInv

\* And after every step.
LEMMA CStep == CInv /\ [Next]_vars => CInv'
  <1> SUFFICES ASSUME CInv, [Next]_vars PROVE CInv'
    OBVIOUS
  <1>1. DInv /\ DInv' /\ Base
    BY DStep DEF CInv, DInv
  <1>2. Ended'
    BY <1>1, StreamsGoOn DEF CInv
  <1>3. ASSUME NEW d \in Terminals PROVE Asks(d)' /\ \A s \in Streams : Feed(d, s)'
    BY <1>1, <1>3, AsksStep, FeedStep DEF CInv, Feed
  <1> QED
    BY <1>1, <1>2, <1>3 DEF CInv

\* So they always are.
LEMMA CHolds == Spec => []CInv
  BY CInit, CStep, PTL DEF Spec

-----------------------------------------------------------------------------
\* The three variables of the abstract channel.
Stored == [s \in Streams |-> Persisted(s)]
Noted(d, s) == IF s = "job" THEN cursor[d] ELSE Latest(shown[d])
Notes == [d \in Terminals |-> [s \in Streams |-> Noted(d, s)]]
Repeats == [d \in Terminals |-> [s \in Streams |-> IF s = "job" THEN {} ELSE again[d]]]

\* The latest of the first k numbers.
LEMMA LatestIs ==
    ASSUME NEW k \in Nat
    PROVE  Latest(1..k) = k
  <1>1. CASE k = 0
    BY <1>1 DEF Latest
  <1>2. CASE k # 0
    <2>1. k \in 1..k /\ \A m \in 1..k : m <= k
      BY <1>2
    <2>2. \A n \in 1..k : (\A m \in 1..k : m <= n) => n = k
      BY <2>1
    <2>3. (CHOOSE n \in 1..k : \A m \in 1..k : m <= n) = k
      BY <2>1, <2>2
    <2> QED
      BY <2>1, <2>3 DEF Latest
  <1> QED
    BY <1>1, <1>2

\* What a terminal has noted, as a number.
LEMMA NotedIs ==
    ASSUME NEW d \in Terminals, NEW s \in Streams, NEW k \in Nat
    PROVE  /\ Known(d, s) = 1..k /\ cursor[d] \in Nat => Noted(d, s) = k
           /\ Known(d, s)' = 1..k /\ cursor'[d] \in Nat => Noted(d, s)' = k
  <1>1. \A m \in Nat : 1..m = 1..k => m = k
    <2>1. ASSUME NEW m \in Nat, 1..m = 1..k PROVE m = k
      BY <2>1
    <2> QED
      BY <2>1
  <1> QED
    BY <1>1, LatestIs DEF Known, Noted

\* Only Receive changes what clients know.
LEMMA ReadersStay ==
    ASSUME [Next]_vars
    PROVE  UNCHANGED <<cursor, shown, again>> \/ \E c \in Clients : Receive(c)
  <1>1. ASSUME DaemonStep PROVE UNCHANGED <<cursor, shown, again>>
    BY <1>1 DEF DaemonStep, JobStarts, JobEnds, PublishEnd, PublishNote, PublishRun, PublishToken,
                Stop, Exit, Crash, Restart, Recover, CloseAll, Publish, clientVars
  <1>2. ASSUME NEW c \in Clients, ClientStep(c), ~Receive(c) PROVE UNCHANGED <<cursor, shown, again>>
    BY <1>2 DEF ClientStep, Writer, WriterGet, WriterWrite, WriterDrained, SendSubscribe, Handler,
                Subscribe, ReplayStep, Respond, Connect, SeeClosed, Drop, clientVars
  <1> QED
    BY <1>1, <1>2 DEF Next, vars

\* No step writes to both streams.
LEMMA OneStreamGrows ==
    ASSUME Base, [Next]_vars
    PROVE  log' = log \/ runLog' = runLog
  <1>1. ASSUME DaemonStep PROVE log' = log \/ runLog' = runLog
    BY <1>1 DEF DaemonStep, JobStarts, JobEnds, PublishEnd, PublishNote, PublishRun, PublishToken,
                Stop, Exit, Crash, Restart, Recover, jobVars, runVars
  <1> QED
    BY <1>1, ClientKeeps DEF Next, vars, SameStreams

\* A step stores one event of one stream at most.
LEMMA StoredStep ==
    ASSUME Base, Ended, [Next]_vars
    PROVE  \/ Stored' = Stored
           \/ \E s \in Streams : Stored' = [Stored EXCEPT ![s] = @ + 1]
  <1>1. \A s \in Streams : Persisted(s)' = Persisted(s) \/ Persisted(s)' = Persisted(s) + 1
    BY StreamsGoOn
  <1>2. Persisted("job")' = Persisted("job") \/ Persisted("run")' = Persisted("run")
    BY OneStreamGrows DEF Persisted
  <1>3. Streams = {"job", "run"}
    BY DEF Streams
  <1>4. CASE \A s \in Streams : Persisted(s)' = Persisted(s)
    BY <1>4 DEF Stored
  <1>5. ASSUME NEW s \in Streams, Persisted(s)' = Persisted(s) + 1,
               \A t \in Streams \ {s} : Persisted(t)' = Persisted(t)
        PROVE  Stored' = [Stored EXCEPT ![s] = @ + 1]
    BY <1>5 DEF Stored
  <1> QED
    BY <1>1, <1>2, <1>3, <1>4, <1>5

\* What a terminal sees again is a plain event of the run, and nothing else changes.
LEMMA AgainStep ==
    ASSUME CInv, NEW d \in Terminals, Receive(d)
    PROVE  \/ UNCHANGED Repeats
           \/ /\ UNCHANGED <<cursor, shown>>
              /\ \E n \in Plain : /\ n <= Noted(d, "run")
                                 /\ Repeats' = [Repeats EXCEPT ![d]["run"] = @ \cup {n}]
  <1>1. /\ cursor \in [Clients -> Nat] /\ shown \in [Clients -> SUBSET Nat]
        /\ again \in [Clients -> SUBSET Nat] /\ d \in Clients /\ "run" \in Streams
    BY TerminalFacts DEF CInv, DInv, Base, TypeInv, ClientType
  <1> DEFINE e == Head(wire[d])
  <1>2. CASE ~(e.kind = "run" /\ e.n \in shown[d] \cap Plain)
    BY <1>2 DEF Receive, Repeats
  <1>3. CASE e.kind = "run" /\ e.n \in shown[d] \cap Plain
    <2>1. /\ again' = [again EXCEPT ![d] = @ \cup {e.n}]
          /\ cursor' = cursor /\ shown' = [shown EXCEPT ![d] = @ \cup {e.n}]
      BY <1>3 DEF Receive
    <2>2. shown' = shown
      BY <1>1, <1>3, <2>1
    <2>3. PICK k \in Nat : Known(d, "run") = 1..k
      BY <1>1 DEF CInv, Feed, Arrives
    <2>4. Noted(d, "run") = k
      BY <1>1, <2>3, NotedIs
    <2>5. e.n \in 1..k
      BY <1>3, <2>3 DEF Known
    <2>6. PICK n \in Plain : n = e.n
      BY <1>3
    <2>7. /\ again'[d] = again[d] \cup {n}
          /\ \A c \in Terminals : c # d => again'[c] = again[c]
      BY <1>1, <2>1, <2>6, TerminalFacts
    <2>8. Repeats' = [Repeats EXCEPT ![d]["run"] = @ \cup {n}]
      BY <2>7 DEF Repeats, Streams
    <2>9. n <= Noted(d, "run")
      BY <2>4, <2>5, <2>6
    <2> HIDE DEF e
    <2> QED
      BY <2>1, <2>2, <2>8, <2>9
  <1> QED
    BY <1>2, <1>3

\* A terminal notes the next event of one stream, which is stored, or one of a
\* run again, or nothing.
LEMMA NotesStep ==
    ASSUME CInv, CInv', [Next]_vars
    PROVE  \/ UNCHANGED <<Notes, Repeats>>
           \/ /\ UNCHANGED <<Stored, Repeats>>
              /\ \E d \in Terminals, s \in Streams :
                    /\ Notes[d][s] < Stored[s]
                    /\ Notes' = [Notes EXCEPT ![d][s] = @ + 1]
           \/ /\ UNCHANGED <<Stored, Notes>>
              /\ \E d \in Terminals : \E n \in Plain :
                    /\ n <= Notes[d]["run"]
                    /\ Repeats' = [Repeats EXCEPT ![d]["run"] = @ \cup {n}]
  <1>1. CASE UNCHANGED <<cursor, shown, again>>
    BY <1>1 DEF Notes, Noted, Repeats
  <1>2. ASSUME NEW c \in Clients, Receive(c)
        PROVE  /\ UNCHANGED Stored
               /\ \A d \in Terminals \ {c} : cursor'[d] = cursor[d] /\ shown'[d] = shown[d]
    <2>1. cursor \in [Clients -> Nat] /\ shown \in [Clients -> SUBSET Nat] /\ Base
      BY DEF CInv, DInv, Base, TypeInv, ClientType
    <2>2. SameStreams
      BY <1>2, <2>1, ReceiveFacts
    <2>3. UNCHANGED Stored
      BY <2>2, StreamsStay DEF Stored
    <2> QED
      BY <1>2, <2>1, <2>3, TerminalFacts DEF Receive
  <1>3. ASSUME NEW d \in Terminals, Receive(d)
        PROVE  \/ UNCHANGED Notes
               \/ \E s \in Streams : Notes[d][s] < Stored[s] /\ Notes' = [Notes EXCEPT ![d][s] = @ + 1]
    <2>1. d \in Clients /\ Base /\ cursor[d] \in Nat /\ cursor'[d] \in Nat /\ \A s \in Streams : Arrives(d, s)
      BY TerminalFacts DEF CInv, DInv, Base, TypeInv, ClientType, Feed
    <2>2. ASSUME NEW s \in Streams
          PROVE  \/ Noted(d, s)' = Noted(d, s)
                 \/ /\ Noted(d, s)' = Noted(d, s) + 1 /\ Noted(d, s) < Persisted(s)
                    /\ Head(wire[d]).kind = s
      <3>1. PICK k \in Nat : Known(d, s) = 1..k
        BY <2>1 DEF Arrives
      <3>2. Noted(d, s) = k
        BY <2>1, <3>1, NotedIs
      <3>3. Known(d, s)' = 1..k \/ (Known(d, s)' = 1..(k + 1) /\ k + 1 <= Persisted(s) /\ Head(wire[d]).kind = s)
        BY <1>3, <2>1, <3>1, ReceiveIs
      <3>4. CASE Known(d, s)' = 1..k
        BY <2>1, <3>2, <3>4, NotedIs
      <3>5. CASE Known(d, s)' = 1..(k + 1) /\ k + 1 <= Persisted(s) /\ Head(wire[d]).kind = s
        <4>1. Noted(d, s)' = k + 1
          BY <2>1, <3>5, NotedIs
        <4>2. Persisted(s) \in Int
          BY <2>1, StreamsGoOn DEF CInv
        <4> QED
          BY <3>2, <3>5, <4>1, <4>2
      <3> QED
        BY <3>3, <3>4, <3>5
    <2>3. \A e \in Terminals \ {d} : \A s \in Streams : Noted(e, s)' = Noted(e, s)
      BY <1>2, <1>3, <2>1 DEF Noted
    <2>4. CASE \A s \in Streams : Noted(d, s)' = Noted(d, s)
      BY <2>3, <2>4 DEF Notes
    <2>5. ASSUME NEW s \in Streams, Noted(d, s)' # Noted(d, s)
          PROVE  Notes[d][s] < Stored[s] /\ Notes' = [Notes EXCEPT ![d][s] = @ + 1]
      <3>1. Noted(d, s)' = Noted(d, s) + 1 /\ Noted(d, s) < Persisted(s) /\ Head(wire[d]).kind = s
        BY <2>2, <2>5
      <3>2. \A t \in Streams \ {s} : Noted(d, t)' = Noted(d, t)
        BY <2>2, <3>1
      <3>3. Notes[d][s] = Noted(d, s) /\ Stored[s] = Persisted(s)
        BY DEF Notes, Stored
      <3>4. Notes' = [Notes EXCEPT ![d][s] = @ + 1]
        BY <2>3, <3>1, <3>2 DEF Notes
      <3> QED
        BY <3>1, <3>3, <3>4
    <2> QED
      BY <2>4, <2>5
  <1>4. ASSUME NEW c \in Clients, Receive(c), c \notin Terminals PROVE UNCHANGED <<Notes, Repeats>>
    <2>1. again' = again
      BY <1>4 DEF Receive
    <2> QED
      BY <1>2, <1>4, <2>1 DEF Notes, Noted, Repeats
  <1>5. ASSUME NEW d \in Terminals, Receive(d), UNCHANGED <<cursor, shown>>, NEW n \in Plain,
               n <= Noted(d, "run"), Repeats' = [Repeats EXCEPT ![d]["run"] = @ \cup {n}]
        PROVE  UNCHANGED <<Stored, Notes>> /\ n <= Notes[d]["run"]
    <2>1. UNCHANGED Stored
      BY <1>2, <1>5, TerminalFacts
    <2>2. UNCHANGED Notes /\ Notes[d]["run"] = Noted(d, "run")
      BY <1>5 DEF Notes, Noted, Streams
    <2> QED
      BY <1>5, <2>1, <2>2
  <1>6. ASSUME NEW d \in Terminals, Receive(d)
        PROVE  \/ UNCHANGED <<Notes, Repeats>>
               \/ /\ UNCHANGED <<Stored, Repeats>>
                  /\ \E s \in Streams :
                        Notes[d][s] < Stored[s] /\ Notes' = [Notes EXCEPT ![d][s] = @ + 1]
               \/ /\ UNCHANGED <<Stored, Notes>>
                  /\ \E n \in Plain : /\ n <= Notes[d]["run"]
                                     /\ Repeats' = [Repeats EXCEPT ![d]["run"] = @ \cup {n}]
    <2>1. UNCHANGED Stored
      BY <1>2, <1>6, TerminalFacts
    <2>2. CASE UNCHANGED Repeats
      BY <1>3, <1>6, <2>1, <2>2
    <2>3. CASE ~UNCHANGED Repeats
      BY <1>5, <1>6, <2>3, AgainStep
    <2> QED
      BY <2>2, <2>3
  <1>7. ASSUME NEW c \in Clients, Receive(c)
        PROVE  UNCHANGED <<Notes, Repeats>> \/ c \in Terminals
    BY <1>4, <1>7
  <1> QED
    BY <1>1, <1>6, <1>7, ReadersStay

\* The refinement mapping of Channel, in the words of this module.
LEMMA MapIs ==
    /\ [s \in {"job", "run"} |-> IF s = "job" THEN Len(ReadEvents(log)) ELSE runLog] = Stored
    /\ [c \in Terminals |-> [s \in {"job", "run"} |->
          IF s = "job" THEN cursor[c] ELSE Latest(shown[c])]] = Notes
    /\ [s \in {"job", "run"} |-> IF s = "job" THEN Len(ReadEvents(log')) ELSE runLog'] = Stored'
    /\ [c \in Terminals |-> [s \in {"job", "run"} |->
          IF s = "job" THEN cursor'[c] ELSE Latest(shown'[c])]] = Notes'
    /\ [c \in Terminals |-> [s \in {"job", "run"} |-> IF s = "job" THEN {} ELSE again[c]]] = Repeats
    /\ [c \in Terminals |-> [s \in {"job", "run"} |-> IF s = "job" THEN {} ELSE again'[c]]] = Repeats'
  BY DEF Stored, Notes, Noted, Repeats, Persisted, Streams, ReadEvents

\* Every terminal sees the events of its job and of its run one after the
\* other, none skipped, none before it is on disk, and none twice but the plain
\* ones of a run, which each replay shows again: the delivery implements
\* EventChannel (replay, barrier, write_lock, cursor, _seen_agent_events).
THEOREM SeenInOrder == Spec => ChannelSpec
  <1>1. Init => Channel!ChannelInit
    <2> SUFFICES ASSUME Init PROVE Channel!ChannelInit
      OBVIOUS
    <2>1. Len(ReadEvents(log)) = 0 /\ runLog = 0 
          /\ \A c \in Terminals : cursor[c] = 0 /\ Latest(shown[c]) = 0 /\ again[c] = {}
      BY TerminalFacts DEF Init, LogInit, ReadEvents, Latest
    <2> QED
      BY <2>1 DEF Channel!ChannelInit
  <1>2. CInv /\ CInv' /\ [Next]_vars => [Channel!ChannelNext]_(Channel!channelVars)
    <2> SUFFICES ASSUME CInv, CInv', [Next]_vars PROVE [Channel!ChannelNext]_(Channel!channelVars)
      OBVIOUS
    <2>1. \/ Stored' = Stored
          \/ \E s \in Streams : Stored' = [Stored EXCEPT ![s] = @ + 1]
      BY StoredStep DEF CInv, DInv
    <2>2. \/ UNCHANGED <<Notes, Repeats>>
          \/ /\ UNCHANGED <<Stored, Repeats>>
             /\ \E d \in Terminals, s \in Streams :
                    /\ Notes[d][s] < Stored[s]
                    /\ Notes' = [Notes EXCEPT ![d][s] = @ + 1]
          \/ /\ UNCHANGED <<Stored, Notes>>
             /\ \E d \in Terminals : \E n \in Plain :
                    /\ n <= Notes[d]["run"]
                    /\ Repeats' = [Repeats EXCEPT ![d]["run"] = @ \cup {n}]
      BY NotesStep
    <2>3. CASE UNCHANGED <<Notes, Repeats>> /\ Stored' = Stored
      BY <2>3, MapIs DEF Channel!channelVars
    <2>4. ASSUME NEW s \in Streams, Stored' = [Stored EXCEPT ![s] = @ + 1], UNCHANGED <<Notes, Repeats>>
          PROVE  Channel!Persist(s)
      BY <2>4, MapIs DEF Channel!Persist
    <2>5. ASSUME NEW d \in Terminals, NEW s \in Streams, UNCHANGED <<Stored, Repeats>>,
                 Notes[d][s] < Stored[s], Notes' = [Notes EXCEPT ![d][s] = @ + 1]
          PROVE  Channel!See(d, s)
      BY <2>5, MapIs DEF Channel!See
    <2>6. ASSUME NEW d \in Terminals, UNCHANGED <<Stored, Notes>>, NEW n \in Plain,
                 n <= Notes[d]["run"], Repeats' = [Repeats EXCEPT ![d]["run"] = @ \cup {n}]
          PROVE  Channel!SeeAgain(d, "run")
      BY <2>6, MapIs DEF Channel!SeeAgain
    <2> QED
      BY <2>1, <2>2, <2>3, <2>4, <2>5, <2>6 DEF Channel!ChannelNext, Streams
  <1> QED
    BY <1>1, <1>2, CHolds, PTL DEF Spec, ChannelSpec, Channel!ChannelSpec
=============================================================================
