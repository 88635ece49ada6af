------------------------- MODULE AgentTools_proofs -------------------------
(***************************************************************************)
(* Proofs about AgentTools, for every log, file, query, budget and chunk   *)
(* size: SearchIsExact, ExceptionStays, CitationsHold.                     *)
(*                                                                         *)
(* _search_file is a loop, in the model a recursive function of where the  *)
(* next chunk and the window before it begin.  That such a function exists *)
(* and what it returns are both shown by induction on the bytes that are   *)
(* left (RoundsExist, RoundsFind).  The reason that no match is missed is  *)
(* WindowMoves: the window that follows begins at most one byte less than  *)
(* a query before the end of this one.  Folds over lines and candidates    *)
(* are treated alike (FoldingExists, FoldOfFolding).  Induction is stated  *)
(* for a set of numbers, so that it needs no operator as a parameter.      *)
(*                                                                         *)
(* What a diagnosis cites is ReferenceInv, about what was read; it needs   *)
(* that whatever git makes of the file is a text (FileInv, GitFolds).      *)
(***************************************************************************)
EXTENDS AgentTools, WellFoundedInduction, SequenceTheorems, FiniteSetTheorems, TLAPS

\* A set of natural numbers that is not empty has a least element.
LEMMA LeastOf ==
    ASSUME NEW T \in SUBSET Nat, T # {}
    PROVE  \E x \in T : \A y \in T : x <= y
  <1>1. T \subseteq Nat
    OBVIOUS
  <1>2. PICK x \in T : \A y \in T : ~(<<y, x>> \in OpToRel(<, Nat))
    BY <1>1, NatLessThanWellFounded, WFMin, Zenon
  <1>3. ASSUME NEW y \in T, y < x PROVE <<y, x>> \in OpToRel(<, Nat)
    BY <1>3, Zenon DEF OpToRel
  <1>4. \A y \in T : ~(y < x)
    BY <1>2, <1>3, Zenon
  <1> QED
    BY <1>4

\* Induction on the numbers, stated for a set of them: a set has no operator in it.
LEMMA SetInduction ==
    ASSUME NEW S \in SUBSET Nat, 0 \in S, \A n \in S : n + 1 \in S
    PROVE  S = Nat
  <1> SUFFICES ASSUME Nat \ S # {} PROVE FALSE
    OBVIOUS
  <1>1. PICK x \in Nat \ S : \A y \in Nat \ S : x <= y
    BY LeastOf
  <1> QED
    BY <1>1

\* Min of a set of naturals is its least element.
LEMMA MinIs ==
    ASSUME NEW T \in SUBSET Nat, T # {}
    PROVE  Min(T) \in T /\ \A y \in T : Min(T) <= y
  <1>1. PICK x \in T : \A y \in T : x <= y
    BY LeastOf
  <1> QED
    BY <1>1, Zenon DEF Min

\* The lesser and the greater of two numbers.
LEMMA MinMaxOfTwo ==
    ASSUME NEW a \in Int, NEW b \in Int
    PROVE  /\ Min({a, b}) = IF a <= b THEN a ELSE b
           /\ Max({a, b}) = IF a >= b THEN a ELSE b
  <1>1. \E x \in {a, b} : \A y \in {a, b} : x <= y
    OBVIOUS
  <1>2. Min({a, b}) \in {a, b} /\ \A y \in {a, b} : Min({a, b}) <= y
    BY <1>1, Zenon DEF Min
  <1>3. \E x \in {a, b} : \A y \in {a, b} : x >= y
    OBVIOUS
  <1>4. Max({a, b}) \in {a, b} /\ \A y \in {a, b} : Max({a, b}) >= y
    BY <1>3, Zenon DEF Max
  <1> QED
    BY <1>2, <1>4

-----------------------------------------------------------------------------
(***************************************************************************)
(* The bytes of a log                                                      *)
(***************************************************************************)
\* What the first k of the sequences are joined to.
Flattening(S, seqs, fl) ==
    /\ fl \in [0..Len(seqs) -> Seq(S)]
    /\ fl[0] = <<>>
    /\ \A k \in 0..(Len(seqs) - 1) : fl[k + 1] = fl[k] \o seqs[k + 1]

\* The sequences joined one after the other: the recursive function in FlattenSeq exists.
LEMMA FlattenIs ==
    ASSUME NEW S, NEW seqs \in Seq(Seq(S))
    PROVE  \E fl : Flattening(S, seqs, fl) /\ FlattenSeq(seqs) = fl[Len(seqs)]
  <1> DEFINE L == Len(seqs)
             step(f, i) == IF i = 1 THEN seqs[i] ELSE f[i-1] \o seqs[i]
             flatten[i \in 1..L] == step(flatten, i)
             Fixed(n, f) == f \in [1..n -> Seq(S)] /\ \A i \in 1..n : f[i] = step(f, i)
             T == {n \in Nat : n <= L => \E f : Fixed(n, f)}
  <1>1. L \in Nat /\ DOMAIN seqs = 1..L /\ \A i \in 1..L : seqs[i] \in Seq(S)
    OBVIOUS
  <1>2. 0 \in T
    <2>1. 1..0 = {} /\ <<>> \in Seq(S)
      OBVIOUS
    <2> HIDE DEF step
    <2>2. Fixed(0, [i \in 1..0 |-> <<>>])
      BY <2>1
    <2> QED
      BY <2>2
  <1>3. ASSUME NEW n \in T PROVE n + 1 \in T
    <2>a. n \in Nat /\ (n <= L => \E f : Fixed(n, f))
      <3> HIDE DEF Fixed
      <3> QED
        OBVIOUS
    <2> SUFFICES ASSUME n + 1 <= L PROVE \E f : Fixed(n + 1, f)
      <3> HIDE DEF Fixed
      <3> QED
        BY <2>a
    <2>0. \E f : Fixed(n, f)
      <3> HIDE DEF Fixed
      <3> QED
        BY <1>1, <2>a
    <2>1. PICK f : Fixed(n, f)
      BY <2>0
    <2> DEFINE g == [i \in 1..(n + 1) |-> IF i <= n THEN f[i] ELSE step(f, i)]
    <2>2. n + 1 \in 1..L /\ n \in Nat
      BY <1>1
    <2>3. g \in [1..(n + 1) -> Seq(S)]
      <3>1. ASSUME NEW i \in 1..(n + 1) PROVE g[i] \in Seq(S)
        <4>1. CASE i <= n
          BY <2>1, <2>2, <4>1
        <4>2. CASE ~(i <= n)
          <5>1. i = n + 1 /\ g[i] = step(f, i) /\ seqs[i] \in Seq(S)
            BY <4>2, <2>2, <1>1
          <5>2. CASE i = 1
            BY <5>1, <5>2
          <5>3. CASE i # 1
            <6>1. f[i - 1] \in Seq(S)
              BY <5>1, <5>3, <2>1, <2>2
            <6>2. f[i - 1] \o seqs[i] \in Seq(S)
              BY <5>1, <6>1
            <6> QED
              BY <5>1, <5>3, <6>2
          <5> QED
            BY <5>2, <5>3
        <4> QED
          BY <4>1, <4>2
      <3> QED
        BY <3>1
    <2>4. ASSUME NEW i \in 1..(n + 1) PROVE g[i] = step(g, i)
      <3>1. i # 1 => i - 1 \in 1..n /\ g[i - 1] = f[i - 1]
        BY <2>2
      <3>2. i <= n => f[i] = step(f, i)
        <4> HIDE DEF step
        <4>1. i <= n => i \in 1..n
          BY <2>2
        <4> QED
          BY <2>1, <4>1
      <3> QED
        BY <3>1, <3>2, <2>2
    <2> HIDE DEF g
    <2>5. Fixed(n + 1, g)
      BY <2>3, <2>4
    <2> QED
      BY <2>5
  <1>4. L \in T
    <2> HIDE DEF T
    <2>1. T \in SUBSET Nat
      BY DEF T
    <2> QED
      BY <1>1, <1>2, <1>3, <2>1, SetInduction
  <1>5. PICK f : Fixed(L, f)
    BY <1>1, <1>4
  <1>6. f = [i \in 1..L |-> step(f, i)]
    BY <1>5
  <1>7. flatten = [i \in 1..L |-> step(flatten, i)]
    <2> HIDE DEF step
    <2> QED
      BY <1>6
  <1> HIDE DEF flatten
  <1> DEFINE U == {n \in Nat : 1 <= n /\ n <= L => flatten[n] \in Seq(S)}
  <1>8. 0 \in U
    OBVIOUS
  <1>9. ASSUME NEW n \in U PROVE n + 1 \in U
    <2> SUFFICES ASSUME n + 1 <= L PROVE flatten[n + 1] \in Seq(S)
      OBVIOUS
    <2>1. n + 1 \in 1..L /\ seqs[n + 1] \in Seq(S)
      BY <1>1
    <2>2. flatten[n + 1] = step(flatten, n + 1)
      BY <1>7, <2>1
    <2>3. CASE n = 0
      BY <2>1, <2>2, <2>3
    <2>4. CASE n # 0
      <3>1. flatten[n] \in Seq(S) /\ n + 1 # 1 /\ (n + 1) - 1 = n
        BY <2>1, <2>4, <1>1
      <3>2. flatten[n + 1] = flatten[n] \o seqs[n + 1]
        BY <2>2, <3>1
      <3> QED
        BY <3>1, <3>2, <2>1
    <2> QED
      BY <2>3, <2>4
  <1>10. U = Nat
    <2> HIDE DEF U
    <2>1. U \in SUBSET Nat
      BY DEF U
    <2> QED
      BY <1>8, <1>9, <2>1, SetInduction
  <1> DEFINE fl == [k \in 0..L |-> IF k = 0 THEN <<>> ELSE flatten[k]]
  <1>11. fl[0] = <<>> /\ fl \in [0..L -> Seq(S)]
    <2>1. ASSUME NEW k \in 0..L PROVE fl[k] \in Seq(S)
      <3>1. CASE k = 0
        BY <3>1
      <3>2. CASE k # 0
        <4>1. k \in Nat /\ 1 <= k /\ k <= L
          BY <1>1, <3>2
        <4>2. k \in U
          BY <1>10, <4>1
        <4> QED
          BY <3>2, <4>1, <4>2
      <3> QED
        BY <3>1, <3>2
    <2>2. fl[0] = <<>>
      BY <1>1
    <2> QED
      BY <2>1, <2>2
  <1>12. ASSUME NEW k \in 0..(L - 1) PROVE fl[k + 1] = fl[k] \o seqs[k + 1]
    <2>1. /\ k + 1 \in 1..L /\ (k + 1) - 1 = k /\ k \in 0..L /\ k + 1 \in 0..L
          /\ k + 1 # 0 /\ seqs[k + 1] \in Seq(S)
      BY <1>1
    <2>2. fl[k + 1] = step(flatten, k + 1)
      BY <1>7, <2>1
    <2>3. CASE k = 0
      <3>1. <<>> \o seqs[k + 1] = seqs[k + 1]
        BY <2>1
      <3>2. fl[k] = <<>> /\ step(flatten, k + 1) = seqs[k + 1]
        BY <2>1, <2>3
      <3>3. fl[k + 1] = seqs[k + 1]
        BY <2>2, <3>2, Zenon
      <3> HIDE DEF step, fl
      <3> QED
        BY <3>1, <3>2, <3>3, Zenon
    <2>4. CASE k # 0
      <3>1. fl[k] = flatten[k] /\ k + 1 # 1
        BY <2>1, <2>4
      <3>2. step(flatten, k + 1) = flatten[k] \o seqs[k + 1]
        BY <2>1, <3>1, Zenon
      <3> HIDE DEF step, fl
      <3> QED
        BY <2>2, <3>1, <3>2, Zenon
    <2> QED
      BY <2>3, <2>4
  <1>13. FlattenSeq(seqs) = fl[L]
    <2>1. CASE L = 0
      <3>1. FlattenSeq(seqs) = seqs /\ seqs = <<>>
        BY <2>1 DEF FlattenSeq
      <3> QED
        BY <2>1, <3>1, <1>11
    <2>2. CASE L # 0
      <3>1. FlattenSeq(seqs) = flatten[L]
        BY <2>2 DEF FlattenSeq, flatten
      <3> QED
        BY <2>2, <3>1, <1>1
    <2> QED
      BY <2>1, <2>2
  <1> HIDE DEF fl
  <1> QED
    BY <1>11, <1>12, <1>13 DEF Flattening

\* Sequences joined are a sequence of the same elements.
LEMMA FlattenType ==
    ASSUME NEW S, NEW seqs \in Seq(Seq(S))
    PROVE  FlattenSeq(seqs) \in Seq(S)
  <1>1. PICK fl : Flattening(S, seqs, fl) /\ FlattenSeq(seqs) = fl[Len(seqs)]
    BY FlattenIs
  <1>2. Len(seqs) \in 0..Len(seqs)
    OBVIOUS
  <1> QED
    BY <1>1, <1>2 DEF Flattening

\* bytes[from:to] is what stands there, and nothing if it ends before it begins.
LEMMA SliceIs ==
    ASSUME NEW S, NEW bytes \in Seq(S), NEW from \in Nat, NEW to \in Nat, to <= Len(bytes)
    PROVE  /\ Slice(bytes, from, to) \in Seq(S)
           /\ Len(Slice(bytes, from, to)) = IF from <= to THEN to - from ELSE 0
           /\ \A k \in 1..(to - from) : Slice(bytes, from, to)[k] = bytes[from + k]
  BY DEF Slice

\* An occurrence, byte for byte.
LEMMA OccursIs ==
    ASSUME NEW S, NEW query \in Seq(S), NEW bytes \in Seq(S), NEW i \in Nat
    PROVE  Occurs(query, bytes, i) <=>
             /\ i + Len(query) <= Len(bytes)
             /\ \A k \in 1..Len(query) : bytes[i + k] = query[k]
  <1>1. CASE i + Len(query) <= Len(bytes)
    <2> DEFINE e == i + Len(query)
               s == Slice(bytes, i, e)
    <2>1. e \in Nat /\ i <= e /\ e - i = Len(query) /\ e <= Len(bytes)
      BY <1>1
    <2> HIDE DEF e
    <2>2. s \in Seq(S) /\ Len(s) = Len(query) /\ \A k \in 1..Len(query) : s[k] = bytes[i + k]
      <3>1. /\ s \in Seq(S) /\ Len(s) = e - i
            /\ \A k \in 1..(e - i) : s[k] = bytes[i + k]
        BY <2>1, SliceIs
      <3> HIDE DEF s
      <3> QED
        BY <2>1, <3>1
    <2> HIDE DEF s
    <2>3. s = query <=> \A k \in 1..Len(query) : s[k] = query[k]
      BY <2>2, SeqEqual
    <2>4. Occurs(query, bytes, i) <=> s = query
      BY <1>1 DEF Occurs, s, e
    <2> QED
      BY <1>1, <2>2, <2>3, <2>4
  <1> QED
    BY <1>1 DEF Occurs

\* What occurs in a window occurs in the bytes, and conversely inside the window.
LEMMA OccursInWindow ==
    ASSUME NEW S, NEW query \in Seq(S), NEW bytes \in Seq(S),
           NEW from \in Nat, NEW to \in Nat, from <= to, to <= Len(bytes), NEW i \in Nat
    PROVE  Occurs(query, Slice(bytes, from, to), i)
             <=> Occurs(query, bytes, from + i) /\ from + i + Len(query) <= to
  <1> DEFINE w == Slice(bytes, from, to)
  <1>1. w \in Seq(S) /\ Len(w) = to - from /\ \A k \in 1..(to - from) : w[k] = bytes[from + k]
    BY SliceIs
  <1> HIDE DEF w
  <1>2. Occurs(query, w, i) <=>
            i + Len(query) <= to - from /\ \A k \in 1..Len(query) : w[i + k] = query[k]
    BY <1>1, OccursIs
  <1>3. Occurs(query, bytes, from + i) <=>
            /\ from + i + Len(query) <= Len(bytes)
            /\ \A k \in 1..Len(query) : bytes[from + i + k] = query[k]
    BY OccursIs
  <1>4. ASSUME i + Len(query) <= to - from, NEW k \in 1..Len(query)
        PROVE  w[i + k] = bytes[(from + i) + k]
    <2>1. i + k \in 1..(to - from) /\ from + (i + k) = (from + i) + k
      BY <1>4
    <2> QED
      BY <1>1, <2>1
  <1>5. Len(query) \in Nat /\ Len(bytes) \in Nat
    OBVIOUS
  <1> QED
    <2> DEFINE inside == from + i + Len(query) <= to
    <2>1. inside <=> i + Len(query) <= to - from
      BY <1>5
    <2>2. inside => from + i + Len(query) <= Len(bytes)
      BY <1>5
    <2>3. CASE inside
      <3>1. \A k \in 1..Len(query) : w[i + k] = bytes[(from + i) + k]
        BY <1>4, <2>1, <2>3
      <3> HIDE DEF inside
      <3> QED
        BY <1>2, <1>3, <2>1, <2>2, <2>3, <3>1 DEF w
    <2>4. CASE ~inside
      BY <1>2, <2>1, <2>4 DEF w
    <2> QED
      BY <2>3, <2>4

-----------------------------------------------------------------------------
(***************************************************************************)
(* A search from chunk to chunk                                            *)
(***************************************************************************)
\* The window at a position: where it ends, what it holds, where the next begins.
End(bytes, position) == Min({Len(bytes), position + ChunkBytes})
Window(bytes, position, from) == Slice(bytes, from, End(bytes, position))
NextFrom(bytes, query, position, from) ==
    End(bytes, position) - Overlap(query, Window(bytes, position, from))

\* One round of the loop of SearchFile.
Round(bytes, query, f, position, from) ==
    LET end    == Min({Len(bytes), position + ChunkBytes})
        window == Slice(bytes, from, end)
        found  == Find(query, window)
    IN  CASE position = Len(bytes)   -> NotFound
          [] position < Len(bytes) /\ found # NotFound -> from + found
          [] OTHER -> f[end][end - Overlap(query, window)]

Rounds(bytes, query, f) ==
    f = [position \in 0..Len(bytes) |-> [from \in 0..Len(bytes) |->
            Round(bytes, query, f, position, from)]]

\* The least hit from a position on.
HitsFrom(bytes, query, from) == {i \in Nat : from <= i /\ Occurs(query, bytes, i)}
FirstHit(bytes, query, from) ==
    IF HitsFrom(bytes, query, from) = {} THEN NotFound ELSE Min(HitsFrom(bytes, query, from))

\* Reading a chunk moves the position on, and the next window begins in this one: where
\* this one does, or so near its end that no match fits behind.
LEMMA WindowMoves ==
    ASSUME NEW S, NEW bytes \in Seq(S), NEW query \in Seq(S), query # <<>>,
           NEW p \in 0..Len(bytes), p < Len(bytes), NEW from \in 0..Len(bytes)
    PROVE  /\ End(bytes, p) \in (p + 1)..Len(bytes)
           /\ NextFrom(bytes, query, p, from) \in 0..End(bytes, p)
           /\ from <= End(bytes, p) =>
                /\ Len(Window(bytes, p, from)) = End(bytes, p) - from
                /\ from <= NextFrom(bytes, query, p, from)
                /\ \/ NextFrom(bytes, query, p, from) = from
                   \/ NextFrom(bytes, query, p, from) = End(bytes, p) - (Len(query) - 1)
                /\ End(bytes, p) - NextFrom(bytes, query, p, from) <= Len(query) - 1
  <1> DEFINE e == End(bytes, p)
             w == Window(bytes, p, from)
             o == Overlap(query, w)
  <1>1. ChunkBytes \in Nat \ {0} /\ Len(bytes) \in Nat /\ Len(query) \in Nat /\ Len(query) >= 1
    BY EvidenceAssumption
  <1>2. e \in (p + 1)..Len(bytes)
    BY <1>1, MinMaxOfTwo DEF End
  <1>3. w = Slice(bytes, from, e)
    BY DEF Window
  <1> HIDE DEF e, w
  <1>a. e \in Nat /\ e <= Len(bytes) /\ from \in Nat
    BY <1>1, <1>2
  <1>4. Len(w) = IF from <= e THEN e - from ELSE 0
    BY <1>a, <1>3, SliceIs
  <1>5. o = IF Len(query) - 1 <= Len(w) THEN Len(query) - 1 ELSE Len(w)
    BY <1>1, <1>a, <1>4, MinMaxOfTwo DEF Overlap
  <1> HIDE DEF o
  <1>6. NextFrom(bytes, query, p, from) = e - o
    BY DEF NextFrom, e, w, o
  <1>b. o \in Nat /\ o <= Len(query) - 1 /\ o <= Len(w) /\ (o = Len(query) - 1 \/ o = Len(w))
    BY <1>1, <1>a, <1>4, <1>5
  <1>7. /\ e - o \in 0..e
        /\ from <= e => /\ Len(w) = e - from
                        /\ from <= e - o
                        /\ e - o = from \/ e - o = e - (Len(query) - 1)
                        /\ e - (e - o) <= Len(query) - 1
    BY <1>1, <1>a, <1>4, <1>b
  <1> QED
    BY <1>2, <1>6, <1>7 DEF e, w

\* A round in terms of its window.
LEMMA RoundIs ==
    ASSUME NEW bytes, NEW query, NEW f, NEW p, NEW from
    PROVE  Round(bytes, query, f, p, from) =
             CASE p = Len(bytes) -> NotFound
               [] p < Len(bytes) /\ Find(query, Window(bytes, p, from)) # NotFound ->
                        from + Find(query, Window(bytes, p, from))
               [] OTHER -> f[End(bytes, p)][NextFrom(bytes, query, p, from)]
  BY DEF Round, Window, End, NextFrom

\* The recursion is well founded: a round goes on at a later position.
LEMMA RoundsExist ==
    ASSUME NEW S, NEW bytes \in Seq(S), NEW query \in Seq(S), query # <<>>
    PROVE  \E f : Rounds(bytes, query, f)
  <1> DEFINE L == Len(bytes)
             D == (0..L) \X (0..L)
             Upto(k, f) == \A p \in 0..L, from \in 0..L :
                                L - p <= k => f[p][from] = Round(bytes, query, f, p, from)
             T == {k \in Nat : \E f : Upto(k, f)}
  <1>1. L \in Nat
    OBVIOUS
  <1>2. ASSUME NEW k \in Int, NEW f, k = -1 \/ Upto(k, f), NEW g,
               g = [p \in 0..L |-> [from \in 0..L |->
                        IF L - p <= k THEN f[p][from] ELSE Round(bytes, query, f, p, from)]]
        PROVE  Upto(k + 1, g)
    <2> SUFFICES ASSUME NEW p \in 0..L, NEW from \in 0..L, L - p <= k + 1
                 PROVE  g[p][from] = Round(bytes, query, g, p, from)
      OBVIOUS
    <2>1. g[p][from] = IF L - p <= k THEN f[p][from] ELSE Round(bytes, query, f, p, from)
      BY <1>2
    <2>2. g[p][from] = Round(bytes, query, f, p, from)
      <3> HIDE DEF L
      <3>1. k = -1 => ~(L - p <= k)
        BY <1>1
      <3> QED
        BY <1>2, <2>1, <3>1
    <2>3. CASE p = L
      BY <2>2, <2>3, RoundIs
    <2>4. CASE p # L
      <3> DEFINE e == End(bytes, p)
                 n == NextFrom(bytes, query, p, from)
      <3>1. p < L
        BY <1>1, <2>4
      <3>2. e \in (p + 1)..L /\ n \in 0..L
        BY <1>1, <3>1, WindowMoves
      <3> HIDE DEF e, n
      <3>3. g[e][n] = f[e][n]
        <4>1. e \in 0..L /\ L - e <= k
          BY <1>1, <3>2
        <4> QED
          BY <1>2, <3>2, <4>1
      <3> QED
        BY <2>2, <3>3, RoundIs DEF e, n
    <2> QED
      BY <2>3, <2>4
  <1>3. 0 \in T
    <2> DEFINE f == <<>>
               g == [p \in 0..L |-> [from \in 0..L |->
                        IF L - p <= -1 THEN f[p][from] ELSE Round(bytes, query, f, p, from)]]
    <2> HIDE DEF f
    <2>1. Upto((-1) + 1, g)
      <3> HIDE DEF Upto
      <3> QED
        BY <1>2
    <2> HIDE DEF g
    <2>2. Upto(0, g)
      BY <2>1
    <2> HIDE DEF Upto
    <2> QED
      BY <2>2
  <1>4. ASSUME NEW k \in T PROVE k + 1 \in T
    <2> HIDE DEF Upto
    <2>1. PICK f : Upto(k, f)
      OBVIOUS
    <2>2. k \in Nat
      OBVIOUS
    <2> DEFINE g == [p \in 0..L |-> [from \in 0..L |->
                        IF L - p <= k THEN f[p][from] ELSE Round(bytes, query, f, p, from)]]
    <2>3. Upto(k + 1, g)
      BY <1>2, <2>1, <2>2
    <2> QED
      BY <2>2, <2>3
  <1>5. L \in T
    <2> HIDE DEF T
    <2>1. T \in SUBSET Nat
      BY DEF T
    <2> QED
      BY <1>1, <1>3, <1>4, <2>1, SetInduction
  <1>6. PICK f : Upto(L, f)
    BY <1>5
  <1> DEFINE g == [p \in 0..L |-> [from \in 0..L |-> f[p][from]]]
  <1>7. ASSUME NEW p \in 0..L, NEW from \in 0..L
        PROVE  f[p][from] = Round(bytes, query, g, p, from)
    <2>1. f[p][from] = Round(bytes, query, f, p, from)
      BY <1>1, <1>6
    <2>2. CASE p = L
      BY <2>1, <2>2, RoundIs
    <2>3. CASE p # L
      <3> DEFINE e == End(bytes, p)
                 n == NextFrom(bytes, query, p, from)
      <3>1. e \in 0..L /\ n \in 0..L
        BY <1>1, <2>3, WindowMoves
      <3> HIDE DEF e, n
      <3>2. g[e][n] = f[e][n]
        BY <3>1
      <3> HIDE DEF g
      <3> QED
        BY <2>1, <3>2, RoundIs DEF e, n
    <2> QED
      BY <2>2, <2>3
  <1>8. g = [p \in 0..L |-> [from \in 0..L |-> Round(bytes, query, g, p, from)]]
    BY <1>7
  <1> QED
    BY <1>8 DEF Rounds

\* _search_file is the round at the offset, or at the end of a log that ends before it.
LEMMA SearchFileIs ==
    ASSUME NEW S, NEW bytes \in Seq(S), NEW query \in Seq(S), query # <<>>, NEW offset \in Nat
    PROVE  \E f : /\ Rounds(bytes, query, f)
                  /\ SearchFile(bytes, offset, query) =
                        f[Min({offset, Len(bytes)})][Min({offset, Len(bytes)})]
  <1> DEFINE f == CHOOSE g : Rounds(bytes, query, g)
  <1>1. Rounds(bytes, query, f)
    BY RoundsExist
  <1>2. SearchFile(bytes, offset, query) = f[Min({offset, Len(bytes)})][Min({offset, Len(bytes)})]
    BY DEF SearchFile, Rounds, Round
  <1> QED
    BY <1>1, <1>2

\* bytes.find in a window: the first hit in it.
LEMMA FindInWindow ==
    ASSUME NEW S, NEW bytes \in Seq(S), NEW query \in Seq(S), query # <<>>,
           NEW from \in Nat, NEW to \in Nat, from <= to, to <= Len(bytes)
    PROVE  LET found == Find(query, Slice(bytes, from, to))
           IN  /\ found = NotFound =>
                    \A i \in Nat : from <= i /\ Occurs(query, bytes, i) => to < i + Len(query)
               /\ found # NotFound =>
                    /\ found \in Nat
                    /\ Occurs(query, bytes, from + found)
                    /\ \A i \in Nat :
                         from <= i /\ Occurs(query, bytes, i) => from + found <= i
  <1> DEFINE w == Slice(bytes, from, to)
             at == {i \in 0..Len(w) : Occurs(query, w, i)}
             found == Find(query, w)
  <1>1. w \in Seq(S) /\ Len(w) = to - from /\ Len(query) \in Nat /\ Len(query) >= 1
    <2>1. w \in Seq(S) /\ Len(w) = to - from
      BY SliceIs
    <2> QED
      BY <2>1
  <1>2. \A i \in Nat : Occurs(query, w, i) <=>
                            Occurs(query, bytes, from + i) /\ from + i + Len(query) <= to
    BY OccursInWindow
  <1> HIDE DEF w
  <1>3. found = IF at = {} THEN NotFound ELSE Min(at)
    BY DEF Find
  <1>4. at \in SUBSET Nat
    BY <1>1
  <1>5. at # {} => Min(at) \in at /\ \A i \in at : Min(at) <= i
    <2> HIDE DEF at
    <2> QED
      BY <1>4, MinIs
  <1>6. ASSUME NEW i \in Nat, from <= i, Occurs(query, bytes, i), i + Len(query) <= to
        PROVE  i - from \in at
    <2>1. i - from \in Nat /\ from + (i - from) = i /\ i - from <= to - from
      BY <1>1, <1>6
    <2>2. Occurs(query, w, i - from)
      BY <1>2, <1>6, <2>1
    <2> QED
      BY <1>1, <2>1, <2>2
  <1>7. found # NotFound <=> at # {}
    BY <1>3, <1>4, <1>5 DEF NotFound
  <1>8. ASSUME found = NotFound, NEW i \in Nat, from <= i, Occurs(query, bytes, i)
        PROVE  to < i + Len(query)
    <2> HIDE DEF at, found
    <2> QED
      BY <1>6, <1>7, <1>8, <1>1
  <1>9. ASSUME found # NotFound
        PROVE  /\ found \in Nat
               /\ Occurs(query, bytes, from + found)
               /\ \A i \in Nat : from <= i /\ Occurs(query, bytes, i) => from + found <= i
    <2>1. found \in at /\ \A i \in at : found <= i
      BY <1>3, <1>5, <1>7, <1>9
    <2>2. found \in Nat /\ Occurs(query, w, found)
      BY <1>4, <2>1
    <2>3. Occurs(query, bytes, from + found) /\ from + found + Len(query) <= to
      BY <1>2, <2>2
    <2>4. ASSUME NEW i \in Nat, from <= i, Occurs(query, bytes, i) PROVE from + found <= i
      <3> HIDE DEF at, found
      <3>1. CASE i + Len(query) <= to
        <4>1. found <= i - from
          BY <1>6, <2>1, <2>4, <3>1
        <4> QED
          BY <2>2, <4>1
      <3>2. CASE ~(i + Len(query) <= to)
        BY <1>1, <2>2, <2>3, <3>2
      <3> QED
        BY <3>1, <3>2
    <2> QED
      BY <2>2, <2>3, <2>4
  <1> QED
    BY <1>8, <1>9 DEF w

\* What a search answers: the first hit from where the window begins.
LEMMA RoundsFind ==
    ASSUME NEW S, NEW bytes \in Seq(S), NEW query \in Seq(S), query # <<>>,
           NEW f, Rounds(bytes, query, f),
           NEW position \in 0..Len(bytes), NEW begin \in 0..position,
           position - begin <= Len(query) - 1
    PROVE  f[position][begin] = FirstHit(bytes, query, begin)
  <1> DEFINE L == Len(bytes)
             Right(p, from) == f[p][from] = FirstHit(bytes, query, from)
             T == {k \in Nat : \A p \in 0..L : \A from \in 0..p :
                        L - p <= k /\ p - from <= Len(query) - 1 => Right(p, from)}
  <1>1. L \in Nat /\ Len(query) \in Nat /\ Len(query) >= 1
    OBVIOUS
  <1>2. \A p \in 0..L, from \in 0..L : f[p][from] = Round(bytes, query, f, p, from)
    <2>1. \A p \in 0..L : f[p] = [from \in 0..L |-> Round(bytes, query, f, p, from)]
      BY DEF Rounds
    <2> QED
      BY <2>1, Zenon
  <1>3. ASSUME NEW from \in 0..L, L - from <= Len(query) - 1 PROVE Right(L, from)
    <2>1. f[L][from] = NotFound
      BY <1>1, <1>2, RoundIs
    <2>2. HitsFrom(bytes, query, from) = {}
      BY <1>1, <1>3 DEF HitsFrom, Occurs
    <2> QED
      BY <2>1, <2>2 DEF FirstHit
  <1>4. 0 \in T
    <2> SUFFICES ASSUME NEW p \in 0..L, NEW from \in 0..p,
                        L - p <= 0, p - from <= Len(query) - 1
                 PROVE  Right(p, from)
      OBVIOUS
    <2>1. p = L
      BY <1>1
    <2> QED
      BY <1>3, <2>1
  <1>5. ASSUME NEW k \in T PROVE k + 1 \in T
    <2>1. k \in Nat
      OBVIOUS
    <2> SUFFICES ASSUME NEW p \in 0..L, NEW from \in 0..p,
                        L - p <= k + 1, p - from <= Len(query) - 1
                 PROVE  Right(p, from)
      BY <2>1
    <2>2. CASE p = L
      BY <1>3, <2>2
    <2>3. CASE p # L
      <3> DEFINE e == End(bytes, p)
                 n == NextFrom(bytes, query, p, from)
                 found == Find(query, Window(bytes, p, from))
      <3>1. p < L /\ from \in 0..L /\ from <= p
        BY <1>1, <2>3
      <3>2. e \in (p + 1)..L /\ n \in 0..e /\ from <= e
        BY <1>1, <3>1, WindowMoves
      <3>3. from <= n /\ e - n <= Len(query) - 1 /\ (n = from \/ n = e - (Len(query) - 1))
        BY <1>1, <3>1, <3>2, WindowMoves
      <3>4. Right(p, from) \/ f[p][from] # FirstHit(bytes, query, from)
        OBVIOUS
      <3>5. f[p][from] = IF found # NotFound THEN from + found ELSE f[e][n]
        BY <1>1, <1>2, <3>1, RoundIs
      <3>6. found = Find(query, Slice(bytes, from, e))
        BY DEF Window
      <3> HIDE DEF e, n, found
      <3>7. /\ found = NotFound =>
                 \A i \in Nat : from <= i /\ Occurs(query, bytes, i) => e < i + Len(query)
            /\ found # NotFound =>
                 /\ found \in Nat
                 /\ Occurs(query, bytes, from + found)
                 /\ \A i \in Nat : from <= i /\ Occurs(query, bytes, i) => from + found <= i
        <4>1. from \in Nat /\ e \in Nat /\ e <= Len(bytes)
          BY <1>1, <3>1, <3>2
        <4> QED
          BY <3>2, <3>6, <4>1, FindInWindow
      <3>8. CASE found # NotFound
        <4> DEFINE H == HitsFrom(bytes, query, from)
        <4>1. from + found \in H /\ \A i \in H : from + found <= i
          BY <3>1, <3>7, <3>8 DEF HitsFrom
        <4>2. H \in SUBSET Nat
          BY DEF HitsFrom
        <4> HIDE DEF H
        <4>3. Min(H) \in H /\ \A i \in H : Min(H) <= i
          BY <4>1, <4>2, MinIs
        <4>4. Min(H) = from + found
          <5>1. Min(H) \in Nat /\ from + found \in Nat
            BY <4>1, <4>2, <4>3
          <5>2. Min(H) <= from + found /\ from + found <= Min(H)
            BY <4>1, <4>3
          <5> QED
            BY <5>1, <5>2
        <4>5. FirstHit(bytes, query, from) = from + found
          BY <4>1, <4>4 DEF FirstHit, H
        <4> QED
          BY <3>5, <3>8, <4>5
      <3>9. CASE found = NotFound
        <4>1. ASSUME NEW i \in Nat, Occurs(query, bytes, i) PROVE from <= i <=> n <= i
          <5>1. from <= i => e < i + Len(query)
            BY <3>7, <3>9, <4>1
          <5> QED
            BY <5>1, <1>1, <3>1, <3>2, <3>3
        <4>2. HitsFrom(bytes, query, from) = HitsFrom(bytes, query, n)
          BY <4>1 DEF HitsFrom
        <4>3. Right(e, n)
          <5>1. e \in 0..L /\ n \in 0..e /\ L - e <= k
            BY <1>1, <2>1, <3>1, <3>2
          <5> QED
            BY <5>1, <3>3
        <4>4. FirstHit(bytes, query, from) = FirstHit(bytes, query, n)
          BY <4>2 DEF FirstHit
        <4> QED
          BY <3>5, <3>9, <4>3, <4>4
      <3> QED
        BY <3>8, <3>9
    <2> QED
      BY <2>2, <2>3
  <1>6. L \in T
    <2> HIDE DEF T
    <2>1. T \in SUBSET Nat
      BY DEF T
    <2> QED
      BY <1>1, <1>4, <1>5, <2>1, SetInduction
  <1>7. L - position <= L
    BY <1>1
  <1> QED
    BY <1>6, <1>7

\* _search_file answers with the first match at or after the offset.
LEMMA SearchFinding ==
    ASSUME NEW S, NEW bytes \in Seq(S), NEW query \in Seq(S), query # <<>>, NEW offset \in Nat
    PROVE  SearchFile(bytes, offset, query) = FirstHit(bytes, query, offset)
  <1> DEFINE L == Len(bytes)
             first == Min({offset, L})
  <1>1. PICK f : Rounds(bytes, query, f) /\ SearchFile(bytes, offset, query) = f[first][first]
    BY SearchFileIs
  <1>2. L \in Nat /\ Len(query) \in Nat /\ Len(query) >= 1
    OBVIOUS
  <1>3. first = IF offset <= L THEN offset ELSE L
    BY <1>2, MinMaxOfTwo
  <1>4. first \in 0..L /\ first \in 0..first /\ first - first <= Len(query) - 1
    BY <1>2, <1>3
  <1>5. f[first][first] = FirstHit(bytes, query, first)
    <2> HIDE DEF first
    <2> QED
      BY <1>1, <1>4, RoundsFind
  <1>6. HitsFrom(bytes, query, first) = HitsFrom(bytes, query, offset)
    <2>1. ASSUME NEW i \in Nat, Occurs(query, bytes, i) PROVE first <= i <=> offset <= i
      <3>1. i + Len(query) <= L
        BY <2>1 DEF Occurs
      <3> QED
        BY <1>2, <1>3, <3>1
    <2> HIDE DEF first
    <2> QED
      BY <2>1 DEF HitsFrom
  <1> QED
    BY <1>1, <1>5, <1>6 DEF FirstHit

-----------------------------------------------------------------------------
(***************************************************************************)
(* The log tool                                                            *)
(***************************************************************************)
\* A log is a sequence of chunks of bytes.
LogsType == \A s \in Sources : logs[s] \in Seq(Seq(STRING))

\* The logs of an investigation are sequences of bytes.
LEMMA InitLogs == Init => LogsType
  <1> SUFFICES ASSUME Init PROVE LogsType
    OBVIOUS
  <1>1. PICK w \in World : logs = w.logs
    BY DEF Init
  <1>2. w.logs \in [Sources -> Seq(Seq(STRING))]
    BY ToolsAssumption DEF Sources
  <1> QED
    BY <1>1, <1>2 DEF LogsType

\* The slice that is shown of a search begins before the match and, if it can, ends after it.
LEMMA ShownIsAround ==
    ASSUME NEW size \in Nat, NEW offset \in Nat, NEW limit \in Nat, limit >= 1,
           NEW match \in Nat, offset <= match, match < size,
           NEW n \in Nat, match + n <= size,
           NEW bytes, Len(bytes) = size
    PROVE  LET start == SearchStart(bytes, offset, limit, match)
           IN  /\ start <= match /\ match < start + limit
               /\ n <= limit - limit \div 2 => match + n <= start + limit
  <1> DEFINE half == limit \div 2
             a == Max({offset, match - half})
             b == Tail0(bytes, limit)
  <1>1. half \in Nat /\ half <= limit /\ half < limit
    BY SMT
  <1> HIDE DEF half
  <1>2. a = IF offset >= match - half THEN offset ELSE match - half
    BY <1>1, MinMaxOfTwo
  <1>3. b = IF 0 >= size - limit THEN 0 ELSE size - limit
    <2>1. b = Max({0, size - limit}) /\ 0 \in Int /\ size - limit \in Int
      BY DEF Tail0
    <2> HIDE DEF b
    <2> QED
      BY <2>1, MinMaxOfTwo
  <1> HIDE DEF a, b
  <1>4. SearchStart(bytes, offset, limit, match) = IF a <= b THEN a ELSE b
    <2>1. a \in Int /\ b \in Int
      BY <1>1, <1>2, <1>3
    <2>2. SearchStart(bytes, offset, limit, match) = Min({a, b})
      BY DEF SearchStart, a, b, half
    <2> QED
      BY <2>1, <2>2, MinMaxOfTwo
  <1> QED
    BY <1>1, <1>2, <1>3, <1>4 DEF half

\* A search answers with the first hit and shows it.
LEMMA SearchedRightly ==
    ASSUME LogsType, NEW source \in Sources, NEW offset \in 0..(Len(Bytes(logs[source])) + 1),
           NEW limit \in Limits, NEW query \in Query, SearchLog(source, offset, limit, query)
    PROVE  SearchFinds'
  <1> DEFINE bytes == Bytes(logs[source])
             L == Len(bytes)
             match == SearchFile(bytes, offset, query)
             start == SearchStart(bytes, offset, limit, match)
             H == HitsFrom(bytes, query, offset)
  <1>1. bytes \in Seq(STRING) /\ L \in Nat
    BY FlattenType DEF LogsType, Bytes
  <1>2. query \in Seq(STRING) /\ query # <<>> /\ Len(query) \in Nat /\ Len(query) >= 1
    BY ToolsAssumption
  <1>3. limit \in Nat /\ limit >= 1 /\ offset \in Nat
    BY ToolsAssumption, EvidenceAssumption, <1>1
  <1>4. match = IF H = {} THEN NotFound ELSE Min(H)
    <2>1. match = FirstHit(bytes, query, offset)
      <3> HIDE DEF bytes
      <3> QED
        BY <1>1, <1>2, <1>3, SearchFinding
    <2> QED
      BY <2>1 DEF FirstHit
  <1>5. /\ logs' = logs
        /\ answer' = [source |-> source, offset |-> offset, limit |-> limit, query |-> query,
                      match |-> match, start |-> start]
    BY DEF SearchLog, world
  <1> HIDE DEF bytes, match, start
  <1>6. \A i \in Nat : Occurs(query, bytes, i) => i + Len(query) <= L
    BY DEF Occurs
  <1>7. {i \in offset..(L - 1) : Occurs(query, bytes, i)} = H
    BY <1>1, <1>2, <1>3, <1>6 DEF HitsFrom
  <1>8. ASSUME match # NotFound
        PROVE  /\ start <= match /\ match < start + limit
               /\ Len(query) <= limit - limit \div 2 => match + Len(query) <= start + limit
    <2>1. H \in SUBSET Nat /\ H # {} /\ match = Min(H)
      BY <1>4, <1>8 DEF HitsFrom
    <2>2. match \in H
      BY <2>1, MinIs
    <2>3. match \in Nat /\ offset <= match /\ match + Len(query) <= L /\ match < L
      BY <1>1, <1>2, <1>6, <2>2 DEF HitsFrom
    <2> QED
      BY <1>1, <1>2, <1>3, <2>3, ShownIsAround DEF start
  <1>9. Bytes(logs'[source]) = bytes
    BY <1>5 DEF bytes, Bytes
  <1>10. /\ match = IF {i \in offset..(L - 1) : Occurs(query, bytes, i)} = {} THEN NotFound
                    ELSE Min({i \in offset..(L - 1) : Occurs(query, bytes, i)})
    BY <1>4, <1>7
  <1> QED
    BY <1>5, <1>8, <1>9, <1>10 DEF SearchFinds, Bytes

\* No tool writes a log.
LEMMA WorldStays ==
    ASSUME [Next]_vars
    PROVE  logs' = logs /\ smoke' = smoke
BY DEF vars, Next, ReadsLog, ReadsFile, Proposes, ReadTail, ReadRange, SearchLog, ReadFile,
   SearchText, SubmitDiagnosis, Mismatch, Propose, ProposeInVain, Edit, Approve, Apply,
   BuildReceipt, Withdraw, Undo, RolledBack, GitRuns, world

\* Only a search of a log changes what was answered.
LEMMA AnswerStays ==
    ASSUME [Next]_vars
    PROVE  \/ answer' = answer
           \/ \E source \in Sources : \E offset \in 0..(Len(Bytes(logs[source])) + 1) :
                \E limit \in Limits, query \in Query : SearchLog(source, offset, limit, query)
  <1>1. CASE ReadsLog
    BY <1>1 DEF ReadsLog, ReadTail, ReadRange
  <1>2. CASE ~ReadsLog
    BY <1>2 DEF vars, Next, ReadsFile, Proposes, ReadFile,
       SearchText, SubmitDiagnosis, Mismatch, Propose, ProposeInVain, Edit,
       Approve, Apply, BuildReceipt, Withdraw, Undo, RolledBack, GitRuns
  <1> QED
    BY <1>1, <1>2

\* A search in a log answers with the first match at or after the offset, and with none only
\* if there is none, whatever the query, the chunk size, and the overlap of two windows; and
\* what it shows holds the match (log_tool.py: _search_file, search).
THEOREM SearchIsExact == Spec => []SearchFinds
  <1> DEFINE SInv == LogsType /\ SearchFinds
  <1>1. Init => SInv
    BY InitLogs DEF Init, SearchFinds
  <1>2. SInv /\ [Next]_vars => SInv'
    <2> SUFFICES ASSUME LogsType, SearchFinds, [Next]_vars PROVE SInv'
      OBVIOUS
    <2>1. LogsType'
      BY WorldStays DEF LogsType, Sources
    <2>2. CASE answer' = answer
      <3>1. logs' = logs
        BY WorldStays
      <3> QED
        BY <2>1, <2>2, <3>1 DEF SearchFinds
    <2>3. CASE \E source \in Sources : \E offset \in 0..(Len(Bytes(logs[source])) + 1) :
                \E limit \in Limits, query \in Query : SearchLog(source, offset, limit, query)
      <3>0. PICK source \in Sources : \E offset \in 0..(Len(Bytes(logs[source])) + 1) :
                \E limit \in Limits, query \in Query : SearchLog(source, offset, limit, query)
        BY <2>3
      <3>1. PICK offset \in 0..(Len(Bytes(logs[source])) + 1), limit \in Limits,
                 query \in Query : SearchLog(source, offset, limit, query)
        BY <3>0
      <3> QED
        BY <2>1, <3>1, SearchedRightly
    <2> QED
      BY <2>1, <2>2, <2>3, AnswerStays
  <1>3. SInv => SearchFinds
    OBVIOUS
  <1> HIDE DEF SInv
  <1> QED
    BY <1>1, <1>2, <1>3, PTL DEF Spec

(***************************************************************************)
(* The folds of the module                                                 *)
(***************************************************************************)
\* What is folded: the lines of a log, the candidates, sizes, the hunks of a diff.
Step(kind, p, q, state, x) ==
    CASE kind = "scan"   -> Scanned(p, state, x)
      [] kind = "choose" -> Chosen(p, q, state, x)
      [] kind = "sum"    -> state + x
      [] kind = "patch"  -> Patched(state, x)
      [] kind = "copy"   -> Copied(p, state, x)

\* The function that FoldLeft defines on the sets of positions.
Body(kind, p, q, base, seq, f, s) ==
    IF s = {} THEN base ELSE Step(kind, p, q, f[s \ {Max(s)}], seq[Max(s)])
Folding(kind, p, q, base, seq, f) ==
    f = [s \in SUBSET (DOMAIN seq) |-> Body(kind, p, q, base, seq, f, s)]

\* Its values on the initial segments.
Fold(kind, p, q, base, seq, f) ==
    /\ DOMAIN f = 0..Len(seq)
    /\ f[0] = base
    /\ \A k \in 0..(Len(seq) - 1) : f[k + 1] = Step(kind, p, q, f[k], seq[k + 1])

\* A nonempty set of naturals that are not above a bound has a maximum.
LEMMA MaxIs ==
    ASSUME NEW T \in SUBSET Nat, T # {}, NEW b \in Nat, \A y \in T : y <= b
    PROVE  Max(T) \in T /\ \A y \in T : Max(T) >= y
  <1> DEFINE C == {b - y : y \in T}
  <1>1. C \in SUBSET Nat /\ C # {}
    <2>1. \A y \in T : b - y \in Nat
      OBVIOUS
    <2> QED
      BY <2>1
  <1>2. PICK z \in C : \A y \in C : z <= y
    <2> HIDE DEF C
    <2> QED
      BY <1>1, LeastOf
  <1>3. PICK x \in T : z = b - x
    BY <1>2
  <1>4. \A y \in T : b - x <= b - y
    BY <1>2, <1>3
  <1>5. \A y \in T : x >= y
    BY <1>4
  <1> HIDE DEF C
  <1> QED
    BY <1>5, Zenon DEF Max

\* The last position of an initial segment.
LEMMA MaxOfInterval ==
    ASSUME NEW k \in Nat, k >= 1
    PROVE  Max(1..k) = k /\ (1..k) \ {k} = 1..(k - 1)
  <1>1. Max(1..k) \in 1..k /\ \A y \in 1..k : Max(1..k) >= y
    <2>1. 1..k \in SUBSET Nat /\ 1..k # {} /\ \A y \in 1..k : y <= k
      OBVIOUS
    <2> QED
      BY <2>1, MaxIs
  <1>2. k \in 1..k
    OBVIOUS
  <1> QED
    BY <1>1, <1>2

\* The function that a fold defines on sets of positions exists.
LEMMA FoldingExists ==
    ASSUME NEW S, NEW seq \in Seq(S), NEW kind, NEW p, NEW q, NEW base
    PROVE  \E f : Folding(kind, p, q, base, seq, f)
  <1> DEFINE D == DOMAIN seq
             L == Len(seq)
             B(f, s) == Body(kind, p, q, base, seq, f, s)
             Upto(k, f) == \A s \in SUBSET D : Cardinality(s) <= k => f[s] = B(f, s)
             T == {k \in Nat : \E f : Upto(k, f)}
  <1>1. /\ D = 1..L /\ L \in Nat /\ D \in SUBSET Nat /\ IsFiniteSet(D) /\ Cardinality(D) = L
    <2>1. D = 1..L /\ L \in Nat
      OBVIOUS
    <2>2. IsFiniteSet(1..L) /\ Cardinality(1..L) = L
      BY <2>1, FS_Interval
    <2> QED
      BY <2>1, <2>2
  <1>2. ASSUME NEW s \in SUBSET D, s # {}
        PROVE  /\ s \ {Max(s)} \in SUBSET D
               /\ Cardinality(s) \in Nat /\ Cardinality(s \ {Max(s)}) = Cardinality(s) - 1
    <2>1. IsFiniteSet(s)
      BY <1>1, FS_Subset
    <2>2. s \in SUBSET Nat /\ \A y \in s : y <= L
      BY <1>1
    <2>3. Max(s) \in s
      BY <1>1, <1>2, <2>2, MaxIs
    <2> HIDE DEF D
    <2> QED
      BY <2>1, <2>3, FS_RemoveElement, FS_CardinalityType
  <1>a. \A s \in SUBSET D : IsFiniteSet(s) /\ Cardinality(s) \in Nat /\ Cardinality(s) <= L
    <2> HIDE DEF D
    <2> QED
      BY <1>1, FS_Subset, FS_CardinalityType
  <1> HIDE DEF D
  <1>3. ASSUME NEW k \in Int, NEW f, k = -1 \/ Upto(k, f), NEW g,
               g = [s \in SUBSET D |-> IF Cardinality(s) <= k THEN f[s] ELSE B(f, s)]
        PROVE  Upto(k + 1, g)
    <2> SUFFICES ASSUME NEW s \in SUBSET D, Cardinality(s) <= k + 1
                 PROVE  g[s] = B(g, s)
      OBVIOUS
    <2>1. g[s] = B(f, s)
      <3> HIDE DEF B
      <3> QED
        BY <1>3, <1>a
    <2>2. CASE s = {}
      BY <2>1, <2>2 DEF Body
    <2>3. CASE s # {}
      <3> DEFINE r == s \ {Max(s)}
      <3>1. r \in SUBSET D /\ Cardinality(r) <= k
        <4>1. r \in SUBSET D /\ Cardinality(s) \in Nat /\ Cardinality(r) = Cardinality(s) - 1
          BY <1>2, <2>3
        <4> HIDE DEF r
        <4> QED
          BY <4>1
      <3> HIDE DEF r
      <3>2. g[r] = f[r]
        BY <1>3, <3>1
      <3> QED
        BY <2>1, <2>3, <3>2 DEF Body, r
    <2> QED
      BY <2>2, <2>3
  <1> HIDE DEF B
  <1>4. 0 \in T
    <2> DEFINE f == <<>>
               g == [s \in SUBSET D |-> IF Cardinality(s) <= -1 THEN f[s] ELSE B(f, s)]
    <2> HIDE DEF f
    <2>1. Upto((-1) + 1, g)
      <3> DEFINE m == -1
      <3>1. m \in Int /\ g = [s \in SUBSET D |-> IF Cardinality(s) <= m THEN f[s] ELSE B(f, s)]
        OBVIOUS
      <3> HIDE DEF g
      <3>2. Upto(m + 1, g)
        <4> HIDE DEF Upto, m
        <4> QED
          BY <1>3, <3>1 DEF m
      <3> QED
        BY <3>2
    <2> HIDE DEF g
    <2>2. Upto(0, g)
      BY <2>1
    <2> HIDE DEF Upto
    <2> QED
      BY <2>2
  <1>5. ASSUME NEW k \in T PROVE k + 1 \in T
    <2> HIDE DEF Upto
    <2>1. PICK f : Upto(k, f)
      OBVIOUS
    <2>2. k \in Nat
      OBVIOUS
    <2> DEFINE g == [s \in SUBSET D |-> IF Cardinality(s) <= k THEN f[s] ELSE B(f, s)]
    <2>3. Upto(k + 1, g)
      BY <1>3, <2>1, <2>2
    <2> QED
      BY <2>2, <2>3
  <1>6. L \in T
    <2> HIDE DEF T
    <2>1. T \in SUBSET Nat
      BY DEF T
    <2> QED
      BY <1>1, <1>4, <1>5, <2>1, SetInduction
  <1>7. PICK f : Upto(L, f)
    BY <1>6
  <1>8. \A s \in SUBSET D : f[s] = B(f, s)
    BY <1>7, <1>a
  <1> DEFINE g == [s \in SUBSET D |-> f[s]]
  <1>9. ASSUME NEW s \in SUBSET D PROVE f[s] = B(g, s)
    <2>1. CASE s = {}
      BY <1>8, <2>1 DEF Body, B
    <2>2. CASE s # {}
      <3>1. g[s \ {Max(s)}] = f[s \ {Max(s)}]
        BY <1>2, <2>2
      <3> QED
        BY <1>8, <2>2, <3>1 DEF Body, B
    <2> QED
      BY <2>1, <2>2
  <1>10. g = [s \in SUBSET D |-> B(g, s)]
    BY <1>9
  <1> QED
    BY <1>10 DEF Folding, B, D

\* ... and agrees with one on the initial segments, which is easier to reason about.
LEMMA FoldOfFolding ==
    ASSUME NEW S, NEW seq \in Seq(S), NEW kind, NEW p, NEW q, NEW base, NEW f,
           Folding(kind, p, q, base, seq, f)
    PROVE  \E g : Fold(kind, p, q, base, seq, g) /\ f[DOMAIN seq] = g[Len(seq)]
  <1> DEFINE L == Len(seq)
             g == [k \in 0..L |-> f[1..k]]
  <1>1. DOMAIN seq = 1..L /\ L \in Nat
    OBVIOUS
  <1>2. \A s \in SUBSET (1..L) : f[s] = Body(kind, p, q, base, seq, f, s)
    BY <1>1 DEF Folding
  <1>3. f[1..0] = base
    <2>1. 1..0 = {} /\ {} \in SUBSET (1..L)
      OBVIOUS
    <2> QED
      BY <1>2, <2>1 DEF Body
  <1>4. ASSUME NEW k \in 0..(L - 1)
        PROVE  f[1..(k + 1)] = Step(kind, p, q, f[1..k], seq[k + 1])
    <2>1. k \in Nat /\ k + 1 >= 1 /\ k + 1 \in Nat /\ (k + 1) - 1 = k
      BY <1>1
    <2>2. 1..(k + 1) \in SUBSET (1..L) /\ 1..(k + 1) # {}
      <3>1. k + 1 <= L /\ k + 1 \in 1..(k + 1)
        BY <1>1, <2>1
      <3>2. ASSUME NEW i \in 1..(k + 1) PROVE i \in 1..L
        BY <1>1, <2>1, <3>1
      <3> QED
        BY <3>1, <3>2, Zenon
    <2>3. Max(1..(k + 1)) = k + 1 /\ (1..(k + 1)) \ {k + 1} = 1..k
      BY <2>1, MaxOfInterval
    <2>4. f[1..(k + 1)] = Body(kind, p, q, base, seq, f, 1..(k + 1))
      BY <1>2, <2>2
    <2> QED
      BY <2>2, <2>3, <2>4, Zenon DEF Body
  <1>5. Fold(kind, p, q, base, seq, g)
    <2>1. DOMAIN g = 0..L /\ g[0] = f[1..0]
      BY <1>1
    <2>2. \A k \in 0..(L - 1) : g[k + 1] = f[1..(k + 1)] /\ g[k] = f[1..k]
      BY <1>1
    <2> HIDE DEF g
    <2> QED
      BY <1>3, <1>4, <2>1, <2>2 DEF Fold
  <1>6. g[L] = f[DOMAIN seq]
    BY <1>1
  <1> HIDE DEF g
  <1> QED
    BY <1>5, <1>6

\* Sum is a fold.
LEMMA SumFold ==
    ASSUME NEW seq \in Seq(Nat)
    PROVE  \E g : Fold("sum", 0, 0, 0, seq, g) /\ Sum(seq) = g[Len(seq)]
  <1> DEFINE f == CHOOSE h : Folding("sum", 0, 0, 0, seq, h)
  <1>1. Folding("sum", 0, 0, 0, seq, f)
    BY FoldingExists
  <1>2. Sum(seq) = f[DOMAIN seq]
    BY DEF Sum, FoldLeft, MapThenFoldSet, Folding, Body, Step
  <1> HIDE DEF f
  <1>3. PICK g : Fold("sum", 0, 0, 0, seq, g) /\ f[DOMAIN seq] = g[Len(seq)]
    BY <1>1, FoldOfFolding
  <1> QED
    BY <1>2, <1>3, Zenon

(***************************************************************************)
(* Enumerations                                                            *)
(***************************************************************************)
\* A ranking without ties takes every rank.
LEMMA EveryRank ==
    ASSUME NEW T, IsFiniteSet(T), NEW rank \in [T -> 1..Cardinality(T)],
           \A x, y \in T : rank[x] = rank[y] => x = y
    PROVE  \A k \in 1..Cardinality(T) : \E x \in T : rank[x] = k
  <1> DEFINE N == Cardinality(T)
  <1>1. N \in Nat
    BY FS_CardinalityType
  <1>2. IsFiniteSet(1..N) /\ Cardinality(1..N) = N
    BY <1>1, FS_Interval
  <1>3. rank \in Injection(T, 1..N)
    BY DEF Injection, IsInjective
  <1>4. rank \in Surjection(T, 1..N)
    BY <1>2, <1>3, FS_Injection
  <1> QED
    BY <1>4 DEF Surjection

\* The rank of a position in a set of positions.
Count(E, i) == Cardinality({j \in E : j <= i})

\* How many of a set of positions are not after a position: the rank of its members.
LEMMA CountIs ==
    ASSUME NEW n \in Nat, NEW E \in SUBSET (1..n)
    PROVE  /\ IsFiniteSet(E) /\ Cardinality(E) \in Nat
           /\ \A i \in Int : IsFiniteSet({j \in E : j <= i})
           /\ \A i \in Int : Count(E, i) \in 0..Cardinality(E)
           /\ \A i \in Int, k \in Int : i <= k => Count(E, i) <= Count(E, k)
           /\ \A i \in Int, k \in E : i < k => Count(E, i) < Count(E, k)
           /\ \A i \in E : Count(E, i) >= 1
  <1>0. \A j \in E : j \in Int
    OBVIOUS
  <1>1. IsFiniteSet(E) /\ Cardinality(E) \in Nat
    <2>1. IsFiniteSet(1..n)
      BY FS_Interval
    <2> QED
      BY <2>1, FS_Subset, FS_CardinalityType
  <1>2. ASSUME NEW i \in Int
        PROVE  IsFiniteSet({j \in E : j <= i}) /\ Count(E, i) \in 0..Cardinality(E)
    <2>1. {j \in E : j <= i} \in SUBSET E
      OBVIOUS
    <2>2. IsFiniteSet({j \in E : j <= i}) /\ Cardinality({j \in E : j <= i}) <= Cardinality(E)
      BY <1>1, <2>1, FS_Subset
    <2>3. Cardinality({j \in E : j <= i}) \in Nat
      BY <2>2, FS_CardinalityType
    <2> QED
      BY <1>1, <2>2, <2>3 DEF Count
  <1>b. ASSUME NEW i \in Int PROVE Count(E, i) \in Int
    <2>1. Count(E, i) \in 0..Cardinality(E)
      BY <1>2
    <2> QED
      BY <1>1, <2>1
  <1>3. ASSUME NEW i \in Int, NEW k \in Int, i <= k PROVE Count(E, i) <= Count(E, k)
    <2>0. \A j \in E : j <= i => j <= k
      BY <1>0, <1>3
    <2>1. {j \in E : j <= i} \in SUBSET {j \in E : j <= k}
      BY <2>0, Zenon
    <2> QED
      BY <1>2, <2>1, FS_Subset DEF Count
  <1>4. ASSUME NEW i \in Int, NEW k \in E, i < k PROVE Count(E, i) < Count(E, k)
    <2> DEFINE A == {j \in E : j <= i}
               B == {j \in E : j <= k}
    <2>0. /\ \A j \in E : j <= i => j <= k
          /\ k \in Int /\ k <= k /\ ~(k <= i)
      BY <1>0, <1>4
    <2>1. A \in SUBSET B /\ k \in B /\ k \notin A /\ k \in Int
      BY <2>0, Zenon
    <2>2. IsFiniteSet(B) /\ Count(E, i) = Cardinality(A) /\ Count(E, k) = Cardinality(B)
      BY <1>2, <2>1 DEF Count
    <2>3. Count(E, i) \in Int /\ Count(E, k) \in Int
      BY <1>b, <2>1
    <2> HIDE DEF A, B
    <2>4. Cardinality(A) <= Cardinality(B) /\ (Cardinality(B) = Cardinality(A) => B = A)
      BY <2>1, <2>2, FS_Subset
    <2> QED
      BY <2>1, <2>2, <2>3, <2>4
  <1>5. ASSUME NEW i \in E PROVE Count(E, i) >= 1
    <2>1. i - 1 \in Int /\ i - 1 < i /\ i \in Int
      BY <1>0
    <2>2. Count(E, i - 1) < Count(E, i) /\ Count(E, i - 1) \in 0..Cardinality(E)
      BY <1>2, <1>4, <2>1
    <2>3. Count(E, i) \in Int
      BY <1>b, <2>1
    <2> QED
      BY <1>1, <2>2, <2>3
  <1> QED
    BY <1>1, <1>2, <1>3, <1>4, <1>5

\* Ascending(E) lists E in its order: the member of each rank.
LEMMA AscendingIs ==
    ASSUME NEW n \in Nat, NEW E \in SUBSET (1..n)
    PROVE  LET a == Ascending(E)
               m == Cardinality(E)
           IN  /\ DOMAIN a = 1..m /\ m \in Nat
               /\ \A k \in 1..m : a[k] \in E /\ Count(E, a[k]) = k
               /\ \A k, l \in 1..m : k < l => a[k] < a[l]
               /\ \A i \in E : Count(E, i) \in 1..m /\ a[Count(E, i)] = i
  <1> DEFINE a == Ascending(E)
             m == Cardinality(E)
             rank == [i \in E |-> Count(E, i)]
  <1>0. \A j \in E : j \in Int
    OBVIOUS
  <1>a. /\ IsFiniteSet(E) /\ Cardinality(E) \in Nat
        /\ \A i \in Int : Count(E, i) \in 0..Cardinality(E)
        /\ \A i \in Int, k \in Int : i <= k => Count(E, i) <= Count(E, k)
        /\ \A i \in Int, k \in E : i < k => Count(E, i) < Count(E, k)
        /\ \A i \in E : Count(E, i) >= 1
    BY CountIs
  <1>1. IsFiniteSet(E) /\ m \in Nat /\ \A i \in E : Count(E, i) \in 1..m
    BY <1>a, <1>0
  <1>2. \A x, y \in E : Count(E, x) = Count(E, y) => x = y
    <2> SUFFICES ASSUME NEW x \in E, NEW y \in E, Count(E, x) = Count(E, y), x # y PROVE FALSE
      OBVIOUS
    <2>1. Count(E, x) \in Int /\ Count(E, y) \in Int
      BY <1>1
    <2>2. CASE x < y
      BY <2>1, <2>2, <1>0, <1>a
    <2>3. CASE y < x
      BY <2>1, <2>3, <1>0, <1>a
    <2> QED
      BY <1>0, <2>2, <2>3
  <1>3. \A k \in 1..m : \E x \in E : Count(E, x) = k
    <2>1. rank \in [E -> 1..m] /\ \A x, y \in E : rank[x] = rank[y] => x = y
      BY <1>1, <1>2
    <2>2. \A k \in 1..m : \E x \in E : rank[x] = k
      <3> HIDE DEF rank
      <3> QED
        BY <1>1, <2>1, EveryRank
    <2> QED
      BY <2>2
  <1>4. DOMAIN a = 1..m /\ \A k \in 1..m : a[k] = CHOOSE i \in E : Count(E, i) = k
    BY Zenon DEF Ascending, Count
  <1> HIDE DEF a
  <1>5. \A k \in 1..m : a[k] \in E /\ Count(E, a[k]) = k
    BY <1>3, <1>4
  <1>6. ASSUME NEW k \in 1..m, NEW l \in 1..m, k < l PROVE a[k] < a[l]
    <2>1. a[k] \in E /\ a[l] \in E /\ Count(E, a[k]) = k /\ Count(E, a[l]) = l
      BY <1>5
    <2>2. a[l] <= a[k] => Count(E, a[l]) <= Count(E, a[k])
      BY <1>0, <2>1, <1>a
    <2>3. a[k] \in Int /\ a[l] \in Int
      BY <1>0, <2>1
    <2>5. ~(l <= k)
      BY <1>1, <1>6
    <2>4. ~(a[l] <= a[k])
      BY <2>1, <2>2, <2>5
    <2> QED
      BY <2>3, <2>4
  <1>7. \A i \in E : a[Count(E, i)] = i
    BY <1>1, <1>2, <1>5
  <1> QED
    BY <1>1, <1>4, <1>5, <1>6, <1>7 DEF a

(***************************************************************************)
(* Sequences of sequences, joined                                          *)
(***************************************************************************)
\* Joined: what the concatenation is, position by position.
Joins(s, t, u) ==
    /\ Len(s) \in Nat /\ Len(t) \in Nat /\ Len(u) = Len(s) + Len(t)
    /\ \A i \in 1..Len(s) : u[i] = s[i]
    /\ \A i \in 1..Len(t) : u[Len(s) + i] = t[i]

\* The concatenation, position by position.
LEMMA ConcatJoins ==
    ASSUME NEW S, NEW s \in Seq(S), NEW t \in Seq(S)
    PROVE  Joins(s, t, s \o t)
BY DEF Joins

\* A sequence that begins another.
Begins(s, t) ==
    /\ Len(s) \in Nat /\ Len(t) \in Nat /\ Len(s) <= Len(t)
    /\ \A i \in 1..Len(s) : t[i] = s[i]

\* What begins the first of two begins their concatenation.
LEMMA BeginsJoin ==
    ASSUME NEW r, NEW s, NEW t, NEW u, Begins(r, s), Joins(s, t, u)
    PROVE  Begins(r, u)
BY DEF Begins, Joins

\* A sequence begins itself.
LEMMA BeginsSelf ==
    ASSUME NEW S, NEW s \in Seq(S)
    PROVE  Begins(s, s)
BY DEF Begins

\* Where a sequence is in what they are joined to.
LiesAt(seqs, fl, k) ==
    /\ Len(fl[k]) \in Nat /\ Len(fl[Len(seqs)]) \in Nat
    /\ Len(fl[k + 1]) = Len(fl[k]) + Len(seqs[k + 1])
    /\ Len(fl[k + 1]) <= Len(fl[Len(seqs)])
    /\ \A j \in 1..Len(seqs[k + 1]) : fl[Len(seqs)][Len(fl[k]) + j] = seqs[k + 1][j]

\* Each sequence lies where those before it end.
LEMMA FlattenedAt ==
    ASSUME NEW S, NEW seqs \in Seq(Seq(S)), NEW fl, Flattening(S, seqs, fl),
           NEW k \in 0..(Len(seqs) - 1)
    PROVE  LiesAt(seqs, fl, k)
  <1> DEFINE L == Len(seqs)
             T == {d \in Nat : k + 1 + d <= L => Begins(fl[k + 1], fl[k + 1 + d])}
  <1>1. L \in Nat /\ k \in Nat /\ k + 1 \in 0..L /\ k \in 0..L /\ L \in 0..L
    OBVIOUS
  <1>2. \A n \in 0..L : fl[n] \in Seq(S)
    BY DEF Flattening
  <1>3. ASSUME NEW n \in 0..(L - 1) PROVE Joins(fl[n], seqs[n + 1], fl[n + 1])
    <2>1. n + 1 \in 1..L /\ n \in 0..L
      BY <1>1
    <2>2. seqs[n + 1] \in Seq(S) /\ fl[n] \in Seq(S)
      BY <1>2, <2>1, ElementOfSeq
    <2>3. fl[n + 1] = fl[n] \o seqs[n + 1]
      BY DEF Flattening
    <2> QED
      BY <2>2, <2>3, ConcatJoins, Zenon
  <1>4. 0 \in T
    <2>1. k + 1 + 0 = k + 1
      BY <1>1
    <2>2. Begins(fl[k + 1], fl[k + 1])
      BY <1>1, <1>2, BeginsSelf, Zenon
    <2> QED
      BY <2>1, <2>2
  <1>5. ASSUME NEW d \in T PROVE d + 1 \in T
    <2>0. d \in Nat
      OBVIOUS
    <2> SUFFICES ASSUME k + 1 + (d + 1) <= L PROVE Begins(fl[k + 1], fl[k + 1 + (d + 1)])
      BY <2>0
    <2> DEFINE n == k + 1 + d
    <2>1. n \in 0..(L - 1) /\ k + 1 + (d + 1) = n + 1 /\ k + 1 + d <= L
      BY <1>1, <2>0
    <2>2. Begins(fl[k + 1], fl[n])
      BY <2>1
    <2> HIDE DEF n
    <2>3. Begins(fl[k + 1], fl[n + 1])
      BY <1>3, <2>1, <2>2, BeginsJoin, Zenon
    <2> QED
      BY <2>1, <2>3, Zenon
  <1>6. Begins(fl[k + 1], fl[L])
    <2>1. T = Nat
      <3> HIDE DEF T
      <3>1. T \in SUBSET Nat
        BY DEF T
      <3> QED
        BY <1>4, <1>5, <3>1, SetInduction
    <2> DEFINE d == L - (k + 1)
    <2>2. d \in Nat /\ k + 1 + d = L
      BY <1>1
    <2> HIDE DEF d
    <2>3. k + 1 + d <= L
      BY <1>1, <2>2
    <2>4. Begins(fl[k + 1], fl[k + 1 + d])
      BY <2>1, <2>2, <2>3
    <2> QED
      BY <2>2, <2>4
  <1> DEFINE a == fl[k]
             x == seqs[k + 1]
             c == fl[k + 1]
             z == fl[L]
  <1>7. Joins(a, x, c) /\ Begins(c, z)
    BY <1>3, <1>6, Zenon
  <1> HIDE DEF a, x, c, z
  <1>8. Len(a) \in Nat /\ Len(z) \in Nat /\ Len(c) = Len(a) + Len(x) /\ Len(c) <= Len(z)
    BY <1>7 DEF Joins, Begins
  <1>9. ASSUME NEW j \in 1..Len(x) PROVE z[Len(a) + j] = x[j]
    <2>1. Len(a) + j \in 1..Len(c) /\ c[Len(a) + j] = x[j]
      BY <1>7 DEF Joins
    <2> QED
      BY <1>7, <2>1, Zenon DEF Begins
  <1> QED
    BY <1>8, <1>9, Zenon DEF a, x, c, z, LiesAt

\* Slices of a text that follow one another are joined to a slice.
LEMMA FlattenSlices ==
    ASSUME NEW S, NEW text \in Seq(S), NEW seqs \in Seq(Seq(S)),
           NEW b \in [0..Len(seqs) -> 0..Len(text)],
           \A k \in 0..(Len(seqs) - 1) :
                b[k] <= b[k + 1] /\ seqs[k + 1] = SubSeq(text, b[k] + 1, b[k + 1])
    PROVE  FlattenSeq(seqs) = SubSeq(text, b[0] + 1, b[Len(seqs)]) /\ b[0] <= b[Len(seqs)]
  <1> DEFINE L == Len(seqs)
  <1>1. PICK fl : Flattening(S, seqs, fl) /\ FlattenSeq(seqs) = fl[L]
    BY FlattenIs
  <1>2. L \in Nat /\ Len(text) \in Nat /\ \A k \in 0..L : b[k] \in 0..Len(text)
    BY LenProperties
  <1>a. fl[0] = <<>> /\ \A k \in 0..(L - 1) : fl[k + 1] = fl[k] \o seqs[k + 1]
    BY <1>1 DEF Flattening
  <1> DEFINE T == {k \in Nat : k <= L => b[0] <= b[k] /\ fl[k] = SubSeq(text, b[0] + 1, b[k])}
  <1>3. 0 \in T
    <2>0. 0 \in 0..L
      BY <1>2
    <2>1. b[0] \in Nat
      BY <1>2, <2>0
    <2>2. SubSeq(text, b[0] + 1, b[0]) = <<>>
      <3>1. b[0] + 1 \in Int /\ b[0] \in Int /\ b[0] < b[0] + 1
        BY <2>1
      <3> QED
        BY <3>1, SubSeqEmpty
    <2>3. b[0] <= b[0]
      BY <2>1
    <2> QED
      BY <1>a, <2>2, <2>3
  <1>4. ASSUME NEW k \in T PROVE k + 1 \in T
    <2>0. k \in Nat
      OBVIOUS
    <2> SUFFICES ASSUME k + 1 <= L
                 PROVE  b[0] <= b[k + 1] /\ fl[k + 1] = SubSeq(text, b[0] + 1, b[k + 1])
      BY <2>0
    <2>1. k \in 0..(L - 1) /\ k \in 0..L /\ k + 1 \in 0..L /\ 0 \in 0..L /\ k <= L
      BY <1>2, <2>0
    <2>2. b[0] <= b[k] /\ fl[k] = SubSeq(text, b[0] + 1, b[k])
      BY <2>1
    <2>3. b[k] <= b[k + 1] /\ fl[k + 1] = fl[k] \o SubSeq(text, b[k] + 1, b[k + 1])
      BY <1>a, <2>1, Zenon
    <2>4. /\ b[0] \in 0..Len(text) /\ b[k] \in 0..Len(text) /\ b[k + 1] \in 0..Len(text)
      BY <1>2, <2>1
    <2> DEFINE p == b[0]
               q == b[k]
               r == b[k + 1]
    <2>5. p \in 0..Len(text) /\ q \in 0..Len(text) /\ r \in 0..Len(text) /\ p <= q /\ q <= r
      BY <2>2, <2>3, <2>4
    <2>6. fl[k + 1] = SubSeq(text, p + 1, q) \o SubSeq(text, q + 1, r)
      BY <2>2, <2>3
    <2> HIDE DEF p, q, r
    <2>7. p + 1 \in 1..(Len(text) + 1) /\ q \in ((p + 1) - 1)..Len(text) /\ r \in q..Len(text)
      BY <1>2, <2>5
    <2>8. SubSeq(text, p + 1, q) \o SubSeq(text, q + 1, r) = SubSeq(text, p + 1, r)
      BY <2>7, ConcatAdjacentSubSeq
    <2>9. p <= r
      BY <1>2, <2>5
    <2> QED
      BY <2>6, <2>8, <2>9, Zenon DEF p, q, r
  <1>5. T = Nat
    <2> HIDE DEF T
    <2>1. T \in SUBSET Nat
      BY DEF T
    <2> QED
      BY <1>3, <1>4, <2>1, SetInduction
  <1>6. L \in T /\ L <= L
    BY <1>2, <1>5
  <1> QED
    BY <1>1, <1>6

(***************************************************************************)
(* Evidence is what the log holds                                          *)
(***************************************************************************)
\* A piece is a slice of the bytes.
Shows(p, bytes) ==
    /\ p.start + Len(p.content) <= Len(bytes)
    /\ \A j \in 1..Len(p.content) : p.content[j] = bytes[p.start + j]

\* The pieces of a log, of a kind.
Pieces(source, kind, bytes) ==
    {p \in [source : {source}, kind : {kind}, start : Nat, content : Seq(STRING)] :
        Shows(p, bytes)}

\* A piece, or none.
Maybe(source, kind, bytes) == Pieces(source, kind, bytes) \cup {None}

\* An exception without its traceback, and a traceback that ends with one.
Exceptional(p) == ~Contains(p.content, "T") /\ Contains(p.content, "E")
Traced(p)      == Contains(p.content, "T")

\* What _scan keeps.
ScanType(source, bytes) ==
    [at : Nat, block : Maybe(source, "traceback", bytes),
     inner : Maybe(source, "traceback_exception", bytes),
     traceback : Maybe(source, "traceback", bytes),
     final : Maybe(source, "traceback_exception", bytes),
     error : Maybe(source, "error_line", bytes),
     frame : Maybe(source, "workspace_frame", bytes)]

\* What _scan has found when it has come to an offset.
ScanInv(s, source, bytes, at) ==
    /\ s \in ScanType(source, bytes)
    /\ s.block # None =>
        /\ Traced(s.block)
        /\ \/ s.block.start + Len(s.block.content) = at
           \/ BlockBytes <= Len(s.block.content)
    /\ s.traceback # None => Traced(s.traceback)
    /\ s.inner # None => s.block # None /\ Exceptional(s.inner)
    /\ s.final # None => s.traceback # None /\ Exceptional(s.final)

\* A line of the bytes at the offset.
LineAt(line, at, bytes) ==
    /\ line \in Seq(STRING) /\ bytes \in Seq(STRING)
    /\ at + Len(line) <= Len(bytes)
    /\ \A j \in 1..Len(line) : bytes[at + j] = line[j]

\* The absence of a piece is not a piece.
LEMMA NoneIsNoPiece ==
    ASSUME NEW source, NEW kind, kind # "none", NEW bytes
    PROVE  None \notin Pieces(source, kind, bytes)
BY DEF None, Pieces

\* A line is a piece of the log at the offset.
LEMMA HereShows ==
    ASSUME NEW source, NEW kind, kind # "none", NEW at \in Nat, NEW line, NEW bytes,
           LineAt(line, at, bytes)
    PROVE  /\ Piece(source, kind, at, line) \in Pieces(source, kind, bytes)
           /\ Piece(source, kind, at, line) # None
           /\ Piece(source, kind, at, line).content = line
           /\ Piece(source, kind, at, line).start = at
  <1>1. Shows(Piece(source, kind, at, line), bytes)
    BY DEF Shows, Piece, LineAt
  <1>2. /\ Piece(source, kind, at, line).content = line
        /\ Piece(source, kind, at, line).start = at
    BY DEF Piece
  <1>3. Piece(source, kind, at, line) \in Pieces(source, kind, bytes)
    BY <1>1 DEF Pieces, Piece, LineAt
  <1> QED
    BY <1>2, <1>3, NoneIsNoPiece

\* finish_traceback
LEMMA FinishedHolds ==
    ASSUME NEW source, NEW bytes, NEW at, NEW s, ScanInv(s, source, bytes, at)
    PROVE  /\ \A to : (s.block # None \/ to = at) => ScanInv(Finished(s), source, bytes, to)
           /\ Finished(s).at = s.at
           /\ Finished(s).block = None
  <1>1. CASE s.block = None
    BY <1>1 DEF Finished
  <1>2. CASE s.block # None
    <2> DEFINE t == [s EXCEPT !.traceback = s.block, !.final = s.inner, !.block = None,
                              !.inner = None]
    <2>1. Finished(s) = t
      BY <1>2 DEF Finished
    <2>2. s \in ScanType(source, bytes)
      BY DEF ScanInv
    <2>3. /\ t.at = s.at /\ t.traceback = s.block /\ t.final = s.inner
          /\ t.block = None /\ t.inner = None
      BY <2>2 DEF ScanType
    <2>4. t \in ScanType(source, bytes)
      BY <2>2 DEF ScanType, Maybe
    <2> HIDE DEF t
    <2> QED
      BY <1>2, <2>1, <2>3, <2>4 DEF ScanInv
  <1> QED
    BY <1>1, <1>2

\* First(s, n) is the first n elements, or all.
LEMMA FirstIs ==
    ASSUME NEW S, NEW s \in Seq(S), NEW n \in Nat
    PROVE  /\ First(s, n) \in Seq(S)
           /\ Len(First(s, n)) = IF n <= Len(s) THEN n ELSE Len(s)
           /\ \A j \in 1..Len(First(s, n)) : First(s, n)[j] = s[j]
  <1> DEFINE m == Min({n, Len(s)})
  <1>1. Len(s) \in Nat
    OBVIOUS
  <1>2. m = IF n <= Len(s) THEN n ELSE Len(s)
    BY <1>1, MinMaxOfTwo
  <1> HIDE DEF m
  <1>3. m \in Nat /\ m <= Len(s)
    BY <1>1, <1>2
  <1>4. First(s, n) = SubSeq(s, 1, m)
    BY DEF First, m
  <1>5. SubSeq(s, 1, m) \in Seq(S) /\ Len(SubSeq(s, 1, m)) = m
            /\ \A j \in 1..m : SubSeq(s, 1, m)[j] = s[j]
    BY <1>3
  <1> QED
    BY <1>2, <1>4, <1>5

\* A line of a traceback is appended at the offset it has in the log.
LEMMA BlockGrows ==
    ASSUME NEW source, NEW bytes, NEW b \in Pieces(source, "traceback", bytes), Traced(b),
           NEW at \in Nat, NEW line, LineAt(line, at, bytes),
           b.start + Len(b.content) = at \/ BlockBytes <= Len(b.content)
    PROVE  LET more == First(line, Max({0, BlockBytes - Len(b.content)}))
               c == [b EXCEPT !.content = @ \o more]
           IN  /\ c \in Pieces(source, "traceback", bytes) /\ Traced(c)
               /\ \/ c.start + Len(c.content) = at + Len(line)
                  \/ BlockBytes <= Len(c.content)
  <1> DEFINE room == Max({0, BlockBytes - Len(b.content)})
             more == First(line, room)
             text == b.content
             c == [b EXCEPT !.content = text \o more]
  <1>1. /\ b \in [source : {source}, kind : {"traceback"}, start : Nat, content : Seq(STRING)]
        /\ Shows(b, bytes)
    BY DEF Pieces
  <1>2. text \in Seq(STRING) /\ Len(text) \in Nat /\ b.start \in Nat
    BY <1>1
  <1>3. BlockBytes \in Nat /\ Len(line) \in Nat /\ line \in Seq(STRING)
    BY EvidenceAssumption DEF LineAt
  <1>4. room \in Nat /\ room = IF Len(text) >= BlockBytes THEN 0 ELSE BlockBytes - Len(text)
    <2>1. BlockBytes - Len(text) \in Int
      BY <1>2, <1>3
    <2>2. room = IF 0 >= BlockBytes - Len(text) THEN 0 ELSE BlockBytes - Len(text)
      <3> DEFINE d == BlockBytes - Len(text)
      <3>0. 0 \in Int
        OBVIOUS
      <3>1. room = Max({0, d}) /\ d \in Int /\ 0 \in Int
        BY <2>1, <3>0, Zenon
      <3> HIDE DEF d, room
      <3>2. room = IF 0 >= d THEN 0 ELSE d
        BY <3>1, MinMaxOfTwo
      <3> QED
        BY <3>2, Zenon DEF d
    <2> DEFINE n == Len(text)
    <2>3. n \in Nat /\ room = IF 0 >= BlockBytes - n THEN 0 ELSE BlockBytes - n
      BY <1>2, <2>2
    <2> HIDE DEF room, n
    <2>4. room \in Nat /\ room = IF n >= BlockBytes THEN 0 ELSE BlockBytes - n
      BY <1>3, <2>3
    <2> QED
      BY <2>4 DEF n
  <1> HIDE DEF room
  <1>5. /\ more \in Seq(STRING)
        /\ Len(more) = IF room <= Len(line) THEN room ELSE Len(line)
        /\ \A j \in 1..Len(more) : more[j] = line[j]
    BY <1>3, <1>4, FirstIs
  <1> HIDE DEF more
  <1>6. /\ c.content = text \o more /\ c.start = b.start
        /\ c \in [source : {source}, kind : {"traceback"}, start : Nat, content : Seq(STRING)]
    <2>1. text \o more \in Seq(STRING)
      BY <1>2, <1>5
    <2> HIDE DEF text
    <2> QED
      BY <1>1, <2>1
  <1>7. Joins(text, more, text \o more)
    BY <1>2, <1>5, ConcatJoins
  <1> DEFINE w == text \o more
             n == Len(text)
  <1>8. /\ Len(w) = n + Len(more) /\ n \in Nat /\ Len(more) \in Nat
        /\ \A j \in 1..n : w[j] = text[j] /\ text[j] = bytes[b.start + j]
        /\ b.start + n <= Len(bytes)
    BY <1>1, <1>7 DEF Joins, Shows
  <1>9. \A j \in 1..Len(more) : w[n + j] = more[j] /\ more[j] = bytes[at + j]
    <2>1. \A j \in 1..Len(more) : j \in 1..Len(line)
      BY <1>3, <1>4, <1>5
    <2> QED
      BY <1>5, <1>7, <2>1 DEF Joins, LineAt
  <1>10. Len(more) > 0 => b.start + n = at
    BY <1>3, <1>4, <1>5
  <1>11. at + Len(line) <= Len(bytes) /\ Len(bytes) \in Nat
    BY DEF LineAt
  <1> HIDE DEF text, w, n
  <1>12. b.start + Len(w) <= Len(bytes)
    <2> DEFINE e == Len(more)
               l == Len(line)
               f == b.start
               v == Len(w)
               size == Len(bytes)
    <2>1. /\ e \in Nat /\ l \in Nat /\ f \in Nat /\ n \in Nat /\ size \in Nat /\ e <= l
          /\ v = n + e /\ (e > 0 => f + n = at) /\ at + l <= size /\ f + n <= size
      BY <1>2, <1>3, <1>4, <1>5, <1>8, <1>10, <1>11
    <2> HIDE DEF e, l, f, v, size
    <2>2. f + v <= size
      BY <2>1
    <2> QED
      BY <2>2 DEF f, v, size
  <1>13. ASSUME NEW j \in 1..Len(w) PROVE w[j] = bytes[b.start + j]
    <2>1. CASE j <= n
      BY <1>8, <2>1
    <2>2. CASE ~(j <= n)
      <3> DEFINE i == j - n
      <3>1. i \in 1..Len(more) /\ j = n + i /\ Len(more) > 0
        BY <1>8, <2>2
      <3> HIDE DEF i
      <3>2. b.start + (n + i) = at + i
        <4> DEFINE f == b.start
        <4>1. f \in Nat /\ n \in Nat /\ i \in Nat /\ f + n = at
          BY <1>2, <1>8, <1>10, <3>1
        <4> HIDE DEF f
        <4>2. f + (n + i) = at + i
          BY <4>1
        <4> QED
          BY <4>2 DEF f
      <3> QED
        BY <1>9, <3>1, <3>2
    <2> QED
      BY <2>1, <2>2
  <1>14. c.content = w
    BY <1>6 DEF w
  <1>15. c \in Pieces(source, "traceback", bytes)
    BY <1>6, <1>12, <1>13, <1>14 DEF Pieces, Shows
  <1>16. Traced(c)
    <2>1. PICK j \in 1..n : text[j] = "T"
      BY DEF Traced, Contains, text, n
    <2>2. j \in 1..Len(w) /\ w[j] = "T"
      BY <1>8, <2>1
    <2> QED
      BY <1>14, <2>2 DEF Traced, Contains
  <1>17. c.start + Len(w) = at + Len(line) \/ BlockBytes <= Len(w)
    <2>1. c.start = b.start
      BY <1>6
    <2>2. CASE BlockBytes <= n
      BY <1>3, <1>8, <2>2
    <2>3. CASE ~(BlockBytes <= n) /\ room <= Len(line)
      BY <1>3, <1>4, <1>5, <1>8, <2>3 DEF n
    <2>4. CASE ~(BlockBytes <= n) /\ ~(room <= Len(line))
      <3>1. b.start + n = at
        BY <2>4 DEF n, text
      <3>2. Len(more) = Len(line)
        BY <1>5, <2>4
      <3> QED
        BY <1>2, <1>8, <2>1, <3>1, <3>2
    <2> QED
      BY <2>2, <2>3, <2>4
  <1> QED
    BY <1>14, <1>15, <1>16, <1>17 DEF c, text, more, room

\* A line inside a traceback.
LEMMA ContinuedHolds ==
    ASSUME NEW source, NEW bytes, NEW at \in Nat, NEW s, ScanInv(s, source, bytes, at),
           s.block # None, NEW line, LineAt(line, at, bytes), ~Contains(line, "T"),
           NEW e, e = Piece(source, "traceback_exception", at, line)
    PROVE  /\ ScanInv(Continued(s, line, e), source, bytes, at + Len(line))
           /\ Continued(s, line, e).at = s.at
  <1> DEFINE b == s.block
             blank == line = <<"\n">>
             more == First(line, Max({0, BlockBytes - Len(b.content)}))
             c == [b EXCEPT !.content = @ \o more]
             d == IF blank THEN b ELSE c
             i == IF Contains(line, "E") THEN e ELSE s.inner
             next == [s EXCEPT !.block = d, !.inner = i]
  <1>1. /\ e \in Pieces(source, "traceback_exception", bytes) /\ e # None
        /\ (Contains(line, "E") => Exceptional(e))
    BY HereShows DEF Exceptional
  <1>2. s \in ScanType(source, bytes) /\ Traced(b)
        /\ (b.start + Len(b.content) = at \/ BlockBytes <= Len(b.content))
    BY DEF ScanInv
  <1>3. b \in Pieces(source, "traceback", bytes)
    BY <1>2 DEF ScanType, Maybe
  <1>4. c \in Pieces(source, "traceback", bytes) /\ Traced(c)
        /\ (c.start + Len(c.content) = at + Len(line) \/ BlockBytes <= Len(c.content))
    BY <1>2, <1>3, BlockGrows
  <1>a. b = [b EXCEPT !.content = @]
    BY <1>3 DEF Pieces
  <1>5. Continued(s, line, e) = IF blank THEN Finished(next) ELSE next
    <2>1. next = [s EXCEPT !.block.content = IF blank THEN @ ELSE @ \o more, !.inner = i]
      <3>1. d = [b EXCEPT !.content = IF blank THEN @ ELSE @ \o more]
        <4>1. CASE blank
          BY <1>a, <4>1
        <4>2. CASE ~blank
          BY <4>2
        <4> QED
          BY <4>1, <4>2
      <3> HIDE DEF more, i, blank, d
      <3>2. DOMAIN s = {"at", "block", "inner", "traceback", "final", "error", "frame"}
        BY <1>2 DEF ScanType
      <3> QED
        BY <3>1, <3>2
    <2> QED
      BY <2>1 DEF Continued
  <1>6. d # None /\ d \in Pieces(source, "traceback", bytes) /\ Traced(d)
    <2>1. d \in Pieces(source, "traceback", bytes) /\ Traced(d)
      <3> HIDE DEF c, blank
      <3> QED
        BY <1>2, <1>3, <1>4
    <2> HIDE DEF d
    <2>2. None \notin Pieces(source, "traceback", bytes)
      BY NoneIsNoPiece
    <2> QED
      BY <2>1, <2>2
  <1>7. i \in Maybe(source, "traceback_exception", bytes) /\ (i # None => Exceptional(i))
    BY <1>1, <1>2 DEF ScanInv, ScanType, Maybe
  <1> HIDE DEF i, d
  <1>8. /\ next \in ScanType(source, bytes) /\ next.block = d /\ next.inner = i
        /\ next.traceback = s.traceback /\ next.final = s.final /\ next.at = s.at
    BY <1>2, <1>6, <1>7 DEF ScanType, Maybe
  <1> HIDE DEF next
  <1>9. ASSUME NEW to, d.start + Len(d.content) = to \/ BlockBytes <= Len(d.content)
        PROVE  ScanInv(next, source, bytes, to)
    BY <1>6, <1>7, <1>8, <1>9 DEF ScanInv
  <1>10. CASE blank
    <2>1. ScanInv(next, source, bytes, at)
      <3>1. d = b
        BY <1>10 DEF d
      <3> HIDE DEF b
      <3> QED
        BY <1>2, <1>9, <3>1
    <2>2. next.block # None
      BY <1>6, <1>8
    <2>3. ScanInv(Finished(next), source, bytes, at + Len(line)) /\ Finished(next).at = next.at
      BY <2>1, <2>2, FinishedHolds
    <2> QED
      BY <1>5, <1>8, <1>10, <2>3
  <1>11. CASE ~blank
    <2>1. d = c
      BY <1>11 DEF d
    <2>2. ScanInv(next, source, bytes, at + Len(line))
      <3> HIDE DEF c, blank
      <3> QED
        BY <1>4, <1>9, <2>1
    <2> QED
      BY <1>5, <1>8, <1>11, <2>2
  <1> QED
    BY <1>10, <1>11

\* ... at that offset.
Scanning(s, source, bytes, at) == ScanInv(s, source, bytes, at) /\ s.at = at

\* One line of _scan.
LEMMA ScannedHolds ==
    ASSUME NEW source, NEW bytes, NEW at \in Nat, NEW s, Scanning(s, source, bytes, at),
           NEW line, LineAt(line, at, bytes)
    PROVE  Scanning(Scanned(source, s, line), source, bytes, at + Len(line))
  <1> DEFINE Here(kind) == Piece(source, kind, s.at, line)
             inside == IF s.block = None THEN s
                       ELSE Continued(s, line, Here("traceback_exception"))
             opened == [Finished(s) EXCEPT !.block = Here("traceback")]
             noted  == [inside EXCEPT
                          !.error = IF source = "stderr" /\ Contains(line, "E")
                                    THEN Here("error_line") ELSE @,
                          !.frame = IF Contains(line, "F") THEN Here("workspace_frame") ELSE @]
             after == IF Contains(line, "T") THEN opened ELSE noted
             to == at + Len(line)
  <1>1. Scanned(source, s, line) = [after EXCEPT !.at = s.at + Len(line)]
    BY DEF Scanned
  <1>0. Len(line) \in Nat /\ to \in Nat
    BY DEF LineAt
  <1>a. ScanInv(s, source, bytes, at) /\ s.at = at
    BY DEF Scanning
  <1>2. ASSUME NEW kind, kind # "none"
        PROVE  /\ Here(kind) \in Pieces(source, kind, bytes) /\ Here(kind) # None
               /\ Here(kind).content = line /\ Here(kind).start = at
    BY <1>2, <1>a, HereShows
  <1>3. CASE Contains(line, "T")
    <2> DEFINE f == Finished(s)
               h == Here("traceback")
    <2>1. ScanInv(f, source, bytes, at) /\ f.at = at
      BY <1>a, FinishedHolds
    <2>2. f \in ScanType(source, bytes)
      BY <2>1 DEF ScanInv
    <2>3. /\ h \in Pieces(source, "traceback", bytes) /\ h # None /\ Traced(h)
          /\ h.start + Len(h.content) = to
      BY <1>2, <1>3 DEF Traced
    <2> HIDE DEF f, h
    <2>4. Scanned(source, s, line) = [f EXCEPT !.block = h, !.at = to]
      BY <1>1, <1>3, <1>a, <2>2 DEF f, h, ScanType
    <2> DEFINE n == [f EXCEPT !.block = h, !.at = to]
    <2>5. /\ n \in ScanType(source, bytes) /\ n.block = h /\ n.at = to
          /\ n.inner = f.inner /\ n.traceback = f.traceback /\ n.final = f.final
      BY <1>0, <2>2, <2>3 DEF ScanType, Maybe
    <2> HIDE DEF n, to
    <2>6. ScanInv(n, source, bytes, to)
      BY <2>1, <2>3, <2>5 DEF ScanInv
    <2> QED
      BY <2>4, <2>5, <2>6 DEF n, to, Scanning
  <1>4. CASE ~Contains(line, "T")
    <2> DEFINE er == IF source = "stderr" /\ Contains(line, "E")
                     THEN Here("error_line") ELSE inside.error
               fr == IF Contains(line, "F") THEN Here("workspace_frame") ELSE inside.frame
    <2>1. ScanInv(inside, source, bytes, to)
      <3>1. CASE s.block = None
        <4>1. ScanInv(s, source, bytes, to)
          BY <1>a, <3>1 DEF ScanInv
        <4> QED
          BY <3>1, <4>1
      <3>2. CASE s.block # None
        BY <1>4, <1>a, <3>2, ContinuedHolds
      <3> QED
        BY <3>1, <3>2
    <2>2. inside \in ScanType(source, bytes)
      BY <2>1 DEF ScanInv
    <2>3. /\ er \in Maybe(source, "error_line", bytes)
          /\ fr \in Maybe(source, "workspace_frame", bytes)
      <3> HIDE DEF inside, Here
      <3> QED
        BY <1>2, <2>2 DEF Maybe, ScanType
    <2>4. Scanned(source, s, line) = [inside EXCEPT !.error = er, !.frame = fr, !.at = to]
      <3>1. Scanned(source, s, line) = [noted EXCEPT !.at = to]
        BY <1>1, <1>4, <1>a
      <3>2. noted = [inside EXCEPT !.error = er, !.frame = fr]
        <4> HIDE DEF inside, Here
        <4> QED
          OBVIOUS
      <3> HIDE DEF inside, er, fr, to, noted
      <3> QED
        BY <2>2, <3>1, <3>2 DEF ScanType
    <2> HIDE DEF inside, er, fr
    <2> DEFINE n == [inside EXCEPT !.error = er, !.frame = fr, !.at = to]
    <2>5. /\ n \in ScanType(source, bytes) /\ n.at = to /\ n.block = inside.block
          /\ n.inner = inside.inner /\ n.traceback = inside.traceback /\ n.final = inside.final
      BY <1>0, <2>2, <2>3 DEF ScanType
    <2> HIDE DEF n, to
    <2>6. ScanInv(n, source, bytes, to)
      BY <2>1, <2>5 DEF ScanInv
    <2> QED
      BY <2>4, <2>5, <2>6 DEF n, to, Scanning
  <1> QED
    BY <1>3, <1>4

(***************************************************************************)
(* The candidates of a log                                                 *)
(***************************************************************************)
\* The state of _scan before and after all lines.
ScanStart == [at |-> 0, block |-> None, inner |-> None, traceback |-> None, final |-> None,
              error |-> None, frame |-> None]
ScanEnd(source, log) == FoldLeft(LAMBDA a, line : Scanned(source, a, line), ScanStart, log)

\* _scan is a fold over the lines of a log.
LEMMA ScanIsFold ==
    ASSUME NEW S, NEW seq \in Seq(S), NEW source
    PROVE  \E g : /\ Fold("scan", source, 0, ScanStart, seq, g)
                  /\ ScanEnd(source, seq) = g[Len(seq)]
  <1> DEFINE f == CHOOSE h : Folding("scan", source, 0, ScanStart, seq, h)
  <1>1. Folding("scan", source, 0, ScanStart, seq, f)
    BY FoldingExists
  <1>2. ScanEnd(source, seq) = f[DOMAIN seq]
    BY DEF ScanEnd, FoldLeft, MapThenFoldSet, Folding, Body, Step
  <1> HIDE DEF f
  <1>3. PICK g : Fold("scan", source, 0, ScanStart, seq, g) /\ f[DOMAIN seq] = g[Len(seq)]
    BY <1>1, FoldOfFolding
  <1> QED
    BY <1>2, <1>3, Zenon

\* What _scan has found at the end of a log.
LEMMA ScanEnds ==
    ASSUME NEW source, NEW log \in Seq(Seq(STRING))
    PROVE  /\ Bytes(log) \in Seq(STRING)
           /\ ScanInv(ScanEnd(source, log), source, Bytes(log), Len(Bytes(log)))
           /\ ScanEnd(source, log).at = Len(Bytes(log))
  <1> DEFINE L == Len(log)
  <1>1. PICK g : /\ Fold("scan", source, 0, ScanStart, log, g)
                 /\ ScanEnd(source, log) = g[L]
    BY ScanIsFold, Zenon
  <1>2. PICK fl : Flattening(STRING, log, fl) /\ Bytes(log) = fl[L]
    BY FlattenIs DEF Bytes
  <1>3. L \in Nat /\ L \in 0..L /\ fl[L] \in Seq(STRING) /\ fl[0] = <<>>
    <2>1. L \in Nat /\ L \in 0..L
      OBVIOUS
    <2> QED
      BY <1>2, <2>1 DEF Flattening
  <1> DEFINE I(k) == ScanInv(g[k], source, fl[L], Len(fl[k])) /\ g[k].at = Len(fl[k])
             T == {k \in Nat : k <= L => I(k)}
  <1>4. 0 \in T
    <2>1. g[0] = ScanStart /\ Len(fl[0]) = 0
      BY <1>1, <1>3 DEF Fold
    <2>2. ScanInv(ScanStart, source, fl[L], 0) /\ ScanStart.at = 0
      BY DEF ScanInv, ScanStart, ScanType, Maybe
    <2> QED
      BY <2>1, <2>2
  <1>5. ASSUME NEW k \in T PROVE k + 1 \in T
    <2>0. k \in Nat /\ (k <= L => I(k))
      <3> HIDE DEF I
      <3> QED
        OBVIOUS
    <2> SUFFICES ASSUME k + 1 <= L PROVE I(k + 1)
      <3> HIDE DEF I
      <3> QED
        BY <2>0
    <2>1. k \in 0..(L - 1) /\ k <= L /\ k + 1 \in 1..L
      BY <1>3, <2>0
    <2>2. I(k)
      <3> HIDE DEF I
      <3> QED
        BY <2>0, <2>1
    <2> DEFINE line == log[k + 1]
               at == Len(fl[k])
    <2>3. g[k + 1] = Scanned(source, g[k], line)
      BY <1>1, <2>1 DEF Fold, Step
    <2>4. line \in Seq(STRING)
      BY <2>1, ElementOfSeq
    <2>5. /\ at \in Nat /\ Len(fl[L]) \in Nat
          /\ Len(fl[k + 1]) = at + Len(line)
          /\ Len(fl[k + 1]) <= Len(fl[L])
          /\ \A j \in 1..Len(line) : fl[L][at + j] = line[j]
      <3>1. LiesAt(log, fl, k)
        BY <1>2, <2>1, FlattenedAt
      <3> QED
        BY <3>1 DEF LiesAt
    <2>6. LineAt(line, at, fl[L])
      BY <1>3, <2>4, <2>5 DEF LineAt
    <2>7. at \in Nat
      BY <2>5
    <2>8. ScanInv(g[k], source, fl[L], at) /\ g[k].at = at
      BY <2>2
    <2> HIDE DEF line, at
    <2>9. /\ ScanInv(Scanned(source, g[k], line), source, fl[L], at + Len(line))
          /\ Scanned(source, g[k], line).at = at + Len(line)
      <3> DEFINE s == g[k]
                 bytes == fl[L]
      <3>1. ScanInv(s, source, bytes, at) /\ s.at = at /\ LineAt(line, at, bytes)
        BY <2>6, <2>8
      <3> HIDE DEF s, bytes, T, I
      <3>2. Scanning(Scanned(source, s, line), source, bytes, at + Len(line))
        <4>1. Scanning(s, source, bytes, at)
          BY <3>1 DEF Scanning
        <4> QED
          BY <2>7, <3>1, <4>1, ScannedHolds
      <3> QED
        BY <3>2 DEF s, bytes, Scanning
    <2> QED
      BY <2>3, <2>5, <2>9, Zenon
  <1>6. L \in T
    <2> HIDE DEF T
    <2>1. T \in SUBSET Nat
      BY DEF T
    <2> QED
      BY <1>3, <1>4, <1>5, <2>1, SetInduction
  <1>7. I(L)
    <2>1. L <= L
      BY <1>3
    <2> HIDE DEF I
    <2> QED
      BY <1>6, <2>1
  <1> QED
    BY <1>1, <1>2, <1>3, <1>7

\* The kinds of evidence.
Kinds == {"traceback", "traceback_exception", "workspace_frame", "error_line", "tail"}

\* What is known of the candidates of a log.
Candidature(all, source, bytes) ==
    /\ \A c \in all : c.kind \in Kinds /\ c \in Pieces(source, c.kind, bytes)
    /\ \A c, d \in all : c.kind = d.kind => c = d
    /\ \A c \in all : c.kind = "traceback" => Traced(c)
    /\ \A c \in all : c.kind = "traceback_exception" =>
            Exceptional(c) /\ \E d \in all : d.kind = "traceback"
    /\ IsFiniteSet(all)

\* The candidates of a log: what _candidates returns for a stream.
LEMMA CandidatesAre ==
    ASSUME NEW source, NEW log \in Seq(Seq(STRING))
    PROVE  Candidature(Candidates(source, log), source, Bytes(log))
  <1> DEFINE bytes == Bytes(log)
             s == Finished(ScanEnd(source, log))
             from == Tail0(bytes, TailBytes)
             tail == IF log = <<>> THEN None
                     ELSE Piece(source, "tail", from, Slice(bytes, from, s.at))
             all == Candidates(source, log)
             K(kind) == Maybe(source, kind, bytes)
  <1>1. bytes \in Seq(STRING) /\ Len(bytes) \in Nat
    <2>1. bytes \in Seq(STRING)
      BY ScanEnds, Zenon
    <2> HIDE DEF bytes
    <2> QED
      BY <2>1
  <1>2. ScanInv(s, source, bytes, Len(bytes)) /\ s.at = Len(bytes)
    BY ScanEnds, FinishedHolds
  <1>3. all = {s.traceback, s.final, s.frame, s.error, tail} \ {None}
    BY Zenon DEF Candidates, ScanEnd, ScanStart
  <1>4. from \in Nat /\ from <= Len(bytes)
    <2>1. TailBytes \in Nat
      BY EvidenceAssumption
    <2> DEFINE n == Len(bytes) - TailBytes
    <2>2. n \in Int /\ n <= Len(bytes) /\ 0 \in Int /\ from = Max({0, n})
      BY <1>1, <2>1 DEF Tail0
    <2> HIDE DEF n, from
    <2>3. from = IF 0 >= n THEN 0 ELSE n
      BY <2>2, MinMaxOfTwo
    <2> QED
      BY <1>1, <2>2, <2>3
  <1> HIDE DEF s, from, bytes, all
  <1>5. tail \in K("tail")
    <2>1. CASE log = <<>>
      BY <2>1 DEF Maybe
    <2>2. CASE log # <<>>
      <3> DEFINE c == Slice(bytes, from, Len(bytes))
      <3>1. /\ c \in Seq(STRING) /\ Len(c) = Len(bytes) - from
            /\ \A j \in 1..(Len(bytes) - from) : c[j] = bytes[from + j]
        <4> DEFINE size == Len(bytes)
        <4>1. c = Slice(bytes, from, size) /\ size \in Nat /\ size <= Len(bytes) /\ from <= size
          BY <1>1, <1>4
        <4> HIDE DEF c, size
        <4>2. /\ c \in Seq(STRING) /\ Len(c) = size - from
              /\ \A j \in 1..(size - from) : c[j] = bytes[from + j]
          BY <1>1, <1>4, <4>1, SliceIs
        <4> QED
          BY <4>2 DEF size
      <3> HIDE DEF c
      <3>2. LineAt(c, from, bytes)
        BY <1>1, <1>4, <3>1 DEF LineAt
      <3>3. tail = Piece(source, "tail", from, c)
        BY <1>2, <2>2 DEF c
      <3>4. tail \in Pieces(source, "tail", bytes)
        BY <1>4, <3>2, <3>3, HereShows
      <3> QED
        BY <3>4 DEF Maybe
    <2> QED
      BY <2>1, <2>2
  <1> HIDE DEF tail
  <1>6. /\ s.traceback \in K("traceback") /\ s.final \in K("traceback_exception")
        /\ s.frame \in K("workspace_frame") /\ s.error \in K("error_line")
        /\ (s.traceback # None => Traced(s.traceback))
        /\ (s.final # None => s.traceback # None /\ Exceptional(s.final))
    BY <1>2 DEF ScanInv, ScanType
  <1> DEFINE Is(c, kind) == c \in Pieces(source, kind, bytes) /\ c.kind = kind
  <1>7. ASSUME NEW kind, NEW c, c \in K(kind), c # None PROVE Is(c, kind)
    BY <1>7 DEF Maybe, Pieces
  <1>8. /\ s.traceback \in all => Is(s.traceback, "traceback")
        /\ s.final \in all => Is(s.final, "traceback_exception")
        /\ s.frame \in all => Is(s.frame, "workspace_frame")
        /\ s.error \in all => Is(s.error, "error_line")
        /\ tail \in all => Is(tail, "tail")
    <2> HIDE DEF Is
    <2> QED
      BY <1>3, <1>5, <1>6, <1>7
  <1>9. IsFiniteSet(all)
    <2>1. IsFiniteSet({s.traceback, s.final, s.frame, s.error, tail})
      <3> DEFINE A == {s.traceback}
                 B == A \cup {s.final}
                 C == B \cup {s.frame}
                 D == C \cup {s.error}
                 E == D \cup {tail}
      <3>1. IsFiniteSet(A)
        BY FS_Singleton
      <3>2. IsFiniteSet(B)
        BY <3>1, FS_AddElement
      <3>3. IsFiniteSet(C)
        BY <3>2, FS_AddElement
      <3>4. IsFiniteSet(D)
        BY <3>3, FS_AddElement
      <3>5. IsFiniteSet(E)
        BY <3>4, FS_AddElement
      <3> QED
        BY <3>5
    <2> QED
      BY <1>3, <2>1, FS_Subset
  <1>10. \A c \in all : c.kind \in Kinds /\ c \in Pieces(source, c.kind, bytes)
    <2> SUFFICES ASSUME NEW c \in all
                 PROVE  c.kind \in Kinds /\ c \in Pieces(source, c.kind, bytes)
      OBVIOUS
    <2> QED
      BY <1>3, <1>8 DEF Kinds
  <1>11. \A c, d \in all : c.kind = d.kind => c = d
    BY <1>3, <1>8
  <1>12. \A c \in all : c.kind = "traceback" => Traced(c)
    BY <1>3, <1>6, <1>8
  <1>13. ASSUME NEW c \in all, c.kind = "traceback_exception"
         PROVE  Exceptional(c) /\ \E d \in all : d.kind = "traceback"
    <2>1. c = s.final /\ c # None
      BY <1>3, <1>8, <1>13
    <2>2. s.traceback \in all /\ s.traceback.kind = "traceback" /\ Exceptional(c)
      BY <1>3, <1>6, <1>8, <2>1
    <2> QED
      BY <2>2
  <1> QED
    BY <1>9, <1>10, <1>11, <1>12, <1>13 DEF Candidature, all, bytes

(***************************************************************************)
(* The selection                                                           *)
(***************************************************************************)
\* A part of a log.
Part(p, lg) ==
    /\ p \in [source : Sources, kind : Kinds, start : Nat, content : Seq(STRING)]
    /\ Shows(p, Bytes(lg[p.source]))

\* The logs of the two streams, and all their candidates.
Logs == [Sources -> Seq(Seq(STRING))]
All(lg) == UNION {Candidates(source, lg[source]) : source \in DOMAIN lg}

\* The candidates of both streams.
LEMMA AllAre ==
    ASSUME NEW lg \in Logs
    PROVE  /\ \A c \in All(lg) : Part(c, lg)
           /\ \A c, d \in All(lg) : c.kind = d.kind /\ c.source = d.source => c = d
           /\ \A c \in All(lg) : c.kind = "traceback" => Traced(c)
           /\ \A c \in All(lg) : c.kind = "traceback_exception" =>
                /\ Exceptional(c)
                /\ \E d \in All(lg) : d.kind = "traceback" /\ d.source = c.source
           /\ IsFiniteSet(All(lg))
  <1> DEFINE C(source) == Candidates(source, lg[source])
  <1>1. All(lg) = C("stdout") \cup C("stderr")
    BY DEF All, Logs, Sources
  <1>2. ASSUME NEW source \in Sources PROVE Candidature(C(source), source, Bytes(lg[source]))
    <2>1. lg[source] \in Seq(Seq(STRING))
      BY DEF Logs
    <2> QED
      BY <2>1, CandidatesAre
  <1> HIDE DEF C
  <1>3. \A source \in Sources : \A c \in C(source) : Part(c, lg) /\ c.source = source
    BY <1>2 DEF Candidature, Part, Pieces
  <1>4. \A c \in All(lg) : \E source \in Sources : c \in C(source)
    BY <1>1 DEF Sources
  <1>5. \A source \in Sources : C(source) \in SUBSET All(lg)
    BY <1>1 DEF Sources
  <1>6. IsFiniteSet(All(lg))
    <2>1. IsFiniteSet(C("stdout")) /\ IsFiniteSet(C("stderr"))
      BY <1>2 DEF Candidature, Sources
    <2> QED
      BY <1>1, <2>1, FS_Union
  <1>7. ASSUME NEW c \in All(lg) PROVE c \in C(c.source) /\ c.source \in Sources
    BY <1>3, <1>4
  <1>8. \A c, d \in All(lg) : c.kind = d.kind /\ c.source = d.source => c = d
    BY <1>2, <1>7 DEF Candidature
  <1>9. \A c \in All(lg) : c.kind = "traceback" => Traced(c)
    BY <1>2, <1>7 DEF Candidature
  <1>10. ASSUME NEW c \in All(lg), c.kind = "traceback_exception"
         PROVE  Exceptional(c) /\ \E d \in All(lg) : d.kind = "traceback" /\ d.source = c.source
    <2>1. c \in C(c.source) /\ Candidature(C(c.source), c.source, Bytes(lg[c.source]))
      BY <1>2, <1>7
    <2>2. Exceptional(c) /\ \E d \in C(c.source) : d.kind = "traceback"
      BY <1>10, <2>1 DEF Candidature
    <2> QED
      BY <1>3, <1>5, <1>7, <2>2
  <1> QED
    BY <1>3, <1>4, <1>6, <1>8, <1>9, <1>10

\* The order of selection: first the kind, of the tails first that of stderr.
LEMMA RankIs ==
    ASSUME NEW c, c.kind \in Kinds, c.source \in Sources
    PROVE  /\ Rank(c) \in 1..6
           /\ Rank(c) = 1 <=> c.kind = "traceback"
           /\ Rank(c) = 2 <=> c.kind = "traceback_exception"
           /\ Rank(c) = 3 <=> c.kind = "workspace_frame"
           /\ Rank(c) = 4 <=> c.kind = "error_line"
           /\ Rank(c) = 5 <=> c.kind = "tail" /\ c.source = "stderr"
           /\ Rank(c) = 6 <=> c.kind = "tail" /\ c.source = "stdout"
  <1>1. CASE c.kind = "traceback"
    BY <1>1 DEF Rank
  <1>2. CASE c.kind = "traceback_exception"
    BY <1>2 DEF Rank
  <1>3. CASE c.kind = "workspace_frame"
    BY <1>3 DEF Rank
  <1>4. CASE c.kind = "error_line"
    BY <1>4 DEF Rank
  <1>5. CASE c.kind = "tail"
    BY <1>5 DEF Rank, Sources
  <1> QED
    BY <1>1, <1>2, <1>3, <1>4, <1>5 DEF Kinds

\* The order of the candidates is strict and total.
LEMMA PrecedesIsOrder ==
    ASSUME NEW lg \in Logs
    PROVE  /\ \A c \in All(lg) : ~Precedes(c, c)
           /\ \A c, d, e \in All(lg) : Precedes(c, d) /\ Precedes(d, e) => Precedes(c, e)
           /\ \A c, d \in All(lg) : c = d \/ Precedes(c, d) \/ Precedes(d, c)
  <1>1. \A c \in All(lg) : c.kind \in Kinds /\ c.source \in Sources /\ c.start \in Nat
    BY AllAre DEF Part
  <1>2. \A c \in All(lg) : Rank(c) \in 1..6
    BY <1>1, RankIs
  <1>3. ASSUME NEW c \in All(lg), NEW d \in All(lg), Rank(c) = Rank(d), c.source = d.source
        PROVE  c = d
    <2>1. c.kind = d.kind
      BY <1>1, <1>3, RankIs DEF Kinds
    <2> QED
      BY <1>3, <2>1, AllAre
  <1>4. ASSUME NEW c \in All(lg) PROVE ~Precedes(c, c)
    BY <1>1, <1>2 DEF Precedes
  <1>5. ASSUME NEW c \in All(lg), NEW d \in All(lg), NEW e \in All(lg),
               Precedes(c, d), Precedes(d, e)
        PROVE  Precedes(c, e)
    <2>1. Rank(c) \in Int /\ Rank(d) \in Int /\ Rank(e) \in Int
          /\ c.start \in Int /\ d.start \in Int /\ e.start \in Int
      BY <1>1, <1>2
    <2> QED
      BY <1>5, <2>1 DEF Precedes
  <1>6. ASSUME NEW c \in All(lg), NEW d \in All(lg), c # d
        PROVE  Precedes(c, d) \/ Precedes(d, c)
    <2>1. Rank(c) \in Int /\ Rank(d) \in Int /\ c.start \in Int /\ d.start \in Int
      BY <1>1, <1>2
    <2>2. Rank(c) = Rank(d) => c.source # d.source
      BY <1>3, <1>6
    <2>3. c.source \in {"stdout", "stderr"} /\ d.source \in {"stdout", "stderr"}
      BY <1>1 DEF Sources
    <2> QED
      BY <2>1, <2>2, <2>3 DEF Precedes
  <1> QED
    BY <1>4, <1>5, <1>6

\* Sorted enumerates the candidates in this order.
LEMMA SortedIs ==
    ASSUME NEW lg \in Logs
    PROVE  LET all == All(lg)
               N   == Cardinality(all)
               seq == Sorted(all)
           IN  /\ N \in Nat /\ DOMAIN seq = 1..N /\ seq \in Seq(all) /\ Len(seq) = N
               /\ \A c \in all : \E i \in 1..N : seq[i] = c
               /\ \A i, j \in 1..N : i < j => Precedes(seq[i], seq[j])
  <1> DEFINE all == All(lg)
             N   == Cardinality(all)
             seq == Sorted(all)
             before(c) == {d \in all : Precedes(d, c)}
             rank == [c \in all |-> Cardinality(before(c)) + 1]
  <1>1. IsFiniteSet(all)
    BY AllAre
  <1>2. /\ \A c \in all : ~Precedes(c, c)
        /\ \A c, d, e \in all : Precedes(c, d) /\ Precedes(d, e) => Precedes(c, e)
        /\ \A c, d \in all : c = d \/ Precedes(c, d) \/ Precedes(d, c)
    BY PrecedesIsOrder
  <1> HIDE DEF all
  <1>3. N \in Nat
    BY <1>1, FS_CardinalityType
  <1>4. ASSUME NEW c \in all
        PROVE  /\ IsFiniteSet(before(c)) /\ Cardinality(before(c)) \in Nat
               /\ Cardinality(before(c)) < N
    <2>1. before(c) \in SUBSET all /\ before(c) # all
      BY <1>2
    <2> HIDE DEF before
    <2>2. /\ IsFiniteSet(before(c)) /\ Cardinality(before(c)) <= N /\ Cardinality(before(c)) # N
      BY <1>1, <2>1, FS_Subset
    <2>3. Cardinality(before(c)) \in Nat
      BY <2>2, FS_CardinalityType
    <2> QED
      BY <1>3, <2>2, <2>3
  <1>5. ASSUME NEW c \in all, NEW d \in all, Precedes(c, d)
        PROVE  Cardinality(before(c)) < Cardinality(before(d))
    <2>1. before(c) \in SUBSET before(d) /\ c \in before(d) /\ c \notin before(c)
      BY <1>2, <1>5
    <2> HIDE DEF before
    <2>2. /\ Cardinality(before(c)) <= Cardinality(before(d))
          /\ Cardinality(before(c)) # Cardinality(before(d))
      BY <1>4, <2>1, FS_Subset
    <2> QED
      BY <1>4, <2>2
  <1> HIDE DEF before
  <1>6. rank \in [all -> 1..N]
    <2>1. ASSUME NEW c \in all PROVE Cardinality(before(c)) + 1 \in 1..N
      BY <1>3, <1>4
    <2> QED
      BY <2>1
  <1>7. \A c, d \in all : rank[c] = rank[d] => c = d
    <2> SUFFICES ASSUME NEW c \in all, NEW d \in all, rank[c] = rank[d], c # d PROVE FALSE
      OBVIOUS
    <2>1. Cardinality(before(c)) \in Nat /\ Cardinality(before(d)) \in Nat
      BY <1>4
    <2>2. Cardinality(before(c)) = Cardinality(before(d))
      BY <2>1
    <2> QED
      BY <1>2, <1>5, <2>1, <2>2
  <1>8. \A k \in 1..N : \E c \in all : rank[c] = k
    <2> HIDE DEF rank
    <2> QED
      BY <1>1, <1>6, <1>7, EveryRank
  <1>9. ASSUME NEW i \in 1..N PROVE seq[i] \in all /\ Cardinality(before(seq[i])) = i - 1
    <2>1. PICK c \in all : rank[c] = i
      BY <1>8
    <2>2. Cardinality(before(c)) = i - 1
      BY <1>4, <2>1
    <2>3. seq[i] = CHOOSE x \in all : Cardinality(before(x)) = i - 1
      BY Zenon DEF Sorted, before
    <2> HIDE DEF seq
    <2> QED
      BY <2>2, <2>3
  <1>10. DOMAIN seq = 1..N
    BY DEF Sorted
  <1>11. seq = [i \in 1..N |-> seq[i]]
    <2> DEFINE f(i) == CHOOSE c \in all : Cardinality({d \in all : Precedes(d, c)}) = i - 1
    <2>1. seq = [i \in 1..N |-> f(i)]
      BY Zenon DEF Sorted
    <2> HIDE DEF f, seq
    <2> QED
      BY <2>1
  <1> HIDE DEF seq
  <1>12. seq \in Seq(all) /\ Len(seq) = N
    <2>1. seq \in [1..N -> all]
      BY <1>9, <1>11
    <2> QED
      BY <1>3, <2>1
  <1>13. ASSUME NEW c \in all PROVE \E i \in 1..N : seq[i] = c
    <2>1. rank[c] \in 1..N /\ Cardinality(before(c)) = rank[c] - 1
      BY <1>4, <1>6
    <2>2. seq[rank[c]] \in all /\ Cardinality(before(seq[rank[c]])) = rank[c] - 1
      BY <1>9, <2>1
    <2>3. rank[seq[rank[c]]] = rank[c]
      BY <2>1, <2>2
    <2>4. seq[rank[c]] = c
      <3> HIDE DEF rank
      <3> QED
        BY <1>7, <2>2, <2>3
    <2> QED
      BY <2>1, <2>4
  <1>14. ASSUME NEW i \in 1..N, NEW j \in 1..N, i < j PROVE Precedes(seq[i], seq[j])
    <2>1. /\ seq[i] \in all /\ Cardinality(before(seq[i])) = i - 1
          /\ seq[j] \in all /\ Cardinality(before(seq[j])) = j - 1
      BY <1>9
    <2>2. Cardinality(before(seq[i])) < Cardinality(before(seq[j]))
      BY <1>14, <2>1
    <2>3. seq[i] # seq[j] /\ ~Precedes(seq[j], seq[i])
      BY <1>4, <1>5, <2>1, <2>2
    <2> QED
      BY <1>2, <2>1, <2>3
  <1> QED
    BY <1>3, <1>10, <1>12, <1>13, <1>14 DEF all, seq

(***************************************************************************)
(* Blocks: what they take, and how they are cut                            *)
(***************************************************************************)
\* A block takes its header and at least one byte for each of its content.
LEMMA RenderedIs ==
    ASSUME NEW content \in Seq(STRING)
    PROVE  /\ Rendered(content) \in Nat
           /\ Rendered(content) >= Header + Len(content)
           /\ ~Contains(content, "?") => Rendered(content) = Header + Len(content)
  <1> DEFINE E == {k \in DOMAIN content : content[k] = "?"}
             n == Cardinality(E)
  <1>1. Header \in Nat /\ Len(content) \in Nat /\ DOMAIN content = 1..Len(content)
    BY EvidenceAssumption
  <1>2. n \in Nat
    <2>1. IsFiniteSet(1..Len(content))
      BY <1>1, FS_Interval
    <2>2. E \in SUBSET (1..Len(content))
      BY <1>1
    <2> HIDE DEF E
    <2> QED
      BY <2>1, <2>2, FS_Subset, FS_CardinalityType
  <1>3. ~Contains(content, "?") => n = 0
    <2>1. ~Contains(content, "?") => E = {}
      BY <1>1 DEF Contains
    <2> QED
      BY <2>1, FS_EmptySet, Zenon
  <1>4. Rendered(content) = Header + Len(content) + 2 * n
    BY DEF Rendered
  <1> HIDE DEF n
  <1> QED
    BY <1>1, <1>2, <1>3, <1>4

\* The blocks joined: a number of bytes, and for up to two blocks which.
LEMMA JoinedIs ==
    ASSUME NEW B, \A b \in B : b.content \in Seq(STRING), NEW blocks \in Seq(B)
    PROVE  /\ Joined(blocks) \in Nat
           /\ Len(blocks) = 0 => Joined(blocks) = 0
           /\ Len(blocks) = 1 => Joined(blocks) = Rendered(blocks[1].content)
           /\ Len(blocks) = 2 =>
                Joined(blocks) = Rendered(blocks[1].content) + Rendered(blocks[2].content) + 1
  <1> DEFINE L == Len(blocks)
             sizes == [i \in DOMAIN blocks |-> Rendered(blocks[i].content)]
             ends == Max({0, L - 1})
  <1>1. L \in Nat /\ DOMAIN blocks = 1..L
    OBVIOUS
  <1>2. \A i \in 1..L : Rendered(blocks[i].content) \in Nat
    <2>1. \A i \in 1..L : blocks[i] \in B
      BY <1>1
    <2> QED
      BY <2>1, RenderedIs
  <1>3. /\ sizes \in Seq(Nat) /\ Len(sizes) = L
        /\ \A i \in 1..L : sizes[i] = Rendered(blocks[i].content)
    <2>1. sizes \in [1..L -> Nat]
      BY <1>1, <1>2
    <2> QED
      BY <1>1, <2>1
  <1>4. ends = IF 0 >= L - 1 THEN 0 ELSE L - 1
    <2> DEFINE n == L - 1
    <2>1. n \in Int /\ 0 \in Int /\ ends = Max({0, n})
      BY <1>1
    <2> HIDE DEF n
    <2>2. ends = IF 0 >= n THEN 0 ELSE n
      BY <2>1, MinMaxOfTwo
    <2> QED
      BY <2>2 DEF n
  <1>5. Joined(blocks) = Sum(sizes) + ends
    BY DEF Joined
  <1> HIDE DEF sizes, ends
  <1>6. PICK g : Fold("sum", 0, 0, 0, sizes, g) /\ Sum(sizes) = g[L]
    BY <1>3, SumFold
  <1>7. g[0] = 0 /\ \A k \in 0..(L - 1) : g[k + 1] = g[k] + sizes[k + 1]
    BY <1>3, <1>6 DEF Fold, Step
  <1> DEFINE T == {k \in Nat : k <= L => g[k] \in Nat}
  <1>8. 0 \in T
    BY <1>7
  <1>9. ASSUME NEW k \in T PROVE k + 1 \in T
    <2> SUFFICES ASSUME k + 1 <= L PROVE g[k + 1] \in Nat
      OBVIOUS
    <2>1. k \in 0..(L - 1) /\ k + 1 \in 1..L /\ g[k] \in Nat
      BY <1>1
    <2>2. g[k + 1] = g[k] + sizes[k + 1] /\ sizes[k + 1] \in Nat
      BY <1>3, <1>7, <2>1
    <2> QED
      BY <2>1, <2>2
  <1>10. L \in T
    <2> HIDE DEF T
    <2>1. T \in SUBSET Nat
      BY DEF T
    <2> QED
      BY <1>1, <1>8, <1>9, <2>1, SetInduction
  <1>11. Joined(blocks) \in Nat
    <2>1. g[L] \in Nat /\ L <= L
      BY <1>1, <1>10
    <2>2. ends \in Nat
      <3>1. L \in Nat /\ ends = IF 0 >= L - 1 THEN 0 ELSE L - 1
        BY <1>1, <1>4
      <3> HIDE DEF L
      <3> QED
        BY <3>1
    <2> HIDE DEF T
    <2> QED
      BY <1>5, <1>6, <2>1, <2>2
  <1>12. L = 0 => Joined(blocks) = 0
    BY <1>4, <1>5, <1>6, <1>7
  <1>13. ASSUME L >= 1 PROVE g[1] = Rendered(blocks[1].content) /\ g[1] \in Nat
    <2>1. 0 \in 0..(L - 1) /\ 0 + 1 = 1 /\ 1 \in 1..L
      BY <1>1, <1>13
    <2>2. g[1] = g[0] + sizes[1]
      BY <1>7, <2>1
    <2> QED
      BY <1>2, <1>3, <1>7, <2>1, <2>2
  <1>14. L = 1 => Joined(blocks) = Rendered(blocks[1].content)
    BY <1>4, <1>5, <1>6, <1>13
  <1>15. ASSUME L = 2
         PROVE Joined(blocks) = Rendered(blocks[1].content) + Rendered(blocks[2].content) + 1
    <2>1. 1 \in 0..(L - 1) /\ 1 + 1 = 2 /\ 2 \in 1..L /\ ends = 1
      BY <1>4, <1>15
    <2>2. g[2] = g[1] + sizes[2]
      BY <1>7, <2>1
    <2> QED
      BY <1>2, <1>3, <1>5, <1>6, <1>13, <1>15, <2>1, <2>2
  <1> QED
    BY <1>11, <1>12, <1>14, <1>15

(***************************************************************************)
(* A candidate is cut until it fits                                        *)
(***************************************************************************)
LEMMA CutIs ==
    ASSUME NEW lg, NEW c, Part(c, lg), NEW n \in 0..Len(c.content)
    PROVE  /\ Part(Cut(c, n), lg)
           /\ Cut(c, n).source = c.source /\ Cut(c, n).kind = c.kind
           /\ Len(Cut(c, n).content) = n
           /\ n = Len(c.content) => Cut(c, n).content = c.content /\ Cut(c, n).start = c.start
  <1> DEFINE text == c.content
             L == Len(text)
             bytes == Bytes(lg[c.source])
  <1>1. /\ c \in [source : Sources, kind : Kinds, start : Nat, content : Seq(STRING)]
        /\ c.start + L <= Len(bytes)
        /\ \A j \in 1..L : text[j] = bytes[c.start + j]
    BY DEF Part, Shows
  <1>2. text \in Seq(STRING) /\ L \in Nat /\ c.start \in Nat /\ n \in Nat /\ n <= L
    BY <1>1
  <1>3. CASE c.kind = "tail"
    <2> DEFINE from == L - n + 1
               t == SubSeq(text, from, L)
               start == c.start + L - n
               d == [c EXCEPT !.start = start, !.content = t]
    <2>1. Cut(c, n) = d
      BY <1>1, <1>3 DEF Cut
    <2>2. from \in Nat /\ from \in 1..(L + 1)
      BY <1>2
    <2>3. t \in Seq(STRING) /\ Len(t) = n /\ \A j \in 1..n : t[j] = text[L - n + j]
      BY <1>2, <2>2
    <2>4. n = L => t = text
      <3> SUFFICES ASSUME n = L PROVE t = text
        OBVIOUS
      <3>1. t \in Seq(STRING) /\ Len(t) = Len(text) /\ \A j \in 1..Len(text) : t[j] = text[j]
        BY <1>2, <2>3
      <3> HIDE DEF t, text
      <3> QED
        BY <1>2, <3>1, SeqEqual
    <2>5. start \in Nat /\ (n = L => start = c.start)
      BY <1>2
    <2> HIDE DEF t, start, text, L
    <2>6. /\ d \in [source : Sources, kind : Kinds, start : Nat, content : Seq(STRING)]
          /\ d.source = c.source /\ d.kind = c.kind /\ d.start = start /\ d.content = t
      BY <1>1, <2>3, <2>5
    <2>7. start + n <= Len(bytes)
      BY <1>1, <1>2 DEF start
    <2>8. ASSUME NEW j \in 1..n PROVE t[j] = bytes[start + j]
      <3> DEFINE i == L - n + j
      <3>1. i \in 1..L /\ c.start + i = start + j
        BY <1>2 DEF start
      <3>2. t[j] = text[i]
        BY <2>3
      <3> HIDE DEF i
      <3> QED
        BY <1>1, <3>1, <3>2
    <2>9. Shows(d, bytes)
      <3> HIDE DEF d
      <3> QED
        BY <2>3, <2>6, <2>7, <2>8 DEF Shows
    <2> HIDE DEF d
    <2> QED
      BY <2>1, <2>3, <2>4, <2>5, <2>6, <2>9 DEF Part, text, L
  <1>4. CASE c.kind # "tail"
    <2> DEFINE t == SubSeq(text, 1, n)
               d == [c EXCEPT !.content = t]
    <2>1. Cut(c, n) = d
      BY <1>1, <1>4 DEF Cut
    <2>3. t \in Seq(STRING) /\ Len(t) = n /\ \A j \in 1..n : t[j] = text[j]
      BY <1>2
    <2>4. n = L => t = text
      <3> SUFFICES ASSUME n = L PROVE t = text
        OBVIOUS
      <3> HIDE DEF t, text
      <3> QED
        BY <1>2, <2>3, SeqEqual DEF L
    <2> HIDE DEF t, text, L
    <2>6. /\ d \in [source : Sources, kind : Kinds, start : Nat, content : Seq(STRING)]
          /\ d.source = c.source /\ d.kind = c.kind /\ d.start = c.start /\ d.content = t
      BY <1>1, <2>3
    <2>7. c.start + n <= Len(bytes)
      BY <1>1, <1>2
    <2>8. \A j \in 1..n : t[j] = bytes[c.start + j]
      <3> SUFFICES ASSUME NEW j \in 1..n PROVE t[j] = bytes[c.start + j]
        OBVIOUS
      <3>1. j \in 1..L
        BY <1>2
      <3> QED
        BY <1>1, <2>3, <3>1
    <2>9. Shows(d, bytes)
      <3> HIDE DEF d
      <3> QED
        BY <2>3, <2>6, <2>7, <2>8 DEF Shows
    <2> HIDE DEF d
    <2> QED
      BY <2>1, <2>3, <2>4, <2>6, <2>9 DEF Part, text, L
  <1> QED
    BY <1>3, <1>4

\* A block of evidence.
Block == [source : Sources, kind : Kinds, start : Nat, content : Seq(STRING)]

\* A block is cut to what has room, and not cut if all of it has.
LEMMA FittedIs ==
    ASSUME NEW lg, NEW c, Part(c, lg), NEW blocks \in Seq(Block), NEW available \in Int
    PROVE  \E n \in 0..Len(c.content) :
            /\ Fitted(c, blocks, available) = Cut(c, n)
            /\ n = 0 \/ Joined(Append(blocks, Cut(c, n))) <= available
            /\ Joined(Append(blocks, Cut(c, Len(c.content)))) <= available =>
                    n = Len(c.content)
  <1> DEFINE L == Len(c.content)
             J(n) == Joined(Append(blocks, Cut(c, n)))
             Over(n) == J(n) - available
             Next1(n) == Max({0, n - Over(n)})
             Body1(f, n) == IF n = 0 \/ Over(n) <= 0 THEN n ELSE f[Next1(n)]
             Upto(k, f) == \A n \in 0..L : n <= k => f[n] = Body1(f, n)
             T == {k \in Nat : \E f : Upto(k, f)}
  <1>1. L \in Nat /\ c \in Block
    BY DEF Part, Block
  <1>2. ASSUME NEW n \in 0..L PROVE J(n) \in Nat
    <2>1. Cut(c, n) \in Block
      BY CutIs DEF Part, Block
    <2>2. Append(blocks, Cut(c, n)) \in Seq(Block)
      BY <2>1
    <2>3. \A b \in Block : b.content \in Seq(STRING)
      BY DEF Block
    <2> QED
      BY <2>2, <2>3, JoinedIs
  <1> HIDE DEF L, J
  <1>3. ASSUME NEW n \in 0..L, n # 0, ~(Over(n) <= 0)
        PROVE  Next1(n) \in 0..(n - 1)
    <2> DEFINE m == n - Over(n)
    <2>1. m \in Int /\ 0 \in Int /\ m < n /\ n \in Nat /\ n >= 1
      BY <1>1, <1>2, <1>3
    <2>2. Next1(n) = Max({0, m})
      OBVIOUS
    <2> HIDE DEF m
    <2>3. Max({0, m}) = IF 0 >= m THEN 0 ELSE m
      BY <2>1, MinMaxOfTwo
    <2> QED
      BY <2>1, <2>2, <2>3
  <1> HIDE DEF Over, Next1
  <1>4. ASSUME NEW k \in Int, NEW f, k = -1 \/ Upto(k, f), NEW g,
               g = [n \in 0..L |-> IF n <= k THEN f[n] ELSE Body1(f, n)]
        PROVE  Upto(k + 1, g)
    <2> SUFFICES ASSUME NEW n \in 0..L, n <= k + 1 PROVE g[n] = Body1(g, n)
      OBVIOUS
    <2>1. g[n] = Body1(f, n)
      <3> HIDE DEF Body1
      <3>1. g[n] = IF n <= k THEN f[n] ELSE Body1(f, n)
        BY <1>4
      <3>2. k = -1 => ~(n <= k)
        BY <1>1
      <3> QED
        BY <1>4, <3>1, <3>2
    <2>2. CASE n = 0 \/ Over(n) <= 0
      BY <2>1, <2>2
    <2>3. CASE ~(n = 0 \/ Over(n) <= 0)
      <3>1. Next1(n) \in 0..(n - 1)
        BY <1>3, <2>3
      <3> DEFINE m == Next1(n)
      <3>2. m \in 0..L /\ m <= k
        BY <1>1, <3>1
      <3> HIDE DEF m
      <3>3. g[m] = f[m]
        BY <1>4, <3>2
      <3> QED
        BY <2>1, <2>3, <3>3 DEF m
    <2> QED
      BY <2>2, <2>3
  <1> HIDE DEF Body1
  <1>5. 0 \in T
    <2> DEFINE f == <<>>
               m == -1
               g == [n \in 0..L |-> IF n <= m THEN f[n] ELSE Body1(f, n)]
    <2>1. m \in Int /\ g = [n \in 0..L |-> IF n <= m THEN f[n] ELSE Body1(f, n)]
      OBVIOUS
    <2> HIDE DEF g, f
    <2>2. Upto(m + 1, g)
      <3> HIDE DEF Upto, m
      <3> QED
        BY <1>4, <2>1 DEF m
    <2>3. Upto(0, g)
      BY <2>2
    <2> HIDE DEF Upto
    <2> QED
      BY <2>3
  <1>6. ASSUME NEW k \in T PROVE k + 1 \in T
    <2> HIDE DEF Upto
    <2>1. PICK f : Upto(k, f)
      OBVIOUS
    <2>2. k \in Nat
      OBVIOUS
    <2> DEFINE g == [n \in 0..L |-> IF n <= k THEN f[n] ELSE Body1(f, n)]
    <2>3. Upto(k + 1, g)
      BY <1>4, <2>1, <2>2
    <2> QED
      BY <2>2, <2>3
  <1>7. L \in T
    <2> HIDE DEF T
    <2>1. T \in SUBSET Nat
      BY DEF T
    <2> QED
      BY <1>1, <1>5, <1>6, <2>1, SetInduction
  <1>8. PICK f : Upto(L, f)
    BY <1>7
  <1> DEFINE g == [n \in 0..L |-> f[n]]
             Solves(h) == h = [n \in 0..L |-> Body1(h, n)]
  <1>9. ASSUME NEW n \in 0..L PROVE f[n] = Body1(g, n)
    <2>1. f[n] = Body1(f, n)
      BY <1>1, <1>8
    <2>2. CASE n = 0 \/ Over(n) <= 0
      BY <2>1, <2>2 DEF Body1
    <2>3. CASE ~(n = 0 \/ Over(n) <= 0)
      <3>1. Next1(n) \in 0..L
        BY <1>1, <1>3, <2>3 DEF Next1, Over
      <3> QED
        BY <2>1, <2>3, <3>1 DEF Body1
    <2> QED
      BY <2>2, <2>3
  <1>10. Solves(g)
    BY <1>9
  <1> HIDE DEF g
  <1> DEFINE h == CHOOSE q : Solves(q)
  <1>11. Solves(h)
    BY <1>10
  <1>12. Fitted(c, blocks, available) = Cut(c, h[L])
    BY DEF Fitted, Body1, Over, Next1, J, L
  <1> HIDE DEF h
  <1>13. \A n \in 0..L : h[n] = Body1(h, n)
    <2> HIDE DEF Body1
    <2> QED
      BY <1>11
  <1> DEFINE Good(n) == h[n] \in 0..n /\ (h[n] = 0 \/ Over(h[n]) <= 0)
             U == {k \in Nat : \A n \in 0..L : n <= k => Good(n)}
  <1>14. 0 \in U
    <2> SUFFICES ASSUME NEW n \in 0..L, n <= 0 PROVE Good(n)
      OBVIOUS
    <2>1. n = 0
      BY <1>1
    <2> QED
      BY <1>13, <2>1 DEF Body1
  <1>15. ASSUME NEW k \in U PROVE k + 1 \in U
    <2>0. k \in Nat /\ \A n \in 0..L : n <= k => Good(n)
      <3> HIDE DEF Good
      <3> QED
        OBVIOUS
    <2> SUFFICES ASSUME NEW n \in 0..L, n <= k + 1 PROVE Good(n)
      <3> HIDE DEF Good
      <3> QED
        BY <2>0
    <2>1. h[n] = Body1(h, n)
      BY <1>13
    <2>2. CASE n = 0 \/ Over(n) <= 0
      BY <2>1, <2>2 DEF Body1
    <2>3. CASE ~(n = 0 \/ Over(n) <= 0)
      <3> DEFINE m == Next1(n)
      <3>1. m \in 0..(n - 1)
        BY <1>3, <2>3 DEF Next1, Over
      <3>2. h[n] = h[m]
        BY <2>1, <2>3 DEF Body1
      <3> HIDE DEF m
      <3>3. m \in 0..L /\ m <= k
        BY <1>1, <3>1, <2>0
      <3>4. Good(m)
        <4> HIDE DEF Good
        <4> QED
          BY <2>0, <3>3
      <3> QED
        BY <1>1, <3>1, <3>2, <3>4
    <2> QED
      BY <2>2, <2>3
  <1>16. L \in U
    <2> HIDE DEF U
    <2>1. U \in SUBSET Nat
      BY DEF U
    <2> QED
      BY <1>1, <1>14, <1>15, <2>1, SetInduction
  <1>17. h[L] \in 0..L /\ (h[L] = 0 \/ Over(h[L]) <= 0)
    BY <1>1, <1>16
  <1>18. h[L] = 0 \/ J(h[L]) <= available
    BY <1>2, <1>17 DEF Over
  <1>19. J(L) <= available => h[L] = L
    <2> SUFFICES ASSUME J(L) <= available PROVE h[L] = L
      OBVIOUS
    <2>1. L \in 0..L /\ Over(L) <= 0
      BY <1>1, <1>2 DEF Over
    <2>2. h[L] = Body1(h, L)
      BY <1>13, <2>1
    <2> QED
      BY <2>1, <2>2 DEF Body1
  <1> QED
    BY <1>12, <1>17, <1>18, <1>19 DEF J, L

(***************************************************************************)
(* One candidate more                                                      *)
(***************************************************************************)
\* Only for a traceback is something reserved: the room of its exception.
LEMMA ReservedIs ==
    ASSUME NEW lg \in Logs, NEW c \in All(lg), NEW seen
    PROVE  /\ Reserved(c, All(lg), seen) \in Nat
           /\ c.kind # "traceback" => Reserved(c, All(lg), seen) = 0
           /\ \A e \in All(lg) :
                c.kind = "traceback" /\ e.kind = "traceback_exception"
                    /\ e.source = c.source /\ e.content \notin seen
                => Reserved(c, All(lg), seen) = Rendered(e.content) + 1
  <1> DEFINE finals == {e \in All(lg) : c.kind = "traceback" /\ e.kind = "traceback_exception"
                               /\ e.source = c.source /\ e.content \notin seen}
             sizes == {0} \cup {Rendered(e.content) + 1 : e \in finals}
             R == Reserved(c, All(lg), seen)
  <1>1. R = Max(sizes)
    BY DEF Reserved
  <1>2. \A e, d \in finals : e = d
    BY AllAre
  <1>3. CASE finals = {}
    <2>1. sizes = {0, 0} /\ 0 \in Int
      BY <1>3
    <2> HIDE DEF sizes, R, finals
    <2>2. R = 0
      BY <1>1, <2>1, MinMaxOfTwo
    <2> QED
      BY <1>3, <2>2 DEF finals, R
  <1>4. CASE finals # {}
    <2>1. PICK e \in finals : TRUE
      BY <1>4
    <2> DEFINE n == Rendered(e.content) + 1
    <2>2. e \in All(lg) /\ c.kind = "traceback" /\ e.content \in Seq(STRING)
      BY <2>1, AllAre DEF Part
    <2>3. n \in Nat /\ n >= 0 /\ 0 \in Int
      BY <2>2, RenderedIs
    <2>4. sizes = {0, n}
      <3> HIDE DEF finals
      <3> QED
        BY <1>2, <2>1
    <2> HIDE DEF sizes, R, n
    <2>5. R = n
      <3>1. Max({0, n}) = IF 0 >= n THEN 0 ELSE n
        <4>1. n \in Int
          BY <2>3
        <4> QED
          BY <2>3, <4>1, MinMaxOfTwo
      <3> QED
        BY <1>1, <2>3, <2>4, <3>1
    <2>6. ASSUME NEW d \in finals PROVE R = Rendered(d.content) + 1
      <3>1. d = e
        BY <1>2, <2>1
      <3> QED
        BY <2>5, <3>1 DEF n
    <2> QED
      BY <2>2, <2>3, <2>5, <2>6 DEF R
  <1> QED
    BY <1>3, <1>4

\* What is selected so far.
Selection(s, lg, max) ==
    /\ s \in [blocks : Seq(Block), seen : SUBSET Seq(STRING), stopped : BOOLEAN]
    /\ \A i \in 1..Len(s.blocks) : Part(s.blocks[i], lg)
    /\ Joined(s.blocks) <= max

\* What becomes of a candidate.
Offered(all, max, s, c) == max - Reserved(c, all, s.seen)
Taken(all, max, s, c) == Fitted(c, s.blocks, Offered(all, max, s, c))
NoRoom(all, max, s, c) ==
    Joined(s.blocks) >= Offered(all, max, s, c) \/ Taken(all, max, s, c).content = <<>>

\* A candidate of which nothing is taken, one that ends the selection, one that is taken.
Skips(s, c) == s.stopped \/ c.content \in s.seen
Stopped(s, c) == [s EXCEPT !.stopped = c.kind # "traceback"]
With(s, c, block) ==
    [s EXCEPT !.blocks = Append(s.blocks, block), !.seen = s.seen \cup {c.content}]

\* _choose: a candidate is skipped, ends the selection or is taken.
LEMMA ChosenIs ==
    ASSUME NEW all, NEW max, NEW s, NEW c, s.stopped \in BOOLEAN
    PROVE  Chosen(all, max, s, c) =
             IF Skips(s, c) THEN s
             ELSE IF NoRoom(all, max, s, c) THEN Stopped(s, c)
             ELSE With(s, c, Taken(all, max, s, c))
  <1>1. CASE Skips(s, c)
    BY <1>1 DEF Chosen, Skips
  <1>2. CASE ~Skips(s, c)
    BY <1>2 DEF Chosen, NoRoom, Taken, Offered, Skips, Stopped, With
  <1> QED
    BY <1>1, <1>2

\* A candidate more: the selection stays within the budget and what was taken stays.
LEMMA ChosenKeeps ==
    ASSUME NEW lg \in Logs, NEW max \in Nat, NEW s, Selection(s, lg, max), NEW c \in All(lg)
    PROVE  LET t == Chosen(All(lg), max, s, c)
           IN  /\ Selection(t, lg, max)
               /\ Begins(s.blocks, t.blocks)
  <1> DEFINE all == All(lg)
             t == Chosen(all, max, s, c)
             b == Taken(all, max, s, c)
             available == Offered(all, max, s, c)
  <1>1. /\ s \in [blocks : Seq(Block), seen : SUBSET Seq(STRING), stopped : BOOLEAN]
        /\ s.blocks \in Seq(Block) /\ s.stopped \in BOOLEAN
        /\ \A i \in 1..Len(s.blocks) : Part(s.blocks[i], lg)
        /\ Joined(s.blocks) <= max
    BY DEF Selection
  <1>a. t = IF Skips(s, c) THEN s
            ELSE IF NoRoom(all, max, s, c) THEN Stopped(s, c) ELSE With(s, c, b)
    BY <1>1, ChosenIs
  <1> HIDE DEF t
  <1>2. Begins(s.blocks, s.blocks)
    BY <1>1, BeginsSelf
  <1>3. CASE Skips(s, c)
    <2>1. t = s
      BY <1>a, <1>3
    <2> QED
      BY <1>2, <2>1 DEF t
  <1>4. CASE ~Skips(s, c) /\ NoRoom(all, max, s, c)
    <2> DEFINE u == [s EXCEPT !.stopped = c.kind # "traceback"]
    <2>1. t = u
      BY <1>a, <1>4 DEF Stopped
    <2>2. /\ u \in [blocks : Seq(Block), seen : SUBSET Seq(STRING), stopped : BOOLEAN]
          /\ u.blocks = s.blocks
      BY <1>1
    <2> HIDE DEF u
    <2>3. Selection(u, lg, max)
      BY <1>1, <2>2 DEF Selection
    <2> QED
      BY <1>2, <2>1, <2>2, <2>3 DEF t
  <1>5. CASE ~Skips(s, c) /\ ~NoRoom(all, max, s, c)
    <2> DEFINE blocks == Append(s.blocks, b)
               u == [s EXCEPT !.blocks = blocks, !.seen = s.seen \cup {c.content}]
    <2>1. t = u
      BY <1>a, <1>5, Zenon DEF With
    <2>2. Part(c, lg) /\ c.content \in Seq(STRING)
      BY AllAre DEF Part
    <2>3. available \in Int /\ available <= max
      <3>1. Reserved(c, all, s.seen) \in Nat
        BY ReservedIs
      <3> QED
        BY <3>1 DEF Offered
    <2>4. PICK n \in 0..Len(c.content) :
            /\ b = Cut(c, n)
            /\ n = 0 \/ Joined(Append(s.blocks, Cut(c, n))) <= available
      <3> HIDE DEF available
      <3>1. b = Fitted(c, s.blocks, available)
        BY DEF Taken, available
      <3> HIDE DEF b
      <3> QED
        BY <1>1, <2>2, <2>3, <3>1, FittedIs
    <2>5. Part(b, lg) /\ Len(b.content) = n
      BY <2>2, <2>4, CutIs
    <2>6. b \in Block
      BY <2>5 DEF Part, Block
    <2>7. n # 0
      <3>1. b.content # <<>> /\ b.content \in Seq(STRING)
        BY <1>5, <2>6 DEF NoRoom, Block
      <3> QED
        BY <2>5, <3>1
    <2>8. Joined(blocks) <= max
      <3>1. Joined(blocks) <= available
        BY <2>4, <2>7
      <3>2. Joined(blocks) \in Nat
        <4>1. blocks \in Seq(Block)
          BY <1>1, <2>6
        <4>2. \A d \in Block : d.content \in Seq(STRING)
          BY DEF Block
        <4> HIDE DEF blocks
        <4> QED
          BY <4>1, <4>2, JoinedIs
      <3> HIDE DEF blocks, available
      <3> QED
        BY <2>3, <3>1, <3>2
    <2> HIDE DEF b
    <2>9. /\ blocks \in Seq(Block) /\ Len(blocks) = Len(s.blocks) + 1
          /\ \A i \in 1..Len(s.blocks) : blocks[i] = s.blocks[i]
          /\ blocks[Len(s.blocks) + 1] = b
      BY <1>1, <2>6
    <2> HIDE DEF blocks
    <2>10. \A i \in 1..Len(blocks) : Part(blocks[i], lg)
      <3> SUFFICES ASSUME NEW i \in 1..Len(blocks) PROVE Part(blocks[i], lg)
        OBVIOUS
      <3>1. Len(s.blocks) \in Nat
        BY <1>1
      <3>2. i \in 1..Len(s.blocks) \/ i = Len(s.blocks) + 1
        BY <2>9, <3>1
      <3> QED
        BY <1>1, <2>5, <2>9, <3>2
    <2>11. Begins(s.blocks, blocks)
      BY <1>1, <2>9 DEF Begins
    <2>12. /\ u \in [blocks : Seq(Block), seen : SUBSET Seq(STRING), stopped : BOOLEAN]
           /\ u.blocks = blocks
      BY <1>1, <2>2, <2>9
    <2> HIDE DEF u
    <2>13. Selection(u, lg, max)
      BY <2>8, <2>10, <2>12 DEF Selection
    <2> QED
      BY <2>1, <2>11, <2>12, <2>13 DEF t
  <1> QED
    BY <1>3, <1>4, <1>5

\* The selection before the first candidate.
SelectStart == [blocks |-> <<>>, seen |-> {}, stopped |-> FALSE]

\* The selection is a fold over the candidates in their order.
LEMMA SelectIsFold ==
    ASSUME NEW lg \in Logs, NEW max
    PROVE  LET all == All(lg)
           IN  \E g : /\ Fold("choose", all, max, SelectStart, Sorted(all), g)
                      /\ SelectEvidence(lg, max) = g[Len(Sorted(all))].blocks
  <1> DEFINE all == All(lg)
             f == CHOOSE h : Folding("choose", all, max, SelectStart, Sorted(all), h)
  <1>1. Sorted(all) \in Seq(all)
    BY SortedIs
  <1>2. Folding("choose", all, max, SelectStart, Sorted(all), f)
    BY <1>1, FoldingExists
  <1>3. SelectEvidence(lg, max) = f[DOMAIN Sorted(all)].blocks
    BY DEF SelectEvidence, All, SelectStart, FoldLeft, MapThenFoldSet, Folding, Body, Step
  <1> HIDE DEF f, all
  <1>4. PICK g : Fold("choose", all, max, SelectStart, Sorted(all), g)
                    /\ f[DOMAIN Sorted(all)] = g[Len(Sorted(all))]
    BY <1>1, <1>2, FoldOfFolding
  <1> QED
    BY <1>3, <1>4 DEF all

(***************************************************************************)
(* The selection                                                           *)
(***************************************************************************)
\* To begin is transitive.
LEMMA BeginsTrans ==
    ASSUME NEW r, NEW s, NEW t, Begins(r, s), Begins(s, t)
    PROVE  Begins(r, t)
BY DEF Begins

\* The states of the selection, candidate after candidate.
Selecting(lg, max, g) ==
    /\ Fold("choose", All(lg), max, SelectStart, Sorted(All(lg)), g)
    /\ SelectEvidence(lg, max) = g[Len(Sorted(All(lg)))].blocks
    /\ \A k \in 0..Len(Sorted(All(lg))) : Selection(g[k], lg, max)

\* The selection before the first candidate.
LEMMA EmptySelection ==
    ASSUME NEW lg, NEW max \in Nat
    PROVE  Selection(SelectStart, lg, max)
  <1>1. <<>> \in Seq(Block) /\ Len(<<>>) = 0 /\ \A b \in Block : b.content \in Seq(STRING)
    BY DEF Block
  <1>2. Joined(<<>>) = 0
    BY <1>1, JoinedIs
  <1> QED
    BY <1>1, <1>2 DEF Selection, SelectStart

\* The selection is a selection after every candidate.
LEMMA SelectionHolds ==
    ASSUME NEW lg \in Logs, NEW max \in Nat
    PROVE  \E g : Selecting(lg, max, g)
  <1> DEFINE all == All(lg)
             seq == Sorted(all)
             N == Len(seq)
  <1>1. PICK g : /\ Fold("choose", all, max, SelectStart, seq, g)
                 /\ SelectEvidence(lg, max) = g[N].blocks
    BY SelectIsFold
  <1>2. N \in Nat /\ seq \in Seq(all)
    BY SortedIs
  <1>3. g[0] = SelectStart /\ \A k \in 0..(N - 1) : g[k + 1] = Chosen(all, max, g[k], seq[k + 1])
    BY <1>1 DEF Fold, Step
  <1> DEFINE T == {k \in Nat : k <= N => Selection(g[k], lg, max)}
  <1>4. 0 \in T
    BY <1>3, EmptySelection
  <1> HIDE DEF seq, N
  <1>5. ASSUME NEW k \in T PROVE k + 1 \in T
    <2> SUFFICES ASSUME k + 1 <= N PROVE Selection(g[k + 1], lg, max)
      OBVIOUS
    <2>1. k \in 0..(N - 1) /\ k + 1 \in 1..N /\ Selection(g[k], lg, max)
      BY <1>2
    <2>2. seq[k + 1] \in all
      BY <1>2, <2>1 DEF N
    <2>3. g[k + 1] = Chosen(all, max, g[k], seq[k + 1])
      BY <1>3, <2>1
    <2> DEFINE c == seq[k + 1]
               s == g[k]
    <2>4. c \in All(lg) /\ Selection(s, lg, max)
      BY <2>1, <2>2
    <2> HIDE DEF c, s
    <2>5. Selection(Chosen(All(lg), max, s, c), lg, max)
      BY <2>4, ChosenKeeps
    <2> QED
      BY <2>3, <2>5 DEF c, s
  <1>6. T = Nat
    <2> HIDE DEF T
    <2>1. T \in SUBSET Nat
      BY DEF T
    <2> QED
      BY <1>4, <1>5, <2>1, SetInduction
  <1>7. \A k \in 0..N : Selection(g[k], lg, max)
    BY <1>2, <1>6
  <1> QED
    BY <1>1, <1>7 DEF Selecting, seq, N

\* What was selected stays selected.
LEMMA SelectionGrows ==
    ASSUME NEW lg \in Logs, NEW max \in Nat, NEW g, Selecting(lg, max, g),
           NEW k \in Nat, k <= Len(Sorted(All(lg)))
    PROVE  Begins(g[k].blocks, SelectEvidence(lg, max))
  <1> DEFINE all == All(lg)
             seq == Sorted(all)
             N == Len(seq)
             T == {d \in Nat : k + d <= N => Begins(g[k].blocks, g[k + d].blocks)}
  <1>1. N \in Nat /\ seq \in Seq(all)
    BY SortedIs
  <1>2. \A i \in 0..(N - 1) : g[i + 1] = Chosen(all, max, g[i], seq[i + 1])
    BY DEF Selecting, Fold, Step
  <1>3. \A i \in 0..N : Selection(g[i], lg, max)
    BY DEF Selecting
  <1>a. SelectEvidence(lg, max) = g[N].blocks /\ k <= N
    BY DEF Selecting
  <1> HIDE DEF N
  <1>4. 0 \in T
    <2>1. k + 0 = k /\ k \in 0..N
      BY <1>1, <1>a
    <2>2. g[k].blocks \in Seq(Block)
      BY <1>3, <2>1 DEF Selection
    <2>3. Begins(g[k].blocks, g[k].blocks)
      BY <2>2, BeginsSelf
    <2> QED
      BY <2>1, <2>3
  <1> HIDE DEF seq
  <1>5. ASSUME NEW d \in T PROVE d + 1 \in T
    <2>0. d \in Nat
      OBVIOUS
    <2> SUFFICES ASSUME k + (d + 1) <= N PROVE Begins(g[k].blocks, g[k + (d + 1)].blocks)
      BY <2>0
    <2> DEFINE i == k + d
    <2>1. i \in 0..(N - 1) /\ i + 1 \in 1..N /\ i \in 0..N /\ k + (d + 1) = i + 1 /\ k + d <= N
      BY <1>1, <2>0
    <2>2. Begins(g[k].blocks, g[i].blocks)
      BY <2>1
    <2> HIDE DEF i
    <2> DEFINE c == seq[i + 1]
               s == g[i]
    <2>3. c \in All(lg) /\ Selection(s, lg, max)
      BY <1>1, <1>3, <2>1 DEF N
    <2>4. g[i + 1] = Chosen(All(lg), max, s, c)
      BY <1>2, <2>1
    <2> HIDE DEF c, s
    <2>5. Begins(s.blocks, Chosen(All(lg), max, s, c).blocks)
      BY <2>3, ChosenKeeps
    <2>6. Begins(g[k].blocks, g[i + 1].blocks)
      <3>1. Begins(g[k].blocks, s.blocks) /\ Begins(s.blocks, g[i + 1].blocks)
        BY <2>2, <2>4, <2>5 DEF s
      <3> QED
        BY <3>1, BeginsTrans
    <2> QED
      BY <2>1, <2>6
  <1>6. T = Nat
    <2> HIDE DEF T
    <2>1. T \in SUBSET Nat
      BY DEF T
    <2> QED
      BY <1>4, <1>5, <2>1, SetInduction
  <1> DEFINE d == N - k
  <1>7. d \in Nat /\ k + d = N
    BY <1>1, <1>a
  <1> HIDE DEF d
  <1>8. k + d <= N
    BY <1>1, <1>7
  <1>9. Begins(g[k].blocks, g[k + d].blocks)
    BY <1>6, <1>7, <1>8
  <1> QED
    BY <1>a, <1>7, <1>9

\* Evidence is part of the log it names, and keeps to its budget.
LEMMA EvidenceIs ==
    ASSUME NEW lg \in Logs, NEW max \in Nat
    PROVE  LET blocks == SelectEvidence(lg, max)
           IN  /\ blocks \in Seq(Block)
               /\ \A p \in ToSet(blocks) : Part(p, lg)
               /\ Joined(blocks) <= max
  <1>1. PICK g : Selecting(lg, max, g)
    BY SelectionHolds
  <1> DEFINE N == Len(Sorted(All(lg)))
             blocks == SelectEvidence(lg, max)
  <1>2. N \in Nat
    BY SortedIs
  <1>3. Selection(g[N], lg, max) /\ blocks = g[N].blocks
    BY <1>1, <1>2 DEF Selecting
  <1> HIDE DEF N, blocks
  <1>4. /\ blocks \in Seq(Block) /\ Joined(blocks) <= max
        /\ \A i \in 1..Len(blocks) : Part(blocks[i], lg)
    BY <1>3 DEF Selection
  <1>5. \A p \in ToSet(blocks) : Part(p, lg)
    BY <1>4 DEF ToSet
  <1> QED
    BY <1>4, <1>5 DEF blocks

(***************************************************************************)
(* The last exception is kept                                              *)
(***************************************************************************)
\* An exception with the only traceback before it in the order of the candidates.
OnlyTraceback(lg, t, e) ==
    /\ t \in All(lg) /\ t.kind = "traceback" /\ t.source = e.source
    /\ e \in All(lg) /\ e.kind = "traceback_exception"
    /\ \A c \in All(lg) : c.kind = "traceback" => c = t

\* Nothing or the block of the traceback is taken, and the exception has room behind it.
Leaves(s, e, max) ==
    /\ s.stopped = FALSE /\ e.content \notin s.seen
    /\ \/ Len(s.blocks) = 0
       \/ /\ Len(s.blocks) = 1
          /\ Rendered(s.blocks[1].content) + Rendered(e.content) + 1 <= max

\* From blocks to more: one block more, with all that c has.
TakesWhole(blocks, more, c) ==
    \E p : /\ more = Append(blocks, p) /\ p \in Block
          /\ p.source = c.source /\ p.start = c.start /\ p.content = c.content

\* The exception comes right after the traceback.
LEMMA TracebackFirst ==
    ASSUME NEW lg \in Logs, NEW t, NEW e, OnlyTraceback(lg, t, e)
    PROVE  LET seq == Sorted(All(lg))
           IN  Len(seq) >= 2 /\ seq[1] = t /\ seq[2] = e
  <1> DEFINE all == All(lg)
             seq == Sorted(all)
             N == Len(seq)
  <1>1. /\ t \in all /\ t.kind = "traceback" /\ t.source = e.source
        /\ e \in all /\ e.kind = "traceback_exception" /\ t # e
        /\ \A c \in all : c.kind = "traceback" => c = t
    BY DEF OnlyTraceback
  <1>2. /\ N \in Nat /\ \A i \in 1..N : seq[i] \in all
        /\ \A c \in all : \E i \in 1..N : seq[i] = c
        /\ \A i, j \in 1..N : i < j => Precedes(seq[i], seq[j])
    <2>1. N = Cardinality(all) /\ N \in Nat /\ seq \in Seq(all)
      BY SortedIs
    <2>2. \A i \in 1..N : seq[i] \in all
      <3> HIDE DEF seq
      <3> QED
        BY <2>1
    <2> QED
      BY <2>1, <2>2, SortedIs
  <1>3. \A c \in all : c.kind \in Kinds /\ c.source \in Sources
    BY AllAre DEF Part
  <1>4. /\ \A c \in all : Rank(c) \in 1..6
        /\ \A c \in all : Rank(c) = 1 <=> c.kind = "traceback"
        /\ \A c \in all : Rank(c) = 2 <=> c.kind = "traceback_exception"
    BY <1>3, RankIs
  <1>5. \A c \in all : ~Precedes(c, c)
    BY PrecedesIsOrder
  <1>6. \A c \in all : c.kind = "traceback_exception" => c = e
    <2> SUFFICES ASSUME NEW c \in all, c.kind = "traceback_exception" PROVE c = e
      OBVIOUS
    <2>1. PICK d \in all : d.kind = "traceback" /\ d.source = c.source
      BY AllAre
    <2>2. c.source = e.source
      BY <1>1, <2>1
    <2> QED
      BY <1>1, <2>2, AllAre
  <1> HIDE DEF all, seq, N
  <1>7. \A c \in all : Precedes(c, t) => FALSE
    <2> SUFFICES ASSUME NEW c \in all, Precedes(c, t) PROVE FALSE
      OBVIOUS
    <2>1. Rank(c) <= Rank(t)
      BY <1>1, <1>4 DEF Precedes
    <2>2. Rank(c) = 1
      BY <1>1, <1>4, <2>1
    <2> QED
      BY <1>1, <1>4, <1>5, <2>2
  <1>8. \A c \in all : Precedes(c, e) => c = t
    <2> SUFFICES ASSUME NEW c \in all, Precedes(c, e) PROVE c = t
      OBVIOUS
    <2>1. Rank(c) <= Rank(e)
      BY <1>1, <1>4 DEF Precedes
    <2>2. Rank(c) = 1 \/ Rank(c) = 2
      BY <1>1, <1>4, <2>1
    <2>3. Rank(c) # 2
      BY <1>4, <1>5, <1>6
    <2> QED
      BY <1>1, <1>4, <2>2, <2>3
  <1>9. PICK i \in 1..N : seq[i] = t
    BY <1>1, <1>2
  <1>10. PICK j \in 1..N : seq[j] = e
    BY <1>1, <1>2
  <1>11. i = 1
    <2> SUFFICES ASSUME i # 1 PROVE FALSE
      OBVIOUS
    <2>1. 1 \in 1..N /\ 1 < i
      BY <1>2, <1>9
    <2> QED
      BY <1>2, <1>7, <1>9, <2>1
  <1>12. j = 2
    <2> SUFFICES ASSUME j # 2 PROVE FALSE
      OBVIOUS
    <2>1. j # 1
      BY <1>1, <1>9, <1>10, <1>11
    <2>2. 1 \in 1..N /\ 2 \in 1..N /\ 2 < j /\ 1 < 2
      BY <1>2, <1>10, <2>1
    <2>3. seq[2] = t
      BY <1>2, <1>8, <1>10, <2>2
    <2> QED
      BY <1>2, <1>7, <2>2, <2>3
  <1> QED
    BY <1>2, <1>9, <1>10, <1>11, <1>12 DEF all, seq, N

\* The traceback leaves room for its exception.
LEMMA TracebackTaken ==
    ASSUME NEW lg \in Logs, NEW max \in Nat \ {0}, NEW t, NEW e, OnlyTraceback(lg, t, e),
           Rendered(e.content) <= max
    PROVE  Leaves(Chosen(All(lg), max, SelectStart, t), e, max)
  <1> DEFINE all == All(lg)
             s0 == SelectStart
             s == Chosen(all, max, s0, t)
             b == Taken(all, max, s0, t)
             available == Offered(all, max, s0, t)
  <1>1. /\ t \in all /\ t.kind = "traceback" /\ t.source = e.source
        /\ e \in all /\ e.kind = "traceback_exception"
    BY DEF OnlyTraceback
  <1>2. /\ Part(t, lg) /\ Part(e, lg) /\ Traced(t) /\ Exceptional(e)
    BY <1>1, AllAre
  <1>3. /\ t.content \in Seq(STRING) /\ e.content \in Seq(STRING) /\ t.content # e.content
    BY <1>2 DEF Part, Traced, Exceptional
  <1>4. s0.stopped = FALSE /\ s0.seen = {} /\ s0.blocks = <<>> /\ s0.stopped \in BOOLEAN
    BY DEF SelectStart
  <1>5. s = IF Skips(s0, t) THEN s0
            ELSE IF NoRoom(all, max, s0, t) THEN Stopped(s0, t) ELSE With(s0, t, b)
    BY <1>4, ChosenIs
  <1> HIDE DEF s
  <1>6. ~Skips(s0, t)
    BY <1>4 DEF Skips
  <1>7. CASE NoRoom(all, max, s0, t)
    <2>1. s = Stopped(s0, t)
      BY <1>5, <1>6, <1>7
    <2>2. s.stopped = FALSE /\ s.seen = {} /\ s.blocks = <<>>
      BY <1>1, <2>1 DEF Stopped, SelectStart
    <2>3. Len(s.blocks) = 0
      BY <2>2
    <2> QED
      BY <2>2, <2>3 DEF s, Leaves
  <1>8. CASE ~NoRoom(all, max, s0, t)
    <2>1. s = With(s0, t, b)
      BY <1>5, <1>6, <1>8
    <2>2. available = max - (Rendered(e.content) + 1) /\ available \in Int
      <3>1. Reserved(t, all, s0.seen) = Rendered(e.content) + 1
        BY <1>1, <1>4, ReservedIs
      <3>2. Rendered(e.content) \in Nat
        BY <1>3, RenderedIs
      <3> QED
        BY <3>1, <3>2 DEF Offered
    <2>3. PICK n \in 0..Len(t.content) :
            /\ b = Cut(t, n)
            /\ n = 0 \/ Joined(Append(<<>>, Cut(t, n))) <= available
      <3> HIDE DEF available
      <3>1. b = Fitted(t, <<>>, available)
        BY <1>4 DEF Taken, available
      <3>2. <<>> \in Seq(Block)
        OBVIOUS
      <3> HIDE DEF b
      <3> QED
        BY <1>2, <2>2, <3>1, <3>2, FittedIs
    <2>4. Part(b, lg) /\ Len(b.content) = n
      BY <1>2, <2>3, CutIs
    <2>5. b \in Block /\ b.content \in Seq(STRING)
      BY <2>4 DEF Part, Block
    <2>6. n # 0
      <3>1. b.content # <<>>
        BY <1>8 DEF NoRoom
      <3> QED
        BY <2>4, <2>5, <3>1
    <2> DEFINE blocks == Append(<<>>, b)
    <2>7. blocks \in Seq(Block) /\ Len(blocks) = 1 /\ blocks[1] = b
      BY <2>5
    <2>8. Joined(blocks) = Rendered(b.content) /\ Joined(blocks) <= available
      <3>1. \A d \in Block : d.content \in Seq(STRING)
        BY DEF Block
      <3>2. Joined(blocks) <= available
        BY <2>3, <2>6
      <3> HIDE DEF blocks
      <3>3. Joined(blocks) = Rendered(blocks[1].content)
        BY <2>7, <3>1, JoinedIs
      <3> QED
        BY <2>7, <3>2, <3>3
    <2> HIDE DEF blocks, b
    <2>9. s.stopped = FALSE /\ s.seen = {t.content} /\ s.blocks = blocks
      BY <1>4, <2>1 DEF With, SelectStart, blocks
    <2>10. Rendered(b.content) + Rendered(e.content) + 1 <= max
      <3>1. Rendered(b.content) \in Nat /\ Rendered(e.content) \in Nat
        BY <1>3, <2>5, RenderedIs
      <3> QED
        BY <2>2, <2>8, <3>1
    <2> QED
      BY <1>3, <2>7, <2>9, <2>10 DEF s, Leaves
  <1> QED
    BY <1>7, <1>8

\* What comes next is the exception, and it is taken whole.
LEMMA ExceptionTaken ==
    ASSUME NEW lg \in Logs, NEW max \in Nat \ {0}, NEW e \in All(lg),
           e.kind = "traceback_exception", Rendered(e.content) <= max,
           NEW s, Selection(s, lg, max), Leaves(s, e, max)
    PROVE  TakesWhole(s.blocks, Chosen(All(lg), max, s, e).blocks, e)
  <1> DEFINE all == All(lg)
             b == Taken(all, max, s, e)
             L == Len(e.content)
             whole == Cut(e, L)
             blocks == Append(s.blocks, whole)
  <1>0. /\ s.stopped = FALSE /\ e.content \notin s.seen
        /\ \/ Len(s.blocks) = 0
           \/ /\ Len(s.blocks) = 1
              /\ Rendered(s.blocks[1].content) + Rendered(e.content) + 1 <= max
    BY DEF Leaves
  <1>1. /\ Part(e, lg) /\ Exceptional(e) /\ e.content \in Seq(STRING) /\ L \in Nat
    BY AllAre DEF Part
  <1>2. /\ s \in [blocks : Seq(Block), seen : SUBSET Seq(STRING), stopped : BOOLEAN]
        /\ s.blocks \in Seq(Block)
    BY DEF Selection
  <1>3. L # 0
    BY <1>1 DEF Exceptional, Contains
  <1>4. /\ Part(whole, lg) /\ whole.source = e.source
        /\ whole.content = e.content /\ whole.start = e.start
    <2>1. L \in 0..Len(e.content)
      BY <1>1
    <2> HIDE DEF L
    <2> QED
      BY <1>1, <2>1, CutIs DEF L
  <1>5. whole \in Block
    BY <1>4 DEF Part, Block
  <1> HIDE DEF whole
  <1>6. /\ blocks \in Seq(Block) /\ Len(blocks) = Len(s.blocks) + 1
        /\ blocks[Len(blocks)] = whole /\ (Len(s.blocks) = 1 => blocks[1] = s.blocks[1])
    BY <1>2, <1>5
  <1> HIDE DEF blocks
  <1>7. \A d \in Block : d.content \in Seq(STRING)
    BY DEF Block
  <1>8. Rendered(e.content) \in Nat /\ Len(s.blocks) \in Nat
        /\ (Len(s.blocks) = 1 => Rendered(s.blocks[1].content) \in Nat)
    <2>1. Len(s.blocks) = 1 => s.blocks[1] \in Block
      BY <1>2
    <2> QED
      BY <1>1, <1>2, <1>7, <2>1, RenderedIs
  <1>9. Joined(blocks) <= max
    <2>1. CASE Len(s.blocks) = 0
      <3>1. Len(blocks) = 1 /\ blocks[1] = whole
        BY <1>6, <2>1
      <3>2. Joined(blocks) = Rendered(e.content)
        BY <1>4, <1>6, <1>7, <3>1, JoinedIs
      <3> QED
        BY <3>2
    <2>2. CASE Len(s.blocks) # 0
      <3>0. /\ Len(s.blocks) = 1
            /\ Rendered(s.blocks[1].content) + Rendered(e.content) + 1 <= max
        BY <1>0, <2>2
      <3>1. Len(blocks) = 2 /\ blocks[2] = whole /\ blocks[1] = s.blocks[1]
            /\ Rendered(s.blocks[1].content) + Rendered(e.content) + 1 <= max
        BY <1>6, <3>0
      <3>2. Joined(blocks) = Rendered(s.blocks[1].content) + Rendered(e.content) + 1
        BY <1>4, <1>6, <1>7, <3>1, JoinedIs
      <3> QED
        BY <3>1, <3>2
    <2> QED
      BY <2>1, <2>2
  <1>10. Joined(s.blocks) < max
    <2>1. CASE Len(s.blocks) = 0
      BY <1>2, <1>7, <2>1, JoinedIs
    <2>2. CASE Len(s.blocks) # 0
      <3>1. Len(s.blocks) = 1
            /\ Rendered(s.blocks[1].content) + Rendered(e.content) + 1 <= max
        BY <1>0, <2>2
      <3>2. Joined(s.blocks) = Rendered(s.blocks[1].content)
        BY <1>2, <1>7, <3>1, JoinedIs
      <3> QED
        BY <1>8, <3>1, <3>2
    <2> QED
      BY <2>1, <2>2
  <1>11. Offered(all, max, s, e) = max
    <2>1. Reserved(e, all, s.seen) = 0
      BY ReservedIs
    <2> QED
      BY <2>1 DEF Offered
  <1>12. b = whole
    <2>1. b = Fitted(e, s.blocks, max) /\ max \in Int
      BY <1>11 DEF Taken
    <2> HIDE DEF b
    <2>2. PICK n \in 0..L :
            /\ b = Cut(e, n)
            /\ Joined(Append(s.blocks, Cut(e, L))) <= max => n = L
      BY <1>1, <1>2, <2>1, FittedIs
    <2>3. n = L
      BY <1>9, <2>2 DEF blocks, whole
    <2> QED
      BY <2>2, <2>3 DEF whole
  <1> HIDE DEF b
  <1>13. ~Skips(s, e) /\ ~NoRoom(all, max, s, e)
    <2>1. whole.content # <<>>
      BY <1>1, <1>3, <1>4
    <2>2. Joined(s.blocks) \in Nat
      BY <1>2, <1>7, JoinedIs
    <2> QED
      BY <1>0, <1>10, <1>11, <1>12, <2>1, <2>2 DEF Skips, NoRoom, b
  <1>14. Chosen(all, max, s, e) = With(s, e, whole)
    <2>1. Chosen(all, max, s, e) =
            IF Skips(s, e) THEN s
            ELSE IF NoRoom(all, max, s, e) THEN Stopped(s, e) ELSE With(s, e, b)
      BY <1>2, ChosenIs DEF b
    <2> QED
      BY <1>12, <1>13, <2>1
  <1>15. With(s, e, whole).blocks = blocks
    BY <1>2 DEF With, blocks
  <1>16. Chosen(all, max, s, e).blocks = Append(s.blocks, whole)
    BY <1>14, <1>15 DEF blocks
  <1> HIDE DEF all
  <1>17. TakesWhole(s.blocks, Chosen(all, max, s, e).blocks, e)
    BY <1>4, <1>5, <1>16 DEF TakesWhole
  <1> QED
    BY <1>17 DEF all

\* The exception of the only traceback is in the evidence if there is room for it.
LEMMA ExceptionSelected ==
    ASSUME NEW lg \in Logs, NEW max \in Nat \ {0}, NEW e \in All(lg),
           e.kind = "traceback_exception", Rendered(e.content) <= max,
           \A c \in All(lg) : c.kind = "traceback" => c.source = e.source
    PROVE  \E p \in ToSet(SelectEvidence(lg, max)) :
                p.source = e.source /\ p.start = e.start /\ p.content = e.content
  <1> DEFINE all == All(lg)
             seq == Sorted(all)
  <1>1. PICK t \in all : t.kind = "traceback" /\ t.source = e.source
    BY AllAre
  <1>2. OnlyTraceback(lg, t, e)
    BY <1>1, AllAre DEF OnlyTraceback
  <1>3. Len(seq) >= 2 /\ seq[1] = t /\ seq[2] = e
    BY <1>2, TracebackFirst
  <1>4. max \in Nat
    OBVIOUS
  <1>5. PICK g : Selecting(lg, max, g)
    BY <1>4, SelectionHolds
  <1>6. Len(seq) \in Nat
    BY SortedIs
  <1>7. g[0] = SelectStart /\ \A k \in 0..(Len(seq) - 1) :
                                    g[k + 1] = Chosen(all, max, g[k], seq[k + 1])
    BY <1>5 DEF Selecting, Fold, Step
  <1>8. g[1] = Chosen(all, max, SelectStart, t) /\ g[2] = Chosen(all, max, g[1], e)
    <2>1. 0 \in 0..(Len(seq) - 1) /\ 1 \in 0..(Len(seq) - 1) /\ 0 + 1 = 1 /\ 1 + 1 = 2
      BY <1>3, <1>6
    <2> HIDE DEF seq, all
    <2> QED
      BY <1>3, <1>7, <2>1
  <1>9. Selection(g[1], lg, max) /\ Selection(g[2], lg, max)
    <2>1. 1 \in 0..Len(seq) /\ 2 \in 0..Len(seq)
      BY <1>3, <1>6
    <2> QED
      BY <1>5, <2>1 DEF Selecting
  <1> DEFINE s == g[1]
  <1>10. Leaves(s, e, max)
    <2>1. Leaves(Chosen(All(lg), max, SelectStart, t), e, max)
      BY <1>2, TracebackTaken
    <2> QED
      BY <1>8, <2>1
  <1>11. PICK p : /\ g[2].blocks = Append(s.blocks, p)
                  /\ p \in Block /\ p.source = e.source /\ p.start = e.start
                  /\ p.content = e.content
    <2>1. Selection(s, lg, max) /\ g[2] = Chosen(All(lg), max, s, e)
      BY <1>8, <1>9
    <2> HIDE DEF s
    <2>2. TakesWhole(s.blocks, Chosen(All(lg), max, s, e).blocks, e)
      BY <1>10, <2>1, ExceptionTaken
    <2> QED
      BY <2>1, <2>2 DEF TakesWhole
  <1> DEFINE blocks == SelectEvidence(lg, max)
             i == Len(s.blocks) + 1
  <1>12. s.blocks \in Seq(Block)
    BY <1>9 DEF Selection
  <1>13. i \in 1..Len(g[2].blocks) /\ g[2].blocks[i] = p
    BY <1>11, <1>12
  <1>14. Begins(g[2].blocks, blocks)
    <2>1. 2 \in Nat /\ 2 <= Len(seq)
      BY <1>3, <1>6
    <2> QED
      BY <1>4, <1>5, <2>1, SelectionGrows
  <1> HIDE DEF i, blocks
  <1>15. i \in 1..Len(blocks) /\ blocks[i] = p
    BY <1>13, <1>14 DEF Begins
  <1>16. blocks \in Seq(Block)
    BY <1>4, EvidenceIs DEF blocks
  <1>17. p \in ToSet(blocks)
    BY <1>15, <1>16 DEF ToSet
  <1> QED
    BY <1>11, <1>17 DEF blocks

(***************************************************************************)
(* The prompt                                                              *)
(***************************************************************************)
\* The last n bytes of a log, or all of it, as they are.
LEMMA EndingIs ==
    ASSUME NEW log \in Seq(Seq(STRING)), NEW source, NEW n \in Nat
    PROVE  LET p == Ending(source, log, n)
               L == Len(Bytes(log))
           IN  /\ p.source = source /\ p.start \in Nat /\ p.content \in Seq(STRING)
               /\ Len(p.content) = IF n <= L THEN n ELSE L
               /\ Shows(p, Bytes(log))
  <1> DEFINE bytes == Bytes(log)
             L == Len(bytes)
             from == Tail0(bytes, n)
             p == Ending(source, log, n)
  <1>1. bytes \in Seq(STRING) /\ L \in Nat
    BY FlattenType DEF Bytes
  <1>2. from = IF 0 >= L - n THEN 0 ELSE L - n
    <2>1. 0 \in Int /\ L - n \in Int /\ from = Max({0, L - n})
      BY <1>1 DEF Tail0
    <2> HIDE DEF from, L
    <2> QED
      BY <2>1, MinMaxOfTwo
  <1>3. p.source = source /\ p.start = from /\ p.content = Slice(bytes, from, L)
    BY DEF Ending, Piece
  <1> HIDE DEF from, bytes, p
  <1>4. from \in Nat /\ from <= L
    BY <1>1, <1>2
  <1>5. /\ p.content \in Seq(STRING) /\ Len(p.content) = L - from
        /\ \A k \in 1..(L - from) : p.content[k] = bytes[from + k]
    <2> DEFINE text == Slice(bytes, from, L)
    <2>1. /\ text \in Seq(STRING)
          /\ Len(text) = IF from <= L THEN L - from ELSE 0
          /\ \A k \in 1..(L - from) : text[k] = bytes[from + k]
      BY <1>1, <1>4 DEF Slice
    <2>2. p.content = text
      BY <1>3
    <2> HIDE DEF text
    <2> QED
      BY <1>1, <1>4, <2>1, <2>2
  <1>6. Shows(p, bytes)
    <2>1. p.start = from
      BY <1>3
    <2> HIDE DEF L
    <2>2. \A j \in 1..Len(p.content) : p.content[j] = bytes[p.start + j]
      BY <1>5, <2>1
    <2>3. p.start + Len(p.content) <= L
      BY <1>1, <1>4, <1>5, <2>1
    <2> QED
      BY <2>2, <2>3 DEF Shows, L
  <1>7. Len(p.content) = IF n <= L THEN n ELSE L
    <2>1. Len(p.content) = L - from
      BY <1>5
    <2> HIDE DEF L
    <2> QED
      BY <1>1, <1>2, <2>1
  <1> QED
    BY <1>3, <1>4, <1>5, <1>6, <1>7 DEF p, bytes

\* A block of a stream of the smoke test, if the budget is more than its header.
Tailing(source, log, budget) ==
    LET n == Min({Len(Bytes(log)), budget - Header})
    IN  IF n > 0 THEN <<Ending(source, log, n)>> ELSE <<>>

\* A piece of the end of a stream.
Ended == [source : Sources, start : Nat, content : Seq(STRING)]

\* A block of a stream of a smoke test shows its end and keeps to the budget if it is UTF-8.
LEMMA TailingIs ==
    ASSUME NEW lg \in Logs, NEW source \in Sources, NEW budget \in Int
    PROVE  LET t == Tailing(source, lg[source], budget)
           IN  \/ t = <<>>
               \/ \E p : /\ t = <<p>> /\ p.source = source
                         /\ p.start \in Nat /\ p.content \in Seq(STRING)
                         /\ Shows(p, Bytes(lg[source]))
                         /\ ~Contains(p.content, "?") => Rendered(p.content) <= budget
  <1> DEFINE log == lg[source]
             L == Len(Bytes(log))
             n == Min({L, budget - Header})
             p == Ending(source, log, n)
  <1>1. log \in Seq(Seq(STRING))
    BY DEF Logs
  <1> HIDE DEF log
  <1>2. L \in Nat /\ Header \in Nat
    BY <1>1, FlattenType, EvidenceAssumption DEF Bytes
  <1>3. n = IF L <= budget - Header THEN L ELSE budget - Header
    <2>1. L \in Int /\ budget - Header \in Int
      BY <1>2
    <2> HIDE DEF L
    <2> QED
      BY <2>1, MinMaxOfTwo
  <1>4. Tailing(source, log, budget) = IF n > 0 THEN <<p>> ELSE <<>>
    BY DEF Tailing
  <1> HIDE DEF n
  <1>5. CASE n > 0
    <2>1. n \in Nat
      BY <1>2, <1>3, <1>5
    <2>2. /\ p.source = source /\ p.start \in Nat /\ p.content \in Seq(STRING)
          /\ Len(p.content) = IF n <= L THEN n ELSE L
          /\ Shows(p, Bytes(log))
      BY <1>1, <2>1, EndingIs
    <2> HIDE DEF p, L
    <2>3. ~Contains(p.content, "?") => Rendered(p.content) = Header + Len(p.content)
      BY <2>2, RenderedIs
    <2>4. Len(p.content) <= n /\ n <= budget - Header /\ Len(p.content) \in Nat
      BY <1>2, <1>3, <2>1, <2>2
    <2>5. ~Contains(p.content, "?") => Rendered(p.content) <= budget
      BY <1>2, <2>1, <2>3, <2>4
    <2> QED
      BY <1>4, <1>5, <2>2, <2>5 DEF log
  <1>6. CASE ~(n > 0)
    BY <1>4, <1>6 DEF log
  <1> QED
    BY <1>5, <1>6

\* The evidence of a smoke test: what its logs hold, and within the budget.
LEMMA SmokeIs ==
    ASSUME NEW lg \in Logs, NEW max \in Nat
    PROVE  LET tail == SmokeBlocks(lg, max)
           IN  /\ \A p \in ToSet(tail) :
                    /\ p.source \in Sources /\ p.start \in Nat /\ p.content \in Seq(STRING)
                    /\ Shows(p, Bytes(lg[p.source]))
               /\ (\A p \in ToSet(tail) : ~Contains(p.content, "?")) => Joined(tail) <= max
  <1> DEFINE tail == SmokeBlocks(lg, max)
             first == Tailing("stderr", lg["stderr"], max)
             left == IF first = <<>> THEN max ELSE max - Rendered(first[1].content) - 1
             second == Tailing("stdout", lg["stdout"], left)
             Good(p) == /\ p.source \in Sources /\ p.start \in Nat /\ p.content \in Seq(STRING)
                        /\ Shows(p, Bytes(lg[p.source]))
             Plain(p) == ~Contains(p.content, "?")
             B == {b \in ToSet(tail) : Good(b)}
  <1>1. tail = first \o second
    BY DEF SmokeBlocks, Tailing
  <1>2. \/ first = <<>>
        \/ \E p : first = <<p>> /\ Good(p) /\ (Plain(p) => Rendered(p.content) <= max)
    <2>1. "stderr" \in Sources /\ max \in Int
      BY DEF Sources
    <2>2. \/ first = <<>>
          \/ \E p : /\ first = <<p>> /\ p.source = "stderr"
                    /\ p.start \in Nat /\ p.content \in Seq(STRING)
                    /\ Shows(p, Bytes(lg["stderr"]))
                    /\ ~Contains(p.content, "?") => Rendered(p.content) <= max
      BY <2>1, TailingIs
    <2> HIDE DEF first
    <2> QED
      BY <2>1, <2>2
  <1> HIDE DEF first
  <1>3. left \in Int
    <2>1. CASE first = <<>>
      BY <2>1
    <2>2. CASE first # <<>>
      <3>1. PICK p : first = <<p>> /\ Good(p)
        BY <1>2, <2>2
      <3>2. Rendered(p.content) \in Nat
        BY <3>1, RenderedIs
      <3> QED
        BY <2>2, <3>1, <3>2
    <2> QED
      BY <2>1, <2>2
  <1>4. \/ second = <<>>
        \/ \E p : second = <<p>> /\ Good(p) /\ (Plain(p) => Rendered(p.content) <= left)
    <2> HIDE DEF left
    <2>1. "stdout" \in Sources
      BY DEF Sources
    <2>2. \/ second = <<>>
          \/ \E p : /\ second = <<p>> /\ p.source = "stdout"
                    /\ p.start \in Nat /\ p.content \in Seq(STRING)
                    /\ Shows(p, Bytes(lg["stdout"]))
                    /\ ~Contains(p.content, "?") => Rendered(p.content) <= left
      BY <1>3, <2>1, TailingIs
    <2> HIDE DEF second
    <2> QED
      BY <2>1, <2>2
  <1> HIDE DEF second, tail
  <1>5. \A b \in B : b.content \in Seq(STRING)
    OBVIOUS
  <1>6. CASE first = <<>> /\ second = <<>>
    <2>1. tail = <<>> /\ ToSet(tail) = {}
      BY <1>1, <1>6 DEF ToSet
    <2>2. tail \in Seq(B) /\ Len(tail) = 0
      BY <2>1
    <2> HIDE DEF B
    <2>3. Joined(tail) = 0
      BY <1>5, <2>2, JoinedIs
    <2> QED
      BY <2>1, <2>3 DEF tail
  <1>7. ASSUME NEW p, Good(p), tail = <<p>>, Plain(p) => Rendered(p.content) <= max
        PROVE  /\ \A q \in ToSet(tail) : Good(q)
               /\ (\A q \in ToSet(tail) : Plain(q)) => Joined(tail) <= max
    <2>1. ToSet(tail) = {p}
      BY <1>7 DEF ToSet
    <2>2. p \in B
      BY <1>7, <2>1
    <2> HIDE DEF B
    <2>3. tail \in Seq(B) /\ Len(tail) = 1 /\ tail[1] = p
      BY <1>7, <2>2
    <2>4. Joined(tail) = Rendered(p.content)
      BY <1>5, <2>3, JoinedIs
    <2> QED
      BY <1>7, <2>1, <2>4
  <1>8. CASE first = <<>> /\ second # <<>>
    <2>1. PICK p : second = <<p>> /\ Good(p) /\ (Plain(p) => Rendered(p.content) <= left)
      BY <1>4, <1>8
    <2>2. tail = <<p>> /\ left = max
      BY <1>1, <1>8, <2>1
    <2> HIDE DEF Good, Plain, left
    <2>3. /\ \A q \in ToSet(tail) : Good(q)
          /\ (\A q \in ToSet(tail) : Plain(q)) => Joined(tail) <= max
      BY <1>7, <2>1, <2>2
    <2> QED
      BY <2>3 DEF tail, Good, Plain
  <1>9. CASE first # <<>> /\ second = <<>>
    <2>1. PICK p : first = <<p>> /\ Good(p) /\ (Plain(p) => Rendered(p.content) <= max)
      BY <1>2, <1>9
    <2>2. tail = <<p>>
      BY <1>1, <1>9, <2>1
    <2> HIDE DEF Good, Plain, left
    <2>3. /\ \A q \in ToSet(tail) : Good(q)
          /\ (\A q \in ToSet(tail) : Plain(q)) => Joined(tail) <= max
      BY <1>7, <2>1, <2>2
    <2> QED
      BY <2>3 DEF tail, Good, Plain
  <1>10. CASE first # <<>> /\ second # <<>>
    <2>1. PICK p : first = <<p>> /\ Good(p)
      BY <1>2, <1>10
    <2>2. PICK q : second = <<q>> /\ Good(q) /\ (Plain(q) => Rendered(q.content) <= left)
      BY <1>4, <1>10
    <2>3. left = max - Rendered(p.content) - 1
      BY <1>10, <2>1
    <2> DEFINE X == {p, q}
    <2>4. tail \in Seq(X) /\ Len(tail) = 2 /\ tail[1] = p /\ tail[2] = q
      <3>1. <<p>> \in Seq(X) /\ <<q>> \in Seq(X)
        OBVIOUS
      <3> HIDE DEF X
      <3>2. LET t == <<p>> \o <<q>> IN t \in Seq(X) /\ Len(t) = 2 /\ t[1] = p /\ t[2] = q
        BY <3>1
      <3> QED
        BY <1>1, <2>1, <2>2, <3>2
    <2>5. ToSet(tail) = X
      <3>1. DOMAIN tail = {1, 2}
        BY <2>4
      <3> QED
        BY <2>4, <3>1 DEF ToSet
    <2>6. p \in B /\ q \in B
      BY <2>1, <2>2, <2>5
    <2>7. Rendered(p.content) \in Nat /\ Rendered(q.content) \in Nat
      BY <2>1, <2>2, RenderedIs
    <2> HIDE DEF B
    <2>8. tail \in Seq(B)
      BY <2>4, <2>6
    <2>9. Joined(tail) = Rendered(p.content) + Rendered(q.content) + 1
      BY <1>5, <2>4, <2>8, JoinedIs
    <2> HIDE DEF Good, Plain, left
    <2>10. /\ \A b \in ToSet(tail) : Good(b)
           /\ (\A b \in ToSet(tail) : Plain(b)) => Joined(tail) <= max
      BY <2>1, <2>2, <2>3, <2>5, <2>7, <2>9
    <2> QED
      BY <2>10 DEF tail, Good, Plain
  <1> QED
    BY <1>6, <1>8, <1>9, <1>10

\* The logs are never written.
WorldType == logs \in Logs /\ smoke \in Logs

\* The logs of an investigation are logs.
LEMMA WorldIsTyped == Init => WorldType
  <1> SUFFICES ASSUME Init PROVE WorldType
    OBVIOUS
  <1>1. PICK w \in World : logs = w.logs /\ smoke = w.smoke
    BY DEF Init
  <1>2. {w.logs, w.smoke} \subseteq [Sources -> Seq(Seq(STRING))]
    BY ToolsAssumption DEF Sources
  <1> QED
    BY <1>1, <1>2 DEF WorldType, Logs

\* What ExceptionIsKept says is true of all logs.
LEMMA KeptOfLogs == WorldType => ExceptionIsKept
  <1> SUFFICES ASSUME logs \in Logs, smoke \in Logs PROVE ExceptionIsKept
    BY DEF WorldType
  <1> DEFINE blocks == SelectEvidence(logs, EvidenceBytes)
             all == UNION {Candidates(s, logs[s]) : s \in Sources}
             tail == SmokeBlocks(smoke, SmokeBytes)
  <1>1. EvidenceBytes \in Nat \ {0} /\ SmokeBytes \in Nat
    BY ToolsAssumption
  <1>2. all = All(logs)
    BY DEF All, Logs
  <1>3. Joined(blocks) <= EvidenceBytes
    BY <1>1, EvidenceIs
  <1>4. (\A p \in ToSet(tail) : ~Contains(p.content, "?")) => Joined(tail) <= SmokeBytes
    BY <1>1, SmokeIs
  <1>5. ASSUME NEW e \in all, e.kind = "traceback_exception",
               Rendered(e.content) <= EvidenceBytes,
               \A c \in all : c.kind = "traceback" => c.source = e.source
        PROVE  \E p \in ToSet(blocks) :
                    p.source = e.source /\ p.start <= e.start
                        /\ e.start + Len(e.content) <= p.start + Len(p.content)
    <2>1. e \in All(logs) /\ \A c \in All(logs) : c.kind = "traceback" => c.source = e.source
      BY <1>2, <1>5
    <2> HIDE DEF all
    <2>2. PICK p \in ToSet(blocks) :
                p.source = e.source /\ p.start = e.start /\ p.content = e.content
      BY <1>1, <1>5, <2>1, ExceptionSelected
    <2>3. e.start \in Nat /\ Len(e.content) \in Nat
      BY <2>1, AllAre DEF Part
    <2> HIDE DEF blocks
    <2> QED
      BY <2>2, <2>3
  <1> HIDE DEF blocks, all, tail
  <1>6. ExceptionIsKept <=>
        /\ Joined(blocks) <= EvidenceBytes
        /\ (\A p \in ToSet(tail) : ~Contains(p.content, "?")) => Joined(tail) <= SmokeBytes
        /\ \A e \in all :
            /\ e.kind = "traceback_exception"
            /\ Rendered(e.content) <= EvidenceBytes
            /\ \A c \in all : c.kind = "traceback" => c.source = e.source
            => \E p \in ToSet(blocks) :
                p.source = e.source /\ p.start <= e.start
                    /\ e.start + Len(e.content) <= p.start + Len(p.content)
    BY DEF ExceptionIsKept, blocks, all, tail
  <1> QED
    BY <1>3, <1>4, <1>5, <1>6

\* The evidence keeps to its budget and the last exception of the only traceback is in it,
\* whole, if it has room at all; a smoke test in UTF-8 keeps to its budget
\* (LogEvidenceSelector, select_smoke_evidence).
THEOREM ExceptionStays == Spec => []ExceptionIsKept
  <1>1. Init => WorldType
    BY WorldIsTyped
  <1>2. WorldType /\ [Next]_vars => WorldType'
    BY WorldStays DEF WorldType, Logs, Sources
  <1>3. WorldType => ExceptionIsKept
    BY KeptOfLogs
  <1> QED
    BY <1>1, <1>2, <1>3, PTL DEF Spec

(***************************************************************************)
(* Lines                                                                   *)
(***************************************************************************)
\* The characters of a text: the provers do not know that a literal is in STRING.
Chars == STRING \cup {"u", "\n", "file", "refused", "absent"}

\* Where the lines of a text end.
Ends(text, ends) == {i \in DOMAIN text : text[i] \in ends \/ i = Len(text)}

\* 0, and where the m lines end, in order.
Cuts(text, ends, m, b) ==
    /\ m \in Nat /\ b \in [0..m -> 0..Len(text)]
    /\ b[0] = 0 /\ b[m] = Len(text)
    /\ \A k, l \in 0..m : k < l => b[k] < b[l]
    /\ \A k \in 1..m : b[k] \in Ends(text, ends)
    /\ \A i \in Ends(text, ends) : \E k \in 1..m : b[k] = i

\* The lines are what is between the cuts.
Cutting(text, ends, lines, b) ==
    /\ Cuts(text, ends, Len(lines), b)
    /\ \A k \in 1..Len(lines) : lines[k] = SubSeq(text, b[k - 1] + 1, b[k])

\* Lines cuts a text where its lines end.
LEMMA LinesAre ==
    ASSUME NEW text \in Seq(Chars), NEW ends
    PROVE  /\ Lines(text, ends) \in Seq(Seq(Chars))
           /\ \E b : Cutting(text, ends, Lines(text, ends), b)
  <1> DEFINE n == Len(text)
             E == Ends(text, ends)
             a == Ascending(E)
             m == Cardinality(E)
             b == [k \in 0..m |-> IF k = 0 THEN 0 ELSE a[k]]
             lines == Lines(text, ends)
  <1>1. n \in Nat /\ DOMAIN text = 1..n
    OBVIOUS
  <1>2. E \in SUBSET (1..n) /\ (n > 0 => n \in E)
    BY <1>1 DEF Ends
  <1> HIDE DEF E
  <1>3. /\ DOMAIN a = 1..m /\ m \in Nat
        /\ \A k \in 1..m : a[k] \in E
        /\ \A k, l \in 1..m : k < l => a[k] < a[l]
        /\ \A i \in E : Count(E, i) \in 1..m /\ a[Count(E, i)] = i
    BY <1>1, <1>2, AscendingIs
  <1>4. lines = [k \in DOMAIN a |-> SubSeq(text, IF k = 1 THEN 1 ELSE a[k - 1] + 1, a[k])]
    BY DEF Lines, E, Ends
  <1> HIDE DEF a, m, lines
  <1>5. \A k \in 1..m : a[k] \in 1..n
    BY <1>2, <1>3
  <1>6. \A k \in 0..m : b[k] \in 0..n
    BY <1>1, <1>3, <1>5
  <1>7. b \in [0..m -> 0..n] /\ b[0] = 0 /\ \A k \in 1..m : b[k] = a[k]
    <2>1. b \in [0..m -> 0..n]
      BY <1>6
    <2> QED
      BY <1>3, <2>1
  <1> HIDE DEF b
  <1>8. ASSUME NEW k \in 0..m, NEW l \in 0..m, k < l PROVE b[k] < b[l]
    <2>1. l \in 1..m /\ b[l] = a[l] /\ a[l] \in 1..n
      BY <1>3, <1>5, <1>7, <1>8
    <2>2. CASE k = 0
      BY <1>7, <2>1, <2>2
    <2>3. CASE k # 0
      <3>1. k \in 1..m /\ b[k] = a[k]
        BY <1>3, <1>7, <2>3
      <3> QED
        BY <1>3, <1>8, <2>1, <3>1
    <2> QED
      BY <2>2, <2>3
  <1>9. b[m] = n
    <2>1. CASE m = 0
      <3>1. n = 0
        BY <1>1, <1>2, <1>3, <2>1
      <3> QED
        BY <1>7, <2>1, <3>1
    <2>2. CASE m # 0
      <3>1. m \in 1..m /\ b[m] = a[m] /\ a[m] \in 1..n
        BY <1>3, <1>5, <1>7, <2>2
      <3>2. n \in E
        BY <1>1, <1>2, <3>1
      <3>3. PICK j \in 1..m : a[j] = n
        BY <1>3, <3>2
      <3>4. j < m => a[j] < a[m]
        BY <1>3, <3>1
      <3> QED
        BY <1>1, <1>3, <3>1, <3>3, <3>4
    <2> QED
      BY <2>1, <2>2
  <1>10. \A i \in E : \E k \in 1..m : b[k] = i
    BY <1>3, <1>7
  <1>11. Cuts(text, ends, m, b)
    BY <1>3, <1>7, <1>8, <1>9, <1>10 DEF Cuts, E
  <1>12. ASSUME NEW k \in 1..m
         PROVE  lines[k] = SubSeq(text, b[k - 1] + 1, b[k]) /\ lines[k] \in Seq(Chars)
    <2>1. lines[k] = SubSeq(text, IF k = 1 THEN 1 ELSE a[k - 1] + 1, a[k])
      BY <1>3, <1>4
    <2>2. k - 1 \in 0..m /\ b[k - 1] \in 0..n /\ b[k] \in 0..n
      BY <1>3, <1>7
    <2>3. b[k - 1] + 1 = IF k = 1 THEN 1 ELSE a[k - 1] + 1
      BY <1>3, <1>7, <2>2
    <2>4. SubSeq(text, b[k - 1] + 1, b[k]) \in Seq(Chars)
      BY <1>1, <2>2
    <2> QED
      BY <1>7, <2>1, <2>3, <2>4
  <1>13. lines \in Seq(Seq(Chars)) /\ Len(lines) = m
    <2>1. DOMAIN lines = 1..m /\ lines = [k \in 1..m |-> lines[k]]
      BY <1>3, <1>4
    <2>2. lines \in [1..m -> Seq(Chars)]
      BY <1>12, <2>1
    <2> QED
      BY <1>3, <2>2
  <1>14. Cutting(text, ends, lines, b)
    BY <1>11, <1>12, <1>13 DEF Cutting
  <1> QED
    BY <1>13, <1>14 DEF lines

\* No line ends between two cuts that follow one another.
LEMMA NoEndBetween ==
    ASSUME NEW text, NEW ends, NEW m, NEW b, Cuts(text, ends, m, b), Len(text) \in Nat,
           NEW k \in 0..(m - 1), NEW i \in Ends(text, ends), b[k] < i, i \in Int
    PROVE  b[k + 1] <= i
  <1>1. /\ m \in Nat /\ \A l \in 0..m : b[l] \in 0..Len(text)
        /\ \A j, l \in 0..m : j < l => b[j] < b[l]
    BY DEF Cuts
  <1>2. PICK j \in 1..m : b[j] = i
    BY DEF Cuts
  <1>3. j \in 0..m /\ k \in 0..m /\ k + 1 \in 0..m
    BY <1>1
  <1>4. b[j] \in Int /\ b[k] \in Int /\ b[k + 1] \in Int
    BY <1>1, <1>3
  <1>5. ~(j < k) /\ j # k
    BY <1>1, <1>2, <1>3, <1>4
  <1>6. j = k + 1 \/ k + 1 < j
    BY <1>1, <1>3, <1>5
  <1> QED
    BY <1>1, <1>2, <1>3, <1>4, <1>6

(***************************************************************************)
(* The lines of a slice of a text                                          *)
(***************************************************************************)
\* A slice of a text, position by position.
LEMMA SubSeqIs ==
    ASSUME NEW text \in Seq(Chars), NEW p \in Nat, NEW r \in Nat, p <= r, r <= Len(text)
    PROVE  /\ SubSeq(text, p + 1, r) \in Seq(Chars)
           /\ Len(SubSeq(text, p + 1, r)) = r - p
           /\ \A i \in 1..(r - p) : SubSeq(text, p + 1, r)[i] = text[p + i]
OBVIOUS

\* What follows the first p characters, up to the r-th.
PartOf(part, text, p, r) ==
    /\ part \in Seq(Chars) /\ Len(part) = r - p
    /\ \A i \in 1..(r - p) : part[i] = text[p + i]

\* What is known of cuts: they begin at 0, end with the text and increase.
LEMMA CutsAre ==
    ASSUME NEW text \in Seq(Chars), NEW ends, NEW m, NEW b, Cuts(text, ends, m, b)
    PROVE  /\ m \in Nat /\ Len(text) \in Nat /\ b[0] = 0 /\ b[m] = Len(text)
           /\ \A l \in 0..m : b[l] \in 0..Len(text)
           /\ \A j, l \in 0..m : j < l => b[j] < b[l]
           /\ \A l \in 1..m : b[l] \in Ends(text, ends)
BY DEF Cuts

\* Where a line ends.
LEMMA EndsAre ==
    ASSUME NEW text \in Seq(Chars), NEW ends, NEW i
    PROVE  i \in Ends(text, ends) <=> i \in 1..Len(text) /\ (text[i] \in ends \/ i = Len(text))
BY DEF Ends

\* A cut of a slice is where a line of the text ends, unless the slice ends there.
Matching(b, q, c, n, m, k) ==
    /\ q + k <= m
    /\ c[k] <= b[q + k] - b[q]
    /\ k < n => c[k] = b[q + k] - b[q]

\* The next cut of a slice is the next one of the text, or the end of the slice.
LEMMA CutsMatch ==
    ASSUME NEW text \in Seq(Chars), NEW ends, NEW m, NEW b, Cuts(text, ends, m, b),
           NEW q \in 0..m, NEW r \in b[q]..Len(text), NEW part, NEW n, NEW c,
           PartOf(part, text, b[q], r), Cuts(part, ends, n, c),
           NEW k \in 0..(n - 1), Matching(b, q, c, n, m, k)
    PROVE  Matching(b, q, c, n, m, k + 1)
  <1> DEFINE L == Len(text)
             p == b[q]
             x == b[q + k]
             y == b[q + k + 1]
             u == c[k]
             v == c[k + 1]
  <1>1. /\ m \in Nat /\ L \in Nat /\ b[m] = L
        /\ \A l \in 0..m : b[l] \in 0..L
        /\ \A j, l \in 0..m : j < l => b[j] < b[l]
        /\ \A l \in 1..m : b[l] \in Ends(text, ends)
    BY CutsAre
  <1>2. p \in Nat /\ r \in Nat /\ p <= r /\ r <= L
    <2>1. b[q] \in 0..L
      BY <1>1
    <2> HIDE DEF L
    <2> QED
      BY <1>1, <2>1 DEF L
  <1>3. /\ part \in Seq(Chars) /\ Len(part) = r - p
        /\ \A i \in 1..(r - p) : part[i] = text[p + i]
    BY DEF PartOf
  <1>4. /\ n \in Nat /\ c[n] = r - p
        /\ \A l \in 0..n : c[l] \in 0..(r - p)
        /\ \A j, l \in 0..n : j < l => c[j] < c[l]
        /\ \A l \in 1..n : c[l] \in Ends(part, ends)
    <2>1. /\ n \in Nat /\ c[n] = Len(part)
          /\ \A l \in 0..n : c[l] \in 0..Len(part)
          /\ \A j, l \in 0..n : j < l => c[j] < c[l]
          /\ \A l \in 1..n : c[l] \in Ends(part, ends)
      BY <1>3, CutsAre
    <2> HIDE DEF p
    <2> QED
      BY <1>3, <2>1
  <1>5. /\ k \in 0..n /\ k + 1 \in 0..n /\ k + 1 \in 1..n /\ k < n /\ q \in Nat /\ k \in Nat
        /\ k < k + 1
    BY <1>1, <1>4
  <1>6. q + k <= m /\ u = x - p
    BY <1>5 DEF Matching
  <1>7. u \in 0..(r - p) /\ v \in 0..(r - p) /\ u < v /\ x \in 0..L /\ v \in Ends(part, ends)
    BY <1>1, <1>4, <1>5, <1>6
  <1>8. q + k = m => x = L
    BY <1>1
  <1>a. q + k + 1 <= m =>
            /\ q + k + 1 \in 1..m /\ q + k \in 0..(m - 1) /\ y \in 0..L /\ x < y
            /\ y \in Ends(text, ends)
    <2> SUFFICES ASSUME q + k + 1 <= m
                 PROVE  /\ q + k + 1 \in 1..m /\ q + k \in 0..(m - 1) /\ y \in 0..L /\ x < y
                        /\ y \in Ends(text, ends)
      OBVIOUS
    <2>1. q + k \in 0..m /\ q + k + 1 \in 0..m /\ q + k + 1 \in 1..m /\ q + k < q + k + 1
          /\ q + k \in 0..(m - 1)
      BY <1>1, <1>5
    <2> QED
      BY <1>1, <2>1
  <1>b. y = b[(q + k) + 1] /\ q + (k + 1) = q + k + 1
    BY <1>5
  <1>c. k + 1 < n => v < r - p
    BY <1>4, <1>5
  <1> DEFINE i == p + v
  <1> HIDE DEF L, p, u, v, x, y
  <1>9. i \in Nat /\ 1 <= i /\ i <= r /\ x < i /\ i <= L
    BY <1>1, <1>2, <1>6, <1>7
  <1>10. q + k + 1 <= m
    <2>1. q + k # m
      BY <1>1, <1>8, <1>9
    <2> QED
      BY <1>1, <1>5, <1>6, <2>1
  <1>11. q + k \in 0..(m - 1) /\ y \in 0..L /\ x < y /\ y \in Ends(text, ends)
    BY <1>10, <1>a
  <1>12. i <= y
    <2> SUFFICES ASSUME y < i PROVE FALSE
      BY <1>9, <1>11
    <2> DEFINE e == y - p
    <2>1. text[y] \in ends
      BY <1>9, <1>11, EndsAre DEF L
    <2>2. e \in 1..(r - p) /\ u < e /\ p + e = y /\ e \in Int
      BY <1>2, <1>6, <1>7, <1>9, <1>11
    <2> HIDE DEF e
    <2>3. e \in Ends(part, ends)
      BY <1>3, <2>1, <2>2, EndsAre
    <2>4. Len(part) \in Nat
      BY <1>3
    <2>5. c[k + 1] <= e
      BY <2>2, <2>3, <2>4, NoEndBetween DEF u
    <2> QED
      BY <1>2, <1>7, <1>11, <2>2, <2>5 DEF v
  <1>13. k + 1 < n => y = i
    <2> SUFFICES ASSUME k + 1 < n PROVE y = i
      OBVIOUS
    <2>1. v # r - p
      BY <1>2, <1>7, <1>c
    <2>2. part[v] \in ends /\ v \in 1..(r - p)
      BY <1>3, <1>7, <2>1, EndsAre
    <2>3. text[i] \in ends
      BY <1>3, <2>2
    <2> HIDE DEF i
    <2>4. i \in Ends(text, ends)
      <3>1. i \in 1..L
        BY <1>1, <1>9
      <3> QED
        BY <2>3, <3>1, EndsAre DEF L
    <2>5. y <= i
      <3>1. i \in Int /\ Len(text) \in Nat /\ b[q + k] < i
        BY <1>1, <1>9 DEF x, L
      <3>2. b[(q + k) + 1] <= i
        BY <1>11, <2>4, <3>1, NoEndBetween
      <3> QED
        BY <1>b, <3>2
    <2> QED
      BY <1>9, <1>11, <1>12, <2>5
  <1>14. v <= y - p /\ (k + 1 < n => v = y - p)
    BY <1>2, <1>7, <1>11, <1>12, <1>13
  <1>15. v <= b[q + (k + 1)] - b[q] /\ (k + 1 < n => v = b[q + (k + 1)] - b[q])
    BY <1>14, <1>b DEF p
  <1>16. q + (k + 1) <= m
    BY <1>10, <1>b
  <1> QED
    BY <1>15, <1>16 DEF Matching, v

\* All cuts of a slice match those of the text.
LEMMA AllCutsMatch ==
    ASSUME NEW text \in Seq(Chars), NEW ends, NEW m, NEW b, Cuts(text, ends, m, b),
           NEW q \in 0..m, NEW r \in b[q]..Len(text), NEW part, NEW n, NEW c,
           PartOf(part, text, b[q], r), Cuts(part, ends, n, c)
    PROVE  \A k \in 0..n : Matching(b, q, c, n, m, k)
  <1> DEFINE T == {k \in Nat : k <= n => Matching(b, q, c, n, m, k)}
  <1>1. /\ m \in Nat /\ q \in Nat /\ b[q] \in 0..Len(text) /\ n \in Nat /\ c[0] = 0
    BY DEF Cuts
  <1>2. 0 \in T
    <2>1. q + 0 = q /\ q <= m /\ b[q] - b[q] = 0
      BY <1>1
    <2> QED
      BY <1>1, <2>1 DEF Matching
  <1>3. ASSUME NEW k \in T PROVE k + 1 \in T
    <2>1. k \in Nat
      OBVIOUS
    <2> SUFFICES ASSUME k + 1 <= n PROVE Matching(b, q, c, n, m, k + 1)
      BY <2>1
    <2>2. k \in 0..(n - 1) /\ k <= n
      BY <1>1, <2>1
    <2>3. Matching(b, q, c, n, m, k)
      BY <2>2
    <2> HIDE DEF T
    <2> QED
      BY <2>2, <2>3, CutsMatch
  <1>4. T = Nat
    <2> HIDE DEF T
    <2>1. T \in SUBSET Nat
      BY DEF T
    <2> QED
      BY <1>2, <1>3, <2>1, SetInduction
  <1> QED
    BY <1>1, <1>4

\* A prefix, position by position.
LEMMA PrefixIs ==
    ASSUME NEW s \in Seq(Chars), NEW t \in Seq(Chars), Len(s) <= Len(t),
           \A i \in 1..Len(s) : s[i] = t[i]
    PROVE  IsPrefix(s, t)
  <1>1. /\ SubSeq(s, 1, Len(s)) \in Seq(Chars) /\ SubSeq(t, 1, Len(s)) \in Seq(Chars)
        /\ Len(SubSeq(s, 1, Len(s))) = Len(s) /\ Len(SubSeq(t, 1, Len(s))) = Len(s)
        /\ \A i \in 1..Len(s) : SubSeq(s, 1, Len(s))[i] = SubSeq(t, 1, Len(s))[i]
    OBVIOUS
  <1>2. SubSeq(s, 1, Len(s)) = SubSeq(t, 1, Len(s))
    BY <1>1, SeqEqual
  <1> QED
    BY <1>2 DEF IsPrefix

\* The lines of a slice that begins where a line does are lines of the text; the last
\* may be a part of one.
LEMMA LinesOfSlice ==
    ASSUME NEW text \in Seq(Chars), NEW ends, NEW b,
           Cutting(text, ends, Lines(text, ends), b),
           NEW q \in 0..Len(Lines(text, ends)), NEW r \in b[q]..Len(text)
    PROVE  LET lines == Lines(SubSeq(text, b[q] + 1, r), ends)
           IN  /\ lines \in Seq(Seq(Chars))
               /\ \A k \in 1..Len(lines) : IsPrefix(lines[k], Lines(text, ends)[q + k])
  <1> DEFINE all == Lines(text, ends)
             m == Len(all)
             p == b[q]
             part == SubSeq(text, p + 1, r)
             lines == Lines(part, ends)
             n == Len(lines)
             L == Len(text)
  <1>0. /\ Cuts(text, ends, m, b)
        /\ \A l \in 1..m : all[l] = SubSeq(text, b[l - 1] + 1, b[l])
    BY DEF Cutting
  <1> HIDE DEF all, m
  <1>1. /\ m \in Nat /\ L \in Nat
        /\ \A l \in 0..m : b[l] \in 0..L
        /\ \A j, l \in 0..m : j < l => b[j] < b[l]
    BY <1>0, CutsAre
  <1>2. q \in 0..m /\ p \in 0..L /\ r \in Nat /\ p <= r /\ r <= L /\ q \in Nat
    <2>1. q \in 0..m
      BY DEF m, all
    <2>2. p \in 0..L
      BY <1>1, <2>1
    <2> HIDE DEF L, p
    <2> QED
      BY <1>1, <2>1, <2>2 DEF L, p
  <1>3. /\ part \in Seq(Chars) /\ Len(part) = r - p
        /\ \A i \in 1..(r - p) : part[i] = text[p + i]
    <2> HIDE DEF p
    <2>1. p \in Nat /\ p <= r /\ r <= Len(text)
      BY <1>2
    <2> QED
      BY <1>2, <2>1, SubSeqIs
  <1> HIDE DEF part
  <1>4. lines \in Seq(Seq(Chars))
    BY <1>3, LinesAre
  <1>5. PICK c : Cutting(part, ends, lines, c)
    BY <1>3, LinesAre
  <1> HIDE DEF lines
  <1>b. /\ Cuts(part, ends, n, c)
        /\ \A l \in 1..n : lines[l] = SubSeq(part, c[l - 1] + 1, c[l])
    BY <1>5 DEF Cutting
  <1>6. /\ n \in Nat
        /\ \A l \in 0..n : c[l] \in 0..(r - p)
        /\ \A j, l \in 0..n : j < l => c[j] < c[l]
    BY <1>3, <1>b, CutsAre
  <1>7. \A k \in 0..n : Matching(b, q, c, n, m, k)
    <2>1. PartOf(part, text, b[q], r) /\ r \in b[q]..Len(text)
      BY <1>3 DEF PartOf
    <2> QED
      BY <1>0, <1>2, <1>b, <2>1, AllCutsMatch
  <1>8. ASSUME NEW k \in 1..n PROVE IsPrefix(lines[k], all[q + k])
    <2>1. k - 1 \in 0..n /\ k \in 0..n /\ k - 1 < n /\ k \in Nat /\ k - 1 < k
      BY <1>6
    <2>2. /\ q + k <= m /\ c[k] <= b[q + k] - p
          /\ c[k - 1] = b[q + (k - 1)] - p
      BY <1>7, <2>1 DEF Matching
    <2>3. q + k \in 1..m /\ q + k \in 0..m /\ q + (k - 1) \in 0..m /\ (q + k) - 1 = q + (k - 1)
      BY <1>1, <1>2, <2>1, <2>2
    <2> DEFINE u == c[k - 1]
               v == c[k]
               x == b[q + (k - 1)]
               y == b[q + k]
    <2>4. /\ u \in 0..(r - p) /\ v \in 0..(r - p) /\ u < v
      BY <1>6, <2>1
    <2>b. q + (k - 1) < q + k
      BY <1>2, <2>1
    <2>c. x \in 0..L /\ y \in 0..L /\ x < y
      BY <1>1, <2>3, <2>b
    <2>5. lines[k] = SubSeq(part, u + 1, v) /\ all[q + k] = SubSeq(text, x + 1, y)
      BY <1>0, <1>b, <2>3
    <2>6. u = x - p /\ v <= y - p
      BY <2>2
    <2> HIDE DEF u, v, x, y, p, L
    <2>a. p \in Int /\ L \in Int /\ r - p \in Int /\ L = Len(text)
      BY <1>1, <1>2 DEF L
    <2>7. /\ lines[k] \in Seq(Chars) /\ Len(lines[k]) = v - u
          /\ \A i \in 1..(v - u) : lines[k][i] = part[u + i]
      <3>1. u \in Nat /\ v \in Nat /\ u <= v /\ v <= Len(part)
        BY <1>3, <2>4, <2>a
      <3> QED
        BY <1>3, <2>5, <3>1, SubSeqIs
    <2>8. /\ all[q + k] \in Seq(Chars) /\ Len(all[q + k]) = y - x
          /\ \A i \in 1..(y - x) : all[q + k][i] = text[x + i]
      <3>1. x \in Nat /\ y \in Nat /\ x <= y /\ y <= Len(text)
        BY <2>c, <2>a
      <3> QED
        BY <2>5, <3>1, SubSeqIs
    <2>9. v - u <= y - x
      BY <2>4, <2>6, <2>a, <2>c
    <2>10. ASSUME NEW i \in 1..(v - u) PROVE lines[k][i] = all[q + k][i]
      <3>1. u + i \in 1..(r - p) /\ p + (u + i) = x + i /\ i \in 1..(y - x)
        BY <2>4, <2>6, <2>9, <2>a, <2>c
      <3> QED
        BY <1>3, <2>7, <2>8, <3>1
    <2> QED
      BY <2>7, <2>8, <2>9, <2>10, PrefixIs
  <1> QED
    BY <1>4, <1>8 DEF all, lines, part, p

(***************************************************************************)
(* What the tools show of a file                                           *)
(***************************************************************************)
\* An empty text has no lines.
LEMMA NoLines ==
    ASSUME NEW ends
    PROVE  Lines(<<>>, ends) = <<>>
  <1>1. <<>> \in Seq(Chars) /\ Len(<<>>) = 0
    OBVIOUS
  <1> DEFINE text == <<>>
             lines == Lines(text, ends)
  <1>2. PICK b : Cutting(text, ends, lines, b) /\ lines \in Seq(Seq(Chars))
    BY <1>1, LinesAre
  <1> HIDE DEF lines
  <1>3. Len(lines) \in Nat /\ \A k \in 1..Len(lines) : b[k] \in Ends(text, ends)
    BY <1>2 DEF Cutting, Cuts
  <1>4. Ends(text, ends) = {}
    BY DEF Ends
  <1>5. Len(lines) = 0
    BY <1>3, <1>4
  <1>6. lines = <<>>
    BY <1>2, <1>5
  <1> QED
    BY <1>6 DEF lines

\* What read_file shows of a text: its lines, the last perhaps cut.
LEMMA ReadLinesAre ==
    ASSUME NEW text \in Seq(Chars), NEW first \in Nat \ {0}, NEW count \in Nat \ {0},
           NEW bytes \in Nat, NEW ends
    PROVE  LET all    == Lines(text, ends)
               chosen == First(all, first + count - 1)
               part   == FlattenSeq(SubSeq(chosen, first, Len(chosen)))
               lines  == Lines(First(part, bytes), ends)
           IN  /\ lines \in Seq(Seq(Chars))
               /\ \A k \in 1..Len(lines) : IsPrefix(lines[k], all[first + k - 1])
  <1> DEFINE all    == Lines(text, ends)
             last   == first + count - 1
             chosen == First(all, last)
             to     == Len(chosen)
             seqs   == SubSeq(chosen, first, to)
             part   == FlattenSeq(seqs)
             lines  == Lines(First(part, bytes), ends)
             q      == first - 1
  <1>1. all \in Seq(Seq(Chars)) /\ \E b : Cutting(text, ends, all, b)
    BY LinesAre
  <1>2. PICK b : Cutting(text, ends, all, b)
    BY <1>1
  <1>a. last \in Nat /\ first \in Nat /\ first >= 1
    OBVIOUS
  <1> HIDE DEF last
  <1>3. /\ chosen \in Seq(Seq(Chars)) /\ to \in Nat /\ to <= Len(all)
        /\ \A j \in 1..to : chosen[j] = all[j]
    <2> HIDE DEF all
    <2>1. /\ chosen \in Seq(Seq(Chars))
          /\ to = IF last <= Len(all) THEN last ELSE Len(all)
          /\ \A j \in 1..to : chosen[j] = all[j]
      BY <1>1, <1>a, FirstIs
    <2>2. Len(all) \in Nat
      BY <1>1
    <2> HIDE DEF to
    <2> QED
      BY <1>a, <2>1, <2>2
  <1>4. /\ Cuts(text, ends, Len(all), b)
        /\ \A k \in 1..Len(all) : all[k] = SubSeq(text, b[k - 1] + 1, b[k])
    BY <1>2 DEF Cutting
  <1>5. /\ Len(all) \in Nat /\ Len(text) \in Nat
        /\ \A l \in 0..Len(all) : b[l] \in 0..Len(text)
        /\ \A j, l \in 0..Len(all) : j < l => b[j] < b[l]
    BY <1>4, CutsAre
  <1> HIDE DEF all, chosen, to
  <1>6. CASE to < first
    <2>1. seqs = <<>>
      BY <1>a, <1>3, <1>6, SubSeqEmpty
    <2>2. part = <<>>
      <3>1. PICK fl : Flattening(Chars, <<>>, fl) /\ FlattenSeq(<<>>) = fl[Len(<<>>)]
        <4>1. <<>> \in Seq(Seq(Chars))
          OBVIOUS
        <4> QED
          BY <4>1, FlattenIs
      <3>2. fl[0] = <<>> /\ Len(<<>>) = 0
        BY <3>1 DEF Flattening
      <3> QED
        BY <2>1, <3>1, <3>2
    <2>3. First(part, bytes) = <<>>
      <3>1. <<>> \in Seq(Chars) /\ Len(<<>>) = 0
        OBVIOUS
      <3>2. First(<<>>, bytes) \in Seq(Chars) /\ Len(First(<<>>, bytes)) = 0
        BY <3>1, FirstIs
      <3> QED
        BY <2>2, <3>2
    <2>4. lines = <<>>
      BY <2>3, NoLines
    <2> HIDE DEF lines
    <2>5. /\ lines \in Seq(Seq(Chars))
          /\ \A k \in 1..Len(lines) : IsPrefix(lines[k], all[first + k - 1])
      BY <2>4
    <2> QED
      BY <2>5, Zenon DEF lines, seqs, part, all, chosen, to, last
  <1>7. CASE first <= to
    <2> DEFINE M == to - q
               bb == [k \in 0..M |-> b[q + k]]
    <2>1. /\ M \in Nat /\ M >= 1 /\ q \in Nat /\ q + M = to /\ q + 1 = first
          /\ q \in 0..Len(all) /\ to \in 0..Len(all)
      BY <1>a, <1>3, <1>5, <1>7
    <2>2. seqs \in Seq(Seq(Chars)) /\ Len(seqs) = M /\ \A k \in 1..M : seqs[k] = chosen[q + k]
      <3>1. /\ seqs \in Seq(Seq(Chars)) /\ Len(seqs) = to - first + 1
            /\ \A k \in 1..(to - first + 1) : seqs[k] = chosen[first + k - 1]
        <4> HIDE DEF q
        <4> QED
          BY <1>a, <1>3, <1>7 DEF to
      <3>2. to - first + 1 = M /\ \A k \in 1..M : first + k - 1 = q + k
        BY <1>a, <1>3
      <3> HIDE DEF seqs
      <3> QED
        BY <3>1, <3>2
    <2> HIDE DEF seqs, q, M
    <2>3. \A k \in 0..M : q + k \in 0..Len(all)
      BY <1>3, <1>5, <2>1
    <2>4. /\ bb \in [0..M -> 0..Len(text)] /\ \A k \in 0..M : bb[k] = b[q + k]
      BY <1>5, <2>3
    <2> HIDE DEF bb
    <2>5. ASSUME NEW k \in 0..(M - 1)
          PROVE  bb[k] <= bb[k + 1] /\ seqs[k + 1] = SubSeq(text, bb[k] + 1, bb[k + 1])
      <3>1. /\ k \in 0..M /\ k + 1 \in 0..M /\ k + 1 \in 1..M
            /\ q + k \in 0..Len(all) /\ q + (k + 1) \in 0..Len(all) /\ q + k < q + (k + 1)
            /\ q + (k + 1) \in 1..to /\ q + (k + 1) \in 1..Len(all)
            /\ (q + (k + 1)) - 1 = q + k
        BY <1>3, <1>5, <2>1
      <3>2. bb[k] = b[q + k] /\ bb[k + 1] = b[q + (k + 1)]
        BY <2>4, <3>1
      <3>3. b[q + k] < b[q + (k + 1)] /\ b[q + k] \in Int /\ b[q + (k + 1)] \in Int
        BY <1>5, <3>1
      <3>4. seqs[k + 1] = all[q + (k + 1)]
        BY <1>3, <2>2, <3>1
      <3>5. all[q + (k + 1)] = SubSeq(text, b[q + k] + 1, b[q + (k + 1)])
        BY <1>4, <3>1
      <3> QED
        BY <3>2, <3>3, <3>4, <3>5
    <2>6. part = SubSeq(text, bb[0] + 1, bb[M]) /\ bb[0] <= bb[M]
      <3>1. /\ bb \in [0..Len(seqs) -> 0..Len(text)]
            /\ \A k \in 0..(Len(seqs) - 1) :
                    bb[k] <= bb[k + 1] /\ seqs[k + 1] = SubSeq(text, bb[k] + 1, bb[k + 1])
        BY <2>2, <2>4, <2>5
      <3>2. FlattenSeq(seqs) = SubSeq(text, bb[0] + 1, bb[Len(seqs)]) /\ bb[0] <= bb[Len(seqs)]
        BY <2>2, <3>1, FlattenSlices
      <3> QED
        BY <2>2, <3>2
    <2> DEFINE p == b[q]
               e == b[to]
    <2>7. bb[0] = p /\ bb[M] = e /\ p \in 0..Len(text) /\ e \in 0..Len(text)
      <3>1. 0 \in 0..M /\ M \in 0..M /\ q + 0 = q
        BY <2>1
      <3> QED
        BY <1>5, <2>1, <2>4, <3>1
    <2> HIDE DEF part
    <2>8. part = SubSeq(text, p + 1, e) /\ p <= e /\ p \in Nat /\ e \in Nat /\ e <= Len(text)
      BY <1>5, <2>6, <2>7
    <2> HIDE DEF p, e
    <2>9. part \in Seq(Chars) /\ Len(part) = e - p
      BY <2>8, SubSeqIs
    <2> DEFINE r == p + Len(First(part, bytes))
    <2>10. /\ First(part, bytes) \in Seq(Chars)
           /\ Len(First(part, bytes)) \in 0..(e - p)
           /\ \A j \in 1..Len(First(part, bytes)) : First(part, bytes)[j] = part[j]
      <3>1. /\ First(part, bytes) \in Seq(Chars)
            /\ Len(First(part, bytes)) = IF bytes <= Len(part) THEN bytes ELSE Len(part)
            /\ \A j \in 1..Len(First(part, bytes)) : First(part, bytes)[j] = part[j]
        BY <2>9, FirstIs
      <3> QED
        BY <2>8, <2>9, <3>1
    <2>11. r \in p..Len(text) /\ r \in Nat /\ p <= r /\ r <= e
      BY <1>5, <2>8, <2>10
    <2>12. First(part, bytes) = SubSeq(text, p + 1, r)
      <3> DEFINE f == First(part, bytes)
                 g == SubSeq(text, p + 1, r)
      <3>1. /\ g \in Seq(Chars) /\ Len(g) = r - p
            /\ \A i \in 1..(r - p) : g[i] = text[p + i]
        <4> HIDE DEF r
        <4>1. r <= Len(text)
          BY <2>8, <2>11, <1>5
        <4> QED
          BY <2>8, <2>11, <4>1, SubSeqIs
      <3>2. \A i \in 1..(e - p) : part[i] = text[p + i]
        BY <2>8, SubSeqIs
      <3>3. r - p = Len(f) /\ Len(f) \in Nat
        BY <2>8, <2>10
      <3>4. \A i \in 1..Len(f) : i \in 1..(e - p)
        BY <2>8, <2>10
      <3>5. \A i \in 1..Len(f) : f[i] = g[i]
        <4> HIDE DEF g
        <4> QED
          BY <2>10, <3>1, <3>2, <3>3, <3>4
      <3> HIDE DEF f, g, r
      <3>6. f \in Seq(Chars) /\ Len(f) = Len(g)
        BY <2>10, <3>1, <3>3 DEF f
      <3>7. f = g
        BY <3>1, <3>5, <3>6, SeqEqual
      <3> QED
        BY <3>7 DEF f, g
    <2>13. /\ Lines(SubSeq(text, p + 1, r), ends) \in Seq(Seq(Chars))
           /\ \A k \in 1..Len(Lines(SubSeq(text, p + 1, r), ends)) :
                IsPrefix(Lines(SubSeq(text, p + 1, r), ends)[k], all[q + k])
      <3> HIDE DEF r
      <3>1. r \in b[q]..Len(text)
        BY <2>11 DEF p
      <3> QED
        BY <1>2, <2>1, <3>1, LinesOfSlice DEF p, all
    <2>14. /\ lines \in Seq(Seq(Chars))
           /\ \A k \in 1..Len(lines) : IsPrefix(lines[k], all[q + k])
      <3>1. lines = Lines(SubSeq(text, p + 1, r), ends)
        BY <2>12
      <3> HIDE DEF lines, r
      <3> QED
        BY <2>13, <3>1
    <2>15. \A k \in 1..Len(lines) : q + k = first + k - 1
      BY <1>a, <2>14 DEF q
    <2>16. \A k \in 1..Len(lines) : IsPrefix(lines[k], all[first + k - 1])
      <3> HIDE DEF lines
      <3> QED
        BY <2>14, <2>15
    <2> QED
      BY <2>14, <2>16 DEF all, chosen, to, last, part, seqs
  <1>8. to < first \/ first <= to
    BY <1>3, <1>a
  <1> QED
    BY <1>6, <1>7, <1>8, Zenon

\* A text without a character that ends a line for Python only.
LEMMA PythonAsGit ==
    ASSUME NEW text \in Seq(Chars), ~Contains(text, "\f")
    PROVE  Lines(text, PythonEnds) = Lines(text, GitEnds)
  <1>1. \A i \in DOMAIN text : text[i] # "\f"
    BY DEF Contains
  <1>2. \A i \in DOMAIN text : text[i] \in PythonEnds <=> text[i] \in GitEnds
    BY <1>1 DEF PythonEnds
  <1>3. {i \in DOMAIN text : text[i] \in PythonEnds \/ i = Len(text)}
            = {i \in DOMAIN text : text[i] \in GitEnds \/ i = Len(text)}
    BY <1>2
  <1> QED
    BY <1>3, Zenon DEF Lines

(***************************************************************************)
(* The file stays a text                                                   *)
(***************************************************************************)
Signs == {" ", "-", "+"}
Row == [sign : Signs, line : Seq(Chars)]

\* Signed lines are rows of a diff.
LEMMA SignedIs ==
    ASSUME NEW sign \in Signs, NEW lines \in Seq(Seq(Chars))
    PROVE  /\ Signed(sign, lines) \in Seq(Row) /\ Len(Signed(sign, lines)) = Len(lines)
           /\ \A i \in 1..Len(lines) :
                Signed(sign, lines)[i].sign = sign /\ Signed(sign, lines)[i].line = lines[i]
  <1> DEFINE n == Len(lines)
  <1>1. n \in Nat /\ DOMAIN lines = 1..n /\ \A i \in 1..n : lines[i] \in Seq(Chars)
    OBVIOUS
  <1>2. Signed(sign, lines) = [i \in 1..n |-> [sign |-> sign, line |-> lines[i]]]
    BY <1>1 DEF Signed
  <1>3. \A i \in 1..n : [sign |-> sign, line |-> lines[i]] \in Row
    BY <1>1 DEF Row
  <1> HIDE DEF n
  <1>4. Signed(sign, lines) \in [1..n -> Row]
    BY <1>2, <1>3
  <1>5. Signed(sign, lines) \in Seq(Row) /\ Len(Signed(sign, lines)) = n
    <2> DEFINE f == Signed(sign, lines)
    <2> HIDE DEF f
    <2>1. f \in [1..n -> Row]
      BY <1>4 DEF f
    <2>2. f \in Seq(Row) /\ Len(f) = n
      BY <1>1, <2>1
    <2> QED
      BY <2>2 DEF f
  <1> QED
    BY <1>2, <1>5 DEF n

\* A slice of a sequence is a sequence.
LEMMA SliceOfSeq ==
    ASSUME NEW S, NEW seq \in Seq(S), NEW from \in Nat, NEW to \in Int, to <= Len(seq)
    PROVE  SubSeq(seq, from + 1, to) \in Seq(S)
OBVIOUS

\* A side of a diff is a sequence of lines.
LEMMA SideTyped ==
    ASSUME NEW body \in Seq(Row), NEW signs
    PROVE  Side(body, signs) \in Seq(Seq(Chars))
  <1> DEFINE n == Len(body)
             E == {i \in DOMAIN body : body[i].sign \in signs}
             a == Ascending(E)
             m == Cardinality(E)
  <1>1. n \in Nat /\ DOMAIN body = 1..n /\ \A i \in 1..n : body[i] \in Row
    OBVIOUS
  <1>2. E \in SUBSET (1..n)
    BY <1>1
  <1>3. Side(body, signs) = [k \in DOMAIN a |-> body[a[k]].line]
    BY DEF Side
  <1> HIDE DEF E, n
  <1>4. DOMAIN a = 1..m /\ m \in Nat /\ \A k \in 1..m : a[k] \in E
    BY <1>1, <1>2, AscendingIs
  <1> HIDE DEF a, m
  <1>5. \A k \in 1..m : body[a[k]].line \in Seq(Chars)
    BY <1>1, <1>2, <1>4 DEF Row
  <1>6. Side(body, signs) \in [1..m -> Seq(Chars)]
    BY <1>3, <1>4, <1>5
  <1> QED
    BY <1>4, <1>6

\* The lines of a text are of a set of texts.
LEMMA LineSet ==
    ASSUME NEW lines \in Seq(Seq(Chars))
    PROVE  ToSet(lines) \subseteq Seq(Chars)
BY DEF ToSet

\* Whatever difflib finds alike, the edits make one text of the other.
LEMMA EditsTyped ==
    ASSUME NEW old \in Seq(Seq(Chars)), NEW new \in Seq(Seq(Chars))
    PROVE  Edits(old, new) \in Seq(Row)
  <1> DEFINE R == [sign : {" ", "-", "+"}, line : ToSet(old) \cup ToSet(new)]
  <1>1. CASE IsScript(Script(old, new), old, new)
    <2>1. Edits(old, new) = Script(old, new) /\ Script(old, new) \in Seq(R)
      BY <1>1, Zenon DEF Edits, IsScript
    <2>2. R \subseteq Row
      BY LineSet DEF Row, Signs
    <2> HIDE DEF R
    <2> QED
      BY <2>1, <2>2, SeqMonotonic
  <1>2. CASE ~IsScript(Script(old, new), old, new)
    <2> DEFINE a == Signed("-", old)
               b == Signed("+", new)
    <2>1. a \in Seq(Row) /\ b \in Seq(Row)
      BY SignedIs DEF Signs
    <2>2. Edits(old, new) = a \o b
      BY <1>2, Zenon DEF Edits
    <2> HIDE DEF a, b
    <2> QED
      BY <2>1, <2>2
  <1> QED
    BY <1>1, <1>2

\* From a row near a change, a hunk goes to the last row that is near one.
HunkEnd(rows, from) == Min({i \in Near(rows) : i >= from /\ i + 1 \notin Near(rows)})

\* A hunk ends at a row near a change, behind which none is.
LEMMA HunkEnds ==
    ASSUME NEW rows \in Seq(Row), NEW from \in Near(rows)
    PROVE  /\ Near(rows) \in SUBSET (1..Len(rows))
           /\ HunkEnd(rows, from) \in Near(rows) /\ from <= HunkEnd(rows, from)
           /\ HunkEnd(rows, from) + 1 \notin Near(rows)
           /\ \A i \in from..HunkEnd(rows, from) : i \in Near(rows)
  <1> DEFINE E == Near(rows)
             T == {i \in E : i >= from /\ i + 1 \notin E}
             U == {i \in E : i >= from}
             n == Len(rows)
  <1>1. n \in Nat /\ E \in SUBSET (1..n)
    <2>1. E \subseteq DOMAIN rows
      BY Zenon DEF Near
    <2> HIDE DEF E
    <2> QED
      BY <2>1
  <1> HIDE DEF E, n
  <1>2. T \in SUBSET Nat /\ U \in SUBSET Nat /\ from \in U /\ \A i \in U : i <= n
    BY <1>1 DEF E
  <1>3. Max(U) \in U /\ \A i \in U : Max(U) >= i
    BY <1>1, <1>2, MaxIs
  <1>4. Max(U) \in T
    <2> DEFINE m == Max(U)
    <2>1. m \in U /\ \A i \in U : m >= i
      BY <1>3
    <2> HIDE DEF m
    <2>2. m \in Nat /\ m \in E /\ m >= from /\ from \in Nat
      BY <1>2, <2>1
    <2>3. m + 1 \notin E
      <3>1. m + 1 \in E => m + 1 \in U
        BY <2>2
      <3> QED
        BY <2>1, <2>2, <3>1
    <2> QED
      BY <2>2, <2>3 DEF m
  <1>5. Min(T) \in T /\ \A i \in T : Min(T) <= i
    <2>1. T # {}
      BY <1>4
    <2> HIDE DEF T
    <2> QED
      BY <1>2, <2>1, MinIs
  <1> DEFINE to == Min(T)
  <1>6. HunkEnd(rows, from) = to
    BY DEF HunkEnd, E
  <1>7. to \in T /\ \A i \in T : to <= i
    BY <1>5
  <1> HIDE DEF to
  <1>8. ASSUME NEW i \in from..to, i \notin E PROVE FALSE
    <2> DEFINE G == {k \in from..to : k \notin E}
    <2>1. G \in SUBSET Nat /\ G # {} /\ from \in Nat /\ to \in Nat
      BY <1>2, <1>7, <1>8
    <2>2. PICK k \in G : \A l \in G : k <= l
      <3> HIDE DEF G
      <3> QED
        BY <2>1, LeastOf
    <2>3. k \in from..to /\ k \notin E /\ from \in E
      BY <1>2, <2>2
    <2>4. k # from
      BY <2>3
    <2>5. k - 1 \in from..to /\ ~(k <= k - 1) /\ (k - 1) + 1 = k
      BY <2>1, <2>3, <2>4
    <2>6. k - 1 \notin G
      <3> HIDE DEF G
      <3> QED
        BY <2>2, <2>5
    <2>7. k - 1 \in E
      BY <2>5, <2>6
    <2>8. k - 1 \in T
      BY <2>1, <2>3, <2>5, <2>7
    <2>9. to <= k - 1
      <3> HIDE DEF T
      <3> QED
        BY <1>7, <2>8
    <2> QED
      BY <2>1, <2>3, <2>9
  <1> QED
    BY <1>1, <1>6, <1>7, <1>8 DEF E, n

\* A hunk: the lines before it in both texts, and its rows.
HunkType == [old : Nat, new : Nat, body : Seq(Row)]

\* The hunk that begins at a row near a change.
LEMMA HunkTyped ==
    ASSUME NEW rows \in Seq(Row), NEW from \in Near(rows)
    PROVE  Hunk(rows, from) \in HunkType
  <1> DEFINE to     == HunkEnd(rows, from)
             before == SubSeq(rows, 1, from - 1)
  <1>1. /\ from \in 1..Len(rows) /\ to \in 1..Len(rows) /\ Len(rows) \in Nat
    BY HunkEnds
  <1>2. Hunk(rows, from) = [old |-> Len(Old(before)), new |-> Len(New(before)),
                            body |-> SubSeq(rows, from, to)]
    BY DEF Hunk, HunkEnd
  <1> HIDE DEF to
  <1>3. before \in Seq(Row)
    <2>1. 0 + 1 = 1 /\ from - 1 \in Int /\ from - 1 <= Len(rows) /\ 0 \in Nat
      BY <1>1
    <2>2. SubSeq(rows, 0 + 1, from - 1) \in Seq(Row)
      BY <2>1, SliceOfSeq
    <2> QED
      BY <2>1, <2>2
  <1>4. SubSeq(rows, from, to) \in Seq(Row)
    <2>1. (from - 1) + 1 = from /\ from - 1 \in Nat /\ to \in Int /\ to <= Len(rows)
      BY <1>1
    <2>2. SubSeq(rows, (from - 1) + 1, to) \in Seq(Row)
      BY <2>1, SliceOfSeq
    <2> QED
      BY <2>1, <2>2
  <1> HIDE DEF before
  <1>5. Len(Old(before)) \in Nat /\ Len(New(before)) \in Nat
    <2>1. Old(before) \in Seq(Seq(Chars)) /\ New(before) \in Seq(Seq(Chars))
      BY <1>3, SideTyped DEF Old, New
    <2> QED
      BY <2>1
  <1> QED
    BY <1>2, <1>4, <1>5 DEF HunkType

\* Where the hunks begin.
HunkStarts(rows) == {i \in Near(rows) : i - 1 \notin Near(rows)}

\* A diff is a sequence of hunks.
LEMMA DiffTyped ==
    ASSUME NEW original \in Seq(Chars), NEW updated \in Seq(Chars)
    PROVE  Diff(original, updated) \in Seq(HunkType)
  <1> DEFINE old   == Lines(original, PythonEnds)
             new   == Lines(updated, PythonEnds)
             rows  == Edits(old, new)
             first == Ascending(HunkStarts(rows))
             m     == Cardinality(HunkStarts(rows))
  <1>1. rows \in Seq(Row)
    <2>1. old \in Seq(Seq(Chars)) /\ new \in Seq(Seq(Chars))
      BY LinesAre
    <2> HIDE DEF old, new
    <2> QED
      BY <2>1, EditsTyped
  <1>2. Diff(original, updated) = [k \in DOMAIN first |-> Hunk(rows, first[k])]
    BY DEF Diff, HunkStarts
  <1> HIDE DEF rows
  <1>3. HunkStarts(rows) \in SUBSET (1..Len(rows)) /\ Len(rows) \in Nat
    <2>1. HunkStarts(rows) \subseteq DOMAIN rows
      BY Zenon DEF HunkStarts, Near
    <2> QED
      BY <1>1, <2>1
  <1>4. DOMAIN first = 1..m /\ m \in Nat /\ \A k \in 1..m : first[k] \in HunkStarts(rows)
    BY <1>3, AscendingIs
  <1> HIDE DEF first, m
  <1>5. \A k \in 1..m : Hunk(rows, first[k]) \in HunkType
    BY <1>1, <1>4, HunkTyped DEF HunkStarts
  <1>6. Diff(original, updated) \in [1..m -> HunkType]
    BY <1>2, <1>4, <1>5
  <1> QED
    BY <1>4, <1>6

(***************************************************************************)
(* What git makes of a text                                                *)
(***************************************************************************)
Entry == [line : Seq(Chars), patched : BOOLEAN]
State == [image : Seq(Entry), refused : BOOLEAN]
FragmentType ==
    [at : Nat, begins : BOOLEAN, ends : BOOLEAN, pre : Seq(Seq(Chars)), post : Seq(Seq(Chars))]

\* Where a hunk is placed is within the text.
LEMMA PlacesAre ==
    ASSUME NEW image, NEW fragment
    PROVE  Placed(image, fragment) \subseteq 0..(Len(image) - Len(fragment.pre))
BY Zenon DEF Placed

\* That a diff is refused is written as a text.
LEMMA RefusedTyped == Refused \in Seq(Chars)
BY DEF Refused, Chars

\* Lines become entries of an image.
LEMMA ImageIs ==
    ASSUME NEW lines \in Seq(Seq(Chars)), NEW patched \in BOOLEAN
    PROVE  /\ Image(lines, patched) \in Seq(Entry) /\ Len(Image(lines, patched)) = Len(lines)
           /\ \A i \in 1..Len(lines) :
                Image(lines, patched)[i].line = lines[i] /\ Image(lines, patched)[i].patched = patched
  <1> DEFINE n == Len(lines)
  <1>1. n \in Nat /\ DOMAIN lines = 1..n /\ \A i \in 1..n : lines[i] \in Seq(Chars)
    OBVIOUS
  <1>2. Image(lines, patched) = [i \in 1..n |-> [line |-> lines[i], patched |-> patched]]
    BY <1>1 DEF Image
  <1>3. \A i \in 1..n : [line |-> lines[i], patched |-> patched] \in Entry
    BY <1>1 DEF Entry
  <1> HIDE DEF n
  <1>4. Image(lines, patched) \in [1..n -> Entry]
    BY <1>2, <1>3
  <1>5. Image(lines, patched) \in Seq(Entry) /\ Len(Image(lines, patched)) = n
    <2> DEFINE f == Image(lines, patched)
    <2> HIDE DEF f
    <2>1. f \in [1..n -> Entry]
      BY <1>4 DEF f
    <2>2. f \in Seq(Entry) /\ Len(f) = n
      BY <1>1, <2>1
    <2> QED
      BY <2>2 DEF f
  <1> QED
    BY <1>2, <1>5 DEF n

\* The lines of an image.
LEMMA LinesOfIs ==
    ASSUME NEW image \in Seq(Entry)
    PROVE  /\ LinesOf(image) \in Seq(Seq(Chars)) /\ Len(LinesOf(image)) = Len(image)
           /\ \A i \in 1..Len(image) : LinesOf(image)[i] = image[i].line
  <1> DEFINE n == Len(image)
             f == LinesOf(image)
  <1>1. n \in Nat /\ DOMAIN image = 1..n /\ \A i \in 1..n : image[i] \in Entry
    OBVIOUS
  <1>2. f = [i \in 1..n |-> image[i].line]
    BY <1>1 DEF LinesOf
  <1> HIDE DEF n, f
  <1>3. f \in [1..n -> Seq(Chars)]
    BY <1>1, <1>2 DEF Entry
  <1>4. f \in Seq(Seq(Chars)) /\ Len(f) = n
    BY <1>1, <1>3
  <1>5. \A i \in 1..n : f[i] = image[i].line
    BY <1>2
  <1> QED
    BY <1>4, <1>5 DEF n, f

\* A fragment leaves an image.
LEMMA PatchedTyped ==
    ASSUME NEW state \in State, NEW fragment \in FragmentType
    PROVE  Patched(state, fragment) \in State
  <1> DEFINE image  == state.image
             places == Placed(image, fragment)
             n      == Min(places)
             pre    == fragment.pre
             post   == Image(fragment.post, TRUE)
             result == SubSeq(image, 1, n) \o post
                            \o SubSeq(image, n + Len(pre) + 1, Len(image))
  <1>1. image \in Seq(Entry) /\ pre \in Seq(Seq(Chars)) /\ fragment.post \in Seq(Seq(Chars))
    BY DEF State, FragmentType
  <1>2. post \in Seq(Entry)
    BY <1>1, ImageIs
  <1>3. places \in SUBSET (0..(Len(image) - Len(pre)))
    BY PlacesAre
  <1>4. Len(image) \in Nat /\ Len(pre) \in Nat
    BY <1>1
  <1>5. Patched(state, fragment) =
            IF state.refused \/ places = {} THEN [state EXCEPT !.refused = TRUE]
            ELSE [state EXCEPT !.image = result]
    BY Zenon DEF Patched
  <1> HIDE DEF image, places, pre, post
  <1>6. CASE places # {}
    <2>1. places \in SUBSET Nat
      BY <1>3, <1>4
    <2>2. n \in places
      BY <1>6, <2>1, MinIs
    <2> HIDE DEF n
    <2>3. n \in Nat /\ n <= Len(image) - Len(pre)
      BY <1>3, <1>4, <2>2
    <2> DEFINE a == SubSeq(image, 1, n)
               b == SubSeq(image, n + Len(pre) + 1, Len(image))
    <2>4. a \in Seq(Entry) /\ b \in Seq(Entry)
      <3>1. n + Len(pre) \in Nat /\ n <= Len(image) /\ n \in Int /\ 0 + 1 = 1 /\ 0 \in Nat
            /\ Len(image) \in Int /\ Len(image) <= Len(image)
        BY <1>4, <2>3
      <3>2. SubSeq(image, 0 + 1, n) \in Seq(Entry)
        BY <1>1, <3>1, SliceOfSeq
      <3>3. SubSeq(image, (n + Len(pre)) + 1, Len(image)) \in Seq(Entry)
        BY <1>1, <3>1, SliceOfSeq
      <3> QED
        BY <3>1, <3>2, <3>3
    <2> HIDE DEF a, b
    <2>5. result \in Seq(Entry)
      BY <1>2, <2>4 DEF a, b
    <2> HIDE DEF result
    <2> QED
      BY <1>5, <2>5 DEF State
  <1>7. CASE places = {}
    BY <1>5, <1>7 DEF State
  <1> QED
    BY <1>6, <1>7

\* Before git has placed a fragment.
Unpatched(text) == [image |-> Image(Lines(text, GitEnds), FALSE), refused |-> FALSE]

\* What git makes of a text is a fold over the fragments.
LEMMA GitFolds ==
    ASSUME NEW text, NEW S, NEW fragments \in Seq(S)
    PROVE  \E g : /\ Fold("patch", 0, 0, Unpatched(text), fragments, g)
                  /\ GitApplied(text, fragments) =
                        IF g[Len(fragments)].refused THEN Refused
                        ELSE FlattenSeq(LinesOf(g[Len(fragments)].image))
  <1> DEFINE f == CHOOSE h : Folding("patch", 0, 0, Unpatched(text), fragments, h)
  <1>1. Folding("patch", 0, 0, Unpatched(text), fragments, f)
    BY FoldingExists
  <1>2. GitApplied(text, fragments) =
            IF f[DOMAIN fragments].refused THEN Refused
            ELSE FlattenSeq(LinesOf(f[DOMAIN fragments].image))
    BY DEF GitApplied, FoldLeft, MapThenFoldSet, Folding, Body, Step, Unpatched
  <1> HIDE DEF f
  <1>3. PICK g : /\ Fold("patch", 0, 0, Unpatched(text), fragments, g)
                 /\ f[DOMAIN fragments] = g[Len(fragments)]
    BY <1>1, FoldOfFolding
  <1> QED
    BY <1>2, <1>3, Zenon

\* What git makes of a text is a text.
LEMMA AppliedTyped ==
    ASSUME NEW text \in Seq(Chars), NEW fragments \in Seq(FragmentType)
    PROVE  GitApplied(text, fragments) \in Seq(Chars)
  <1> DEFINE n == Len(fragments)
  <1>1. PICK g : /\ Fold("patch", 0, 0, Unpatched(text), fragments, g)
                 /\ GitApplied(text, fragments) =
                        IF g[n].refused THEN Refused ELSE FlattenSeq(LinesOf(g[n].image))
    BY GitFolds
  <1>2. n \in Nat /\ \A k \in 1..n : fragments[k] \in FragmentType
    OBVIOUS
  <1> HIDE DEF n
  <1> DEFINE T == {k \in Nat : k <= n => g[k] \in State}
  <1>3. 0 \in T
    <2>1. Image(Lines(text, GitEnds), FALSE) \in Seq(Entry)
      BY LinesAre, ImageIs
    <2>2. Unpatched(text) \in State
      BY <2>1 DEF Unpatched, State
    <2>3. g[0] = Unpatched(text)
      BY <1>1 DEF Fold
    <2> QED
      BY <2>2, <2>3
  <1>4. ASSUME NEW k \in T PROVE k + 1 \in T
    <2> SUFFICES ASSUME k + 1 <= n PROVE g[k + 1] \in State
      OBVIOUS
    <2>1. k \in Nat /\ k \in 0..(n - 1) /\ k + 1 \in 1..n /\ g[k] \in State
      BY <1>2
    <2>2. g[k + 1] = Step("patch", 0, 0, g[k], fragments[k + 1])
      BY <1>1, <2>1 DEF Fold, n
    <2>3. g[k + 1] = Patched(g[k], fragments[k + 1])
      BY <2>2 DEF Step
    <2> QED
      BY <1>2, <2>1, <2>3, PatchedTyped
  <1>5. n \in T
    <2>1. T \in SUBSET Nat
      OBVIOUS
    <2> HIDE DEF T
    <2> QED
      BY <1>2, <1>3, <1>4, <2>1, SetInduction
  <1>6. g[n] \in State
    BY <1>2, <1>5
  <1>7. LinesOf(g[n].image) \in Seq(Seq(Chars))
    BY <1>6, LinesOfIs DEF State
  <1>8. FlattenSeq(LinesOf(g[n].image)) \in Seq(Chars)
    BY <1>7, FlattenType
  <1> QED
    BY <1>1, <1>8, RefusedTyped

\* Both directions of a diff are fragments.
LEMMA FragmentsTyped ==
    ASSUME NEW diff \in Seq(HunkType)
    PROVE  /\ [k \in DOMAIN diff |-> Forward(diff[k])] \in Seq(FragmentType)
           /\ [k \in DOMAIN diff |-> Backward(diff[k])] \in Seq(FragmentType)
  <1>1. Len(diff) \in Nat /\ DOMAIN diff = 1..Len(diff)
    OBVIOUS
  <1>2. ASSUME NEW k \in DOMAIN diff
        PROVE  Forward(diff[k]) \in FragmentType /\ Backward(diff[k]) \in FragmentType
    <2>1. diff[k] \in HunkType
      OBVIOUS
    <2>2. diff[k].old \in Nat /\ diff[k].new \in Nat /\ diff[k].body \in Seq(Row)
      BY <2>1 DEF HunkType
    <2>3. Old(diff[k].body) \in Seq(Seq(Chars)) /\ New(diff[k].body) \in Seq(Seq(Chars))
      BY <2>2, SideTyped DEF Old, New
    <2>4. (Last(diff[k].body).sign # " ") \in BOOLEAN /\ (diff[k].old = 0) \in BOOLEAN
          /\ (diff[k].new = 0) \in BOOLEAN
      OBVIOUS
    <2> QED
      BY <2>2, <2>3, <2>4 DEF Forward, Backward, Fragment, FragmentType
  <1>3. [k \in DOMAIN diff |-> Forward(diff[k])] \in [1..Len(diff) -> FragmentType]
    BY <1>1, <1>2
  <1>4. [k \in DOMAIN diff |-> Backward(diff[k])] \in [1..Len(diff) -> FragmentType]
    BY <1>1, <1>2
  <1> QED
    BY <1>1, <1>3, <1>4

\* What git apply and git apply --reverse return is a text.
LEMMA GitTyped ==
    ASSUME NEW text \in Seq(Chars), NEW diff \in Seq(HunkType)
    PROVE  GitApply(text, diff) \in Seq(Chars) /\ GitReverse(text, diff) \in Seq(Chars)
  <1>1. GitApplied(text, [k \in DOMAIN diff |-> Forward(diff[k])]) \in Seq(Chars)
    BY FragmentsTyped, AppliedTyped
  <1>2. GitApplied(text, [k \in DOMAIN diff |-> Backward(diff[k])]) \in Seq(Chars)
    BY FragmentsTyped, AppliedTyped
  <1> QED
    BY <1>1, <1>2, RefusedTyped DEF GitApply, GitReverse

(***************************************************************************)
(* The file and what is proposed for it                                    *)
(***************************************************************************)
\* A text of strings is one of characters.
LEMMA StringIsChars ==
    ASSUME NEW text \in Seq(STRING)
    PROVE  text \in Seq(Chars)
BY SeqMonotonic DEF Chars

\* A proposal: the file it is for, the file that is wanted, and the diff.
OfferType == [base : Seq(Chars), wanted : Seq(Chars), diff : Seq(HunkType)]

\* SEARCH is a text.
LEMMA SearchesTyped ==
    ASSUME file \in Seq(Chars), NEW search \in Searches
    PROVE  search \in Seq(Chars)
  <1>1. <<"absent">> \in Seq(Chars)
    BY DEF Chars
  <1>2. ASSUME NEW i \in DOMAIN file, NEW j \in DOMAIN file PROVE SubSeq(file, i, j) \in Seq(Chars)
    OBVIOUS
  <1>3. CASE search # <<"absent">>
    <2>1. search \in {SubSeq(file, i, j) : i \in DOMAIN file, j \in DOMAIN file}
      BY <1>3 DEF Searches
    <2>2. \E i \in DOMAIN file, j \in DOMAIN file : search = SubSeq(file, i, j)
      BY <2>1
    <2> QED
      BY <1>2, <2>2
  <1> QED
    BY <1>1, <1>3

\* REPLACE is a text.
LEMMA ReplacesTyped ==
    ASSUME NEW search \in Seq(Chars), NEW replace \in Replaces(search)
    PROVE  replace \in Seq(Chars)
  <1> DEFINE Put(r, at) == [k \in DOMAIN search |-> IF k \in at THEN r ELSE <<search[k]>>]
             Ats == {{i} : i \in DOMAIN search}
                        \cup {{i \in DOMAIN search : search[i] = c} : c \in ToSet(search)}
             all == {FlattenSeq(Put(r, at)) : r \in Replacement, at \in Ats}
  <1>a. replace \in all
    <2>1. Replaces(search) = all \ {search}
      BY DEF Replaces
    <2> HIDE DEF all
    <2> QED
      BY <2>1
  <1>1. PICK r \in Replacement, at \in Ats : replace = FlattenSeq(Put(r, at))
    <2> HIDE DEF Put, Ats
    <2> QED
      BY <1>a
  <1>2. r \in Seq(Chars)
    BY ToolsAssumption, StringIsChars
  <1>3. DOMAIN search = 1..Len(search) /\ Len(search) \in Nat
        /\ \A k \in DOMAIN search : <<search[k]>> \in Seq(Chars)
    OBVIOUS
  <1>4. Put(r, at) \in [1..Len(search) -> Seq(Chars)]
    BY <1>2, <1>3
  <1>5. Put(r, at) \in Seq(Seq(Chars))
    <2> HIDE DEF Put
    <2> QED
      BY <1>3, <1>4
  <1> HIDE DEF Put
  <1> QED
    BY <1>1, <1>5, FlattenType

\* A text with a replacement made is a text.
LEMMA ReplacedTyped ==
    ASSUME NEW text \in Seq(Chars), NEW search \in Seq(Chars), NEW replace \in Seq(Chars),
           Matches(text, search) # {}
    PROVE  Replaced(text, search, replace) \in Seq(Chars)
  <1> DEFINE M == Matches(text, search)
             i == Min(M)
  <1>1. Len(text) \in Nat /\ Len(search) \in Nat
    OBVIOUS
  <1>2. M \subseteq 1..(Len(text) - Len(search) + 1)
    BY DEF Matches
  <1> HIDE DEF M
  <1>3. M \in SUBSET Nat /\ M # {}
    BY <1>2 DEF M
  <1>4. i \in M
    BY <1>3, MinIs
  <1> HIDE DEF i
  <1>5. i \in 1..(Len(text) - Len(search) + 1)
    BY <1>2, <1>4
  <1>6. i - 1 \in Int /\ i - 1 <= Len(text) /\ i + Len(search) - 1 \in Nat /\ 0 + 1 = 1
    BY <1>1, <1>5
  <1>7. SubSeq(text, 0 + 1, i - 1) \in Seq(Chars)
    BY <1>6, SliceOfSeq
  <1>8. SubSeq(text, (i + Len(search) - 1) + 1, Len(text)) \in Seq(Chars)
    BY <1>1, <1>6, SliceOfSeq
  <1>9. (i + Len(search) - 1) + 1 = i + Len(search)
    BY <1>1, <1>5
  <1> DEFINE a == SubSeq(text, 1, i - 1)
             b == SubSeq(text, i + Len(search), Len(text))
  <1>10. a \in Seq(Chars) /\ b \in Seq(Chars)
    BY <1>6, <1>7, <1>8, <1>9
  <1>11. Replaced(text, search, replace) = a \o replace \o b
    BY DEF Replaced, i, M
  <1> HIDE DEF a, b
  <1> QED
    BY <1>10, <1>11

\* An offer is for the file as it is.
LEMMA OffersTyped ==
    ASSUME file \in Seq(Chars), NEW updated \in Updates
    PROVE  Offer(updated) \in OfferType /\ Offer(updated).base = file
           /\ Offer(updated).wanted = updated
  <1>1. PICK search \in {s \in Searches : Unique(file, s)} :
            updated \in {Replaced(file, search, replace) : replace \in Replaces(search)}
    BY DEF Updates
  <1>2. PICK replace \in Replaces(search) : updated = Replaced(file, search, replace)
    BY <1>1
  <1>3. search \in Seq(Chars)
    BY <1>1, SearchesTyped
  <1>4. replace \in Seq(Chars)
    BY <1>3, ReplacesTyped
  <1>5. Matches(file, search) # {}
    BY <1>1 DEF Unique
  <1>6. updated \in Seq(Chars)
    BY <1>2, <1>3, <1>4, <1>5, ReplacedTyped
  <1>7. Diff(file, updated) \in Seq(HunkType)
    BY <1>6, DiffTyped
  <1> QED
    BY <1>6, <1>7 DEF OfferType, Offer

\* The file and what is proposed for it.  While a patch is applied or reversed, or a receipt
\* is kept, no tool is called.
FileInv ==
    /\ file \in Seq(Chars)
    /\ proposal # Nothing => proposal \in OfferType
    /\ receipt # Nothing \/ pending # "none" => proposal # Nothing /\ calls = 0

\* At first there is no proposal.
LEMMA InitFile == Init => FileInv
  <1> SUFFICES ASSUME Init PROVE FileInv
    OBVIOUS
  <1>1. PICK w \in World : file = w.file
    BY DEF Init
  <1>2. w.file \in Seq(STRING)
    BY ToolsAssumption
  <1>3. file \in Seq(Chars)
    BY <1>1, <1>2, StringIsChars
  <1> QED
    BY <1>3 DEF Init, FileInv

\* git's run leaves a text.
LEMMA GitRunsTyped ==
    ASSUME FileInv, NEW result \in Seq(Chars), NEW next, GitRuns(result, next),
           pending # "none"
    PROVE  FileInv'
  <1>1. file' \in Seq(Chars)
    BY DEF GitRuns, FileInv
  <1>2. UNCHANGED <<proposal, receipt, calls>>
    BY DEF GitRuns
  <1> QED
    BY <1>1, <1>2 DEF FileInv

\* FileInv is inductive.
LEMMA FileStays == FileInv /\ [Next]_vars => FileInv'
  <1> SUFFICES ASSUME FileInv, [Next]_vars PROVE FileInv'
    OBVIOUS
  <1> USE DEF FileInv
  <1>1. CASE UNCHANGED vars
    BY <1>1 DEF vars, applied
  <1>2. CASE ReadsLog
    <2>1. UNCHANGED <<file, proposal, receipt, pending>> /\ calls > 0
      BY <1>2, Zenon DEF ReadsLog, ReadTail, ReadRange, SearchLog, Call, applied
    <2> QED
      BY <2>1
  <1>3. CASE ReadsFile
    <2>1. UNCHANGED <<file, proposal, receipt, pending>> /\ calls > 0
      BY <1>3, Zenon DEF ReadsFile, ReadFile, SearchText, Call, applied
    <2> QED
      BY <2>1
  <1>4. CASE \E ref \in Citable, patch \in BOOLEAN : SubmitDiagnosis(ref, patch)
    BY <1>4 DEF SubmitDiagnosis, LastIf, applied
  <1>5. CASE Proposes
    <2>1. receipt = Nothing /\ pending = "none" /\ UNCHANGED <<file, receipt, pending>>
      <3>1. calls > 0 /\ receipt' = receipt /\ pending' = pending /\ file' = file
        BY <1>5 DEF Proposes, Mismatch, Propose, ProposeInVain, applied
      <3> QED
        BY <3>1
    <2>2. \/ proposal' = proposal \/ proposal' = Nothing
          \/ \E updated \in Updates : proposal' = Offer(updated)
      BY <1>5 DEF Proposes, Mismatch, Propose, ProposeInVain
    <2>3. \A updated \in Updates : Offer(updated) \in OfferType
      BY OffersTyped
    <2> QED
      BY <2>1, <2>2, <2>3
  <1>6. CASE Edit
    <2>1. <<"u", "\n">> \in Seq(Chars)
      BY DEF Chars
    <2>2. file' = <<"u", "\n">> \o file /\ UNCHANGED <<proposal, receipt, pending, calls>>
      BY <1>6 DEF Edit
    <2> QED
      BY <2>1, <2>2
  <1>7. CASE Approve
    BY <1>7 DEF Approve, Goes
  <1>8. CASE BuildReceipt \/ Withdraw
    BY <1>8 DEF BuildReceipt, Withdraw, Goes
  <1>9. CASE RolledBack
    BY <1>9 DEF RolledBack, Goes
  <1>10. CASE Apply \/ Undo
    <2>1. pending # "none" /\ proposal \in OfferType
      BY <1>10 DEF Apply, Undo
    <2>2. proposal.diff \in Seq(HunkType)
      BY <2>1 DEF OfferType
    <2>3. GitApply(file, proposal.diff) \in Seq(Chars) /\ GitReverse(file, proposal.diff) \in Seq(Chars)
      BY <2>2, GitTyped
    <2>4. CASE GitRuns(GitApply(file, proposal.diff), "receipt")
      BY <2>1, <2>3, <2>4, GitRunsTyped
    <2>5. CASE GitRuns(GitReverse(file, proposal.diff), "verify")
      BY <2>1, <2>3, <2>5, GitRunsTyped
    <2> QED
      BY <1>10, <2>4, <2>5 DEF Apply, Undo
  <1> QED
    BY <1>1, <1>2, <1>3, <1>4, <1>5, <1>6, <1>7, <1>8, <1>9, <1>10 DEF Next

(***************************************************************************)
(* What a reference covers                                                 *)
(***************************************************************************)
ActualOf(id, lg, sm) ==
    CASE id[1] = "log"   -> [n \in DOMAIN Bytes(lg[id[2]]) |-> <<Bytes(lg[id[2]])[n]>>]
      [] id[1] = "smoke" -> [n \in DOMAIN Bytes(sm[id[2]]) |-> <<Bytes(sm[id[2]])[n]>>]
      [] id[1] = "file"  -> Lines(Tail(id), GitEnds)

\* Every byte and line that the reference names is among the units, as it is.
Covers(units, ref, lg, sm) ==
    LET first == IF ref.id[1] = "file" THEN 0 ELSE 1
        last  == IF ref.id[1] = "file" THEN ref.to ELSE ref.to - 1
    IN  \A n \in ref.from..last : \E unit \in units :
            /\ unit[1] = ref.id /\ unit[2] = n
            /\ IsPrefix(unit[3], ActualOf(ref.id, lg, sm)[n + first])

\* A reference is covered, or to a file with a line that ends for Python only.
Covered(units, ref, lg, sm) ==
    /\ ref.from \in Int /\ ref.to \in Int
    /\ ~Contains(ref.id, "\f") => Covers(units, ref, lg, sm)

\* More is shown: what was covered is.
LEMMA CoveredMore ==
    ASSUME NEW units, NEW more, units \subseteq more, NEW ref, NEW lg, NEW sm,
           Covered(units, ref, lg, sm)
    PROVE  Covered(more, ref, lg, sm)
  <1>1. Covers(units, ref, lg, sm) => Covers(more, ref, lg, sm)
    BY Zenon DEF Covers
  <1> QED
    BY <1>1 DEF Covered

\* A part of a reference.
LEMMA CoveredWithin ==
    ASSUME NEW units, NEW ref, NEW seen, NEW lg, NEW sm, Covered(units, seen, lg, sm),
           seen.id = ref.id, Within(ref, seen), ref.from \in Int, ref.to \in Int
    PROVE  Covered(units, ref, lg, sm)
  <1> SUFFICES ASSUME Covers(units, seen, lg, sm) PROVE Covers(units, ref, lg, sm)
    BY DEF Covered
  <1> DEFINE last(r) == IF r.id[1] = "file" THEN r.to ELSE r.to - 1
             first == IF ref.id[1] = "file" THEN 0 ELSE 1
             Shown(n) == \E unit \in units :
                            /\ unit[1] = ref.id /\ unit[2] = n
                            /\ IsPrefix(unit[3], ActualOf(ref.id, lg, sm)[n + first])
  <1>1. \A n \in seen.from..last(seen) : Shown(n)
    BY Zenon DEF Covers
  <1>2. Covers(units, ref, lg, sm) <=> \A n \in ref.from..last(ref) : Shown(n)
    BY Zenon DEF Covers
  <1>3. \A n \in ref.from..last(ref) : n \in seen.from..last(seen)
    BY DEF Covered, Within
  <1> HIDE DEF last, Shown
  <1> QED
    BY <1>1, <1>2, <1>3

\* A byte is a prefix of itself.
LEMMA SingletonPrefix ==
    ASSUME NEW a
    PROVE  IsPrefix(<<a>>, <<a>>)
BY DEF IsPrefix

\* A piece of a log covers its reference.
LEMMA PieceCovered ==
    ASSUME NEW lg, NEW sm, NEW kind, NEW log, NEW source, NEW units, NEW p,
           \/ kind = "log" /\ log = lg[source]
           \/ kind = "smoke" /\ log = sm[source],
           Bytes(log) \in Seq(STRING), p.start \in Nat, p.content \in Seq(STRING),
           Shows(p, Bytes(log)), PieceShown(<<kind, source>>, p) \subseteq units
    PROVE  Covered(units, PieceRef(<<kind, source>>, p), lg, sm)
  <1> DEFINE id == <<kind, source>>
             L == Len(p.content)
             ref == PieceRef(id, p)
             bytes == Bytes(log)
  <1>1. id[1] = kind /\ id[2] = source /\ id[1] # "file"
    OBVIOUS
  <1>2. ref.id = id /\ ref.from = p.start /\ ref.to = p.start + L
    BY DEF PieceRef, Ref
  <1>3. ActualOf(id, lg, sm) = [n \in DOMAIN bytes |-> <<bytes[n]>>]
    BY <1>1 DEF ActualOf
  <1> HIDE DEF id, ref, bytes
  <1>4. L \in Nat /\ DOMAIN p.content = 1..L /\ DOMAIN bytes = 1..Len(bytes) /\ Len(bytes) \in Nat
    BY DEF bytes
  <1>a. p.start \in Nat
    OBVIOUS
  <1>5. p.start + L <= Len(bytes) /\ \A j \in 1..L : p.content[j] = bytes[p.start + j]
    BY DEF Shows, bytes
  <1>6. ASSUME NEW n \in p.start..(p.start + L - 1)
        PROVE  \E unit \in units : /\ unit[1] = id /\ unit[2] = n
                                   /\ IsPrefix(unit[3], ActualOf(id, lg, sm)[n + 1])
    <2> DEFINE k == n - p.start + 1
               unit == <<id, p.start + k - 1, <<p.content[k]>>>>
    <2>1. k \in 1..L /\ p.start + k - 1 = n /\ p.start + k = n + 1 /\ n + 1 \in 1..Len(bytes)
      <3> HIDE DEF L
      <3> QED
        BY <1>4, <1>5, <1>a
    <2>2. unit \in PieceShown(id, p)
      <3> HIDE DEF k
      <3> QED
        BY <1>4, <2>1 DEF PieceShown
    <2>3. p.content[k] = bytes[n + 1]
      <3> HIDE DEF k
      <3> QED
        BY <1>5, <2>1
    <2>4. ActualOf(id, lg, sm)[n + 1] = <<bytes[n + 1]>>
      BY <1>3, <1>4, <2>1
    <2>5. unit[1] = id /\ unit[2] = n /\ unit[3] = <<bytes[n + 1]>>
      BY <2>1, <2>3
    <2>6. unit \in units
      BY <2>2 DEF id
    <2> HIDE DEF unit
    <2> QED
      BY <2>4, <2>5, <2>6, SingletonPrefix
  <1>7. Covers(units, ref, lg, sm)
    <2>1. ref.id[1] # "file"
      BY <1>1, <1>2
    <2>2. Covers(units, ref, lg, sm) <=>
            \A n \in ref.from..(ref.to - 1) : \E unit \in units :
                /\ unit[1] = ref.id /\ unit[2] = n
                /\ IsPrefix(unit[3], ActualOf(ref.id, lg, sm)[n + 1])
      BY <2>1, Zenon DEF Covers
    <2> HIDE DEF L
    <2>3. ref.from = p.start /\ ref.to - 1 = p.start + L - 1
      <3>1. \A a, b \in Int : (a + b) - 1 = a + b - 1
        OBVIOUS
      <3>2. p.start \in Int /\ L \in Int
        BY <1>4, <1>a
      <3>3. (p.start + L) - 1 = p.start + L - 1
        BY <3>1, <3>2, Zenon
      <3> QED
        BY <1>2, <3>3, Zenon
    <2> QED
      BY <1>2, <1>6, <2>2, <2>3, Zenon
  <1> QED
    BY <1>2, <1>4, <1>7 DEF Covered, ref, id

\* The name of a reference to a file holds its text.
LEMMA FileIdIs ==
    ASSUME NEW text \in Seq(Chars)
    PROVE  /\ FileId(text)[1] = "file" /\ Tail(FileId(text)) = text
           /\ Contains(text, "\f") => Contains(FileId(text), "\f")
  <1> DEFINE id == FileId(text)
             n == Len(text)
  <1>1. <<"file">> \in Seq(Chars) /\ n \in Nat
    BY DEF Chars
  <1>2. /\ id \in Seq(Chars) /\ Len(id) = n + 1 /\ id[1] = "file"
        /\ \A i \in 1..n : id[i + 1] = text[i]
    BY <1>1 DEF FileId
  <1> HIDE DEF id
  <1>3. /\ Tail(id) \in Seq(Chars) /\ Len(Tail(id)) = n
        /\ \A i \in 1..n : Tail(id)[i] = id[i + 1]
    BY <1>1, <1>2
  <1>4. Tail(id) = text
    BY <1>2, <1>3, SeqEqual
  <1>5. ASSUME Contains(text, "\f") PROVE Contains(id, "\f")
    <2>1. PICK i \in 1..n : text[i] = "\f"
      BY <1>5 DEF Contains
    <2>2. i + 1 \in 1..Len(id) /\ id[i + 1] = "\f"
      BY <1>1, <1>2, <2>1
    <2> QED
      BY <2>2 DEF Contains
  <1> QED
    BY <1>2, <1>4, <1>5 DEF id

\* Lines of a file cover the reference to them.
LEMMA LinesCovered ==
    ASSUME NEW text \in Seq(Chars), NEW first \in Nat, NEW lines \in Seq(Seq(Chars)), NEW units,
           NEW to, to = first + Len(lines) - 1, NEW lg, NEW sm,
           ~Contains(FileId(text), "\f") =>
                \A k \in 1..Len(lines) : IsPrefix(lines[k], Lines(text, GitEnds)[first + k - 1]),
           LinesShown(FileId(text), first, lines) \subseteq units
    PROVE  Covered(units, Ref(FileId(text), first, to), lg, sm)
  <1> DEFINE id == FileId(text)
             L == Len(lines)
             ref == Ref(id, first, to)
             all == Lines(text, GitEnds)
  <1>1. id[1] = "file" /\ Tail(id) = text
    BY FileIdIs
  <1>2. ref.id = id /\ ref.from = first /\ ref.to = to
    BY DEF Ref
  <1>3. ActualOf(id, lg, sm) = all
    BY <1>1 DEF ActualOf
  <1>4. L \in Nat /\ DOMAIN lines = 1..L /\ to \in Int
    OBVIOUS
  <1>5. LinesShown(id, first, lines) \subseteq units
        /\ (~Contains(id, "\f") =>
                \A k \in 1..L : IsPrefix(lines[k], all[first + k - 1]))
    OBVIOUS
  <1> HIDE DEF id, ref, all
  <1>6. ASSUME ~Contains(id, "\f"), NEW n \in first..to
        PROVE  \E unit \in units : /\ unit[1] = id /\ unit[2] = n
                                   /\ IsPrefix(unit[3], all[n + 0])
    <2> DEFINE k == n - first + 1
               unit == <<id, first + k - 1, lines[k]>>
    <2>1. k \in 1..L /\ first + k - 1 = n /\ n + 0 = n
      BY <1>4
    <2>2. unit \in LinesShown(id, first, lines)
      <3> HIDE DEF k
      <3> QED
        BY <1>4, <2>1 DEF LinesShown
    <2>3. IsPrefix(lines[k], all[n + 0])
      <3> HIDE DEF k
      <3> QED
        BY <1>5, <1>6, <2>1
    <2>4. unit[1] = id /\ unit[2] = n /\ unit[3] = lines[k]
      BY <2>1
    <2>5. unit \in units
      BY <1>5, <2>2
    <2> HIDE DEF unit, k
    <2> QED
      BY <2>3, <2>4, <2>5
  <1>7. ~Contains(id, "\f") => Covers(units, ref, lg, sm)
    BY <1>1, <1>2, <1>3, <1>6, Zenon DEF Covers
  <1>8. Covered(units, ref, lg, sm)
    BY <1>2, <1>4, <1>7 DEF Covered
  <1> QED
    BY <1>8 DEF ref, id

(***************************************************************************)
(* What is registered is covered                                           *)
(***************************************************************************)
\* A piece of a log, as it is.
PieceOf(p, lg) ==
    /\ p.source \in Sources /\ p.start \in Nat /\ p.content \in Seq(STRING)
    /\ Shows(p, Bytes(lg[p.source]))

\* What the prompt shows are pieces of the logs.
LEMMA EvidencePieces ==
    ASSUME NEW w \in World
    PROVE  /\ w.logs \in Logs /\ w.smoke \in Logs
           /\ \A p \in Evidence(w) : PieceOf(p, w.logs)
           /\ \A p \in SmokeTail(w) : PieceOf(p, w.smoke)
  <1> DEFINE lg == w.logs
             out == lg["stdout"]
             err == lg["stderr"]
             E == Len(Bytes(err))
             limit == Min({E, CapsuleBytes})
  <1>1. lg \in Logs /\ w.smoke \in Logs
    <2>1. {w.logs, w.smoke} \subseteq [Sources -> Seq(Seq(STRING))]
      BY ToolsAssumption DEF Sources
    <2> QED
      BY <2>1 DEF Logs
  <1> HIDE DEF lg
  <1>2. /\ EvidenceBytes \in Nat /\ SmokeBytes \in Nat /\ CapsuleBytes \in Nat
    BY ToolsAssumption, EvidenceAssumption
  <1>3. ASSUME NEW p \in ToSet(SelectEvidence(lg, EvidenceBytes)) PROVE PieceOf(p, lg)
    <2>1. Part(p, lg)
      BY <1>1, <1>2, EvidenceIs
    <2> QED
      BY <2>1 DEF Part, PieceOf
  <1>4. ASSUME NEW p \in SmokeTail(w) PROVE PieceOf(p, w.smoke)
    <2>1. p \in ToSet(SmokeBlocks(w.smoke, SmokeBytes))
      BY DEF SmokeTail
    <2> QED
      BY <1>1, <1>2, <2>1, SmokeIs DEF PieceOf
  <1>5. ASSUME NEW p \in Snapshots(lg) PROVE PieceOf(p, lg)
    <2>1. out \in Seq(Seq(STRING)) /\ err \in Seq(Seq(STRING))
          /\ "stdout" \in Sources /\ "stderr" \in Sources
      BY <1>1 DEF Logs, Sources
    <2>2. Snapshots(lg) = {Ending("stderr", err, limit),
                           Ending("stdout", out, CapsuleBytes - limit)}
      BY DEF Snapshots
    <2>3. E \in Nat
      <3>1. Bytes(err) \in Seq(STRING)
        BY <2>1, FlattenType DEF Bytes
      <3> QED
        BY <3>1
    <2> HIDE DEF E
    <2>4. limit = IF E <= CapsuleBytes THEN E ELSE CapsuleBytes
      <3>1. E \in Int /\ CapsuleBytes \in Int
        BY <1>2, <2>3
      <3> QED
        BY <3>1, MinMaxOfTwo
    <2> HIDE DEF limit
    <2>5. limit \in Nat /\ CapsuleBytes - limit \in Nat
      BY <1>2, <2>3, <2>4
    <2> DEFINE a == Ending("stderr", err, limit)
               b == Ending("stdout", out, CapsuleBytes - limit)
    <2>6. /\ a.source = "stderr" /\ a.start \in Nat /\ a.content \in Seq(STRING)
          /\ Shows(a, Bytes(err))
      BY <2>1, <2>5, EndingIs
    <2>7. /\ b.source = "stdout" /\ b.start \in Nat /\ b.content \in Seq(STRING)
          /\ Shows(b, Bytes(out))
      BY <2>1, <2>5, EndingIs
    <2>8. p = a \/ p = b
      BY <2>2
    <2> HIDE DEF a, b
    <2> QED
      BY <2>1, <2>6, <2>7, <2>8 DEF PieceOf
  <1>6. \A p \in Evidence(w) : PieceOf(p, lg)
    BY <1>3, <1>5 DEF Evidence, lg
  <1> QED
    BY <1>1, <1>4, <1>6 DEF lg

\* A piece of the logs of the attempt, and of the smoke test.
LEMMA LogCovered ==
    ASSUME NEW lg \in Logs, NEW sm \in Logs, NEW units, NEW p, PieceOf(p, lg),
           PieceShown(LogId(p.source), p) \subseteq units
    PROVE  Covered(units, PieceRef(LogId(p.source), p), lg, sm)
  <1>1. lg[p.source] \in Seq(Seq(STRING))
    BY DEF PieceOf, Logs
  <1>2. Bytes(lg[p.source]) \in Seq(STRING)
    BY <1>1, FlattenType DEF Bytes
  <1> QED
    BY <1>2, PieceCovered DEF PieceOf, LogId

\* A piece of the logs of the smoke test covers its reference.
LEMMA SmokeCovered ==
    ASSUME NEW lg \in Logs, NEW sm \in Logs, NEW units, NEW p, PieceOf(p, sm),
           PieceShown(SmokeId(p.source), p) \subseteq units
    PROVE  Covered(units, PieceRef(SmokeId(p.source), p), lg, sm)
  <1>1. sm[p.source] \in Seq(Seq(STRING))
    BY DEF PieceOf, Logs
  <1>2. Bytes(sm[p.source]) \in Seq(STRING)
    BY <1>1, FlattenType DEF Bytes
  <1> QED
    BY <1>2, PieceCovered DEF PieceOf, SmokeId

\* What a tool has read, whether the agent was shown it or not.
Known == shown \cup withheld

\* Every reference that was observed covers what was read; only one result is withheld.
ReferenceInv ==
    /\ WorldType /\ FileInv
    /\ \A ref \in observed : Covered(Known, ref, logs, smoke)
    /\ diagnosis # Nothing => Covered(Known, diagnosis.ref, logs, smoke)
    /\ reading => withheld = {}

\* What the prompt registers is what it shows.
LEMMA InitReferences == Init => ReferenceInv
  <1> SUFFICES ASSUME Init PROVE ReferenceInv
    OBVIOUS
  <1>1. PICK w \in World :
        /\ logs = w.logs /\ smoke = w.smoke
        /\ observed = {PieceRef(LogId(p.source), p) : p \in Evidence(w)}
                        \cup {PieceRef(SmokeId(p.source), p) : p \in SmokeTail(w)}
        /\ shown = UNION ({PieceShown(LogId(p.source), p) : p \in Evidence(w)}
                        \cup {PieceShown(SmokeId(p.source), p) : p \in SmokeTail(w)})
    BY DEF Init
  <1>2. WorldType /\ FileInv /\ logs \in Logs /\ smoke \in Logs /\ diagnosis = Nothing
    BY WorldIsTyped, InitFile DEF WorldType, Init
  <1>3. ASSUME NEW p \in Evidence(w) PROVE Covered(shown, PieceRef(LogId(p.source), p), logs, smoke)
    <2>1. PieceOf(p, logs)
      BY <1>1, EvidencePieces
    <2>2. PieceShown(LogId(p.source), p) \subseteq shown
      BY <1>1, Zenon
    <2> QED
      BY <1>2, <2>1, <2>2, LogCovered
  <1>4. ASSUME NEW p \in SmokeTail(w)
        PROVE  Covered(shown, PieceRef(SmokeId(p.source), p), logs, smoke)
    <2>1. PieceOf(p, smoke)
      BY <1>1, EvidencePieces
    <2>2. PieceShown(SmokeId(p.source), p) \subseteq shown
      BY <1>1, Zenon
    <2> QED
      BY <1>2, <2>1, <2>2, SmokeCovered
  <1>5. \A ref \in observed : Covered(shown, ref, logs, smoke)
    BY <1>1, <1>3, <1>4, Zenon
  <1>6. withheld = {} /\ Known = shown
    BY DEF Known, Init
  <1> QED
    BY <1>2, <1>5, <1>6 DEF ReferenceInv

\* A slice of a log.
LEMMA SliceCovered ==
    ASSUME WorldType, NEW source \in Sources, NEW start \in Nat, NEW limit \in Limits,
           start <= Len(Bytes(logs[source])), NEW units,
           PieceShown(LogId(source), ReadSlice(source, Bytes(logs[source]), start, limit))
                \subseteq units
    PROVE  Covered(units,
                   PieceRef(LogId(source), ReadSlice(source, Bytes(logs[source]), start, limit)),
                   logs, smoke)
  <1> DEFINE bytes == Bytes(logs[source])
             to == Min({Len(bytes), start + limit})
             p == ReadSlice(source, bytes, start, limit)
  <1>1. logs \in Logs /\ smoke \in Logs /\ limit \in Nat
    BY ToolsAssumption, EvidenceAssumption DEF WorldType
  <1>2. logs[source] \in Seq(Seq(STRING))
    BY <1>1 DEF Logs
  <1>3. bytes \in Seq(STRING) /\ Len(bytes) \in Nat
    BY <1>2, FlattenType DEF Bytes
  <1>4. start <= Len(bytes)
    OBVIOUS
  <1>5. p.source = source /\ p.start = start /\ p.content = Slice(bytes, start, to)
    BY DEF ReadSlice, Piece
  <1> HIDE DEF bytes, p
  <1>6. to = IF Len(bytes) <= start + limit THEN Len(bytes) ELSE start + limit
    <2>1. Len(bytes) \in Int /\ start + limit \in Int
      BY <1>1, <1>3
    <2> QED
      BY <2>1, MinMaxOfTwo
  <1> HIDE DEF to
  <1>7. to \in Nat /\ start <= to /\ to <= Len(bytes)
    BY <1>1, <1>3, <1>4, <1>6
  <1>8. /\ p.content \in Seq(STRING) /\ Len(p.content) = to - start
        /\ \A k \in 1..(to - start) : p.content[k] = bytes[start + k]
    <2> DEFINE text == Slice(bytes, start, to)
    <2>1. /\ text \in Seq(STRING) /\ Len(text) = to - start
          /\ \A k \in 1..(to - start) : text[k] = bytes[start + k]
      BY <1>3, <1>7, SliceIs
    <2>2. p.content = text
      BY <1>5
    <2> HIDE DEF text
    <2> QED
      BY <2>1, <2>2
  <1>9. Shows(p, bytes)
    <2>1. p.start + Len(p.content) <= Len(bytes)
      BY <1>3, <1>5, <1>7, <1>8
    <2>2. \A k \in 1..Len(p.content) : p.content[k] = bytes[p.start + k]
      BY <1>5, <1>8
    <2> QED
      BY <2>1, <2>2 DEF Shows
  <1>10. PieceOf(p, logs)
    BY <1>5, <1>8, <1>9 DEF PieceOf, bytes
  <1>11. PieceShown(LogId(p.source), p) \subseteq units
    BY <1>5 DEF p, bytes
  <1>12. Covered(units, PieceRef(LogId(p.source), p), logs, smoke)
    BY <1>1, <1>10, <1>11, LogCovered
  <1> QED
    BY <1>5, <1>12 DEF p, bytes

(***************************************************************************)
(* The tools keep it so                                                    *)
(***************************************************************************)
\* Where a slice of a log starts is in the log.
LEMMA StartsAre ==
    ASSUME NEW bytes, Len(bytes) \in Nat, NEW limit \in Nat, NEW offset \in Nat, NEW match \in Nat
    PROVE  /\ TailStart(bytes, limit) \in 0..Len(bytes)
           /\ RangeStart(bytes, offset) \in 0..Len(bytes)
           /\ SearchStart(bytes, offset, limit, match) \in 0..Len(bytes)
  <1> DEFINE L == Len(bytes)
             b == Tail0(bytes, limit)
             half == limit \div 2
             a == Max({offset, match - half})
  <1> HIDE DEF L
  <1>1. L \in Nat
    BY DEF L
  <1>2. b \in 0..L
    <2>1. b = Max({0, L - limit})
      BY DEF Tail0, L
    <2>2. b = IF 0 >= L - limit THEN 0 ELSE L - limit
      <3>1. 0 \in Int /\ L - limit \in Int
        BY <1>1
      <3> HIDE DEF b
      <3> QED
        BY <2>1, <3>1, MinMaxOfTwo
    <2> HIDE DEF b
    <2> QED
      BY <1>1, <2>2
  <1>3. RangeStart(bytes, offset) \in 0..L
    <2>1. RangeStart(bytes, offset) = Min({offset, L})
      BY DEF RangeStart, L
    <2>2. Min({offset, L}) = IF offset <= L THEN offset ELSE L
      BY <1>1, MinMaxOfTwo
    <2> QED
      BY <1>1, <2>1, <2>2
  <1>4. half \in Nat
    BY SMT
  <1> HIDE DEF half
  <1>5. a \in Nat
    <2>1. a = IF offset >= match - half THEN offset ELSE match - half
      <3>1. offset \in Int /\ match - half \in Int
        BY <1>4
      <3> QED
        BY <3>1, MinMaxOfTwo
    <2> HIDE DEF a
    <2> QED
      BY <1>4, <2>1
  <1>6. SearchStart(bytes, offset, limit, match) = Min({a, b})
    BY DEF SearchStart, half
  <1> HIDE DEF a, b
  <1>7. Min({a, b}) = IF a <= b THEN a ELSE b
    BY <1>1, <1>2, <1>5, MinMaxOfTwo
  <1>8. SearchStart(bytes, offset, limit, match) \in 0..L
    BY <1>1, <1>2, <1>5, <1>6, <1>7
  <1> QED
    BY <1>2, <1>3, <1>8 DEF TailStart, L, b

\* A result is shown or withheld, and what was read before is still known.
LEMMA ShowReads ==
    ASSUME ReferenceInv, NEW refs, NEW units, Show(refs, units)
    PROVE  /\ observed' = observed \cup refs
           /\ Known \subseteq Known' /\ units \subseteq Known'
           /\ reading' => withheld' = {}
  <1>1. reading /\ withheld = {} /\ observed' = observed \cup refs
    BY DEF Show, ReferenceInv
  <1>2. CASE shown' = shown \cup units /\ UNCHANGED <<withheld, reading>>
    BY <1>1, <1>2 DEF Known
  <1>3. CASE withheld' = units /\ reading' = FALSE /\ UNCHANGED shown
    BY <1>1, <1>3 DEF Known
  <1> QED
    BY <1>1, <1>2, <1>3 DEF Show

\* A step that registers references and shows what they name.
LEMMA ShowsWhatItRegisters ==
    ASSUME ReferenceInv, [Next]_vars, NEW refs, NEW units, Show(refs, units),
           diagnosis' = diagnosis,
           \A ref \in refs : Covered(Known', ref, logs, smoke)
    PROVE  ReferenceInv'
  <1>1. logs' = logs /\ smoke' = smoke /\ FileInv' /\ WorldType'
    BY WorldStays, FileStays DEF ReferenceInv, WorldType
  <1>2. /\ observed' = observed \cup refs /\ Known \subseteq Known'
        /\ reading' => withheld' = {}
    BY ShowReads
  <1>3. \A ref \in observed : Covered(Known', ref, logs, smoke)
    BY <1>2, CoveredMore DEF ReferenceInv
  <1>4. diagnosis # Nothing => Covered(Known', diagnosis.ref, logs, smoke)
    BY <1>2, CoveredMore DEF ReferenceInv
  <1>5. \A ref \in observed' : Covered(Known', ref, logs', smoke')
    BY <1>1, <1>2, <1>3
  <1>6. diagnosis' # Nothing => Covered(Known', diagnosis'.ref, logs', smoke')
    BY <1>1, <1>4
  <1> QED
    BY <1>1, <1>2, <1>5, <1>6 DEF ReferenceInv, Nothing

\* A step that registers nothing and accepts no diagnosis.
LEMMA RegistersNothing ==
    ASSUME ReferenceInv, [Next]_vars, UNCHANGED <<gathered, diagnosis>>
    PROVE  ReferenceInv'
  <1>1. logs' = logs /\ smoke' = smoke /\ FileInv' /\ WorldType'
    BY WorldStays, FileStays DEF ReferenceInv, WorldType
  <1>2. UNCHANGED <<observed, diagnosis, withheld, reading>> /\ Known' = Known
    BY DEF gathered, Known
  <1> QED
    BY <1>1, <1>2 DEF ReferenceInv, Nothing

\* A slice is read from a place in the log.
LEMMA ReadLogShows ==
    ASSUME ReferenceInv, [Next]_vars, NEW source \in Sources, NEW limit \in Limits,
           NEW start \in 0..Len(Bytes(logs[source])), diagnosis' = diagnosis,
           NEW slice, slice = ReadSlice(source, Bytes(logs[source]), start, limit),
           Show({PieceRef(LogId(source), slice)}, PieceShown(LogId(source), slice))
    PROVE  ReferenceInv'
  <1>1. PieceShown(LogId(source), slice) \subseteq Known'
    BY ShowReads
  <1>2. Len(Bytes(logs[source])) \in Nat
    <2>1. logs[source] \in Seq(Seq(STRING))
      BY DEF ReferenceInv, WorldType, Logs
    <2>2. Bytes(logs[source]) \in Seq(STRING)
      BY <2>1, FlattenType DEF Bytes
    <2> QED
      BY <2>2
  <1>3. start \in Nat /\ start <= Len(Bytes(logs[source]))
    BY <1>2
  <1>4. Covered(Known', PieceRef(LogId(source), slice), logs, smoke)
    BY <1>1, <1>3, SliceCovered DEF ReferenceInv
  <1> QED
    BY <1>4, ShowsWhatItRegisters

\* The three modes of the log tool.
LEMMA ReadsLogHolds == ReferenceInv /\ [Next]_vars /\ ReadsLog => ReferenceInv'
  <1> SUFFICES ASSUME ReferenceInv, [Next]_vars, ReadsLog PROVE ReferenceInv'
    OBVIOUS
  <1>1. PICK source \in Sources, limit \in Limits :
            \/ ReadTail(source, limit)
            \/ \E offset \in 0..(Len(Bytes(logs[source])) + 1) :
                \/ ReadRange(source, offset, limit)
                \/ \E query \in Query : SearchLog(source, offset, limit, query)
    BY DEF ReadsLog
  <1> DEFINE bytes == Bytes(logs[source])
  <1>2. bytes \in Seq(STRING) /\ Len(bytes) \in Nat /\ limit \in Nat
    <2>1. logs[source] \in Seq(Seq(STRING))
      BY DEF ReferenceInv, WorldType, Logs
    <2> QED
      BY <2>1, FlattenType, ToolsAssumption, EvidenceAssumption DEF Bytes
  <1> HIDE DEF bytes
  <1>3. ASSUME NEW start \in 0..Len(bytes), diagnosis' = diagnosis,
               Show({PieceRef(LogId(source), ReadSlice(source, bytes, start, limit))},
                    PieceShown(LogId(source), ReadSlice(source, bytes, start, limit)))
        PROVE  ReferenceInv'
    BY <1>3, ReadLogShows DEF bytes
  <1>4. CASE ReadTail(source, limit)
    <2>1. PICK start : start = TailStart(bytes, limit)
      OBVIOUS
    <2>2. start \in 0..Len(bytes)
      BY <1>2, <2>1, StartsAre
    <2>3. /\ diagnosis' = diagnosis
          /\ Show({PieceRef(LogId(source), ReadSlice(source, bytes, start, limit))},
                  PieceShown(LogId(source), ReadSlice(source, bytes, start, limit)))
      BY <1>4, <2>1 DEF ReadTail, ReadLog, bytes
    <2> QED
      BY <1>3, <2>2, <2>3
  <1>5. ASSUME NEW offset \in 0..(Len(bytes) + 1), ReadRange(source, offset, limit)
        PROVE  ReferenceInv'
    <2>1. PICK start : start = RangeStart(bytes, offset)
      OBVIOUS
    <2>2. start \in 0..Len(bytes)
      BY <1>2, <2>1, StartsAre
    <2>3. /\ diagnosis' = diagnosis
          /\ Show({PieceRef(LogId(source), ReadSlice(source, bytes, start, limit))},
                  PieceShown(LogId(source), ReadSlice(source, bytes, start, limit)))
      BY <1>5, <2>1 DEF ReadRange, ReadLog, bytes
    <2> QED
      BY <1>3, <2>2, <2>3
  <1>6. ASSUME NEW offset \in 0..(Len(bytes) + 1), NEW query \in Query,
               SearchLog(source, offset, limit, query)
        PROVE  ReferenceInv'
    <2>1. PICK match : match = SearchFile(bytes, offset, query)
      OBVIOUS
    <2>2. PICK start : start = SearchStart(bytes, offset, limit, match)
      OBVIOUS
    <2>3. CASE match = NotFound
      <3>1. diagnosis' = diagnosis /\ Show({}, {})
        BY <1>6, <2>1, <2>3 DEF SearchLog, bytes
      <3>2. \A ref \in {} : Covered(Known', ref, logs, smoke)
        OBVIOUS
      <3> QED
        BY <3>1, <3>2, ShowsWhatItRegisters
    <2>4. CASE match # NotFound
      <3>1. match \in Nat
        <4>1. query \in Seq(STRING) /\ query # <<>>
          BY ToolsAssumption
        <4>2. match = FirstHit(bytes, query, offset) /\ offset \in Nat
          BY <1>2, <2>1, <4>1, SearchFinding
        <4>3. HitsFrom(bytes, query, offset) \in SUBSET Nat
          BY <4>2 DEF HitsFrom
        <4> QED
          BY <2>4, <4>2, <4>3, MinIs DEF FirstHit
      <3>2. start \in 0..Len(bytes)
        BY <1>2, <2>2, <3>1, StartsAre
      <3>3. /\ diagnosis' = diagnosis
            /\ Show({PieceRef(LogId(source), ReadSlice(source, bytes, start, limit))},
                    PieceShown(LogId(source), ReadSlice(source, bytes, start, limit)))
        BY <1>6, <2>1, <2>2, <2>4 DEF SearchLog, ReadLog, bytes
      <3> QED
        BY <1>3, <3>2, <3>3
    <2> QED
      BY <2>3, <2>4
  <1> QED
    BY <1>1, <1>4, <1>5, <1>6 DEF bytes

\* What read_file and search_text show of the file.
LEMMA ReadFileHolds ==
    ASSUME ReferenceInv, [Next]_vars, NEW first \in Nat \ {0}, NEW count \in Nat \ {0},
           ReadFile(first, count)
    PROVE  ReferenceInv'
  <1> DEFINE all    == Lines(file, GitEnds)
             chosen == First(all, first + count - 1)
             text   == FlattenSeq(SubSeq(chosen, first, Len(chosen)))
  <1>1. PICK lines : lines = Lines(First(text, FileBytes), GitEnds)
    OBVIOUS
  <1>2. file \in Seq(Chars) /\ FileBytes \in Nat
    BY ToolsAssumption DEF ReferenceInv, FileInv
  <1>3. /\ lines \in Seq(Seq(Chars))
        /\ \A k \in 1..Len(lines) : IsPrefix(lines[k], all[first + k - 1])
    BY <1>1, <1>2, ReadLinesAre, Zenon
  <1>4. PICK ref : ref = IF lines = <<>> THEN Ref(FileId(file), 1, 0)
                         ELSE Ref(FileId(file), first, first + Len(lines) - 1)
    OBVIOUS
  <1>5. diagnosis' = diagnosis /\ Show({ref}, LinesShown(FileId(file), first, lines))
    BY <1>1, <1>4 DEF ReadFile
  <1>6. LinesShown(FileId(file), first, lines) \subseteq Known'
    BY <1>5, ShowReads
  <1>7. CASE lines = <<>>
    <2>1. ref = Ref(FileId(file), 1, 0)
      BY <1>4, <1>7
    <2>2. ref.from = 1 /\ ref.to = 0
      BY <2>1 DEF Ref
    <2>3. Covers(Known', ref, logs, smoke)
      BY <2>2 DEF Covers
    <2>4. Covered(Known', ref, logs, smoke)
      BY <2>2, <2>3 DEF Covered
    <2> QED
      BY <1>5, <2>4, ShowsWhatItRegisters
  <1>8. CASE lines # <<>>
    <2>1. ref = Ref(FileId(file), first, first + Len(lines) - 1)
      BY <1>4, <1>8
    <2>2. Covered(Known', ref, logs, smoke)
      BY <1>2, <1>3, <1>6, <2>1, LinesCovered
    <2> QED
      BY <1>5, <2>2, ShowsWhatItRegisters
  <1> QED
    BY <1>7, <1>8

\* search_text registers the lines that it shows.  It counts lines like str.splitlines, git
\* and read_file like git: the same numbers only for a file without "\f".
LEMMA SearchTextHolds ==
    ASSUME ReferenceInv, [Next]_vars, NEW query, SearchText(query)
    PROVE  ReferenceInv'
  <1>1. PICK lines : lines = Lines(file, PythonEnds)
    OBVIOUS
  <1> DEFINE hits == {n \in DOMAIN lines : Contains(lines[n], query)}
  <1>2. PICK kept : kept = {n \in hits : Cardinality({m \in hits : m < n}) < MaxResults}
    OBVIOUS
  <1> DEFINE refs  == {Ref(FileId(file), n, n) : n \in kept}
             units == UNION {LinesShown(FileId(file), n, <<lines[n]>>) : n \in kept}
  <1>3. diagnosis' = diagnosis /\ Show(refs, units)
    BY <1>1, <1>2 DEF SearchText
  <1>4. file \in Seq(Chars) /\ lines \in Seq(Seq(Chars))
    BY <1>1, LinesAre DEF ReferenceInv, FileInv
  <1>5. ASSUME NEW n \in kept PROVE Covered(Known', Ref(FileId(file), n, n), logs, smoke)
    <2>1. n \in 1..Len(lines) /\ n \in Nat /\ lines[n] \in Seq(Chars)
      BY <1>2, <1>4
    <2>2. LinesShown(FileId(file), n, <<lines[n]>>) \subseteq Known'
      <3>1. units \subseteq Known'
        <4> HIDE DEF refs, units
        <4> QED
          BY <1>3, ShowReads
      <3> QED
        BY <3>1, Zenon
    <2>3. PICK one : one = <<lines[n]>>
      OBVIOUS
    <2>4. one \in Seq(Seq(Chars)) /\ Len(one) = 1 /\ one[1] = lines[n]
      BY <2>1, <2>3
    <2>5. ASSUME ~Contains(FileId(file), "\f"), NEW k \in 1..Len(one)
          PROVE  IsPrefix(one[k], Lines(file, GitEnds)[n + k - 1])
      <3>1. ~Contains(file, "\f")
        BY <1>4, <2>5, FileIdIs
      <3>2. lines = Lines(file, GitEnds)
        BY <1>1, <1>4, <3>1, PythonAsGit
      <3>3. k = 1 /\ n + k - 1 = n
        BY <2>1, <2>4
      <3>4. IsPrefix(lines[n], lines[n])
        BY <2>1 DEF IsPrefix
      <3> QED
        BY <2>4, <3>2, <3>3, <3>4
    <2>6. n = n + Len(one) - 1
      BY <2>1, <2>4
    <2>7. LinesShown(FileId(file), n, one) \subseteq Known'
      BY <2>2, <2>3
    <2> QED
      BY <1>4, <2>1, <2>4, <2>5, <2>6, <2>7, LinesCovered
  <1>6. \A ref \in refs : Covered(Known', ref, logs, smoke)
    BY <1>5
  <1> HIDE DEF refs, units
  <1> QED
    BY <1>3, <1>6, ShowsWhatItRegisters

\* submit_diagnosis accepts only what was observed, or is within it.
LEMMA SubmitHolds ==
    ASSUME ReferenceInv, [Next]_vars, NEW ref \in Citable, NEW patch, SubmitDiagnosis(ref, patch)
    PROVE  ReferenceInv'
  <1>1. logs' = logs /\ smoke' = smoke /\ FileInv' /\ WorldType'
    BY WorldStays, FileStays DEF ReferenceInv, WorldType
  <1>2. /\ Observed(ref) /\ diagnosis' = [ref |-> ref, patch |-> patch]
        /\ UNCHANGED <<observed, withheld, reading>> /\ Known' = Known
    BY DEF SubmitDiagnosis, gathered, Known
  <1>3. \A seen \in observed : Covered(Known, seen, logs, smoke)
    BY DEF ReferenceInv
  <1>4. ref.from \in Int /\ ref.to \in Int
    <2>1. PICK seen \in observed, d \in -1..1, e \in -1..1 :
            ref = Ref(seen.id, seen.from + d, seen.to + e)
      BY DEF Citable
    <2>2. seen.from \in Int /\ seen.to \in Int
      BY <1>3 DEF Covered
    <2>3. ref.from = seen.from + d /\ ref.to = seen.to + e
      BY <2>1 DEF Ref
    <2> QED
      BY <2>2, <2>3
  <1>5. Covered(Known, ref, logs, smoke)
    <2>1. CASE ref \in observed
      BY <1>3, <2>1
    <2>2. CASE \E seen \in observed : seen.id = ref.id /\ Within(ref, seen)
      <3>1. PICK seen \in observed : seen.id = ref.id /\ Within(ref, seen)
        BY <2>2
      <3>2. Covered(Known, seen, logs, smoke)
        BY <1>3
      <3> QED
        BY <1>4, <3>1, <3>2, CoveredWithin
    <2> QED
      BY <1>2, <2>1, <2>2 DEF Observed
  <1>6. diagnosis'.ref = ref
    BY <1>2
  <1> QED
    BY <1>1, <1>2, <1>3, <1>5, <1>6 DEF ReferenceInv

\* ReferenceInv is inductive.
LEMMA ReferencesHold == ReferenceInv /\ [Next]_vars => ReferenceInv'
  <1> SUFFICES ASSUME ReferenceInv, [Next]_vars PROVE ReferenceInv'
    OBVIOUS
  <1>1. CASE ReadsLog
    BY <1>1, ReadsLogHolds
  <1>2. CASE ReadsFile
    <2>1. CASE \E range \in Ranges : ReadFile(range[1], range[2])
      <3>1. PICK range \in Ranges : ReadFile(range[1], range[2])
        BY <2>1
      <3>2. PICK first \in Nat \ {0}, count \in Nat \ {0} : first = range[1] /\ count = range[2]
        BY ToolsAssumption
      <3>3. ReadFile(first, count)
        BY <3>1, <3>2
      <3> QED
        BY <3>3, ReadFileHolds
    <2>2. CASE \E query \in ToSet(file) : SearchText(query)
      <3>1. PICK query : SearchText(query)
        BY <2>2
      <3> QED
        BY <3>1, SearchTextHolds
    <2> QED
      BY <1>2, <2>1, <2>2 DEF ReadsFile
  <1>3. CASE \E ref \in Citable, patch \in BOOLEAN : SubmitDiagnosis(ref, patch)
    <2>1. PICK ref \in Citable, patch \in BOOLEAN : SubmitDiagnosis(ref, patch)
      BY <1>3
    <2> QED
      BY <2>1, SubmitHolds
  <1>4. CASE Proposes \/ UNCHANGED vars
    <2>1. UNCHANGED <<gathered, diagnosis>>
      BY <1>4, Zenon DEF Proposes, Mismatch, Propose, ProposeInVain, vars
    <2> QED
      BY <2>1, RegistersNothing
  <1>5. CASE Edit \/ Approve \/ Apply \/ BuildReceipt \/ Withdraw \/ Undo \/ RolledBack
    <2>1. UNCHANGED <<gathered, diagnosis>>
      BY <1>5, Zenon
         DEF Edit, Approve, Apply, BuildReceipt, Withdraw, Undo, RolledBack, GitRuns
    <2> QED
      BY <2>1, RegistersNothing
  <1> QED
    BY <1>1, <1>2, <1>3, <1>4, <1>5 DEF Next

\* What is covered was read.
LEMMA CitedIsCovered == ReferenceInv => CitedWasRead
  <1> SUFFICES ASSUME ReferenceInv, diagnosis # Nothing, ~Contains(diagnosis.ref.id, "\f")
               PROVE  CitedWasRead
    BY DEF CitedWasRead
  <1>1. Covers(Known, diagnosis.ref, logs, smoke)
    BY DEF ReferenceInv, Covered
  <1>2. \A id : ActualOf(id, logs, smoke) = ActualLines(id)
    BY DEF ActualOf, ActualLines
  <1> QED
    BY <1>1, <1>2, Zenon DEF Covers, CitedWasRead, Known

\* What a diagnosis cites was read, each byte and line of it, as it is in the log or in the
\* file that the reference names (profile.py:54, _reference_was_observed): shown to the agent,
\* but for the one result that the loop has replaced by an error (context.py:71-95).
THEOREM CitationsHold == Spec => []CitedWasRead
  <1>1. Init => ReferenceInv
    BY InitReferences
  <1>2. ReferenceInv /\ [Next]_vars => ReferenceInv'
    BY ReferencesHold
  <1>3. ReferenceInv => CitedWasRead
    BY CitedIsCovered
  <1> QED
    BY <1>1, <1>2, <1>3, PTL DEF Spec

=============================================================================
