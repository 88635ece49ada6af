-------------------------- MODULE ReplacementDiff --------------------------
(***************************************************************************)
(* propose_patch replaces a block of one file and keeps a unified diff of  *)
(* it (training/incidents/tools.py); PatchService shows the diff to the    *)
(* user, and git applies and reverses it (patch.py).                       *)
(*                                                                         *)
(* A text is a sequence of characters.  "\n" and "\r\n" end a line; "\f"   *)
(* stands for what ends a line of str.splitlines and not of git (a form    *)
(* feed, a vertical tab, U+2028); "--" and "++" for the beginning of a     *)
(* line that, with the sign of a diff before it, looks like the header of  *)
(* Other, another file of the workspace.                                   *)
(***************************************************************************)
EXTENDS Integers, Sequences, SequencesExt

CONSTANTS
    Context,        \* lines of context in a hunk: 3 of difflib's, and git's
    Script(_, _)    \* external: what difflib.SequenceMatcher finds alike in two texts

ASSUME DiffAssumption == Context \in Nat \ {0}

GitEnds    == {"\n", "\r\n"}
PythonEnds == GitEnds \cup {"\f"}

Ascending(S) ==
    [k \in 1..Cardinality(S) |-> CHOOSE i \in S : Cardinality({j \in S : j <= i}) = k]

\* Cut after every character of ends; the last line may have none.
Lines(text, ends) ==
    LET last == Ascending({i \in DOMAIN text : text[i] \in ends \/ i = Len(text)})
    IN  [k \in DOMAIN last |-> SubSeq(text, IF k = 1 THEN 1 ELSE last[k - 1] + 1, last[k])]

(***************************************************************************)
(* SEARCH and REPLACE                                                      *)
(***************************************************************************)
Matches(text, search) ==
    {i \in 1..(Len(text) - Len(search) + 1) : SubSeq(text, i, i + Len(search) - 1) = search}

\* str.count is 1: it counts from the left, and occurrences that do not overlap.
Unique(text, search) ==
    LET at == Matches(text, search)
    IN  at # {} /\ \A i \in at : i < Min(at) + Len(search)

\* str.replace(..., 1)
Replaced(text, search, replace) ==
    LET i == Min(Matches(text, search))
    IN  SubSeq(text, 1, i - 1) \o replace \o SubSeq(text, i + Len(search), Len(text))

(***************************************************************************)
(* build_replacement_diff                                                  *)
(***************************************************************************)
Signed(sign, lines) == [i \in DOMAIN lines |-> [sign |-> sign, line |-> lines[i]]]

Side(body, signs) ==
    LET kept == Ascending({i \in DOMAIN body : body[i].sign \in signs})
    IN  [k \in DOMAIN kept |-> body[kept[k]].line]
Old(body) == Side(body, {" ", "-"})
New(body) == Side(body, {" ", "+"})

\* The lines of both texts in one sequence: kept, taken out, put in.
IsScript(rows, old, new) ==
    /\ rows \in Seq([sign : {" ", "-", "+"}, line : ToSet(old) \cup ToSet(new)])
    /\ Old(rows) = old /\ New(rows) = new

\* Whatever it finds alike, its operations make one text of the other.
Edits(old, new) ==
    IF IsScript(Script(old, new), old, new) THEN Script(old, new)
                                            ELSE Signed("-", old) \o Signed("+", new)

\* get_grouped_opcodes: a hunk has the lines around what changes, and ends where more
\* lines stay than belong to the changes on both sides.
Near(rows) ==
    {i \in DOMAIN rows : \E j \in DOMAIN rows :
        rows[j].sign # " " /\ j - Context <= i /\ i <= j + Context}

Hunk(rows, from) ==
    LET to     == Min({i \in Near(rows) : i >= from /\ i + 1 \notin Near(rows)})
        before == SubSeq(rows, 1, from - 1)
    IN  [old |-> Len(Old(before)), new |-> Len(New(before)), body |-> SubSeq(rows, from, to)]

\* The hunks, each with the number of lines before it, in the one text and in the other.
Diff(original, updated) ==
    LET rows  == Edits(Lines(original, PythonEnds), Lines(updated, PythonEnds))
        first == Ascending({i \in Near(rows) : i - 1 \notin Near(rows)})
    IN  [k \in DOMAIN first |-> Hunk(rows, first[k])]

(***************************************************************************)
(* parse_unified_diff                                                      *)
(***************************************************************************)
LooksOld(b) == b.sign = "-" /\ Head(b.line) = "--"
LooksNew(b) == b.sign = "+" /\ Head(b.line) = "++"
IsHeader(b) == LooksOld(b) \/ LooksNew(b)

\* After a line that looks like an old header comes one that looks like a new one.
\* The end of a file without a line end has the marker, or, if it looks like a
\* header itself, nothing: the next line is joined to it.
HeadersPair(body) ==
    \A i \in DOMAIN body : LooksOld(body[i]) =>
        LET next == IF Last(body[i].line) \notin PythonEnds THEN i + 2 ELSE i + 1
        IN  next <= Len(body) /\ LooksNew(body[next])

\* Two sections of one file are refused.
Parses(diff) ==
    /\ \A k \in DOMAIN diff : HeadersPair(diff[k].body)
    /\ Len(SelectSeq(FlattenSeq([k \in DOMAIN diff |-> diff[k].body]), LooksOld)) <= 1

(***************************************************************************)
(* PatchService.review                                                     *)
(***************************************************************************)
Refused == <<"refused">>

\* A hunk is for the lines it names, behind those of the hunks before it.
Copied(source, state, hunk) ==
    LET old == Old(hunk.body)
        to  == hunk.old + Len(old)
    IN  IF \/ state.refused \/ hunk.old < state.at \/ to > Len(source)
           \/ \E i \in DOMAIN hunk.body : IsHeader(hunk.body[i])
           \/ SubSeq(source, hunk.old + 1, to) # old
        THEN [state EXCEPT !.refused = TRUE]
        ELSE [state EXCEPT !.at = to, !.lines =
                @ \o SubSeq(source, state.at + 1, hunk.old) \o New(hunk.body)]

\* apply_unified_diff_to_text
AppliedToText(text, diff) ==
    LET source == Lines(text, PythonEnds)
        end    == FoldLeft(LAMBDA state, hunk : Copied(source, state, hunk),
                           [lines |-> <<>>, at |-> 0, refused |-> FALSE], diff)
    IN  IF end.refused THEN Refused
        ELSE FlattenSeq(end.lines \o SubSeq(source, end.at + 1, Len(source)))

\* read_text: every line end is read as "\n".
LineAsRead(line) == [k \in DOMAIN line |-> IF line[k] = "\r\n" THEN "\n" ELSE line[k]]
RowAsRead(row) == [sign |-> row.sign, line |-> LineAsRead(row.line)]
AsRead(diff) ==
    [k \in DOMAIN diff |->
        [diff[k] EXCEPT !.body = [i \in DOMAIN diff[k].body |-> RowAsRead(diff[k].body[i])]]]

Review(text, diff) == AppliedToText(text, AsRead(diff))

(***************************************************************************)
(* git apply, and git apply --reverse                                      *)
(***************************************************************************)
\* What git looks for and what it puts there, from which line on it looks, and whether
\* that is tied to the beginning or the end of the file: a hunk at the first line is,
\* and one without context behind it.
Fragment(hunk, at, begins, pre, post) ==
    [at |-> at, begins |-> begins, ends |-> Last(hunk.body).sign # " ",
     pre |-> pre, post |-> post]
Forward(hunk) ==
    Fragment(hunk, hunk.new, hunk.old = 0, Old(hunk.body), New(hunk.body))
Backward(hunk) ==
    Fragment(hunk, hunk.old, hunk.new = 0, New(hunk.body), Old(hunk.body))

\* The last line of a side that has no line end matches one that has.
Fits(lines, pre, tied) ==
    \/ lines = pre
    \/ /\ ~tied /\ pre # <<>>
       /\ Front(lines) = Front(pre)
       /\ Last(Last(pre)) \notin GitEnds
       /\ IsPrefix(Last(pre), Last(lines))
       /\ \A i \in (Len(Last(pre)) + 1)..Len(Last(lines)) : Last(lines)[i] \in PythonEnds

\* The file while it is patched: its lines, and whether a fragment has put them there.
Image(lines, patched) == [k \in DOMAIN lines |-> [line |-> lines[k], patched |-> patched]]
LinesOf(image) == [k \in DOMAIN image |-> image[k].line]

\* git looks from that line on, ever further away, forwards before backwards, for lines
\* that no fragment has put there.
Placed(image, fragment) ==
    LET last == Len(image) - Len(fragment.pre)
        from == IF fragment.begins THEN 0 ELSE IF fragment.ends THEN last
                ELSE Min({fragment.at, Len(image)})
        fits == {n \in 0..last :
                    LET window == SubSeq(image, n + 1, n + Len(fragment.pre))
                    IN  /\ Fits(LinesOf(window), fragment.pre, fragment.ends)
                        /\ \A k \in DOMAIN window : ~window[k].patched
                        /\ fragment.begins => n = 0
                        /\ fragment.ends => n = last}
        cost(n) == IF n >= from THEN 2 * (n - from) - 1 ELSE 2 * (from - n)
    IN  {n \in fits : \A other \in fits : cost(n) <= cost(other)}

\* A fragment that has no place makes git refuse all of them.
Patched(state, fragment) ==
    LET image  == state.image
        places == Placed(image, fragment)
        n      == Min(places)
    IN  IF state.refused \/ places = {} THEN [state EXCEPT !.refused = TRUE]
        ELSE [state EXCEPT !.image =
                SubSeq(image, 1, n) \o Image(fragment.post, TRUE)
                    \o SubSeq(image, n + Len(fragment.pre) + 1, Len(image))]

\* A line that looks like a header, without a line end, spoils its hunk.
Torn(diff) ==
    \E k \in DOMAIN diff : \E i \in DOMAIN diff[k].body :
        IsHeader(diff[k].body[i]) /\ Last(diff[k].body[i].line) \notin GitEnds

GitApplied(text, fragments) ==
    LET start == [image |-> Image(Lines(text, GitEnds), FALSE), refused |-> FALSE]
        end   == FoldLeft(Patched, start, fragments)
    IN  IF end.refused THEN Refused ELSE FlattenSeq(LinesOf(end.image))

GitApply(text, diff) ==
    IF Torn(diff) THEN Refused
    ELSE GitApplied(text, [k \in DOMAIN diff |-> Forward(diff[k])])
GitReverse(text, diff) ==
    IF Torn(diff) THEN Refused
    ELSE GitApplied(text, [k \in DOMAIN diff |-> Backward(diff[k])])
=============================================================================
