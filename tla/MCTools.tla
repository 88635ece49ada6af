------------------------------ MODULE MCTools ------------------------------
\* Three kinds of worlds: any short log, read as the prompt is written; a few logs
\* to read and search; a few files to read and to propose for.
EXTENDS AgentTools

\* SequenceMatcher: the longest block that both have, the first of them, and so before
\* it and behind it.
RECURSIVE MCScript(_, _)
MCScript(old, new) ==
    LET Alike(i, j, n) ==
            /\ i + n - 1 <= Len(old) /\ j + n - 1 <= Len(new)
            /\ SubSeq(old, i, i + n - 1) = SubSeq(new, j, j + n - 1)
        at(n) == {p \in (DOMAIN old) \X (DOMAIN new) : Alike(p[1], p[2], n)}
        n     == Max({k \in 0..Len(old) : k = 0 \/ at(k) # {}})
        i     == Min({p[1] : p \in at(n)})
        j     == Min({p[2] : p \in {q \in at(n) : q[1] = i}})
    IN  IF n = 0 THEN Signed("-", old) \o Signed("+", new)
        ELSE MCScript(SubSeq(old, 1, i - 1), SubSeq(new, 1, j - 1))
                \o Signed(" ", SubSeq(old, i, i + n - 1))
                \o MCScript(SubSeq(old, i + n, Len(old)), SubSeq(new, j + n, Len(new)))

MCQuery == {<<"E">>, <<"x", "\n">>, <<"x", "\n", "E">>, <<"\n", "E", "e", "\n">>}
MCRanges == {<<1, 2>>, <<2, 1>>, <<3, 1>>}
MCReplacement == {<<>>, <<"b">>, <<"++">>, <<"b", "\n", "a">>}

LogLine  == {<<"T", "\n">>, <<"F", "\n">>, <<"E", "e", "\n">>, <<"x", "?">>, <<"\n">>}
FileLine == {<<"a", "\n">>, <<"--", "\n">>, <<"b", "\r\n">>}

Both(out, err) == [stdout |-> out, stderr |-> err]
Empty == Both(<<>>, <<>>)
Short(S, n) == UNION {[1..k -> S] : k \in 0..n}
Investigation(l, s, f, n) == [logs |-> l, smoke |-> s, file |-> f, calls |-> n]

\* Of the shorter logs, what the prompt shows is cited as well.
Scans ==
    {Investigation(Both(out, err), Both(<<>>, err), <<>>, IF Len(err) < 4 THEN 1 ELSE 0) :
        err \in Short(LogLine, 4),
        out \in {<<>>, <<<<"x", "\n">>>>, <<<<"T", "\n">>, <<"E", "?", "\n">>>>}}

Readings ==
    {Investigation(Both(<<<<"x", "\n">>, <<"E", "e", "\n">>>>,
                        <<<<"x">>, <<"x", "\n">>, <<"T", "\n">>, <<"E", "e", "\n">>>>),
                   Both(<<<<"x", "x", "x", "\n">>>>, <<<<"E", "e", "\n">>>>), <<>>, 2)}

Files ==
    {Investigation(Empty, Empty, FlattenSeq(f) \o last, 3) :
        f \in Short(FileLine, 2), last \in {<<>>, <<"a">>, <<"--">>}}

\* The same lines again and again: hunks that fit elsewhere, and two of them, for
\* the "a" at both ends.
Repeating ==
    {Investigation(Empty, Empty, f, 3) :
        f \in {<<"a", "\n", "a", "\n", "b", "\n", "a", "\n", "a", "\n">>,
              <<"a", "\n", "b", "\n", "b", "\n", "b", "\n", "a">>}}

\* Lines that end as Python's do and not as git's.
MCPages == {Investigation(Empty, Empty, <<"a", "\n", "b", "\f", "\n">>, 3)}

MCWorld == Scans \cup Readings \cup Files \cup Repeating
=============================================================================
