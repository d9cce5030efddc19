---------------------------- MODULE MetricLabels ----------------------------
(* The labels of a metric (metrics.rs): label_key joins them into the key of  *)
(* a map; render_prometheus splits a key and escapes its parts.  A label is a *)
(* sequence of characters.                                                    *)
EXTENDS Integers, SequencesExt

Separator == "\\x1f"

LabelKey(parts) ==
    FoldLeft(LAMBDA key, part : key \o <<Separator>> \o part, Head(parts), Tail(parts))

Split(key) ==
    FoldLeft(LAMBDA parts, c :
                 IF c = Separator THEN Append(parts, <<>>)
                 ELSE [parts EXCEPT ![Len(parts)] = Append(@, c)],
             <<<<>>>>, key)

\* str::replace of one character by a string
Replace(s, c, by) ==
    FlattenSeq([i \in DOMAIN s |-> IF s[i] = c THEN by ELSE <<s[i]>>])

EscapeLabel(s) ==
    Replace(Replace(Replace(Replace(s, "\\", <<"\\", "\\">>), "\"", <<"\\", "\"">>),
                    "\n", <<"\\", "n">>), "\r", <<"\\", "r">>)

\* the first n parts of a key as the page shows them, "" for a missing one
Rendered(key, n) ==
    LET parts == Split(key)
    IN  [i \in 1 .. n |-> EscapeLabel(IF i <= Len(parts) THEN parts[i] ELSE <<>>)]

\* What a reader of the exposition format makes of a label value: the text and
\* whether a quote ended it early.  The format has three escapes, and a backslash
\* before another character stands for itself.
Decoded(s) ==
    LET Escaped(c) == CASE c = "n" -> <<"\n">> [] c \in {"\\", "\""} -> <<c>>
                      [] OTHER -> <<"\\", c>>
        Read(acc, c) ==
            IF acc.escape THEN [acc EXCEPT !.escape = FALSE, !.text = @ \o Escaped(c)]
            ELSE CASE c = "\\" -> [acc EXCEPT !.escape = TRUE]
                 []   c = "\"" -> [acc EXCEPT !.ended = TRUE]
                 []   OTHER    -> [acc EXCEPT !.text = Append(@, c)]
    IN  FoldLeft(Read, [text |-> <<>>, escape |-> FALSE, ended |-> FALSE], s)
=============================================================================
