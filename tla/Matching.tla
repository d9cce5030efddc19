------------------------------ MODULE Matching ------------------------------
(***************************************************************************)
(* The pure parts of a delegation grant (agentguard-core/src/delegation.rs):*)
(* glob patterns and typed constraints, each with a reference definition.  *)
(* A string is a sequence of characters, and a path a sequence of segments *)
(* (the string "" for an empty one).  A JSON value is <<"obj", f>> with f   *)
(* a function from names to values, <<"int", n>> or <<"str", s>>.           *)
(***************************************************************************)
EXTENDS Integers, Sequences, FiniteSets, SequencesExt, FiniteSetsExt

\* slice_eq: seg occurs in val right after the first pos characters.
SliceEq(seg, val, pos) ==
    /\ pos + Len(seg) <= Len(val)
    /\ SubSeq(val, pos + 1, pos + Len(seg)) = seg

Stars(pat) == SetToSortSeq({i \in DOMAIN pat : pat[i] = "*"}, <)

\* The text between the i-th star and the next, or the end.
Segment(pat, i) ==
    LET stars == Stars(pat)
    IN  SubSeq(pat, stars[i] + 1, IF i < Len(stars) THEN stars[i + 1] - 1 ELSE Len(pat))

\* Where the first occurrence of seg at or after vi ends, -1 without one.
EndOfFirst(seg, val, vi) ==
    LET found == {pos \in vi..Len(val) : SliceEq(seg, val, pos)}
    IN  IF vi = -1 \/ found = {} THEN -1 ELSE Min(found) + Len(seg)

\* Mutant: the last segment may overlap what is already matched.
SuffixOverlapping(seg, val, vi) ==
    Len(val) >= Len(seg) /\ SliceEq(seg, val, Len(val) - Len(seg))

\* The last segment is a suffix of what is left.
Suffix(seg, val, vi) ==
    Len(val) >= vi + Len(seg) /\ SliceEq(seg, val, Len(val) - Len(seg))

\* glob_match: the text before the first star is a prefix, the segments are
\* found one after the other, and the last one is a suffix.
GlobMatch(pat, val) ==
    LET n == Len(Stars(pat))
        head == SubSeq(pat, 1, Stars(pat)[1] - 1)
        vi == FoldLeft(LAMBDA at, i : EndOfFirst(Segment(pat, i), val, at),
                       Len(head), [i \in 1..(n - 1) |-> i])
    IN  \/ pat = <<"*">>
        \/ n = 0 /\ pat = val
        \/ /\ n > 0 /\ SliceEq(head, val, 0) /\ vi # -1
           /\ Segment(pat, n) = <<>> \/ Suffix(Segment(pat, n), val, vi)

\* Reference: a star stands for any text.
RECURSIVE Expands(_, _)
Expands(pat, val) ==
    IF pat = <<>> THEN val = <<>>
    ELSE IF Head(pat) = "*"
         THEN \E k \in 0..Len(val) : Expands(Tail(pat), SubSeq(val, k + 1, Len(val)))
         ELSE val # <<>> /\ Head(val) = Head(pat) /\ Expands(Tail(pat), Tail(val))

-----------------------------------------------------------------------------
Missing == <<"missing">>

\* lookup: the value at a path, through objects only.
Lookup(root, path) ==
    FoldLeft(LAMBDA cur, seg :
                IF cur[1] = "obj" /\ seg # "" THEN
                    IF seg \in DOMAIN cur[2] THEN cur[2][seg] ELSE Missing
                ELSE Missing, root, path)

\* Whether the input of a comparison is there and of the type it needs.
InputTyped(e, root) ==
    CASE e.op \in {"equals", "in"} -> Lookup(root, e.path) # Missing
      [] e.op \in {"greater_than", "less_than"} -> Lookup(root, e.path)[1] = "int"
      [] e.op = "glob" -> Lookup(root, e.path)[1] = "str"

\* A comparison of an input that is there.
Compare(e, v) ==
    CASE e.op = "equals" -> v = e.value
      [] e.op = "in" -> v \in e.values
      [] e.op = "greater_than" -> v[2] > e.value
      [] e.op = "less_than" -> v[2] < e.value
      [] e.op = "glob" -> GlobMatch(e.pattern, v[2])

RECURSIVE HasTypedInputs(_, _)
\* has_typed_inputs: every input of the expression is there and typed.
HasTypedInputs(e, root) ==
    CASE e.op = "and" -> \A c \in e.all : HasTypedInputs(c, root)
      [] e.op = "or" -> \A c \in e.any : HasTypedInputs(c, root)
      [] e.op = "not" -> HasTypedInputs(e.inner, root)
      [] OTHER -> InputTyped(e, root)

RECURSIVE EvaluateConstraint(_, _)
\* evaluate: an input that is missing or of another type compares false.
EvaluateConstraint(e, root) ==
    CASE e.op = "and" -> \A c \in e.all : EvaluateConstraint(c, root)
      [] e.op = "or" -> \E c \in e.any : EvaluateConstraint(c, root)
      [] e.op = "not" -> ~EvaluateConstraint(e.inner, root)
      [] OTHER -> InputTyped(e, root) /\ Compare(e, Lookup(root, e.path))

\* allows requires both of every constraint.
Satisfied(e, root) == HasTypedInputs(e, root) /\ EvaluateConstraint(e, root)

\* Reference: three-valued logic, where what is not known stays unknown
\* through `and', `or' and `not' unless the rest decides.
RECURSIVE Kleene(_, _)
Kleene(e, root) ==
    CASE e.op = "and" ->
            LET vs == {Kleene(c, root) : c \in e.all}
            IN  IF "F" \in vs THEN "F" ELSE IF "U" \in vs THEN "U" ELSE "T"
      [] e.op = "or" ->
            LET vs == {Kleene(c, root) : c \in e.any}
            IN  IF "T" \in vs THEN "T" ELSE IF "U" \in vs THEN "U" ELSE "F"
      [] e.op = "not" ->
            LET v == Kleene(e.inner, root)
            IN  IF v = "T" THEN "F" ELSE IF v = "F" THEN "T" ELSE "U"
      [] OTHER -> IF ~InputTyped(e, root) THEN "U"
                  ELSE IF Compare(e, Lookup(root, e.path)) THEN "T" ELSE "F"
=============================================================================
