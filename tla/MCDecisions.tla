---------------------------- MODULE MCDecisions -----------------------------
(* Instances of the decision cache, and of delegation with the patterns and    *)
(* constraints of Matching, one beside the other: they share no state, and a   *)
(* behavior is of one of them.                                                 *)
EXTENDS DecisionCache, Delegation, Matching, TLC

CONSTANTS Parts, r1, e1, p1, p2, s1, s2, view, edit

VARIABLE part   \* what this behavior is of

-----------------------------------------------------------------------------
(* DecisionCache: one request, asked with and without an entity that changes   *)
(* the decision.                                                               *)

MCQuestions == [req: {r1}, ents: SUBSET {e1}]

MCCedar ==
    [g \in Gens |-> [q \in MCQuestions |->
        IF g = 0 THEN IF q.ents = {} THEN "allow" ELSE "deny"
                 ELSE IF q.ents = {} THEN "deny" ELSE "error"]]

MCSettings ==
    {[ttl |-> Unset, denyTtl |-> Bad, capacity |-> 0],
     [ttl |-> 2, denyTtl |-> Unset, capacity |-> 2],
     [ttl |-> 9, denyTtl |-> Unset, capacity |-> Unset]}

-----------------------------------------------------------------------------
(* Delegation                                                                  *)

\* Both keys were imported, which gives them the same id.
MCKid(s) == "imported"

a == <<"a">>
ab == <<"a", "b">>
b == <<"b">>
aStar == <<"a", "*">>

MCResources == {a, ab, b}
MCLiterals == {a, ab, b}

Amount(n) == <<"obj", [amount |-> <<"int", n>>]>>
MCFacts == {Amount(1), Amount(5), <<"obj", [note |-> <<"str", a>>]>>}

Small == [op |-> "less_than", path |-> <<"amount">>, value |-> 4]
NotTiny == [op |-> "not", inner |-> [op |-> "less_than", path |-> <<"amount">>, value |-> 2]]

Grant(actions, patterns, constraints, ttlSeconds, nbf) ==
    [actions |-> actions, patterns |-> patterns, constraints |-> constraints,
     ttl |-> ttlSeconds, nbf |-> nbf, aud |-> "svc"]

\* A broad grant, its restrictions, and grants beside it.
MCSpecs == {
    Grant({view, edit}, {aStar}, {Small}, 2, 1),
    Grant({view}, {ab}, {Small, NotTiny}, 1, 0),
    Grant({edit}, {a, b}, {NotTiny}, 0, 0),
    Grant({edit}, {aStar, a}, NoConstraints, 1, 0)}

-----------------------------------------------------------------------------
MCInit ==
    /\ part \in Parts /\ Init /\ DelegationInit
    /\ part # "cache" => config.on = FALSE

\* Grants are minted, attenuated and verified without the store; and one grant is
\* verified and revoked with it.
CacheStep  == part = "cache" /\ Next /\ UNCHANGED delegationVars
GrantsStep == part = "grants" /\ DelegationNext /\ storeCalls' = 0 /\ UNCHANGED vars
RevocationStep ==
    part = "revocation" /\ DelegationNext /\ Len(tokens') <= 1 /\ UNCHANGED vars

MCNext == (CacheStep \/ GrantsStep \/ RevocationStep) /\ UNCHANGED part

MCSpec == MCInit /\ [][MCNext]_<<part, vars, delegationVars>>

Symmetry == Permutations(Threads) \cup Permutations({p1, p2}) \cup Permutations({s1, s2})

-----------------------------------------------------------------------------
Texts(alphabet, n) == UNION {[1..k -> alphabet] : k \in 0..n}

\* glob_match (delegation.rs:225) finds a match exactly when some text for
\* each star makes the pattern the value.  Evaluated in the initial state.
GlobMatchesReference == part = "grants" /\ DelegationInit =>
    \A p \in Texts({"a", "b", "*"}, 4), v \in Texts({"a", "b"}, 4) :
        GlobMatch(p, v) <=> Expands(p, v)

Comparisons == {
    [op |-> "equals", path |-> <<"args", "n">>, value |-> <<"int", 1>>],
    [op |-> "equals", path |-> <<"args", "">>, value |-> <<"int", 1>>],
    [op |-> "in", path |-> <<"args", "n">>, values |-> {<<"int", 2>>, <<"str", a>>}],
    [op |-> "greater_than", path |-> <<"args", "n">>, value |-> 1],
    [op |-> "less_than", path |-> <<"m">>, value |-> 2],
    [op |-> "glob", path |-> <<"m">>, pattern |-> aStar]}

Combined(es) ==
    LET groups == {{x, y} : x, y \in es} \cup {{}}
    IN  {[op |-> "not", inner |-> e] : e \in es} \cup {[op |-> "and", all |-> g] : g \in groups}
        \cup {[op |-> "or", any |-> g] : g \in groups}

Documents ==
    LET values == {<<"int", 1>>, <<"int", 2>>, <<"str", a>>}
    IN  {<<"obj", [m |-> x]>> : x \in values}
        \cup {<<"obj", [args |-> <<"obj", [n |-> x]>>]>> : x \in values}
        \cup {<<"obj", [m |-> x, args |-> <<"obj", [n |-> y]>>]>> : x, y \in values}
        \cup {<<"int", 1>>}

Nested == LET once == Combined(Comparisons)
          IN  Comparisons \cup once \cup {[op |-> "not", inner |-> e] : e \in once}
              \cup {[op |-> "or", any |-> {e, [op |-> "not", inner |-> f]}] : e, f \in once}

\* Absent facts never become permission (delegation.rs:131): a constraint that
\* is satisfied is true in a logic in which a missing or wrongly typed fact is
\* unknown; and one whose facts are all there is satisfied whenever it is true.
ConstraintsFailClosed == part = "grants" /\ DelegationInit =>
    \A e \in Nested, d \in Documents :
        /\ Satisfied(e, d) => Kleene(e, d) = "T"
        /\ HasTypedInputs(e, d) /\ Kleene(e, d) = "T" => Satisfied(e, d)

\* What a grant's patterns and constraints allow is what they say.
MatchingSound == GlobMatchesReference /\ ConstraintsFailClosed
=============================================================================
