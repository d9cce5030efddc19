--------------------------- MODULE MCCredentials ----------------------------
(* Instances of the API-key file, of the key registry, with room for two key   *)
(* ids, and of the memory of proofs, with more identifiers than entries, one   *)
(* beside the other: they share no state, and a behavior is of one of them.    *)
EXTENDS ApiKeyStore, TokenKeys, DpopReplay

CONSTANTS Parts, a, b, c, i1, i2, i3

VARIABLE part   \* what this behavior is of

Key(kid, key) == [kid |-> kid, key |-> key, alg |-> EdDSA, decodes |-> TRUE]

\* i1 gets another key, and that of i2 does not decode; a document of three
\* keys is refused; the last has a key without an id, whose thumbprint is i3.
MCDocuments == <<
    <<Key(i1, a), Key(i2, b)>>,
    <<Key(i1, c), [Key(i2, b) EXCEPT !.decodes = FALSE]>>,
    <<Key(i1, a), Key(i2, b), Key(i3, c)>>,
    <<Key(NoKid, c), Key(i1, b)>> >>

MCThumbprint(key) == i3

MCTokens ==
    [kid : {i1}, alg : {EdDSA}, key : {a, c}, ours : {TRUE},
     exp : {NoExp, 0, 2, 7}, nbf : {0, 2}, iat : {0}]

MCInit ==
    /\ part \in Parts /\ KeyFileInit /\ Init /\ DpopInit
    /\ part # "key file" => file = NoFile
    /\ part # "registry" => phase = "direct"

KeyFileStep  == part = "key file" /\ KeyFileNext /\ UNCHANGED <<vars, dpopVars>>
RegistryStep == part = "registry" /\ Next /\ UNCHANGED <<keyFileVars, dpopVars>>
ProofsStep   == part = "proofs" /\ DpopNext /\ UNCHANGED <<keyFileVars, vars>>

MCNext == (KeyFileStep \/ RegistryStep \/ ProofsStep) /\ UNCHANGED part

\* The fairness of each specification, in its own behaviors.
MCSpec ==
    /\ MCInit /\ [][MCNext]_<<part, keyFileVars, vars, dpopVars>>
    /\ WF_keyFileVars(part = "key file" /\ Server)
    /\ WF_vars(part = "registry" /\ Discover)
    /\ WF_vars(part = "registry" /\ LoadFails)
    /\ WF_vars(part = "registry" /\ Refresh)
=============================================================================
