-------------------------- MODULE DelegationProofs --------------------------
(***************************************************************************)
(* Proofs about Delegation: attenuation only narrows, and the store keeps  *)
(* an acknowledged revocation until its deadline, in time for every verify *)
(* that it answers within a second.                                        *)
(***************************************************************************)
EXTENDS Delegation, TLAPS

-----------------------------------------------------------------------------
(* The inductive invariant. *)

\* A revoke on its way is about a verified token, and asks for an entry that
\* outlasts its deadline by a second.
RevokesInFlight ==
    \A p \in Processes : doing[p] = "script" =>
        /\ arg[p] \in verified
        /\ wall + 2 * ttl[p] >= 2 * retain[p] + 2

\* A revoke that returned Ok has left an entry that outlasts its deadline, by
\* half a second at least since TTL rounds, or the deadline is over.
RetainedByStore ==
    \A j \in Jtis : store[j] >= 2 * retained[j] + 1 \/ 2 * retained[j] <= wall

\* A verify that began before the deadline of such a revoke finds the entry for
\* a second.
VerifiesInFlight ==
    \A p \in Processes : doing[p] = "exists" /\ asked[p] < 2 * due[p] =>
        store[arg[p]] >= asked[p] + 2

RevocationInv ==
    DelegationTypes /\ RevokesInFlight /\ RetainedByStore /\ VerifiesInFlight

-----------------------------------------------------------------------------
(* Operators. *)

\* Now is the second the clock is in.
LEMMA NowSecond ==
    ASSUME DelegationTypes
    PROVE  /\ wall \in Nat /\ skew \in Nat /\ Now \in Nat
           /\ 2 * Now <= wall /\ wall <= 2 * Now + 1
<1>1. skew \in Nat
    BY DelegationAssumption DEF DelegationTypes
<1>. QED
    BY <1>1 DEF DelegationTypes, Now

\* The specifications of grants are typed.
LEMMA SpecTyped ==
    ASSUME NEW s \in Specs
    PROVE  /\ s.ttl \in Nat /\ s.nbf \in Nat /\ s.actions \subseteq Actions
           /\ s.patterns \subseteq Patterns
BY DelegationAssumption, Zenon DEF Patterns

\* What a mint issues is a token.
LEMMA TokenTyped ==
    ASSUME DelegationTypes, NEW parent \in Nat, NEW signer \in Signers, NEW s \in Specs,
           NEW exp \in Nat, NEW nbf \in Nat
    PROVE  Token(parent, signer, s, exp, nbf) \in TokenSet
<1>1. s.actions \in SUBSET Actions /\ s.patterns \in SUBSET Patterns
    BY SpecTyped, Zenon
<1>2. s.aud \in {x.aud : x \in Specs} /\ s.constraints \in {x.constraints : x \in Specs}
    BY Zenon
<1>. QED
    BY <1>1, <1>2, NowSecond, Zenon DEF Token, TokenSet

\* Appending a token leaves the others as they are.
LEMMA Appended ==
    ASSUME DelegationTypes, NEW t \in TokenSet, tokens' = Append(tokens, t), Len(tokens) < MaxTokens
    PROVE  /\ tokens' \in Seq(TokenSet) /\ Len(tokens') <= MaxTokens
           /\ DOMAIN tokens' = DOMAIN tokens \cup {Len(tokens) + 1}
           /\ \A j \in DOMAIN tokens : tokens'[j] = tokens[j]
           /\ tokens'[Len(tokens) + 1] = t
           /\ Len(tokens) + 1 \notin DOMAIN tokens
<1>1. tokens \in Seq(TokenSet) /\ Len(tokens) \in Nat /\ MaxTokens \in Nat
    BY DelegationAssumption DEF DelegationTypes
<1>2. DOMAIN tokens = 1..Len(tokens)
    BY <1>1
<1>3. tokens' \in Seq(TokenSet) /\ Len(tokens') = Len(tokens) + 1
    BY <1>1
<1>4. DOMAIN tokens' = 1..(Len(tokens) + 1)
    BY <1>1, <1>3
<1>5. \A j \in DOMAIN tokens : tokens'[j] = tokens[j]
    BY <1>1, <1>2
<1>6. tokens'[Len(tokens) + 1] = t
    BY <1>1
<1>. QED
    BY <1>1, <1>2, <1>3, <1>4, <1>5, <1>6

\* The jti of a token is one the store has room for, and its times are numbers.
LEMMA TokenOf ==
    ASSUME DelegationTypes, NEW j \in DOMAIN tokens
    PROVE  /\ j \in Jtis /\ j \in Nat \ {0} /\ tokens[j] \in TokenSet
           /\ tokens[j].exp \in Nat /\ tokens[j].nbf \in Nat /\ tokens[j].iat \in Nat
           /\ tokens[j].patterns \subseteq Patterns
<1>1. tokens \in Seq(TokenSet) /\ Len(tokens) \in Nat /\ MaxTokens \in Nat
    BY DelegationAssumption DEF DelegationTypes
<1>2. j \in 1..Len(tokens) /\ Len(tokens) <= MaxTokens
    BY <1>1 DEF DelegationTypes
<1>3. j \in Jtis /\ j \in Nat \ {0}
    BY <1>1, <1>2 DEF Jtis
<1>4. tokens[j] \in TokenSet
    BY <1>1, <1>2
<1>5. /\ tokens[j].exp \in Nat /\ tokens[j].nbf \in Nat /\ tokens[j].iat \in Nat
      /\ tokens[j].patterns \subseteq Patterns
    BY <1>4, Zenon DEF TokenSet
<1>. QED
    BY <1>3, <1>4, <1>5

\* What mint_attenuated checks of the child makes its grant a part of the
\* parent's: a literal of the child that the parent matches is the only resource
\* it covers, and the parent's constraints are among its own.
LEMMA ChecksNarrow ==
    ASSUME NEW child, NEW parent,
           child.actions \subseteq parent.actions, child.patterns \subseteq Patterns,
           ResourcesInScope(parent, child.patterns),
           ConstraintsKept(parent, child.constraints)
    PROVE  Narrows(child, parent)
<1>1. SUFFICES ASSUME NEW a \in Actions, NEW r \in Resources, NEW f \in Facts,
                      Covers(child, a, r, f)
               PROVE  Covers(parent, a, r, f)
    BY Zenon DEF Narrows
<1>2. a \in parent.actions
    BY <1>1, Zenon DEF Covers
<1>3. \E p \in parent.patterns : Match(p, r)
    <2>1. PICK c \in child.patterns : Match(c, r)
        BY <1>1, Zenon DEF Covers
    <2>2. CASE c \in Literals
        <3>1. PICK p \in parent.patterns : Match(p, c)
            BY <2>2, Zenon DEF ResourcesInScope
        <3>2. c = r
            BY <2>1, <2>2, DelegationAssumption, Zenon
        <3>. QED
            BY <3>1, <3>2, Zenon
    <2>3. CASE c \notin Literals
        BY <2>1, <2>3, Zenon DEF ResourcesInScope
    <2>. QED
        BY <2>2, <2>3, Zenon
<1>4. \A c \in Expressions(parent.constraints) : Holds(c, f)
    BY <1>1, Zenon DEF Covers, Expressions, ConstraintsKept
<1>. QED
    BY <1>2, <1>3, <1>4, Zenon DEF Covers

-----------------------------------------------------------------------------
(* Every step preserves the invariant. *)

\* The initial states satisfy it.
LEMMA RevocationInit ==
    ASSUME DelegationInit
    PROVE  RevocationInv
<1>1. DelegationTypes
    <2>1. tokens \in Seq(TokenSet) /\ Len(tokens) <= MaxTokens /\ DOMAIN tokens = {}
        BY DelegationAssumption DEF DelegationInit
    <2>2. skew \in 0..MaxSkew
        BY DelegationAssumption DEF DelegationInit
    <2>. QED
        BY <2>1, <2>2, Zenon DEF DelegationInit, DelegationTypes
<1>2. RevokesInFlight /\ VerifiesInFlight
    BY Zenon DEF DelegationInit, RevokesInFlight, VerifiesInFlight
<1>3. RetainedByStore
    BY DEF DelegationInit, RetainedByStore
<1>. QED
    BY <1>1, <1>2, <1>3, Zenon DEF RevocationInv

\* Mint and MintAttenuated: no other token changes.
LEMMA AppendStep ==
    ASSUME RevocationInv, NEW t \in TokenSet, Len(tokens) < MaxTokens,
           tokens' = Append(tokens, t),
           UNCHANGED <<wall, keys, skew, verified, store, storeCalls, process, retained, late>>
    PROVE  RevocationInv'
<1>0. DelegationTypes
    BY Zenon DEF RevocationInv
<1>1. /\ tokens' \in Seq(TokenSet) /\ Len(tokens') <= MaxTokens
      /\ DOMAIN tokens \subseteq DOMAIN tokens'
    BY <1>0, Appended, Zenon
<1>2. DelegationTypes'
    BY <1>0, <1>1, Zenon DEF DelegationTypes, process, Jtis
<1>3. RevokesInFlight' /\ RetainedByStore' /\ VerifiesInFlight'
    BY Zenon
    DEF RevocationInv, RevokesInFlight, RetainedByStore, VerifiesInFlight, process, Jtis
<1>. QED
    BY <1>2, <1>3, Zenon DEF RevocationInv

\* The keys of a verifier, its skew and the set of verified tokens matter to no
\* revocation that is on its way or made.
LEMMA VerifierStep ==
    ASSUME RevocationInv, keys' \in [Kids -> Signers \cup {NoSigner}], skew' \in 0..MaxSkew,
           verified \subseteq verified', verified' \subseteq DOMAIN tokens,
           UNCHANGED <<wall, tokens, store, storeCalls, process, retained, late>>
    PROVE  RevocationInv'
<1>1. DelegationTypes'
    BY Zenon DEF RevocationInv, DelegationTypes, process, Jtis
<1>2. RevokesInFlight' /\ RetainedByStore' /\ VerifiesInFlight'
    BY Zenon
    DEF RevocationInv, RevokesInFlight, RetainedByStore, VerifiesInFlight, process, Jtis
<1>. QED
    BY <1>1, <1>2, Zenon DEF RevocationInv

\* Time passes: entries and requests stay as they are.
LEMMA ElapseStep ==
    ASSUME RevocationInv, Elapse
    PROVE  RevocationInv'
<1>0. DelegationTypes /\ wall \in Nat /\ wall' = wall + 1
    BY Zenon DEF RevocationInv, DelegationTypes, Elapse
<1>1. UNCHANGED <<issued, verified, store, storeCalls, process, retained, late>>
    BY Zenon DEF Elapse
<1>2. DelegationTypes'
    <2>1. wall' \in Nat
        BY <1>0
    <2>. QED
        BY <1>0, <1>1, <2>1, Zenon DEF DelegationTypes, issued, process, Jtis
<1>3. RevokesInFlight'
    <2>1. SUFFICES ASSUME NEW p \in Processes, doing[p] = "script"
                   PROVE  arg[p] \in verified /\ wall' + 2 * ttl[p] >= 2 * retain[p] + 2
        BY <1>1, Zenon DEF RevokesInFlight, process
    <2>2. arg[p] \in verified /\ wall + 2 * ttl[p] >= 2 * retain[p] + 2
        BY <2>1, Zenon DEF RevocationInv, RevokesInFlight
    <2>3. ttl[p] \in Nat /\ retain[p] \in Nat
        BY <1>0, Zenon DEF DelegationTypes
    <2>. QED
        BY <1>0, <2>2, <2>3
<1>4. RetainedByStore'
    <2>1. SUFFICES ASSUME NEW j \in Jtis
                   PROVE  store[j] >= 2 * retained[j] + 1 \/ 2 * retained[j] <= wall'
        BY <1>1, Zenon DEF RetainedByStore, Jtis
    <2>2. store[j] >= 2 * retained[j] + 1 \/ 2 * retained[j] <= wall
        BY Zenon DEF RevocationInv, RetainedByStore
    <2>3. retained[j] \in Nat
        BY <1>0, Zenon DEF DelegationTypes
    <2>. QED
        BY <1>0, <2>2, <2>3
<1>5. VerifiesInFlight'
    BY <1>1, Zenon DEF RevocationInv, VerifiesInFlight, process
<1>. QED
    BY <1>2, <1>3, <1>4, <1>5, Zenon DEF RevocationInv

\* A verify that begins before the deadline of a revoke of its token that has
\* returned Ok finds its entry in the store, which outlasts the deadline.
LEMMA StartVerifyStep ==
    ASSUME RevocationInv, NEW p \in Processes, NEW j \in DOMAIN tokens, NEW aud,
           StartVerify(p, j, aud)
    PROVE  RevocationInv'
<1>0. /\ DelegationTypes /\ doing[p] = "idle" /\ doing' = [doing EXCEPT ![p] = "exists"]
      /\ arg' = [arg EXCEPT ![p] = j] /\ asked' = [asked EXCEPT ![p] = wall]
      /\ due' = [due EXCEPT ![p] = retained[j]]
      /\ storeCalls' = storeCalls + 1
    BY Zenon DEF RevocationInv, StartVerify
<1>1. UNCHANGED <<wall, tokens, keys, skew, verified, store, retain, ttl, retained, late>>
    BY Zenon DEF StartVerify, issued
<1>2. /\ doing'[p] = "exists" /\ arg'[p] = j /\ asked'[p] = wall /\ due'[p] = retained[j]
      /\ \A q \in Processes \ {p} : /\ doing'[q] = doing[q] /\ arg'[q] = arg[q]
                                    /\ asked'[q] = asked[q] /\ due'[q] = due[q]
    BY <1>0, Zenon DEF DelegationTypes
<1>3. j \in Jtis /\ j \in Nat /\ wall \in Nat /\ retained[j] \in Nat /\ store[j] \in Nat
    BY <1>0, TokenOf, Zenon DEF DelegationTypes
<1>4. DelegationTypes'
    <2>1. /\ doing' \in [Processes -> {"idle", "exists", "script"}]
          /\ arg' \in [Processes -> Nat] /\ asked' \in [Processes -> Nat]
          /\ due' \in [Processes -> Nat]
        BY <1>0, <1>3, Zenon DEF DelegationTypes
    <2>2. \A q \in Processes : doing'[q] # "idle" => arg'[q] \in DOMAIN tokens'
        BY <1>0, <1>1, <1>2, Zenon DEF DelegationTypes
    <2>3. storeCalls' \in Nat
        BY <1>0 DEF DelegationTypes
    <2>. QED
        BY <1>0, <1>1, <2>1, <2>2, <2>3, Zenon DEF DelegationTypes, Jtis
<1>5. RevokesInFlight'
    BY <1>1, <1>2, Zenon DEF RevocationInv, RevokesInFlight
<1>6. RetainedByStore'
    BY <1>1, Zenon DEF RevocationInv, RetainedByStore, Jtis
<1>7. VerifiesInFlight'
    <2>1. ASSUME wall < 2 * retained[j]
          PROVE  store[j] >= wall + 2
        <3>1. store[j] >= 2 * retained[j] + 1 \/ 2 * retained[j] <= wall
            BY <1>3, Zenon DEF RevocationInv, RetainedByStore
        <3>. QED
            BY <1>3, <2>1, <3>1
    <2>2. ASSUME NEW q \in Processes \ {p}, doing'[q] = "exists", asked'[q] < 2 * due'[q]
          PROVE  store'[arg'[q]] >= asked'[q] + 2
        BY <1>1, <1>2, <2>2, Zenon DEF RevocationInv, VerifiesInFlight
    <2>. QED
        BY <1>1, <1>2, <2>1, <2>2, Zenon DEF VerifiesInFlight
<1>. QED
    BY <1>4, <1>5, <1>6, <1>7, Zenon DEF RevocationInv

\* What a call that returns leaves of its process.
LEMMA Returned ==
    ASSUME DelegationTypes, NEW p \in Processes, CallReturns(p)
    PROVE  /\ doing' \in [Processes -> {"idle", "exists", "script"}]
           /\ arg' \in [Processes -> Nat] /\ asked' \in [Processes -> Nat]
           /\ retain' \in [Processes -> Nat] /\ ttl' \in [Processes -> Nat]
           /\ due' \in [Processes -> Nat] /\ doing'[p] = "idle"
           /\ \A q \in Processes \ {p} :
                /\ doing'[q] = doing[q] /\ arg'[q] = arg[q] /\ asked'[q] = asked[q]
                /\ retain'[q] = retain[q] /\ ttl'[q] = ttl[q] /\ due'[q] = due[q]
<1>1. 0 \in Nat
    OBVIOUS
<1>. QED
    BY <1>1, Zenon DEF DelegationTypes, CallReturns

\* Every return preserves the invariant, as long as entries are only added or
\* extended, and what is newly acknowledged as retained has its entry.
LEMMA ReturnStep ==
    ASSUME RevocationInv, NEW p \in Processes, CallReturns(p),
           UNCHANGED <<wall, tokens, keys, skew, storeCalls>>,
           verified \subseteq verified', verified' \subseteq DOMAIN tokens,
           late' \subseteq DOMAIN tokens, retained' \in [Jtis -> Nat],
           store' \in [Jtis -> Nat], \A j \in Jtis : store'[j] >= store[j],
           \A j \in Jtis : retained'[j] = retained[j] \/ store'[j] >= 2 * retained'[j] + 1
    PROVE  RevocationInv'
<1>0. DelegationTypes
    BY Zenon DEF RevocationInv
<1>1. /\ doing' \in [Processes -> {"idle", "exists", "script"}]
      /\ arg' \in [Processes -> Nat] /\ asked' \in [Processes -> Nat]
      /\ retain' \in [Processes -> Nat] /\ ttl' \in [Processes -> Nat]
      /\ due' \in [Processes -> Nat] /\ doing'[p] = "idle"
      /\ \A q \in Processes \ {p} :
           /\ doing'[q] = doing[q] /\ arg'[q] = arg[q] /\ asked'[q] = asked[q]
           /\ retain'[q] = retain[q] /\ ttl'[q] = ttl[q] /\ due'[q] = due[q]
    BY <1>0, Returned, Zenon
<1>2. DelegationTypes'
    <2>1. \A q \in Processes : doing'[q] # "idle" => arg'[q] \in DOMAIN tokens'
        BY <1>0, <1>1, Zenon DEF DelegationTypes
    <2>. QED
        BY <1>0, <1>1, <2>1, Zenon DEF DelegationTypes, Jtis
<1>3. RevokesInFlight'
    BY <1>1, Zenon DEF RevocationInv, RevokesInFlight
<1>4. RetainedByStore'
    <2>1. SUFFICES ASSUME NEW j \in Jtis, retained'[j] = retained[j]
                   PROVE  store'[j] >= 2 * retained[j] + 1 \/ 2 * retained[j] <= wall
        BY Zenon DEF RetainedByStore, Jtis
    <2>2. store[j] >= 2 * retained[j] + 1 \/ 2 * retained[j] <= wall
        BY Zenon DEF RevocationInv, RetainedByStore
    <2>3. store[j] \in Nat /\ store'[j] \in Nat /\ retained[j] \in Nat /\ store'[j] >= store[j]
        BY <1>0, Zenon DEF DelegationTypes
    <2>. QED
        BY <2>2, <2>3
<1>5. VerifiesInFlight'
    <2>1. SUFFICES ASSUME NEW q \in Processes, doing'[q] = "exists", asked'[q] < 2 * due'[q]
                   PROVE  store'[arg'[q]] >= asked'[q] + 2
        BY Zenon DEF VerifiesInFlight
    <2>2. /\ q # p /\ doing[q] = "exists" /\ asked'[q] = asked[q] /\ arg'[q] = arg[q]
          /\ due'[q] = due[q]
        BY <1>1, <2>1, Zenon
    <2>3. store[arg[q]] >= asked[q] + 2
        BY <2>1, <2>2, Zenon DEF RevocationInv, VerifiesInFlight
    <2>4. arg[q] \in DOMAIN tokens
        BY <1>0, <2>2, Zenon DEF DelegationTypes
    <2>5. /\ store[arg[q]] \in Nat /\ store'[arg[q]] \in Nat /\ asked[q] \in Nat
          /\ store'[arg[q]] >= store[arg[q]]
        BY <1>0, <2>4, TokenOf, Zenon DEF DelegationTypes
    <2>6. store'[arg[q]] >= asked[q] + 2
        BY <2>3, <2>5
    <2>. QED
        BY <2>2, <2>6, Zenon
<1>. QED
    BY <1>2, <1>3, <1>4, <1>5, Zenon DEF RevocationInv

\* Accept and Reject write nothing to the store.
LEMMA AnswerStep ==
    ASSUME RevocationInv, NEW p \in Processes, Accept(p) \/ Reject(p)
    PROVE  RevocationInv'
<1>0. DelegationTypes /\ doing[p] = "exists" /\ CallReturns(p)
    BY Zenon DEF RevocationInv, Accept, Reject
<1>1. UNCHANGED <<wall, tokens, keys, skew, storeCalls, store, retained>>
    BY Zenon DEF Accept, Reject, issued
<1>2. arg[p] \in DOMAIN tokens
    BY <1>0, Zenon DEF DelegationTypes
<1>3. /\ verified \subseteq verified' /\ verified' \subseteq DOMAIN tokens
      /\ late' \subseteq DOMAIN tokens
    BY <1>0, <1>2, Zenon DEF DelegationTypes, Accept, Reject
<1>4. store' \in [Jtis -> Nat] /\ \A j \in Jtis : store'[j] >= store[j]
    BY <1>0, <1>1 DEF DelegationTypes
<1>5. retained' \in [Jtis -> Nat] /\ \A j \in Jtis : retained'[j] = retained[j]
    BY <1>0, <1>1, Zenon DEF DelegationTypes
<1>. QED
    BY <1>0, <1>1, <1>3, <1>4, <1>5, ReturnStep, Zenon

\* The script of a revoke leaves an entry that outlasts the deadline, and never
\* shortens the life of one: TTL rounds, by half a second at most.
LEMMA ScriptStores ==
    ASSUME RevocationInv, NEW p \in Processes, doing[p] = "script"
    PROVE  /\ Stored(p) \in [Jtis -> Nat]
           /\ \A j \in Jtis : Stored(p)[j] >= store[j]
           /\ arg[p] \in Jtis /\ retain[p] \in Nat /\ Stored(p)[arg[p]] >= 2 * retain[p] + 1
<1>0. DelegationTypes /\ wall \in Nat /\ store \in [Jtis -> Nat]
    BY Zenon DEF RevocationInv, DelegationTypes
<1>1. PICK i \in Jtis : i = arg[p]
    <2>1. arg[p] \in DOMAIN tokens
        BY <1>0, Zenon DEF DelegationTypes
    <2>. QED
        BY <1>0, <2>1, TokenOf, Zenon
<1>2. PICK u \in Nat, n \in Nat : u = retain[p] /\ n = ttl[p]
    BY <1>0, Zenon DEF DelegationTypes
<1>3. wall + 2 * n >= 2 * u + 2
    BY <1>2, Zenon DEF RevocationInv, RevokesInFlight
<1>4. PICK v \in Nat : v = wall + 2 * n
    BY <1>0
<1>5. v >= 2 * u + 1 /\ store[i] \in Nat
    BY <1>0, <1>3, <1>4
<1>6. CASE ~Present(i) \/ SecondsLeft(i) < n
    <2>1. Stored(p) = [store EXCEPT ![i] = v]
        BY <1>1, <1>2, <1>4, <1>6, Zenon DEF Stored
    <2>2. v >= store[i]
        <3>1. CASE ~Present(i)
            BY <1>0, <1>4, <1>5, <3>1 DEF Present
        <3>2. CASE SecondsLeft(i) < n
            <4>1. (store[i] - wall + 1) \div 2 < n
                BY <3>2, Zenon DEF SecondsLeft
            <4>2. PICK d \in Int : d = store[i] - wall + 1
                BY <1>0, <1>5
            <4>3. d \div 2 < n
                BY <4>1, <4>2, Zenon
            <4>4. d <= 2 * n
                BY <4>3
            <4>. QED
                BY <1>0, <1>4, <1>5, <4>2, <4>4
        <3>. QED
            BY <1>6, <3>1, <3>2, Zenon
    <2>3. Stored(p) \in [Jtis -> Nat]
        BY <1>0, <2>1, Zenon
    <2>4. Stored(p)[i] = v /\ \A j \in Jtis \ {i} : Stored(p)[j] = store[j]
        BY <1>0, <1>1, <2>1, Zenon
    <2>5. \A j \in Jtis : Stored(p)[j] >= store[j]
        BY <1>0, <2>2, <2>4
    <2>. QED
        BY <1>1, <1>2, <1>5, <2>3, <2>4, <2>5, Zenon
<1>7. CASE ~(~Present(i) \/ SecondsLeft(i) < n)
    <2>1. Stored(p) = store
        BY <1>1, <1>2, <1>7, Zenon DEF Stored
    <2>2. (store[i] - wall + 1) \div 2 >= n
        <3>1. (store[i] - wall + 1) \div 2 \in Int
            BY <1>0, <1>5
        <3>2. ~((store[i] - wall + 1) \div 2 < n)
            BY <1>7, Zenon DEF SecondsLeft
        <3>. QED
            BY <3>1, <3>2
    <2>3. store[i] - wall + 1 >= 2 * n
        <3>1. PICK d \in Int : d = store[i] - wall + 1
            BY <1>0, <1>5
        <3>2. d \div 2 >= n
            BY <2>2, <3>1, Zenon
        <3>3. d >= 2 * n
            BY <3>2
        <3>. QED
            BY <3>1, <3>3, Zenon
    <2>4. store[i] >= 2 * u + 1
        BY <1>0, <1>3, <1>5, <2>3
    <2>5. \A j \in Jtis : store[j] >= store[j]
        BY <1>0
    <2>. QED
        BY <1>0, <1>1, <1>2, <2>1, <2>4, <2>5, Zenon
<1>. QED
    BY <1>6, <1>7, Zenon

\* The latest deadline acknowledged is that of the revoke, or the one before.
LEMMA RetainedLatest ==
    ASSUME DelegationTypes, NEW j \in Jtis, NEW u \in Nat
    PROVE  /\ Retained(j, u) \in [Jtis -> Nat]
           /\ Retained(j, u)[j] = u \/ Retained(j, u)[j] = retained[j]
           /\ \A i \in Jtis \ {j} : Retained(j, u)[i] = retained[i]
BY Zenon DEF Retained, DelegationTypes

\* RevokeOk, and RevokeFails with the entry written or not.
LEMMA ScriptStep ==
    ASSUME RevocationInv, NEW p \in Processes, RevokeOk(p) \/ RevokeFails(p)
    PROVE  RevocationInv'
<1>0. DelegationTypes /\ doing[p] = "script" /\ CallReturns(p)
    BY Zenon DEF RevocationInv, RevokeOk, RevokeFails
<1>1. /\ UNCHANGED <<wall, tokens, keys, skew, storeCalls, verified, late>>
      /\ verified \subseteq DOMAIN tokens /\ late \subseteq DOMAIN tokens
    BY <1>0, Zenon DEF RevokeOk, RevokeFails, issued, DelegationTypes
<1>2. store' = store \/ store' = Stored(p)
    BY Zenon DEF RevokeOk, RevokeFails
<1>3. store' \in [Jtis -> Nat] /\ \A j \in Jtis : store'[j] >= store[j]
    <2>1. store \in [Jtis -> Nat] /\ \A j \in Jtis : store[j] >= store[j]
        BY <1>0 DEF DelegationTypes
    <2>. QED
        BY <1>0, <1>2, <2>1, ScriptStores, Zenon
<1>4. /\ retained' \in [Jtis -> Nat]
      /\ \A j \in Jtis : retained'[j] = retained[j] \/ store'[j] >= 2 * retained'[j] + 1
    <2>1. CASE RevokeOk(p)
        <3>1. retained' = Retained(arg[p], retain[p]) /\ store' = Stored(p)
            BY <2>1, Zenon DEF RevokeOk
        <3>2. /\ arg[p] \in Jtis /\ retain[p] \in Nat
              /\ Stored(p)[arg[p]] >= 2 * retain[p] + 1
            BY <1>0, ScriptStores, Zenon
        <3>3. PICK i \in Jtis, u \in Nat : i = arg[p] /\ u = retain[p]
            BY <3>2, Zenon
        <3>4. /\ retained' \in [Jtis -> Nat] /\ (retained'[i] = u \/ retained'[i] = retained[i])
              /\ \A j \in Jtis \ {i} : retained'[j] = retained[j]
            BY <1>0, <3>1, <3>3, RetainedLatest, Zenon
        <3>5. store'[i] >= 2 * u + 1
            BY <3>1, <3>2, <3>3, Zenon
        <3>. QED
            BY <3>4, <3>5, Zenon
    <2>2. CASE RevokeFails(p)
        BY <1>0, <2>2, Zenon DEF RevokeFails, DelegationTypes
    <2>. QED
        BY <2>1, <2>2, Zenon
<1>. QED
    BY <1>0, <1>1, <1>3, <1>4, ReturnStep, Zenon

\* A revoke asks for a second more than is left, or finds nothing left.
LEMMA StartRevokeStep ==
    ASSUME RevocationInv, NEW p \in Processes, NEW j \in DOMAIN tokens, StartRevoke(p, j)
    PROVE  RevocationInv'
<1>0. DelegationTypes /\ doing[p] = "idle" /\ j \in verified
    BY Zenon DEF RevocationInv, StartRevoke
<1>1. UNCHANGED <<wall, tokens, keys, skew, verified, store, asked, due, late>>
    BY Zenon DEF StartRevoke, issued
<1>2. /\ j \in Jtis /\ j \in Nat /\ Now \in Nat /\ wall \in Nat
      /\ 2 * Now <= wall /\ wall <= 2 * Now + 1
    BY <1>0, TokenOf, NowSecond, Zenon
<1>3. PICK u \in Nat : u = tokens[j].exp + skew
    BY <1>0, TokenOf, NowSecond
<1>4. CASE /\ u <= Now /\ retained' = Retained(j, u)
           /\ UNCHANGED <<storeCalls, doing, arg, retain, ttl>>
    <2>1. /\ retained' \in [Jtis -> Nat] /\ (retained'[j] = u \/ retained'[j] = retained[j])
          /\ \A i \in Jtis \ {j} : retained'[i] = retained[i]
        BY <1>0, <1>2, <1>4, RetainedLatest, Zenon
    <2>2. DelegationTypes'
        BY <1>0, <1>1, <1>4, <2>1, Zenon DEF DelegationTypes, Jtis
    <2>3. RevokesInFlight' /\ VerifiesInFlight'
        BY <1>1, <1>4, Zenon DEF RevocationInv, RevokesInFlight, VerifiesInFlight
    <2>4. 2 * u <= wall
        BY <1>2, <1>4
    <2>5. RetainedByStore'
        BY <1>1, <2>1, <2>4, Zenon DEF RevocationInv, RetainedByStore, Jtis
    <2>. QED
        BY <2>2, <2>3, <2>5, Zenon DEF RevocationInv
<1>5. CASE /\ u > Now /\ retained' = retained /\ storeCalls' = storeCalls + 1
           /\ doing' = [doing EXCEPT ![p] = "script"] /\ arg' = [arg EXCEPT ![p] = j]
           /\ retain' = [retain EXCEPT ![p] = u]
           /\ ttl' = [ttl EXCEPT ![p] = Retention(u - Now)]
    <2>1. PICK n \in Nat : n = Retention(u - Now)
        BY <1>2, <1>5 DEF Retention
    <2>2. /\ doing'[p] = "script" /\ arg'[p] = j /\ ttl'[p] = n /\ retain'[p] = u
          /\ \A q \in Processes \ {p} : /\ doing'[q] = doing[q] /\ arg'[q] = arg[q]
                                        /\ ttl'[q] = ttl[q] /\ retain'[q] = retain[q]
        BY <1>0, <1>5, <2>1, Zenon DEF DelegationTypes
    <2>3. DelegationTypes'
        <3>1. /\ doing' \in [Processes -> {"idle", "exists", "script"}]
              /\ arg' \in [Processes -> Nat] /\ ttl' \in [Processes -> Nat]
              /\ retain' \in [Processes -> Nat]
            BY <1>0, <1>2, <1>5, <2>1, Zenon DEF DelegationTypes
        <3>2. \A q \in Processes : doing'[q] # "idle" => arg'[q] \in DOMAIN tokens'
            BY <1>0, <1>1, <2>2, Zenon DEF DelegationTypes
        <3>3. storeCalls' \in Nat
            BY <1>0, <1>5 DEF DelegationTypes
        <3>. QED
            BY <1>0, <1>1, <1>5, <3>1, <3>2, <3>3, Zenon DEF DelegationTypes, Jtis
    <2>4. RevokesInFlight'
        <3>1. wall + 2 * n >= 2 * u + 2
            BY <1>2, <2>1 DEF Retention
        <3>. QED
            BY <1>0, <1>1, <2>2, <3>1, Zenon DEF RevocationInv, RevokesInFlight
    <2>5. RetainedByStore'
        BY <1>1, <1>5, Zenon DEF RevocationInv, RetainedByStore, Jtis
    <2>6. VerifiesInFlight'
        BY <1>0, <1>1, <2>2, Zenon DEF RevocationInv, VerifiesInFlight
    <2>. QED
        BY <2>3, <2>4, <2>5, <2>6, Zenon DEF RevocationInv
<1>. QED
    BY <1>3, <1>4, <1>5, Zenon DEF StartRevoke

\* A token that MintAttenuated issues, and the checks it passed.
LEMMA ChildIssued ==
    ASSUME DelegationTypes, NEW g \in Signers, NEW j \in DOMAIN tokens, NEW s \in Specs,
           MintAttenuated(g, j, s)
    PROVE  \E t \in TokenSet :
                /\ tokens' = Append(tokens, t) /\ Len(tokens) < MaxTokens
                /\ t.parent = j /\ t.signer = tokens[j].signer
                /\ t.exp <= tokens[j].exp /\ t.nbf = tokens[j].nbf
                /\ Narrows(t, tokens[j])
<1>1. PICK e \in Nat : e = Now + s.ttl
    BY NowSecond, SpecTyped
<1>2. PICK t : t = Token(j, g, s, e, tokens[j].nbf)
    BY Zenon
<1>3. t \in TokenSet
    BY <1>2, TokenOf, TokenTyped, Zenon
<1>4. /\ t.parent = j /\ t.signer = g /\ t.exp = e /\ t.nbf = tokens[j].nbf
      /\ t.actions = s.actions /\ t.patterns = s.patterns /\ t.constraints = s.constraints
    BY <1>2, Zenon DEF Token
<1>5. /\ tokens' = Append(tokens, t) /\ Len(tokens) < MaxTokens /\ g = tokens[j].signer
      /\ e <= tokens[j].exp /\ s.actions \subseteq tokens[j].actions
      /\ ResourcesInScope(tokens[j], s.patterns) /\ ConstraintsKept(tokens[j], s.constraints)
    BY <1>1, <1>2, Zenon DEF MintAttenuated, LifetimeWithin
<1>6. Narrows(t, tokens[j])
    BY <1>4, <1>5, SpecTyped, ChecksNarrow, Zenon
<1>. QED
    BY <1>3, <1>4, <1>5, <1>6, Zenon

\* A token that Mint issues has no parent.
LEMMA RootIssued ==
    ASSUME DelegationTypes, NEW g \in Signers, NEW s \in Specs, Mint(g, s)
    PROVE  \E t \in TokenSet :
                tokens' = Append(tokens, t) /\ Len(tokens) < MaxTokens /\ t.parent = 0
<1>1. PICK e \in Nat : e = Now + s.ttl
    BY NowSecond, SpecTyped
<1>2. Token(0, g, s, e, s.nbf) \in TokenSet
    BY SpecTyped, TokenTyped, Zenon
<1>3. Token(0, g, s, e, s.nbf).parent = 0
    BY Zenon DEF Token
<1>. QED
    BY <1>1, <1>2, <1>3, Zenon DEF Mint

\* Every step preserves the invariant.
LEMMA RevocationStep ==
    ASSUME RevocationInv, [DelegationNext]_delegationVars
    PROVE  RevocationInv'
<1>0. DelegationTypes
    BY Zenon DEF RevocationInv
<1>1. ASSUME NEW g \in Signers, NEW s \in Specs, Mint(g, s)
      PROVE  RevocationInv'
    <2>1. PICK t \in TokenSet : tokens' = Append(tokens, t) /\ Len(tokens) < MaxTokens
        BY <1>0, <1>1, RootIssued, Zenon
    <2>. QED
        BY <1>1, <2>1, AppendStep, Zenon DEF Mint
<1>2. ASSUME NEW g \in Signers, NEW s \in Specs, NEW j \in DOMAIN tokens,
             MintAttenuated(g, j, s)
      PROVE  RevocationInv'
    <2>1. PICK t \in TokenSet : tokens' = Append(tokens, t) /\ Len(tokens) < MaxTokens
        BY <1>0, <1>2, ChildIssued, Zenon
    <2>. QED
        BY <1>2, <2>1, AppendStep, Zenon DEF MintAttenuated
<1>3. ASSUME NEW g \in Signers, AddKey(g)
      PROVE  RevocationInv'
    <2>1. /\ keys' \in [Kids -> Signers \cup {NoSigner}] /\ skew' \in 0..MaxSkew
          /\ verified \subseteq DOMAIN tokens
        BY <1>0, <1>3, Zenon DEF AddKey, DelegationTypes, Kids
    <2>. QED
        BY <1>3, <2>1, VerifierStep, Zenon DEF AddKey
<1>4. CASE ClearKeys
    <2>1. /\ keys' \in [Kids -> Signers \cup {NoSigner}] /\ skew' \in 0..MaxSkew
          /\ verified \subseteq DOMAIN tokens
        BY <1>0, <1>4, Zenon DEF ClearKeys, DelegationTypes
    <2>. QED
        BY <1>4, <2>1, VerifierStep, Zenon DEF ClearKeys
<1>5. ASSUME NEW j \in DOMAIN tokens, NEW s \in Specs, Verify(j, s.aud)
      PROVE  RevocationInv'
    <2>1. /\ keys' \in [Kids -> Signers \cup {NoSigner}] /\ skew' \in 0..MaxSkew
          /\ verified \subseteq verified' /\ verified' \subseteq DOMAIN tokens
        BY <1>0, <1>5, Zenon DEF Verify, DelegationTypes, issued
    <2>. QED
        BY <1>5, <2>1, VerifierStep, Zenon DEF Verify, issued
<1>6. CASE UNCHANGED delegationVars
    <2>1. /\ keys' \in [Kids -> Signers \cup {NoSigner}] /\ skew' \in 0..MaxSkew
          /\ verified \subseteq verified' /\ verified' \subseteq DOMAIN tokens
        BY <1>0, <1>6, Zenon DEF delegationVars, issued, DelegationTypes
    <2>. QED
        BY <1>6, <2>1, VerifierStep, Zenon DEF delegationVars, issued
<1>7. ASSUME NEW n \in 0..MaxSkew, SetClockSkew(n)
      PROVE  RevocationInv'
    <2>1. /\ keys' \in [Kids -> Signers \cup {NoSigner}] /\ skew' \in 0..MaxSkew
          /\ verified \subseteq DOMAIN tokens
        BY <1>0, <1>7, Zenon DEF SetClockSkew, DelegationTypes
    <2>. QED
        BY <1>7, <2>1, VerifierStep, Zenon DEF SetClockSkew
<1>8. ASSUME NEW p \in Processes,
             Accept(p) \/ Reject(p) \/ RevokeOk(p) \/ RevokeFails(p)
      PROVE  RevocationInv'
    BY <1>8, AnswerStep, ScriptStep, Zenon
<1>. QED
    BY <1>1, <1>2, <1>3, <1>4, <1>5, <1>6, <1>7, <1>8, StartVerifyStep, StartRevokeStep,
       ElapseStep, Zenon DEF DelegationNext

\* The invariant holds in every reachable state.
LEMMA RevocationAlways == DelegationSpec => []RevocationInv
<1>1. DelegationInit => RevocationInv
    BY RevocationInit, Zenon
<1>2. RevocationInv /\ [DelegationNext]_delegationVars => RevocationInv'
    BY RevocationStep, Zenon
<1>. QED
    BY <1>1, <1>2, PTL DEF DelegationSpec

-----------------------------------------------------------------------------
(* Attenuation. *)

\* What Attenuation says of the token j.
ParentKept(j) ==
    tokens[j].parent # 0 =>
        LET child == tokens[j]
            parent == tokens[child.parent]
        IN  /\ child.parent < j
            /\ child.signer = parent.signer
            /\ child.exp <= parent.exp /\ child.nbf = parent.nbf
            /\ Narrows(child, parent)

\* No step but the mints adds a token, and none changes one.
LEMMA TokensGrow ==
    ASSUME DelegationTypes, [DelegationNext]_delegationVars
    PROVE  \/ UNCHANGED tokens
           \/ \E g \in Signers, s \in Specs :
                Mint(g, s) \/ \E j \in DOMAIN tokens : MintAttenuated(g, j, s)
BY Zenon
DEF DelegationNext, delegationVars, issued, AddKey, ClearKeys, SetClockSkew, Verify,
    StartVerify, Accept, Reject, RevokeOk, RevokeFails, StartRevoke, Elapse

\* A token that keeps its parent's bounds goes on to do so when another is issued.
LEMMA ParentsStayKept ==
    ASSUME DelegationTypes, NEW t \in TokenSet, tokens' = Append(tokens, t),
           Len(tokens) < MaxTokens, NEW j \in DOMAIN tokens, ParentKept(j)
    PROVE  ParentKept(j)'
<1>1. DOMAIN tokens = 1..Len(tokens) /\ Len(tokens) \in Nat /\ tokens[j].parent \in Nat
    <2>1. tokens \in Seq(TokenSet)
        BY Zenon DEF DelegationTypes
    <2>2. DOMAIN tokens = 1..Len(tokens) /\ Len(tokens) \in Nat
        BY <2>1
    <2>3. tokens[j] \in TokenSet
        BY TokenOf, Zenon
    <2>4. tokens[j].parent \in Nat
        BY <2>3 DEF TokenSet
    <2>. QED
        BY <2>2, <2>4, Zenon
<1>2. tokens'[j] = tokens[j] /\ \A i \in DOMAIN tokens : tokens'[i] = tokens[i]
    BY Appended, Zenon
<1>3. CASE tokens[j].parent = 0
    BY <1>2, <1>3, Zenon DEF ParentKept
<1>4. CASE tokens[j].parent # 0
    <2>1. tokens[j].parent < j
        BY <1>4, Zenon DEF ParentKept
    <2>2. tokens[j].parent \in DOMAIN tokens
        BY <1>1, <1>4, <2>1
    <2>3. tokens'[tokens[j].parent] = tokens[tokens[j].parent]
        BY <1>2, <2>2, Zenon
    <2>. QED
        BY <1>2, <2>3, Zenon DEF ParentKept, Narrows, Covers
<1>. QED
    BY <1>3, <1>4, Zenon

\* Every step preserves the bounds of every token.
LEMMA AttenuationStep ==
    ASSUME DelegationTypes, [DelegationNext]_delegationVars, \A j \in DOMAIN tokens : ParentKept(j)
    PROVE  \A j \in DOMAIN tokens' : ParentKept(j)'
<1>1. CASE UNCHANGED tokens
    BY <1>1 DEF ParentKept, Narrows, Covers
<1>2. ASSUME NEW g \in Signers, NEW s \in Specs, Mint(g, s)
      PROVE  \A j \in DOMAIN tokens' : ParentKept(j)'
    <2>1. PICK t \in TokenSet :
                tokens' = Append(tokens, t) /\ Len(tokens) < MaxTokens /\ t.parent = 0
        BY <1>2, RootIssued, Zenon
    <2>2. /\ DOMAIN tokens' = DOMAIN tokens \cup {Len(tokens) + 1}
          /\ tokens'[Len(tokens) + 1] = t
        BY <2>1, Appended, Zenon
    <2>3. PICK n : n = Len(tokens) + 1
        BY Zenon
    <2>4. ParentKept(n)'
        BY <2>1, <2>2, <2>3, Zenon DEF ParentKept
    <2>5. \A j \in DOMAIN tokens : ParentKept(j)'
        BY <2>1, ParentsStayKept, Zenon
    <2>. QED
        BY <2>2, <2>3, <2>4, <2>5, Zenon
<1>3. ASSUME NEW g \in Signers, NEW s \in Specs, NEW i \in DOMAIN tokens,
             MintAttenuated(g, i, s)
      PROVE  \A j \in DOMAIN tokens' : ParentKept(j)'
    <2>1. PICK t \in TokenSet :
                /\ tokens' = Append(tokens, t) /\ Len(tokens) < MaxTokens
                /\ t.parent = i /\ t.signer = tokens[i].signer
                /\ t.exp <= tokens[i].exp /\ t.nbf = tokens[i].nbf
                /\ Narrows(t, tokens[i])
        BY <1>3, ChildIssued, Zenon
    <2>2. /\ DOMAIN tokens' = DOMAIN tokens \cup {Len(tokens) + 1}
          /\ tokens'[Len(tokens) + 1] = t /\ tokens'[i] = tokens[i]
        BY <2>1, Appended, Zenon
    <2>3. PICK n : n = Len(tokens) + 1
        BY Zenon
    <2>4. i < n
        <3>1. tokens \in Seq(TokenSet)
            BY Zenon DEF DelegationTypes
        <3>. QED
            BY <2>3, <3>1
    <2>5. ParentKept(n)'
        BY <2>1, <2>2, <2>3, <2>4, Zenon DEF ParentKept, Narrows, Covers
    <2>6. \A j \in DOMAIN tokens : ParentKept(j)'
        BY <2>1, ParentsStayKept, Zenon
    <2>. QED
        BY <2>2, <2>3, <2>5, <2>6, Zenon
<1>. QED
    BY <1>1, <1>2, <1>3, TokensGrow, Zenon

\* A grant from mint_attenuated never outlives or broadens its parent
\* (delegation.rs:461), for any patterns, constraints and specifications of
\* grants: the checks of mint_attenuated suffice, of which that of a literal
\* needs that a literal pattern matches only itself.
THEOREM ChildrenNeverBroaden == DelegationSpec => []Attenuation
<1> DEFINE Kept == \A j \in DOMAIN tokens : ParentKept(j)
<1>1. DelegationInit => Kept
    BY DEF DelegationInit
<1>2. RevocationInv /\ Kept /\ [DelegationNext]_delegationVars => Kept'
    BY AttenuationStep, Zenon DEF RevocationInv
<1>3. RevocationInv /\ Kept => Attenuation
    BY Zenon DEF RevocationInv, Attenuation, ParentKept
<1> HIDE DEF Kept
<1>. QED
    BY <1>1, <1>2, <1>3, RevocationAlways, PTL DEF DelegationSpec

-----------------------------------------------------------------------------
(* Revocation. *)

\* The store keeps a revocation until its deadline (delegation.rs:23), whatever
\* answers of the store were lost, retried or overtaken, however many verifiers
\* and revokers there are and whatever their skews: until then no verify accepts
\* the token unless the store took a second or more to answer it, the second
\* that Retention adds to what is left.
THEOREM RevocationIsRetained == DelegationSpec => RevokedStaysRevoked
<1> DEFINE AcceptedLate ==
        \A p \in Processes : Accept(p) /\ asked[p] < 2 * due[p] => wall >= asked[p] + 2
<1>1. ASSUME RevocationInv
      PROVE  AcceptedLate
    <2>1. SUFFICES ASSUME NEW p \in Processes, Accept(p), asked[p] < 2 * due[p]
                   PROVE  wall >= asked[p] + 2
        OBVIOUS
    <2>2. DelegationTypes /\ doing[p] = "exists" /\ ~(store[arg[p]] > wall)
        BY <1>1, <2>1, Zenon DEF RevocationInv, Accept, Present
    <2>3. store[arg[p]] >= asked[p] + 2
        BY <1>1, <2>1, <2>2, Zenon DEF RevocationInv, VerifiesInFlight
    <2>4. arg[p] \in DOMAIN tokens
        BY <2>2, Zenon DEF DelegationTypes
    <2>5. store[arg[p]] \in Nat /\ asked[p] \in Nat /\ wall \in Nat
        BY <2>2, <2>4, TokenOf, Zenon DEF DelegationTypes
    <2>. QED
        BY <2>2, <2>3, <2>5
<1>2. RevocationInv /\ [DelegationNext]_delegationVars => [AcceptedLate]_delegationVars
    BY <1>1
<1> HIDE DEF AcceptedLate
<1>3. DelegationSpec => [][AcceptedLate]_delegationVars
    BY <1>2, RevocationAlways, PTL DEF DelegationSpec
<1>. QED
    BY <1>3, Zenon DEF RevokedStaysRevoked, AcceptedLate
=============================================================================
