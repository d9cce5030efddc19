----------------------------- MODULE Delegation -----------------------------
(***************************************************************************)
(* Delegation tokens (agentguard-core/src/delegation.rs) and their shared  *)
(* revocation store (agentguard-redis-store/src/lib.rs): signers mint      *)
(* grants and attenuate them into child grants, verifiers check them and   *)
(* ask the store, and grants are revoked while others verify them.         *)
(*                                                                         *)
(* Time passes in half seconds, so that what happens within one Unix       *)
(* second is told apart; the code reads whole seconds.  The store executes *)
(* a command at some moment between the request and the answer, either of  *)
(* which may get lost.  Signatures are taken to be unforgeable.  How a     *)
(* pattern matches and when a constraint holds is left to the constants    *)
(* Match and Holds, which the module Matching gives a value.               *)
(***************************************************************************)
EXTENDS Integers, Sequences, FiniteSets

CONSTANTS
    Processes,      \* callers of verify_with_revocation_store and revoke
    Signers,        \* signing keys
    Kid(_),         \* their key ids, not necessarily different
    Specs,          \* what is asked of a mint: the fields of DelegationSpec, and
                    \* the nbf a mint_with callback sets, 0 for none
    Actions, Resources, Facts,
    Literals,       \* the patterns without a `*'
    Match(_, _),    \* glob_match
    Holds(_, _),    \* has_typed_inputs and evaluate
    MaxTokens,      \* bound on the tokens minted
    MaxWall,        \* bound on the clock, in half seconds
    MaxStoreCalls,  \* bound on the calls to the store
    Timeout,        \* how long, in half seconds, the client waits for an answer
    DefaultSkew,    \* the clock skew a verifier starts with, in seconds
    MaxSkew,        \* bound on the skew a verifier is given
    NoConstraints, NoSigner

Patterns == UNION {s.patterns : s \in Specs}

ASSUME DelegationAssumption ==
    /\ MaxTokens \in Nat /\ MaxWall \in Nat /\ MaxStoreCalls \in Nat
    /\ Timeout \in Nat /\ MaxSkew \in Nat /\ DefaultSkew \in 0..MaxSkew
    /\ NoSigner \notin Signers
    /\ \A s \in Specs : s.ttl \in Nat /\ s.nbf \in Nat /\ s.actions \subseteq Actions
    /\ Literals \subseteq Resources
    /\ \A p \in Patterns \cap Literals, r \in Resources : Match(p, r) <=> p = r

VARIABLES
    wall,       \* half seconds
    tokens,     \* the tokens minted; the jti of a token is its index
    keys,       \* DelegationVerifier.keys, by key id
    skew,       \* DelegationVerifier.clock_skew
    verified,   \* tokens somebody holds a VerifiedDelegation of
    store,      \* when the store drops its entry for each jti, 0 without one
    storeCalls, \* calls to the store so far
    doing, arg, \* the step of each process, and the jti it is about
    asked,      \* when its verify read the clock
    retain, ttl,    \* the retain_until_unix of its revoke, the seconds it asks for
    \* history: the latest retain_until_unix of the revokes of each token that
    \* have returned Ok, 0 without one; what it was when a verify began; and the
    \* tokens that were accepted all the same
    retained, due, late

issued == <<tokens, keys, skew>>
process == <<doing, arg, asked, retain, ttl, due>>
delegationVars == <<wall, issued, verified, store, storeCalls, process, retained, late>>

Kids == {Kid(s) : s \in Signers}
Jtis == 1..MaxTokens

\* chrono::Utc::now and SystemTime::now, in seconds.
Now == wall \div 2

DelegationInit ==
    /\ wall = 0 /\ tokens = <<>> /\ skew = DefaultSkew
    /\ keys = [k \in Kids |-> NoSigner]
    /\ verified = {} /\ retained = [j \in Jtis |-> 0] /\ late = {}
    /\ store = [j \in Jtis |-> 0] /\ storeCalls = 0
    /\ doing = [p \in Processes |-> "idle"] /\ arg = [p \in Processes |-> 0]
    /\ asked = [p \in Processes |-> 0] /\ retain = [p \in Processes |-> 0]
    /\ ttl = [p \in Processes |-> 0] /\ due = [p \in Processes |-> 0]

-----------------------------------------------------------------------------
(* Minting. *)

Expressions(c) == IF c = NoConstraints THEN {} ELSE c

\* What a grant lets its subject do.
Covers(g, action, resource, facts) ==
    /\ action \in g.actions
    /\ \E p \in g.patterns : Match(p, resource)
    /\ \A c \in Expressions(g.constraints) : Holds(c, facts)

Token(parent, signer, s, exp, nbf) ==
    [parent |-> parent, signer |-> signer, aud |-> s.aud, actions |-> s.actions,
     patterns |-> s.patterns, constraints |-> s.constraints,
     iat |-> Now, exp |-> exp, nbf |-> nbf]

\* mint_with: the callback may set nbf and constraints.  No authority is
\* checked.
Mint(signer, s) ==
    /\ Len(tokens) < MaxTokens
    /\ tokens' = Append(tokens, Token(0, signer, s, Now + s.ttl, s.nbf))
    /\ UNCHANGED <<wall, keys, skew, verified, store, storeCalls, process, retained, late>>

\* Mutant: one resource within the parent's scope is enough.
ResourceInScopeSome(parent, patterns) ==
    \E c \in patterns :
        IF c \in Literals THEN \E p \in parent.patterns : Match(p, c)
                          ELSE c \in parent.patterns

\* A literal must match a pattern of the parent, another pattern be one.
ResourcesInScope(parent, patterns) ==
    \A c \in patterns :
        IF c \in Literals THEN \E p \in parent.patterns : Match(p, c)
                          ELSE c \in parent.patterns

ConstraintsKept(parent, constraints) ==
    parent.constraints # NoConstraints =>
        constraints # NoConstraints /\ parent.constraints \subseteq constraints

LifetimeWithin(parent, exp) == exp <= parent.exp

\* mint_attenuated, by the key the parent was verified with.
MintAttenuated(signer, j, s) ==
    LET parent == tokens[j]
        exp == Now + s.ttl
    IN  /\ Len(tokens) < MaxTokens
        /\ j \in verified /\ signer = parent.signer
        /\ parent.exp > Now /\ LifetimeWithin(parent, exp)
        /\ s.actions \subseteq parent.actions
        /\ ResourcesInScope(parent, s.patterns)
        /\ ConstraintsKept(parent, s.constraints)
        /\ parent.nbf = 0 \/ parent.nbf < exp
        /\ tokens' = Append(tokens, Token(j, signer, s, exp, parent.nbf))
        /\ UNCHANGED <<wall, keys, skew, verified, store, storeCalls, process, retained, late>>

-----------------------------------------------------------------------------
(* Verifying. *)

\* add_key replaces the key under its id; clear removes all.
AddKey(s) ==
    /\ keys' = [keys EXCEPT ![Kid(s)] = s]
    /\ keys # keys'
    /\ UNCHANGED <<wall, tokens, skew, verified, store, storeCalls, process, retained, late>>

ClearKeys ==
    /\ \E k \in Kids : keys[k] # NoSigner
    /\ keys' = [k \in Kids |-> NoSigner]
    /\ UNCHANGED <<wall, tokens, skew, verified, store, storeCalls, process, retained, late>>

\* set_clock_skew_seconds: verifiers may have different ones, and change them.
SetClockSkew(n) ==
    /\ n # skew
    /\ skew' = n
    /\ UNCHANGED <<wall, tokens, keys, verified, store, storeCalls, process, retained, late>>

Expired(t) == t.exp + skew <= Now

\* verify succeeds for the audience aud: the registered key made the
\* signature, and the time claims are in order.
Verifies(t, aud) ==
    /\ keys[Kid(t.signer)] = t.signer
    /\ t.exp > t.iat /\ (t.nbf = 0 \/ t.nbf < t.exp)
    /\ t.iat <= Now + skew /\ ~Expired(t) /\ t.nbf <= Now + skew
    /\ t.aud = aud

\* verify without a revocation store.
Verify(j, aud) ==
    /\ j \in DOMAIN tokens \ verified /\ Verifies(tokens[j], aud)
    /\ verified' = verified \cup {j}
    /\ UNCHANGED <<wall, issued, store, storeCalls, process, retained, late>>

\* verify_with_revocation_store: verify succeeds and EXISTS is sent.
StartVerify(p, j, aud) ==
    /\ doing[p] = "idle" /\ storeCalls < MaxStoreCalls
    /\ j \in DOMAIN tokens /\ Verifies(tokens[j], aud)
    /\ storeCalls' = storeCalls + 1
    /\ doing' = [doing EXCEPT ![p] = "exists"]
    /\ arg' = [arg EXCEPT ![p] = j]
    /\ asked' = [asked EXCEPT ![p] = wall]
    /\ due' = [due EXCEPT ![p] = retained[j]]
    /\ UNCHANGED <<wall, issued, verified, store, retain, ttl, retained, late>>

Present(j) == store[j] > wall

\* The call of p returns.
CallReturns(p) ==
    /\ doing' = [doing EXCEPT ![p] = "idle"] /\ arg' = [arg EXCEPT ![p] = 0]
    /\ asked' = [asked EXCEPT ![p] = 0] /\ due' = [due EXCEPT ![p] = 0]
    /\ retain' = [retain EXCEPT ![p] = 0] /\ ttl' = [ttl EXCEPT ![p] = 0]

\* The store has no entry, and its answer is in time: the token is accepted.
Accept(p) ==
    /\ doing[p] = "exists" /\ ~Present(arg[p]) /\ wall <= asked[p] + Timeout
    /\ verified' = verified \cup {arg[p]}
    /\ late' = IF due[p] > 0 THEN late \cup {arg[p]} ELSE late
    /\ CallReturns(p)
    /\ UNCHANGED <<wall, issued, store, storeCalls, retained>>

\* The store has an entry, or the command fails or times out: the call fails.
Reject(p) ==
    /\ doing[p] = "exists"
    /\ CallReturns(p)
    /\ UNCHANGED <<wall, issued, verified, store, storeCalls, retained, late>>

-----------------------------------------------------------------------------
(* Revoking. *)

\* Mutant: the retention ends with the last second of the grant.
RetentionExact(remaining) == remaining

\* One second more than remains.
Retention(remaining) == remaining + 1

\* A revoke that asked for a retention until then has returned Ok.
Retained(j, until) ==
    [retained EXCEPT ![j] = IF until > @ THEN until ELSE @]

\* revoke: the retention includes the verifier's skew; nothing is stored for a
\* grant past it.
StartRevoke(p, j) ==
    LET until == tokens[j].exp + skew
    IN  /\ doing[p] = "idle" /\ j \in verified
        /\ \/ /\ until <= Now
              /\ retained' = Retained(j, until)
              /\ UNCHANGED <<storeCalls, doing, arg, retain, ttl>>
           \/ /\ until > Now /\ storeCalls < MaxStoreCalls
              /\ storeCalls' = storeCalls + 1
              /\ doing' = [doing EXCEPT ![p] = "script"]
              /\ arg' = [arg EXCEPT ![p] = j]
              /\ retain' = [retain EXCEPT ![p] = until]
              /\ ttl' = [ttl EXCEPT ![p] = Retention(until - Now)]
              /\ UNCHANGED retained
        /\ UNCHANGED <<wall, issued, verified, store, asked, due, late>>

\* The TTL command of Redis: the seconds left, rounded.
SecondsLeft(j) == (store[j] - wall + 1) \div 2

\* The script sets the entry unless it already lasts as long.
Stored(p) ==
    LET j == arg[p]
    IN  IF ~Present(j) \/ SecondsLeft(j) < ttl[p]
        THEN [store EXCEPT ![j] = wall + 2 * ttl[p]] ELSE store

\* The script runs and its answer arrives.
RevokeOk(p) ==
    /\ doing[p] = "script"
    /\ store' = Stored(p)
    /\ retained' = Retained(arg[p], retain[p])
    /\ CallReturns(p)
    /\ UNCHANGED <<wall, issued, verified, storeCalls, late>>

\* The request or the answer is lost, or the command is refused.
RevokeFails(p) ==
    /\ doing[p] = "script"
    /\ store' \in {store, Stored(p)}
    /\ CallReturns(p)
    /\ UNCHANGED <<wall, issued, verified, storeCalls, retained, late>>

Elapse ==
    /\ wall < MaxWall
    /\ wall' = wall + 1
    /\ UNCHANGED <<issued, verified, store, storeCalls, process, retained, late>>

DelegationNext ==
    \/ \E g \in Signers, s \in Specs :
        \/ Mint(g, s)
        \/ \E j \in DOMAIN tokens : MintAttenuated(g, j, s)
    \/ \E g \in Signers : AddKey(g)
    \/ ClearKeys
    \/ \E n \in 0..MaxSkew : SetClockSkew(n)
    \/ \E j \in DOMAIN tokens, s \in Specs :
        \/ Verify(j, s.aud)
        \/ \E p \in Processes : StartVerify(p, j, s.aud)
    \/ \E p \in Processes :
        \/ Accept(p) \/ Reject(p) \/ RevokeOk(p) \/ RevokeFails(p)
        \/ \E j \in DOMAIN tokens : StartRevoke(p, j)
    \/ Elapse

DelegationSpec == DelegationInit /\ [][DelegationNext]_delegationVars

-----------------------------------------------------------------------------
TokenSet ==
    [parent : Nat, signer : Signers, aud : {s.aud : s \in Specs},
     actions : SUBSET Actions, patterns : SUBSET Patterns,
     constraints : {s.constraints : s \in Specs}, iat : Nat, exp : Nat, nbf : Nat]

DelegationTypes ==
    /\ wall \in Nat /\ storeCalls \in Nat /\ skew \in 0..MaxSkew
    /\ tokens \in Seq(TokenSet) /\ Len(tokens) <= MaxTokens
    /\ keys \in [Kids -> Signers \cup {NoSigner}]
    /\ verified \subseteq DOMAIN tokens /\ late \subseteq DOMAIN tokens
    /\ store \in [Jtis -> Nat] /\ retained \in [Jtis -> Nat]
    /\ doing \in [Processes -> {"idle", "exists", "script"}]
    /\ arg \in [Processes -> Nat] /\ asked \in [Processes -> Nat]
    /\ retain \in [Processes -> Nat] /\ ttl \in [Processes -> Nat]
    /\ due \in [Processes -> Nat]
    /\ \A p \in Processes : doing[p] # "idle" => arg[p] \in DOMAIN tokens

Narrows(child, parent) ==
    \A a \in Actions, r \in Resources, f \in Facts :
        Covers(child, a, r, f) => Covers(parent, a, r, f)

\* A grant from mint_attenuated "cannot outlive or broaden" its parent
\* (delegation.rs:461): whatever it allows its subject, its parent allows, and
\* it ends no later; so the same goes for all its ancestors.
Attenuation ==
    /\ DelegationTypes
    /\ \A j \in DOMAIN tokens : tokens[j].parent # 0 =>
        LET child == tokens[j]
            parent == tokens[child.parent]
        IN  /\ child.parent < j
            /\ child.signer = parent.signer
            /\ child.exp <= parent.exp /\ child.nbf = parent.nbf
            /\ Narrows(child, parent)

\* The store keeps a revocation until retain_until_unix, and the second that the
\* adapter adds covers the store's way to answer (delegation.rs:23, lib.rs:176):
\* a token whose revoke had returned Ok when a verify began, at a time before
\* that deadline, is accepted by it only if the store took a second or more,
\* whatever answers were lost, and however skews differ and change.
RevokedStaysRevoked ==
    [][\A p \in Processes :
          Accept(p) /\ asked[p] < 2 * due[p] => wall >= asked[p] + 2]_delegationVars

\* "Mark a token id revoked until its signature can no longer be accepted"
\* (delegation.rs:28): no verify that began after a revoke had returned Ok
\* accepts the token.  A verifier with a larger skew accepts it when the
\* revocation is no longer retained; so does one whose EXISTS is executed more
\* than a second after it read the clock, within the client's timeout.
RevokedUntilUnacceptable == late = {}
=============================================================================
