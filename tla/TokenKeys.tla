----------------------------- MODULE TokenKeys -----------------------------
(***************************************************************************)
(* The key registry (agentguard-core/src/auth_keys.rs) and the validator   *)
(* of JSON Web Tokens built on it (agentguard-auth/src/jwt.rs, oidc.rs):   *)
(* keys are added, rotated with a grace period and evicted at the cap,     *)
(* OIDC discovery makes a validator, and a background task keeps adding    *)
(* the keys of the issuer's JWKS document, one at a time, while callers    *)
(* add keys of their own.                                                  *)
(*                                                                         *)
(* A registry is either used directly, with add and rotate, or belongs to  *)
(* a validator, which never rotates.  Registry operations run under its    *)
(* lock.  A document is fetched in one step; its keys are added in later   *)
(* ones.  Refreshes of one validator do not overlap.                       *)
(***************************************************************************)
EXTENDS Integers, Sequences, FiniteSets

CONSTANTS
    Kids, Keys, Algs,
    EdDSA,          \* the one algorithm the JWKS code registers
    Cap,            \* cap of the registry, and limit on the keys of a document
    Graces,         \* grace periods given to rotate
    Documents,      \* the documents the issuer publishes, one after the other
    OwnKids,        \* ids callers of a validator add keys under
    Thumbprint(_),  \* the key id derived from a key published without one
    Tokens,         \* tokens signed with keys of Keys
    Skew,           \* clock_skew
    IntMax,         \* the largest signed integer
    MaxAttempts,    \* attempts of discovery
    MaxOps,         \* bound on the calls of add and rotate
    MaxTime,        \* bound on the clock
    NoKid, NoExp

NoGrace == -1

\* A key of a JWKS document, with the id NoKid when it has none.
ListedKey == [kid : Kids \cup {NoKid}, key : Keys, alg : Algs, decodes : BOOLEAN]

ASSUME TokenKeysAssumption ==
    /\ Cap \in Nat \ {0} /\ Skew \in Nat /\ MaxOps \in Nat /\ MaxTime \in Nat
    /\ IntMax \in Nat /\ MaxAttempts \in Nat \ {0}
    /\ Graces \subseteq Nat /\ EdDSA \in Algs /\ NoKid \notin Kids
    /\ IsFiniteSet(Kids)
    /\ Documents \in Seq(Seq(ListedKey)) /\ Documents # <<>>
    /\ \A key \in Keys : Thumbprint(key) \in Kids
    /\ \A t \in Tokens : t.exp \in {NoExp} \cup (-IntMax - 1)..IntMax

VARIABLES
    entries,    \* KeyRegistry.inner: the entries of each key id, {} without
    order,      \* KeyRegistry.order
    clock, ops,
    deadline,   \* when the grace given by the last rotate of each id ends
    phase,      \* "direct", or of a validator: "discover", "backoff", "load",
                \* "ready", "failed"
    attempt,    \* attempts of discovery so far
    published,  \* the document at the jwks_uri
    applying,   \* the document a refresh is adding, 0 between refreshes
    todo,       \* the keys of it still to add
    applied     \* the document the last complete refresh added, 0 before one

registry == <<entries, order>>
jwks == <<phase, attempt, published, applying, todo, applied>>
vars == <<registry, clock, ops, deadline, jwks>>

Entry == [alg : Algs, key : Keys, grace : Int]

Init ==
    /\ entries = [k \in Kids |-> {}] /\ order = <<>>
    /\ clock = 0 /\ ops = 0 /\ deadline = [k \in Kids |-> 0]
    /\ phase \in {"direct", "discover", "ready"} /\ attempt = 0
    /\ published = 1 /\ applying = 0 /\ todo = <<>> /\ applied = 0

-----------------------------------------------------------------------------
(* The registry. *)

Registered == {k \in Kids : entries[k] # {}}

\* How many ids reserve_kid_slot evicts, from the front of order.
Evictions(k) ==
    IF k \in Registered \/ Cardinality(Registered) < Cap THEN 0
    ELSE Cardinality(Registered) - Cap + 1

\* Mutant: evicts from the back.
RemainingOldest(k) == SubSeq(order, 1, Len(order) - Evictions(k))

\* The ids that stay: the oldest are evicted.
Remaining(k) == SubSeq(order, Evictions(k) + 1, Len(order))

Evicted(k) == Registered \ {Remaining(k)[i] : i \in DOMAIN Remaining(k)}

\* reserve_kid_slot: an id that is registered keeps its place.
ReserveKidSlot(k) == order' = IF k \in Registered THEN order ELSE Append(Remaining(k), k)

\* Mutant: every entry of the algorithm stays.
KeptAll(es, alg) == es

\* add drops the active entries of the algorithm.
Kept(es, alg) == {e \in es : ~(e.alg = alg /\ e.grace = NoGrace)}

New(alg, key) == [alg |-> alg, key |-> key, grace |-> NoGrace]

Add(k, alg, key) ==
    /\ ReserveKidSlot(k)
    /\ entries' = [j \in Kids |->
            IF j = k THEN Kept(entries[k], alg) \cup {New(alg, key)}
            ELSE IF j \in Evicted(k) THEN {} ELSE entries[j]]

\* rotate gives all previous entries the same grace.
InGrace(es, until) == {[e EXCEPT !.grace = until] : e \in es}

RotateKeys(k, alg, key, grace) ==
    /\ ReserveKidSlot(k)
    /\ entries' = [j \in Kids |->
            IF j = k THEN InGrace(entries[k], clock + grace) \cup {New(alg, key)}
            ELSE IF j \in Evicted(k) THEN {} ELSE entries[j]]

\* Mutant: the grace includes the moment it ends.
LiveInclusive(e) == e.grace = NoGrace \/ e.grace >= clock

Live(e) == e.grace = NoGrace \/ e.grace > clock

\* get: the keys of an id and algorithm whose grace has not ended.
Get(k, alg) == {e.key : e \in {x \in entries[k] : x.alg = alg /\ Live(x)}}

\* KeyRegistry::add, or JwtValidator::add_key.
AddKey(k, alg, key) ==
    /\ ops < MaxOps
    /\ phase = "direct" \/ (phase = "ready" /\ k \in OwnKids)
    /\ Add(k, alg, key)
    /\ ops' = ops + 1
    /\ UNCHANGED <<clock, deadline, jwks>>

Rotate(k, alg, key, grace) ==
    /\ ops < MaxOps /\ phase = "direct"
    /\ RotateKeys(k, alg, key, grace)
    /\ ops' = ops + 1
    /\ deadline' = [deadline EXCEPT ![k] = clock + grace]
    /\ UNCHANGED <<clock, jwks>>

-----------------------------------------------------------------------------
(* Discovery and refresh. *)

\* A transient failure is tried again while attempts are left.
Retries == attempt + 1 < MaxAttempts

\* The counter stops where it no longer matters.
Counted == IF attempt < MaxAttempts THEN attempt + 1 ELSE attempt

\* discover: a 5xx answer, a timeout or a failure to connect.
DiscoverFailsTransiently ==
    /\ phase = "discover"
    /\ attempt' = Counted
    /\ phase' = IF Retries THEN "backoff" ELSE "failed"
    /\ UNCHANGED <<registry, clock, ops, deadline, published, applying, todo, applied>>

Backoff ==
    /\ phase = "backoff"
    /\ phase' = "discover"
    /\ UNCHANGED <<registry, clock, ops, deadline, attempt, published, applying, todo, applied>>

\* Another status, an unreadable document, or another issuer.
DiscoverFails ==
    /\ phase = "discover"
    /\ phase' = "failed"
    /\ UNCHANGED <<registry, clock, ops, deadline, attempt, published, applying, todo, applied>>

\* The metadata of the configured issuer: refresh_jwks is next.
DiscoverOk ==
    /\ phase = "discover"
    /\ phase' = "load"
    /\ UNCHANGED <<registry, clock, ops, deadline, attempt, published, applying, todo, applied>>

\* The issuer publishes its next document.
Publish ==
    /\ phase # "direct" /\ published < Len(Documents)
    /\ published' = published + 1
    /\ UNCHANGED <<registry, clock, ops, deadline, phase, attempt, applying, todo, applied>>

\* refresh_jwks has fetched a document that is not too long.
StartRefresh ==
    /\ phase \in {"load", "ready"} /\ applying = 0
    /\ Len(Documents[published]) <= Cap
    /\ applying' = published /\ todo' = Documents[published]
    /\ UNCHANGED <<registry, clock, ops, deadline, phase, attempt, published, applied>>

\* The fetch fails or the document is refused: discovery gives up; the
\* background task tries again at its next tick.
LoadFails ==
    /\ phase = "load" /\ applying = 0
    /\ phase' = "failed"
    /\ UNCHANGED <<registry, clock, ops, deadline, attempt, published, applying, todo, applied>>

KidOf(listed) == IF listed.kid = NoKid THEN Thumbprint(listed.key) ELSE listed.kid

\* A listed key of another algorithm, or that does not decode, is skipped.
Usable(listed) == listed.alg = EdDSA /\ listed.decodes

AddListed ==
    /\ applying # 0 /\ todo # <<>>
    /\ LET listed == Head(todo)
       IN  IF Usable(listed) THEN Add(KidOf(listed), EdDSA, listed.key) ELSE UNCHANGED registry
    /\ todo' = Tail(todo)
    /\ UNCHANGED <<clock, ops, deadline, phase, attempt, published, applying, applied>>

EndRefresh ==
    /\ applying # 0 /\ todo = <<>>
    /\ applied' = applying /\ applying' = 0
    /\ phase' = "ready"
    /\ UNCHANGED <<registry, clock, ops, deadline, attempt, published, todo>>

Tick ==
    /\ clock < MaxTime
    /\ clock' = clock + 1
    /\ UNCHANGED <<registry, ops, deadline, jwks>>

Discover == DiscoverFailsTransiently \/ Backoff \/ DiscoverFails \/ DiscoverOk
Refresh == StartRefresh \/ AddListed \/ EndRefresh

Next ==
    \/ \E k \in Kids, alg \in Algs, key \in Keys :
        \/ AddKey(k, alg, key)
        \/ \E grace \in Graces : Rotate(k, alg, key, grace)
    \/ Discover \/ LoadFails \/ Publish \/ Refresh \/ Tick

Spec == Init /\ [][Next]_vars

\* A call of discover ends, the background task keeps refreshing, and the
\* issuer answers it again and again.
Fairness == WF_vars(Discover) /\ WF_vars(LoadFails) /\ WF_vars(Refresh)

-----------------------------------------------------------------------------
(* Validation: JwtValidator::validate. *)

\* Signed integers, of 2 * (IntMax + 1) values.
Wrap(x) == ((x + IntMax + 1) % (2 * (IntMax + 1))) - IntMax - 1

Expired(t) == t.exp = NoExp \/ Wrap(t.exp + Skew) < clock

\* check_header, check_signature and check_claims; t.ours says that issuer and
\* audience are the configured ones.
Validates(t) ==
    /\ t.alg = EdDSA /\ t.key \in Get(t.kid, t.alg)
    /\ t.ours /\ ~Expired(t)
    /\ t.nbf <= Wrap(clock + Skew) /\ t.iat <= Wrap(clock + Skew)

-----------------------------------------------------------------------------
TypeOK ==
    /\ entries \in [Kids -> SUBSET Entry] /\ order \in Seq(Kids)
    /\ clock \in 0..MaxTime /\ ops \in 0..MaxOps /\ deadline \in [Kids -> Nat]
    /\ phase \in {"direct", "discover", "backoff", "load", "ready", "failed"}
    /\ attempt \in 0..MaxAttempts
    /\ published \in DOMAIN Documents
    /\ applying \in {0} \cup DOMAIN Documents /\ applied \in {0} \cup DOMAIN Documents

\* The map and the queue of the registry agree whatever add, rotate and refresh
\* did: the queue names every registered id once, there are at most cap of them
\* (auth_keys.rs:89), and every one has an active key, at most one for each
\* algorithm (auth_keys.rs:153).
RegistryInv ==
    /\ TypeOK
    /\ \A i, j \in DOMAIN order : i # j => order[i] # order[j]
    /\ {order[i] : i \in DOMAIN order} = Registered
    /\ Len(order) <= Cap
    /\ \A k \in Registered :
        /\ \E e \in entries[k] : e.grace = NoGrace
        /\ \A e, f \in entries[k] :
            e.alg = f.alg /\ e.grace = NoGrace /\ f.grace = NoGrace => e = f

\* The registry is consistent, and get returns a key other than the active one
\* only until the grace of the last rotate of its id ends (auth_keys.rs:199).  That
\* rotate gave it to every previous entry of the id: see NoKeyRevived.
GraceEnds ==
    /\ RegistryInv
    /\ \A k \in Kids, alg \in Algs : \A key \in Get(k, alg) :
            New(alg, key) \in entries[k] \/ clock < deadline[k]

\* get returns "all matching keys that have not yet exhausted their grace period"
\* (auth_keys.rs:196), and it is the previous key that rotate keeps for its grace
\* (auth_keys.rs:172): the only key that get begins to return is the active one.
\* But rotate renews the grace of all previous entries, also of one whose grace
\* has ended.
NoKeyRevived ==
    [][\A k \in Kids, alg \in Algs : \A key \in Get(k, alg)' \ Get(k, alg) :
            New(alg, key) \in entries'[k]]_vars

Listed(d) == {l \in {Documents[d][i] : i \in DOMAIN Documents[d]} : Usable(l)}

\* The keys of an id in the document of the last complete refresh, and in the one
\* a refresh is adding.
ListedFor(k) ==
    {l.key : l \in {m \in UNION {Listed(d) : d \in {applied, applying} \ {0}} : KidOf(m) = k}}

\* A token that validates has an expiry, not passed by more than the skew,
\* although the code adds the two in machine arithmetic (jwt.rs:283).  If its key
\* id is in the document of the last complete refresh, it is signed with the key
\* listed there, or with the one a later refresh is adding: a replaced key is no
\* longer accepted, and an older document does not come back (jwt.rs:346).
AcceptedCurrent ==
    \A t \in Tokens : Validates(t) =>
        /\ t.exp # NoExp /\ t.exp + Skew >= clock
        /\ applied # 0 /\ t.kid \in {KidOf(l) : l \in Listed(applied)} \ OwnKids =>
                t.key \in ListedFor(t.kid)

\* discover returns, with a validator or an error, even while the issuer keeps
\* failing (oidc.rs:62, "Retry up to 3 times on transient errors"); and when the
\* issuer's document then stays the same, every key it lists is eventually
\* accepted for good, although adding one may evict another of the same
\* document (jwt.rs:379, auth_keys.rs:139).
KeysConverge ==
    /\ phase = "discover" ~> phase \in {"ready", "failed"}
    /\ \A d \in DOMAIN Documents :
        <>[](phase = "ready" /\ published = d /\ Len(Documents[d]) <= Cap) =>
            <>[](\A l \in Listed(d) : l.key \in Get(KidOf(l), EdDSA))
=============================================================================
