---------------------------- MODULE DecisionCache ---------------------------
(***************************************************************************)
(* The decision cache of agentguard-core (decision/cache.rs) under the     *)
(* authorizers that use it (authorize/engine.rs) and the handle that swaps *)
(* them (AuthorizerHandle in agentguard-server/src/authzen.rs).            *)
(*                                                                         *)
(* An authorizer never changes its policies.  A reload installs a new one  *)
(* with a cache of its own, while calls that pinned the old one go on with *)
(* it.  authorize takes no lock across its steps: the policy version is    *)
(* read four times, the clock twice, and the map is locked once to look   *)
(* and once to fill.  What Cedar decides is the constant Cedar.            *)
(***************************************************************************)
EXTENDS Integers, FiniteSets

CONSTANTS
    Threads,
    Questions,      \* a request with its entities: what Cedar decides on
    Cedar,          \* what it decides, by generation of the policies
    Settings,       \* AGENTGUARD_CACHE_TTL, _DENY_CACHE_TTL and _CACHE_CAPACITY
    DefaultCapacity, DefaultAllowTtl, DefaultDenyTtl,   \* CacheConfig::default
    MaxTtl,         \* the monotonic clock's range
    MaxReloads,     \* bound on the reloads
    MaxUpkeep,      \* bound on invalidations, version changes and sweeps
    MaxTime,        \* bound on the clock
    MaxCalls,       \* bound on the calls of authorize
    Unset, Bad,     \* a variable that is not set; one that does not parse
    NoQuestion

Gens == 0..MaxReloads
Decisions == {"allow", "deny"}
Outcomes == Decisions \cup {"error"}
Given == Nat \cup {Unset, Bad}

ASSUME DecisionCacheAssumption ==
    /\ DefaultCapacity \in Nat \ {0} /\ DefaultAllowTtl \in Nat /\ DefaultDenyTtl \in Nat
    /\ MaxTtl \in Nat /\ MaxReloads \in Nat /\ MaxUpkeep \in Nat
    /\ MaxTime \in Nat /\ MaxCalls \in Nat
    /\ Unset \notin Nat /\ Bad \notin Nat /\ Unset # Bad
    /\ Cedar \in [Gens -> [Questions -> Outcomes]]
    /\ NoQuestion \notin Questions /\ IsFiniteSet(Threads)
    /\ Settings \subseteq [ttl: Given, denyTtl: Given, capacity: Given]

VARIABLES
    settings,       \* the environment variables
    config,         \* CacheConfig, and whether there is a cache
    clock,          \* Instant::now
    serving,        \* the generation AuthorizerHandle.current holds
    entries,        \* the LruCache of each generation's authorizer
    older,          \* its recency list: <<x, y>> where x was pushed before y
    version,        \* its policy_version
    hits, misses, evictions,
    pc, ask, auth,  \* the step of each thread, its question, its authorizer
    keyVersion,     \* the policy version in its CacheKey
    seenVersion,    \* the one it read last
    now,            \* the time it read last
    effect,         \* the decision it is about to store
    answer,         \* what the last call of authorize to end returned
    sweep,          \* the authorizer being swept, with what sweep_stale read
    calls, upkeep,
    \* history: invalidations of each cache; those known to a call when it
    \* began, and to a decision when it was stamped with a version
    invalidations, since, asOf

caches == <<entries, older, version, hits, misses, evictions, invalidations>>
fixed == <<settings, config, clock, serving>>
budget == <<calls, upkeep>>
call == <<ask, auth, since>>
reads == <<keyVersion, seenVersion, now, effect, asOf>>
vars == <<fixed, caches, pc, call, reads, answer, sweep, budget>>

-----------------------------------------------------------------------------
(* Configuration. *)

Or(v, default) == IF v = Unset THEN default ELSE v

\* try_config_from_overrides: a value that does not parse, or a capacity of
\* zero, is an error.
Malformed(s) == s.ttl = Bad \/ s.denyTtl = Bad \/ s.capacity \in {Bad, 0}

StrictConfig(s) ==
    [on |-> TRUE, capacity |-> Or(s.capacity, DefaultCapacity),
     allowTtl |-> Or(s.ttl, DefaultAllowTtl), denyTtl |-> Or(s.denyTtl, DefaultDenyTtl),
     cacheDenies |-> TRUE]

\* config_from_overrides: what is malformed falls back to the default.
OrLenient(v, default) == IF v \in {Unset, Bad} THEN default ELSE v

LenientConfig(s) ==
    [on |-> TRUE,
     capacity |-> OrLenient(IF s.capacity = 0 THEN Bad ELSE s.capacity, DefaultCapacity),
     allowTtl |-> OrLenient(s.ttl, DefaultAllowTtl),
     denyTtl |-> OrLenient(s.denyTtl, DefaultDenyTtl),
     cacheDenies |-> TRUE]

\* DecisionCache::try_new.
Buildable(c) == c.capacity # 0 /\ c.allowTtl <= MaxTtl /\ c.denyTtl <= MaxTtl

NoCache == [on |-> FALSE, capacity |-> 0, allowTtl |-> 0, denyTtl |-> 0,
            cacheDenies |-> FALSE]

\* The server reads its environment strictly, an embedder either way; an
\* embedder may also leave denies uncached, or have no cache.
Configs(s) ==
    LET read  == {LenientConfig(s)} \cup (IF Malformed(s) THEN {} ELSE {StrictConfig(s)})
        built == {c \in read : Buildable(c)}
    IN  {NoCache} \cup built \cup {[c EXCEPT !.cacheDenies = FALSE] : c \in built}

-----------------------------------------------------------------------------
NoCall == [ask |-> NoQuestion, gen |-> 0]
NoAnswer == [call |-> NoCall, effect |-> "none", hit |-> FALSE, since |-> 0, asOf |-> 0,
             readAt |-> 0, storedAt |-> 0]
NoSweep == [gen |-> -1, now |-> 0, version |-> 0]

Init ==
    /\ settings \in Settings /\ config \in Configs(settings)
    /\ clock = 0 /\ serving = 0 /\ calls = 0 /\ upkeep = 0
    /\ entries = [g \in Gens |-> <<>>]
    /\ older = [g \in Gens |-> {}]
    /\ version = [g \in Gens |-> 0] /\ invalidations = [g \in Gens |-> 0]
    /\ hits = [g \in Gens |-> 0] /\ misses = [g \in Gens |-> 0]
    /\ evictions = [g \in Gens |-> 0]
    /\ pc = [t \in Threads |-> "idle"]
    /\ ask = [t \in Threads |-> NoQuestion]
    /\ auth = [t \in Threads |-> 0]
    /\ keyVersion = [t \in Threads |-> 0] /\ seenVersion = [t \in Threads |-> 0]
    /\ now = [t \in Threads |-> 0] /\ effect = [t \in Threads |-> "deny"]
    /\ since = [t \in Threads |-> 0] /\ asOf = [t \in Threads |-> 0]
    /\ answer = NoAnswer /\ sweep = NoSweep

Goto(t, label) == pc' = [pc EXCEPT ![t] = label]

\* CacheKey::for_request_with_entities, without collisions.
CacheKey(t) == [ask |-> ask[t], version |-> keyVersion[t]]

-----------------------------------------------------------------------------
(* Authorizer::authorize. *)

\* AuthorizerHandle::authorize pins the authorizer that serves.
Begin(t, q) ==
    /\ pc[t] = "idle" /\ calls < MaxCalls
    /\ calls' = calls + 1
    /\ ask' = [ask EXCEPT ![t] = q]
    /\ auth' = [auth EXCEPT ![t] = serving]
    /\ since' = [since EXCEPT ![t] = invalidations[serving]]
    /\ Goto(t, IF config.on THEN "key" ELSE "evaluate")
    /\ UNCHANGED <<fixed, caches, reads, answer, sweep, upkeep>>

\* The call ends with a: its locals are gone.
Return(t, a) ==
    /\ answer' = a
    /\ ask' = [ask EXCEPT ![t] = NoQuestion]
    /\ auth' = [auth EXCEPT ![t] = 0]
    /\ since' = [since EXCEPT ![t] = 0]
    /\ keyVersion' = [keyVersion EXCEPT ![t] = 0]
    /\ seenVersion' = [seenVersion EXCEPT ![t] = 0]
    /\ now' = [now EXCEPT ![t] = 0]
    /\ effect' = [effect EXCEPT ![t] = "deny"]
    /\ asOf' = [asOf EXCEPT ![t] = 0]
    /\ Goto(t, "idle")

Call(t) == [ask |-> ask[t], gen |-> auth[t]]

\* A decision that Cedar has just made for t, or its error.
Evaluated(t, e) ==
    [call |-> Call(t), effect |-> e, hit |-> FALSE, since |-> 0, asOf |-> 0, readAt |-> 0,
     storedAt |-> 0]

\* The key of the lookup has the policy version of this moment.
MakeKey(t) ==
    /\ pc[t] = "key"
    /\ keyVersion' = [keyVersion EXCEPT ![t] = version[auth[t]]]
    /\ Goto(t, "get")
    /\ UNCHANGED <<fixed, caches, call, seenVersion, now, effect, asOf, answer,
                   sweep, budget>>

\* get reads the clock and the policy version before it locks.
StartGet(t) ==
    /\ pc[t] = "get"
    /\ now' = [now EXCEPT ![t] = clock]
    /\ seenVersion' = [seenVersion EXCEPT ![t] = version[auth[t]]]
    /\ Goto(t, "peek")
    /\ UNCHANGED <<fixed, caches, call, keyVersion, effect, asOf, answer, sweep, budget>>

\* An entry of another policy version, or expired.
Stale(e, v, n) == e.version # v \/ n >= e.expires

\* What get finds under the shared lock.
Usable(t) ==
    /\ CacheKey(t) \in DOMAIN entries[auth[t]]
    /\ ~Stale(entries[auth[t]][CacheKey(t)], seenVersion[t], now[t])

\* get returns an entry; its recency stays as it is.
Hit(t) ==
    LET e == entries[auth[t]][CacheKey(t)]
    IN  /\ pc[t] = "peek" /\ Usable(t)
        /\ hits' = [hits EXCEPT ![auth[t]] = @ + 1]
        /\ Return(t, [call |-> Call(t), effect |-> e.effect, hit |-> TRUE, since |-> since[t],
                      asOf |-> e.asOf, readAt |-> now[t], storedAt |-> e.storedAt])
        /\ UNCHANGED <<fixed, entries, older, version, misses, evictions, invalidations,
                       sweep, budget>>

Miss(t) ==
    /\ pc[t] = "peek" /\ ~Usable(t)
    /\ misses' = [misses EXCEPT ![auth[t]] = @ + 1]
    /\ Goto(t, "evaluate")
    /\ UNCHANGED <<fixed, entries, older, version, hits, evictions, invalidations,
                   call, reads, answer, sweep, budget>>

\* to_cedar_request, which may fail, and is_authorized.  A decision to be
\* stored gets a key again, with the policy version of this moment.
Evaluate(t) ==
    LET e == Cedar[auth[t]][ask[t]]
    IN  /\ pc[t] = "evaluate"
        /\ \/ /\ e = "error" \/ ~config.on
              /\ Return(t, Evaluated(t, e))
           \/ /\ e # "error" /\ config.on
              /\ effect' = [effect EXCEPT ![t] = e]
              /\ keyVersion' = [keyVersion EXCEPT ![t] = version[auth[t]]]
              /\ Goto(t, "put")
              /\ UNCHANGED <<call, seenVersion, now, asOf, answer>>
        /\ UNCHANGED <<fixed, caches, sweep, budget>>

\* cached_at_policy_version, another read of the policy version; then put
\* reads the clock.  A deny that is not to be cached is dropped.
StartPut(t) ==
    /\ pc[t] = "put"
    /\ \/ /\ effect[t] = "deny" /\ ~config.cacheDenies
          /\ Return(t, Evaluated(t, effect[t]))
       \/ /\ effect[t] = "allow" \/ config.cacheDenies
          /\ seenVersion' = [seenVersion EXCEPT ![t] = version[auth[t]]]
          /\ asOf' = [asOf EXCEPT ![t] = invalidations[auth[t]]]
          /\ now' = [now EXCEPT ![t] = clock]
          /\ Goto(t, "push")
          /\ UNCHANGED <<call, keyVersion, effect, answer>>
    /\ UNCHANGED <<fixed, caches, sweep, budget>>

\* Mutant: denies are kept as long as allows.
TtlOfAllows(e) == config.allowTtl

Ttl(e) == IF e = "allow" THEN config.allowTtl ELSE config.denyTtl

\* Mutant: a new entry is pushed past the capacity.
VictimsNone(g, k) == {}

\* The key LruCache::push displaces: the least recent one, of a full map that
\* does not hold k.
Victims(g, k) ==
    {x \in DOMAIN entries[g] :
        /\ k \notin DOMAIN entries[g]
        /\ Cardinality(DOMAIN entries[g]) >= config.capacity
        /\ \A y \in DOMAIN entries[g] : <<y, x>> \notin older[g]}

\* put under the exclusive lock: push, and count an eviction.
Push(t) ==
    LET g == auth[t]
        k == CacheKey(t)
        out == Victims(g, k)
        e == [effect |-> effect[t], version |-> seenVersion[t],
              storedAt |-> now[t], expires |-> now[t] + Ttl(effect[t]), asOf |-> asOf[t]]
        keys == (DOMAIN entries[g] \ out) \cup {k}
        rest == keys \ {k}
    IN  /\ pc[t] = "push"
        /\ entries' = [entries EXCEPT ![g] =
                          [x \in keys |-> IF x = k THEN e ELSE entries[g][x]]]
        /\ older' = [older EXCEPT ![g] = (@ \cap (rest \X rest)) \cup (rest \X {k})]
        /\ evictions' = [evictions EXCEPT ![g] = @ + Cardinality(out)]
        /\ Return(t, Evaluated(t, effect[t]))
        /\ UNCHANGED <<fixed, version, hits, misses, invalidations, sweep, budget>>

-----------------------------------------------------------------------------
(* Maintenance, by any holder of an authorizer, and the environment. *)

Upkeep == upkeep < MaxUpkeep /\ upkeep' = upkeep + 1

\* sweep_stale reads the clock and the version before it locks.
StartSweep(g) ==
    /\ sweep = NoSweep /\ config.on /\ g <= serving
    /\ sweep' = [gen |-> g, now |-> clock, version |-> version[g]]
    /\ Upkeep
    /\ UNCHANGED <<fixed, caches, pc, call, reads, answer, calls>>

\* It removes what those made stale, under the exclusive lock.
Sweep ==
    LET g == sweep.gen
        keep == {k \in DOMAIN entries[g] : ~Stale(entries[g][k], sweep.version, sweep.now)}
    IN  /\ sweep # NoSweep
        /\ entries' = [entries EXCEPT ![g] = [k \in keep |-> entries[g][k]]]
        /\ older' = [older EXCEPT ![g] = @ \cap (keep \X keep)]
        /\ sweep' = NoSweep
        /\ UNCHANGED <<fixed, version, hits, misses, evictions, invalidations,
                       pc, call, reads, answer, budget>>

\* Mutant: the map is emptied and the version stays.
InvalidateByClearing(g) ==
    /\ config.on /\ g <= serving
    /\ Upkeep
    /\ entries' = [entries EXCEPT ![g] = <<>>]
    /\ older' = [older EXCEPT ![g] = {}]
    /\ invalidations' = [invalidations EXCEPT ![g] = @ + 1]
    /\ UNCHANGED <<fixed, version, hits, misses, evictions,
                   pc, call, reads, answer, sweep, calls>>

\* invalidate_all: the version moves on, the entries stay.
Invalidate(g) ==
    /\ config.on /\ g <= serving
    /\ Upkeep
    /\ version' = [version EXCEPT ![g] = @ + 1]
    /\ invalidations' = [invalidations EXCEPT ![g] = @ + 1]
    /\ UNCHANGED <<fixed, entries, older, hits, misses,
                   evictions, pc, call, reads, answer, sweep, calls>>

\* set_policy_version, by a caller that never sets it back.
SetPolicyVersion(g, v) ==
    /\ config.on /\ g <= serving /\ version[g] < v
    /\ Upkeep
    /\ version' = [version EXCEPT ![g] = v]
    /\ UNCHANGED <<fixed, entries, older, hits, misses,
                   evictions, invalidations, pc, call, reads, answer, sweep, calls>>

\* Mutant: the new authorizer is given the cache of the old one.
ReloadKeepingCache ==
    /\ serving < MaxReloads
    /\ serving' = serving + 1
    /\ entries' = [entries EXCEPT ![serving + 1] = entries[serving]]
    /\ older' = [older EXCEPT ![serving + 1] = older[serving]]
    /\ UNCHANGED <<settings, config, clock, version, hits, misses, evictions,
                   invalidations, pc, call, reads, answer, sweep, budget>>

\* AuthorizerHandle::reload swaps in an authorizer with an empty cache.
Reload ==
    /\ serving < MaxReloads
    /\ serving' = serving + 1
    /\ UNCHANGED <<settings, config, clock, caches, pc, call, reads, answer, sweep, budget>>

Tick ==
    /\ clock < MaxTime
    /\ clock' = clock + 1
    /\ UNCHANGED <<settings, config, serving, caches, pc, call, reads, answer, sweep, budget>>

Next ==
    \/ \E t \in Threads :
        \/ \E q \in Questions : Begin(t, q)
        \/ MakeKey(t) \/ StartGet(t) \/ Hit(t) \/ Miss(t) \/ Evaluate(t)
        \/ StartPut(t) \/ Push(t)
    \/ \E g \in Gens : Invalidate(g) \/ \E v \in 1..MaxUpkeep : SetPolicyVersion(g, v)
    \/ \E g \in Gens : StartSweep(g)
    \/ Sweep \/ Reload \/ Tick

Spec == Init /\ [][Next]_vars

-----------------------------------------------------------------------------
(* Correctness. *)

Steps == {"idle", "key", "get", "peek", "evaluate", "put", "push"}
Key == [ask: Questions, version: Nat]
Entry == [effect: Decisions, version: Nat, storedAt: Nat, expires: Nat, asOf: Nat]
Config == [on: BOOLEAN, capacity: Nat, allowTtl: Nat, denyTtl: Nat, cacheDenies: BOOLEAN]
Answer == [call: [ask: Questions, gen: Gens] \cup {NoCall}, effect: Outcomes \cup {"none"}, hit: BOOLEAN,
           since: Nat, asOf: Nat, readAt: Nat, storedAt: Nat]

CacheTypes ==
    /\ config \in Config /\ clock \in Nat /\ serving \in Gens
    /\ DOMAIN entries = Gens
    /\ \A g \in Gens : \A k \in DOMAIN entries[g] : k \in Key /\ entries[g][k] \in Entry
    /\ version \in [Gens -> Nat] /\ invalidations \in [Gens -> Nat]
    /\ sweep = NoSweep \/ sweep \in [gen: Gens, now: Nat, version: Nat]

ThreadTypes ==
    /\ pc \in [Threads -> Steps] /\ ask \in [Threads -> Questions \cup {NoQuestion}]
    /\ \A t \in Threads : pc[t] = "idle" <=> ask[t] = NoQuestion
    /\ auth \in [Threads -> Gens]
    /\ keyVersion \in [Threads -> Nat] /\ seenVersion \in [Threads -> Nat]
    /\ now \in [Threads -> Nat] /\ effect \in [Threads -> Decisions]
    /\ since \in [Threads -> Nat] /\ asOf \in [Threads -> Nat]
    /\ answer \in Answer

\* The values of the variables an answer depends on: the caches, and where each
\* caller of authorize is.
TypeOK == CacheTypes /\ ThreadTypes

\* A call that begins after invalidate_all is not answered with a decision
\* that was already in the cache, or on its way there with its version read,
\* when the cache was invalidated.
HitsPostdateInvalidation == answer.hit => answer.asOf >= answer.since

\* A hit is younger than the TTL of its own effect by the two clock readings,
\* of put and of get, however long a caller pauses between reading the clock
\* and locking; denies are never hits where they are not to be cached.
HitsWithinTtl ==
    answer.hit =>
        /\ answer.readAt < answer.storedAt +
             (IF answer.effect = "allow" THEN config.allowTtl ELSE config.denyTtl)
        /\ answer.effect = "deny" => config.cacheDenies

\* Well-formed settings are in force as they are, whichever of the two
\* readers was used, and no setting yields a cache without room
\* (try_config_from_overrides, config_from_overrides, try_new).
SettingsHonoured ==
    config.on =>
        /\ ~Malformed(settings) =>
             [config EXCEPT !.cacheDenies = TRUE] = StrictConfig(settings)
        /\ config.capacity > 0

\* L lists all of K in one order, each before those that come later.
ListsInOrder(L, K) ==
    /\ L \subseteq K \X K
    /\ \A x, y \in K :
        /\ <<x, y>> \in L => <<y, x>> \notin L
        /\ x # y => <<x, y>> \in L \/ <<y, x>> \in L
    /\ \A x, y, z \in K : <<x, y>> \in L /\ <<y, z>> \in L => <<x, z>> \in L

\* The map never holds more than the capacity that was set, whichever fills
\* and sweeps interleave, and its recency list has exactly its keys; an entry
\* is added only after a lookup that was counted as a miss, and nothing is
\* evicted before the map is full (DecisionCache::put, get, stats).
CacheBounded ==
    /\ SettingsHonoured
    /\ \A g \in Gens :
        /\ Cardinality(DOMAIN entries[g]) <= config.capacity
        /\ ListsInOrder(older[g], DOMAIN entries[g])
        /\ evictions[g] + Cardinality(DOMAIN entries[g]) <= misses[g]

\* The callers of g's authorizer between a miss and the push that it may lead to.
Filling(g) == {t \in Threads : auth[t] = g /\ pc[t] \in {"evaluate", "put", "push"}}

\* The inductive strengthening of CacheBounded: each caller that has missed may
\* add one entry.
BoundInv ==
    /\ SettingsHonoured
    /\ misses \in [Gens -> Nat] /\ evictions \in [Gens -> Nat] /\ DOMAIN older = Gens
    /\ \A t \in Threads : pc[t] \in {"key", "get", "peek", "put", "push"} => config.on
    /\ \A g \in Gens :
        /\ IsFiniteSet(DOMAIN entries[g])
        /\ Cardinality(DOMAIN entries[g]) <= config.capacity
        /\ ListsInOrder(older[g], DOMAIN entries[g])
        /\ config.on =>
             evictions[g] + Cardinality(DOMAIN entries[g]) + Cardinality(Filling(g)) <= misses[g]
        /\ ~config.on => DOMAIN entries[g] = {} /\ evictions[g] = 0

\* What is known of a decision d of generation g, in the cache or stamped for
\* it: an invalidation since then has moved the version past its stamp.
Stamped(g, ver, as) ==
    /\ as <= invalidations[g] /\ ver <= version[g]
    /\ as < invalidations[g] => ver < version[g]

\* The cache of g holds what Cedar decides, for as long as configured.
Good(g, k, e) ==
    /\ e.effect = Cedar[g][k.ask]
    /\ e.effect = "deny" => config.cacheDenies
    /\ e.expires = e.storedAt + Ttl(e.effect)
    /\ Stamped(g, e.version, e.asOf)

EntriesInv(g) == \A k \in DOMAIN entries[g] : Good(g, k, entries[g][k])

\* What a caller of authorize knows between two of its steps.
CallInv(t) ==
    /\ pc[t] = "idle" => auth[t] = 0 /\ since[t] = 0
    /\ since[t] <= invalidations[auth[t]]
    /\ pc[t] \in {"put", "push"} => effect[t] = Cedar[auth[t]][ask[t]]
    /\ pc[t] = "push" =>
        /\ effect[t] = "deny" => config.cacheDenies
        /\ Stamped(auth[t], seenVersion[t], asOf[t])

\* A lookup's versions are later than the stamp of any decision that was
\* stamped before an invalidation the lookup's call began after.
LookupInv(t) ==
    pc[t] \in {"get", "peek"} =>
        /\ keyVersion[t] <= version[auth[t]]
        /\ pc[t] = "peek" => keyVersion[t] <= seenVersion[t]
        /\ \A k \in DOMAIN entries[auth[t]] :
            entries[auth[t]][k].asOf < since[t]
                => entries[auth[t]][k].version < keyVersion[t]
        /\ \A u \in Threads : pc[u] = "push" /\ auth[u] = auth[t] /\ asOf[u] < since[t]
                => seenVersion[u] < keyVersion[t]

\* The inductive strengthening of HitsPostdateInvalidation, HitsWithinTtl and
\* the refinement below: what the caches hold, and what each caller knows.
CacheInv ==
    /\ TypeOK
    /\ \A g \in Gens : EntriesInv(g)
    /\ \A t \in Threads : CallInv(t) /\ LookupInv(t)
    /\ HitsPostdateInvalidation /\ HitsWithinTtl

-----------------------------------------------------------------------------
(* The cache cannot be told from an evaluation. *)

Fresh == INSTANCE FreshEvaluation WITH
    pending <- [t \in Threads |-> Call(t)],
    outcome <- [call |-> answer.call, effect |-> answer.effect]

\* Every answer, from the cache or not, is the one Cedar gives on the policies
\* that served when the call began, for the whole of its question
\* (CacheKey::for_request_with_entities, AuthorizerHandle::reload).
ImplementsEvaluation == Fresh!EvaluationSpec
=============================================================================
