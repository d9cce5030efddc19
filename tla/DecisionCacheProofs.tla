------------------------ MODULE DecisionCacheProofs -------------------------
(***************************************************************************)
(* Proofs about DecisionCache, for any threads, questions, decisions of    *)
(* Cedar, settings and bounds: what the cache answers is what Cedar        *)
(* answers, never older than its TTL or than an invalidation the caller    *)
(* began after; and the cache keeps within its capacity and its counters.  *)
(***************************************************************************)
EXTENDS DecisionCache, FiniteSetTheorems, WellFoundedInduction, TLAPS

LEMMA GensZero == 0 \in Gens
  BY DecisionCacheAssumption DEF Gens

\* Every configuration that Authorizer is given has its type.
LEMMA ConfigType ==
    ASSUME NEW s \in Settings, NEW c \in Configs(s)
    PROVE  c \in Config
<1> USE DecisionCacheAssumption DEF Given
<1>1. s.ttl \in Given /\ s.denyTtl \in Given /\ s.capacity \in Given
  BY Zenon
<1>2. LenientConfig(s) \in Config
  BY <1>1, Zenon DEF LenientConfig, OrLenient, Config
<1>3. ~Malformed(s) => StrictConfig(s) \in Config
  BY <1>1, Zenon DEF StrictConfig, Malformed, Or, Config
<1>4. NoCache \in Config
  BY Zenon DEF NoCache, Config
<1>5. \A d \in Config : [d EXCEPT !.cacheDenies = FALSE] \in Config
  BY Zenon DEF Config
<1> QED
  BY <1>2, <1>3, <1>4, <1>5, Zenon DEF Configs

LEMMA TypeInit == Init => TypeOK
<1> SUFFICES ASSUME Init PROVE TypeOK
  BY Zenon
<1> USE DecisionCacheAssumption DEF Init
<1>1. config \in Config
  BY ConfigType, Zenon
<1>3. answer \in Answer
  BY GensZero, Zenon DEF Answer, NoAnswer, NoCall
<1>4. \A g \in Gens : \A k \in DOMAIN entries[g] : k \in Key /\ entries[g][k] \in Entry
  OBVIOUS
<1> QED
  BY <1>1, <1>3, <1>4, GensZero, Zenon DEF TypeOK, CacheTypes, ThreadTypes, Steps, Decisions

\* A call that ends leaves its thread as it was before.
LEMMA TypeReturn ==
    ASSUME ThreadTypes, NEW t \in Threads, NEW a \in Answer, Return(t, a)
    PROVE  ThreadTypes'
  BY GensZero, Zenon DEF ThreadTypes, Return, Goto, Steps, Decisions

\* What Cedar answers is an answer.
LEMMA TypeEvaluated ==
    ASSUME ThreadTypes, NEW t \in Threads, pc[t] # "idle", NEW e \in Outcomes
    PROVE  Evaluated(t, e) \in Answer
<1>1. Call(t) \in [ask: Questions, gen: Gens]
  BY Zenon DEF ThreadTypes, Call
<1> QED
  BY <1>1, Zenon DEF Evaluated, Answer

LEMMA CedarType ==
    ASSUME ThreadTypes, NEW t \in Threads, pc[t] # "idle"
    PROVE  Cedar[auth[t]][ask[t]] \in Outcomes
<1>1. ask[t] \in Questions /\ auth[t] \in Gens
  BY Zenon DEF ThreadTypes
<1>2. Cedar \in [Gens -> [Questions -> Outcomes]]
  BY DecisionCacheAssumption, Zenon
<1> QED
  BY <1>1, <1>2, Zenon

\* Each step of authorize preserves the types of the callers.
LEMMA TypeThreadStep ==
    ASSUME TypeOK, NEW t \in Threads,
           \/ \E q \in Questions : Begin(t, q)
           \/ MakeKey(t) \/ StartGet(t) \/ Hit(t) \/ Miss(t) \/ Evaluate(t)
           \/ StartPut(t) \/ Push(t)
    PROVE  ThreadTypes'
<1>0. ThreadTypes /\ clock \in Nat /\ serving \in Gens /\ version \in [Gens -> Nat]
      /\ invalidations \in [Gens -> Nat]
  BY Zenon DEF TypeOK, CacheTypes
<1>1. ASSUME NEW q \in Questions, Begin(t, q) PROVE ThreadTypes'
  BY <1>0, <1>1, DecisionCacheAssumption, Zenon
     DEF Begin, ThreadTypes, Goto, Steps, fixed, caches, reads
<1>2. CASE MakeKey(t)
  BY <1>0, <1>2, Zenon DEF MakeKey, ThreadTypes, Goto, Steps, fixed, caches, call
<1>3. CASE StartGet(t)
  BY <1>0, <1>3, Zenon DEF StartGet, ThreadTypes, Goto, Steps, fixed, caches, call
<1>4. CASE Hit(t)
  <2> DEFINE e == entries[auth[t]][CacheKey(t)]
             a == [call |-> Call(t), effect |-> e.effect, hit |-> TRUE, since |-> since[t],
                   asOf |-> e.asOf, readAt |-> now[t], storedAt |-> e.storedAt]
  <2>1. pc[t] = "peek" /\ CacheKey(t) \in DOMAIN entries[auth[t]] /\ Return(t, a)
    BY <1>4, Zenon DEF Hit, Usable
  <2>2. e \in Entry
    BY <1>0, <2>1, Zenon DEF TypeOK, CacheTypes, ThreadTypes
  <2>3. Call(t) \in [ask: Questions, gen: Gens]
    BY <1>0, <2>1, Zenon DEF ThreadTypes, Call
  <2>4. a \in Answer
    BY <1>0, <2>2, <2>3, Zenon DEF Answer, Entry, ThreadTypes, Outcomes
  <2> QED
    BY <1>0, <2>1, <2>4, TypeReturn, Zenon
<1>5. CASE Miss(t)
  BY <1>0, <1>5, Zenon DEF Miss, ThreadTypes, Goto, Steps, fixed, call, reads
<1>6. CASE Evaluate(t)
  <2> DEFINE e == Cedar[auth[t]][ask[t]]
  <2>1. pc[t] = "evaluate" /\ e \in Outcomes
    BY <1>0, <1>6, CedarType, Zenon DEF Evaluate
  <2>2. CASE Return(t, Evaluated(t, e))
    BY <1>0, <2>1, <2>2, TypeEvaluated, TypeReturn, Zenon
  <2>3. CASE ~Return(t, Evaluated(t, e))
    BY <1>0, <1>6, <2>1, <2>3 DEF Evaluate, ThreadTypes, Goto, Steps, call, Outcomes
  <2> QED
    BY <2>2, <2>3, Zenon
<1>7. CASE StartPut(t)
  <2>1. pc[t] = "put" /\ effect[t] \in Outcomes
    BY <1>0, <1>7, Zenon DEF StartPut, ThreadTypes, Outcomes
  <2>2. CASE Return(t, Evaluated(t, effect[t]))
    BY <1>0, <2>1, <2>2, TypeEvaluated, TypeReturn, Zenon
  <2>3. CASE ~Return(t, Evaluated(t, effect[t]))
    BY <1>0, <1>7, <2>1, <2>3 DEF StartPut, ThreadTypes, Goto, Steps, call
  <2> QED
    BY <2>2, <2>3, Zenon
<1>8. CASE Push(t)
  <2>1. pc[t] = "push" /\ effect[t] \in Outcomes /\ Return(t, Evaluated(t, effect[t]))
    BY <1>0, <1>8, Zenon DEF Push, ThreadTypes, Outcomes
  <2> QED
    BY <1>0, <2>1, TypeEvaluated, TypeReturn, Zenon
<1> QED
  BY <1>1, <1>2, <1>3, <1>4, <1>5, <1>6, <1>7, <1>8, Zenon

\* The type of what Push stores.
LEMMA TypePush ==
    ASSUME TypeOK, NEW t \in Threads, Push(t)
    PROVE  CacheTypes'
<1> DEFINE g == auth[t]
           k == CacheKey(t)
           e == [effect |-> effect[t], version |-> seenVersion[t],
                 storedAt |-> now[t], expires |-> now[t] + Ttl(effect[t]), asOf |-> asOf[t]]
           keys == (DOMAIN entries[g] \ Victims(g, k)) \cup {k}
<1>1. g \in Gens /\ k \in Key
  BY Zenon DEF TypeOK, ThreadTypes, Push, CacheKey, Key
<1>2. Ttl(effect[t]) \in Nat
  BY Zenon DEF TypeOK, CacheTypes, ThreadTypes, Ttl, Config
<1>3. e \in Entry
  BY <1>2 DEF TypeOK, ThreadTypes, Entry
<1>4. /\ entries' = [entries EXCEPT ![g] = [x \in keys |-> IF x = k THEN e ELSE entries[g][x]]]
      /\ UNCHANGED <<fixed, version, invalidations, sweep>>
  BY Zenon DEF Push
<1>5. DOMAIN entries' = Gens
  BY <1>4, Zenon DEF TypeOK, CacheTypes
<1>6. ASSUME NEW h \in Gens, NEW x \in DOMAIN entries'[h]
      PROVE  x \in Key /\ entries'[h][x] \in Entry
  <2>1. CASE h = g
    <3>1. entries'[h] = [y \in keys |-> IF y = k THEN e ELSE entries[g][y]]
      BY <1>1, <1>4, <2>1, Zenon DEF TypeOK, CacheTypes
    <3>2. x \in keys /\ entries'[h][x] = IF x = k THEN e ELSE entries[g][x]
      BY <1>6, <3>1, Zenon
    <3> QED
      BY <1>1, <1>3, <3>2, Zenon DEF TypeOK, CacheTypes
  <2>2. CASE h # g
    BY <1>4, <1>6, <2>2, Zenon DEF TypeOK, CacheTypes
  <2> QED
    BY <2>1, <2>2, Zenon
<1> QED
  BY <1>4, <1>5, <1>6, Zenon DEF TypeOK, CacheTypes, fixed

\* And of what Sweep leaves.
LEMMA TypeSweep ==
    ASSUME TypeOK, Sweep
    PROVE  CacheTypes'
<1> DEFINE g == sweep.gen
           keep == {k \in DOMAIN entries[g] :
                        ~Stale(entries[g][k], sweep.version, sweep.now)}
<1>1. g \in Gens
  BY Zenon DEF TypeOK, CacheTypes, Sweep
<1>2. /\ entries' = [entries EXCEPT ![g] = [k \in keep |-> entries[g][k]]]
      /\ sweep' = NoSweep /\ UNCHANGED <<fixed, version, invalidations>>
  BY Zenon DEF Sweep
<1>3. DOMAIN entries' = Gens
  BY <1>2, Zenon DEF TypeOK, CacheTypes
<1>4. ASSUME NEW h \in Gens, NEW x \in DOMAIN entries'[h]
      PROVE  x \in Key /\ entries'[h][x] \in Entry
  BY <1>1, <1>2, <1>4, Zenon DEF TypeOK, CacheTypes
<1> QED
  BY <1>2, <1>3, <1>4, Zenon DEF TypeOK, CacheTypes, fixed

LEMMA TypeNext == TypeOK /\ [Next]_vars => TypeOK'
<1> SUFFICES ASSUME TypeOK, [Next]_vars PROVE TypeOK'
  BY Zenon
<1> USE DEF fixed, caches
<1>1. ASSUME NEW t \in Threads, NEW q \in Questions, Begin(t, q) PROVE TypeOK'
  <2>1. ThreadTypes'
    BY <1>1, TypeThreadStep, Zenon
  <2>2. CacheTypes'
    BY <1>1, Zenon DEF Begin, TypeOK, CacheTypes
  <2> QED
    BY <2>1, <2>2, Zenon DEF TypeOK
<1>2. ASSUME NEW t \in Threads, MakeKey(t) PROVE TypeOK'
  BY <1>2, TypeThreadStep, Zenon DEF MakeKey, TypeOK, CacheTypes
<1>3. ASSUME NEW t \in Threads, StartGet(t) PROVE TypeOK'
  BY <1>3, TypeThreadStep, Zenon DEF StartGet, TypeOK, CacheTypes
<1>4. ASSUME NEW t \in Threads, Hit(t) PROVE TypeOK'
  BY <1>4, TypeThreadStep, Zenon DEF Hit, TypeOK, CacheTypes
<1>5. ASSUME NEW t \in Threads, Miss(t) PROVE TypeOK'
  BY <1>5, TypeThreadStep, Zenon DEF Miss, TypeOK, CacheTypes
<1>6. ASSUME NEW t \in Threads, Evaluate(t) PROVE TypeOK'
  BY <1>6, TypeThreadStep, Zenon DEF Evaluate, TypeOK, CacheTypes
<1>7. ASSUME NEW t \in Threads, StartPut(t) PROVE TypeOK'
  BY <1>7, TypeThreadStep, Zenon DEF StartPut, TypeOK, CacheTypes
<1>8. ASSUME NEW t \in Threads, Push(t) PROVE TypeOK'
  BY <1>8, TypeThreadStep, TypePush, Zenon DEF TypeOK
<1>9. ASSUME NEW g \in Gens, Invalidate(g) PROVE TypeOK'
  BY <1>9 DEF Invalidate, TypeOK, CacheTypes, ThreadTypes, call, reads
<1>10. ASSUME NEW g \in Gens, NEW v \in 1..MaxUpkeep, SetPolicyVersion(g, v) PROVE TypeOK'
  BY <1>10 DEF SetPolicyVersion, TypeOK, CacheTypes, ThreadTypes, call, reads
<1>11. ASSUME NEW g \in Gens, StartSweep(g) PROVE TypeOK'
  BY <1>11, Zenon DEF StartSweep, TypeOK, CacheTypes, ThreadTypes, call, reads
<1>12. CASE Sweep
  BY <1>12, TypeSweep, Zenon DEF Sweep, TypeOK, ThreadTypes, call, reads
<1>13. CASE Reload
  <2>1. serving' \in Gens
    BY <1>13, DecisionCacheAssumption DEF Reload, Gens, TypeOK, CacheTypes
  <2> QED
    BY <1>13, <2>1, Zenon DEF Reload, TypeOK, CacheTypes, ThreadTypes, call, reads
<1>14. CASE Tick
  BY <1>14 DEF Tick, TypeOK, CacheTypes, ThreadTypes, call, reads
<1>15. CASE UNCHANGED vars
  BY <1>15, Zenon DEF vars, TypeOK, CacheTypes, ThreadTypes, call, reads
<1> QED
  BY <1>1, <1>2, <1>3, <1>4, <1>5, <1>6, <1>7, <1>8, <1>9, <1>10, <1>11, <1>12, <1>13,
     <1>14, <1>15, Zenon DEF Next

-----------------------------------------------------------------------------
(* The entries. *)

\* What is in the caches stays good when an invalidation moves the version on,
\* and when nothing happens to them.
LEMMA EntriesKept ==
    ASSUME CacheInv, TypeOK', UNCHANGED <<config, entries>>,
           \A g \in Gens :
              \/ version'[g] >= version[g] /\ invalidations'[g] = invalidations[g]
              \/ version'[g] > version[g] /\ invalidations'[g] >= invalidations[g]
    PROVE  \A g \in Gens : EntriesInv(g)'
<1> SUFFICES ASSUME NEW g \in Gens, NEW k \in DOMAIN entries[g]
             PROVE  Good(g, k, entries[g][k])'
  BY Zenon DEF EntriesInv
<1>1. PICK e : e = entries[g][k] /\ e = entries'[g][k]
  BY Zenon
<1>2. Good(g, k, e) /\ e.version \in Nat /\ e.asOf \in Nat
  BY <1>1 DEF CacheInv, EntriesInv, TypeOK, CacheTypes, Entry
<1>3. /\ version[g] \in Nat /\ version'[g] \in Nat
      /\ invalidations[g] \in Nat /\ invalidations'[g] \in Nat
  BY Zenon DEF CacheInv, TypeOK, CacheTypes
<1>4. \/ version'[g] >= version[g] /\ invalidations'[g] = invalidations[g]
      \/ version'[g] > version[g] /\ invalidations'[g] >= invalidations[g]
  BY Zenon
<1>5. Stamped(g, e.version, e.asOf)'
  BY <1>2, <1>3, <1>4 DEF Good, Stamped
<1> QED
  BY <1>1, <1>2, <1>5, Zenon DEF Good, Ttl

LEMMA EntriesPush ==
    ASSUME CacheInv, NEW t \in Threads, Push(t)
    PROVE  \A g \in Gens : EntriesInv(g)'
<1> DEFINE g == auth[t]
           k == CacheKey(t)
           e == [effect |-> effect[t], version |-> seenVersion[t],
                 storedAt |-> now[t], expires |-> now[t] + Ttl(effect[t]), asOf |-> asOf[t]]
           keys == (DOMAIN entries[g] \ Victims(g, k)) \cup {k}
<1>1. /\ entries' = [entries EXCEPT ![g] = [x \in keys |-> IF x = k THEN e ELSE entries[g][x]]]
      /\ pc[t] = "push"
  BY Zenon DEF Push
<1>0. UNCHANGED <<config, version, invalidations>>
  BY Zenon DEF Push, fixed
<1>2. CallInv(t) /\ DOMAIN entries = Gens /\ g \in Gens
  BY Zenon DEF CacheInv, TypeOK, CacheTypes, ThreadTypes
<1>3. Good(g, k, e)
  BY <1>1, <1>2, Zenon DEF CallInv, Good, CacheKey
<1> SUFFICES ASSUME NEW h \in Gens, NEW x \in DOMAIN entries'[h]
             PROVE  Good(h, x, entries'[h][x])
  BY <1>0, Zenon DEF EntriesInv, Good, Stamped, Ttl
<1>4. CASE h = g
  <2>1. entries'[h] = [y \in keys |-> IF y = k THEN e ELSE entries[g][y]]
    BY <1>1, <1>2, <1>4, Zenon
  <2>2. x \in keys /\ entries'[h][x] = IF x = k THEN e ELSE entries[g][x]
    BY <2>1, Zenon
  <2> QED
    BY <1>3, <1>4, <2>2, <1>2, Zenon DEF CacheInv, EntriesInv
<1>5. CASE h # g
  BY <1>1, <1>2, <1>5, Zenon DEF CacheInv, EntriesInv
<1> QED
  BY <1>4, <1>5, Zenon

LEMMA EntriesSweep ==
    ASSUME CacheInv, Sweep
    PROVE  \A g \in Gens : EntriesInv(g)'
<1> DEFINE g == sweep.gen
           keep == {k \in DOMAIN entries[g] :
                        ~Stale(entries[g][k], sweep.version, sweep.now)}
<1>0. UNCHANGED <<config, version, invalidations>>
  BY Zenon DEF Sweep, fixed
<1>1. entries' = [entries EXCEPT ![g] = [k \in keep |-> entries[g][k]]]
  BY Zenon DEF Sweep
<1>2. DOMAIN entries = Gens
  BY Zenon DEF CacheInv, TypeOK, CacheTypes
<1> SUFFICES ASSUME NEW h \in Gens, NEW x \in DOMAIN entries'[h]
             PROVE  Good(h, x, entries'[h][x])
  BY <1>0, Zenon DEF EntriesInv, Good, Stamped, Ttl
<1>3. x \in DOMAIN entries[h] /\ entries'[h][x] = entries[h][x]
  BY <1>1, <1>2, Zenon
<1> QED
  BY <1>3, Zenon DEF CacheInv, EntriesInv

-----------------------------------------------------------------------------
(* The callers. *)

\* The step is one of t: the others are where they were.
Others(t) ==
    \A u \in Threads : u # t =>
        /\ pc'[u] = pc[u] /\ ask'[u] = ask[u] /\ auth'[u] = auth[u] /\ since'[u] = since[u]
        /\ keyVersion'[u] = keyVersion[u] /\ seenVersion'[u] = seenVersion[u]
        /\ effect'[u] = effect[u] /\ asOf'[u] = asOf[u]

\* The caches are as they were.
Quiet == UNCHANGED <<config, entries, version, invalidations>>

LEMMA ReturnEnds ==
    ASSUME ThreadTypes, NEW t \in Threads, NEW a, Return(t, a)
    PROVE  Others(t) /\ pc'[t] = "idle" /\ auth'[t] = 0 /\ since'[t] = 0 /\ answer' = a
  BY Zenon DEF ThreadTypes, Return, Goto, Others

\* What the others know of the caches stays true while nothing happens to
\* these but pushes, of decisions stamped before.
LEMMA CallOthers ==
    ASSUME CacheInv, NEW t \in Threads, Others(t),
           UNCHANGED <<config, version, invalidations>>,
           NEW u \in Threads, u # t
    PROVE  CallInv(u)'
  BY DEF CacheInv, CallInv, Stamped, Others

LEMMA CallIdle ==
    ASSUME TypeOK', NEW t \in Threads, pc'[t] = "idle", auth'[t] = 0, since'[t] = 0
    PROVE  CallInv(t)'
<1>1. invalidations'[0] \in Nat
  BY GensZero, Zenon DEF TypeOK, CacheTypes
<1> QED
  BY <1>1 DEF CallInv

LEMMA LookupOthers ==
    ASSUME CacheInv, TypeOK', NEW t \in Threads, Others(t), Quiet,
           pc'[t] = "push" => asOf'[t] = invalidations[auth'[t]],
           NEW u \in Threads, u # t
    PROVE  LookupInv(u)'
<1> SUFFICES ASSUME pc[u] \in {"get", "peek"}
             PROVE  LookupInv(u)'
  BY Zenon DEF LookupInv, Others
<1>1. LookupInv(u) /\ CallInv(u) /\ auth[u] \in Gens
  BY Zenon DEF CacheInv, TypeOK, ThreadTypes
<1>2. ASSUME pc'[t] = "push", auth'[t] = auth[u], asOf'[t] < since[u]
      PROVE  FALSE
  <2>1. asOf'[t] = invalidations[auth[u]]
    BY <1>2, Zenon
  <2>2. since[u] <= invalidations[auth[u]] /\ since[u] \in Nat /\ invalidations[auth[u]] \in Nat
    BY <1>1, Zenon DEF CallInv, CacheInv, TypeOK, ThreadTypes, CacheTypes
  <2> QED
    BY <1>2, <2>1, <2>2
<1> QED
  BY <1>1, <1>2, Zenon DEF LookupInv, Others, Quiet

\* What an action must preserve beside the types and the entries.
Callers == \A u \in Threads : CallInv(u) /\ LookupInv(u)
Answers == HitsPostdateInvalidation /\ HitsWithinTtl

\* A call that ends without the cache.
LEMMA ReturnEvaluated ==
    ASSUME CacheInv, TypeOK', NEW t \in Threads, NEW e, Return(t, Evaluated(t, e)), Quiet
    PROVE  Callers' /\ Answers'
<1>1. Others(t) /\ pc'[t] = "idle" /\ auth'[t] = 0 /\ since'[t] = 0
      /\ answer' = Evaluated(t, e)
  BY ReturnEnds, Zenon DEF CacheInv, TypeOK
<1>2. CallInv(t)' /\ LookupInv(t)'
  BY <1>1, CallIdle, Zenon DEF LookupInv
<1>3. ASSUME NEW u \in Threads, u # t PROVE CallInv(u)' /\ LookupInv(u)'
  BY <1>1, <1>3, CallOthers, LookupOthers, Zenon DEF Quiet
<1>4. ~answer'.hit
  BY <1>1, Zenon DEF Evaluated
<1> QED
  BY <1>2, <1>3, <1>4, Zenon DEF Callers, Answers, HitsPostdateInvalidation, HitsWithinTtl

\* The steps that go on.
LEMMA GoesOn ==
    ASSUME CacheInv, TypeOK', NEW t \in Threads, Others(t), Quiet, answer' = answer,
           CallInv(t)', LookupInv(t)',
           pc'[t] = "push" => asOf'[t] = invalidations[auth'[t]]
    PROVE  Callers' /\ Answers'
<1>1. ASSUME NEW u \in Threads, u # t PROVE CallInv(u)' /\ LookupInv(u)'
  BY <1>1, CallOthers, LookupOthers, Zenon DEF Quiet
<1> QED
  BY <1>1, Zenon DEF Callers, Answers, CacheInv, HitsPostdateInvalidation, HitsWithinTtl, Quiet

LEMMA BeginCallers ==
    ASSUME CacheInv, TypeOK', NEW t \in Threads, NEW q \in Questions, Begin(t, q)
    PROVE  Callers' /\ Answers'
<1>1. Others(t) /\ Quiet /\ answer' = answer
  BY Zenon DEF Begin, Goto, Others, Quiet, fixed, caches, reads, CacheInv, TypeOK, ThreadTypes
<1>2. pc'[t] \in {"key", "evaluate"} /\ auth'[t] = serving
      /\ since'[t] = invalidations[serving]
  BY Zenon DEF Begin, Goto, CacheInv, TypeOK, ThreadTypes
<1>0. invalidations[serving] \in Nat
  BY Zenon DEF CacheInv, TypeOK, CacheTypes
<1>3. CallInv(t)'
  BY <1>0, <1>1, <1>2 DEF CallInv, Quiet
<1>4. LookupInv(t)'
  BY <1>2, Zenon DEF LookupInv
<1> QED
  BY <1>1, <1>2, <1>3, <1>4, GoesOn, Zenon

\* The version of the key is past the stamp of everything that was stamped
\* before an invalidation the call began after.
LEMMA MakeKeyCallers ==
    ASSUME CacheInv, TypeOK', NEW t \in Threads, MakeKey(t)
    PROVE  Callers' /\ Answers'
<1>1. Others(t) /\ Quiet /\ answer' = answer
  BY Zenon DEF MakeKey, Goto, Others, Quiet, fixed, caches, call, CacheInv, TypeOK, ThreadTypes
<1>2. pc'[t] = "get" /\ auth'[t] = auth[t] /\ since'[t] = since[t]
      /\ keyVersion'[t] = version[auth[t]] /\ auth[t] \in Gens
  BY Zenon DEF MakeKey, Goto, call, CacheInv, TypeOK, ThreadTypes
<1>3. CallInv(t)'
  BY <1>1, <1>2, Zenon DEF CallInv, Quiet, CacheInv
<1>4. since[t] <= invalidations[auth[t]] /\ since[t] \in Nat
      /\ invalidations[auth[t]] \in Nat /\ version[auth[t]] \in Nat
  BY <1>2, Zenon DEF CacheInv, CallInv, TypeOK, ThreadTypes, CacheTypes
<1>5. ASSUME NEW k \in DOMAIN entries[auth[t]], entries[auth[t]][k].asOf < since[t]
      PROVE  entries[auth[t]][k].version < version[auth[t]]
  <2>1. Stamped(auth[t], entries[auth[t]][k].version, entries[auth[t]][k].asOf)
    BY <1>2, Zenon DEF CacheInv, EntriesInv, Good
  <2>2. entries[auth[t]][k].asOf \in Nat
    BY <1>2, Zenon DEF CacheInv, TypeOK, CacheTypes, Entry
  <2> QED
    BY <1>4, <1>5, <2>1, <2>2 DEF Stamped
<1>6. ASSUME NEW u \in Threads, pc[u] = "push", auth[u] = auth[t], asOf[u] < since[t]
      PROVE  seenVersion[u] < version[auth[t]]
  <2>1. Stamped(auth[t], seenVersion[u], asOf[u]) /\ asOf[u] \in Nat
    BY <1>6, Zenon DEF CacheInv, CallInv, TypeOK, ThreadTypes
  <2> QED
    BY <1>4, <1>6, <2>1 DEF Stamped
<1>7. ASSUME NEW u \in Threads, pc'[u] = "push"
      PROVE  pc[u] = "push" /\ auth'[u] = auth[u] /\ asOf'[u] = asOf[u]
             /\ seenVersion'[u] = seenVersion[u]
  BY <1>1, <1>2, <1>7, Zenon DEF Others
<1>8. LookupInv(t)'
  BY <1>1, <1>2, <1>4, <1>5, <1>6, <1>7 DEF LookupInv, Quiet
<1> QED
  BY <1>1, <1>2, <1>3, <1>8, GoesOn, Zenon

LEMMA StartGetCallers ==
    ASSUME CacheInv, TypeOK', NEW t \in Threads, StartGet(t)
    PROVE  Callers' /\ Answers'
<1>1. Others(t) /\ Quiet /\ answer' = answer
  BY Zenon DEF StartGet, Goto, Others, Quiet, fixed, caches, call, CacheInv, TypeOK, ThreadTypes
<1>2. pc[t] = "get" /\ pc'[t] = "peek" /\ auth'[t] = auth[t] /\ since'[t] = since[t]
      /\ keyVersion'[t] = keyVersion[t] /\ seenVersion'[t] = version[auth[t]]
  BY Zenon DEF StartGet, Goto, call, CacheInv, TypeOK, ThreadTypes
<1>3. CallInv(t)'
  BY <1>1, <1>2, Zenon DEF CallInv, Quiet, CacheInv
<1>4. ASSUME NEW u \in Threads, pc'[u] = "push"
      PROVE  pc[u] = "push" /\ auth'[u] = auth[u] /\ asOf'[u] = asOf[u]
             /\ seenVersion'[u] = seenVersion[u]
  BY <1>1, <1>2, <1>4, Zenon DEF Others
<1>5. LookupInv(t)
  BY Zenon DEF CacheInv
<1>6. LookupInv(t)'
  BY <1>1, <1>2, <1>4, <1>5, Zenon DEF LookupInv, Quiet
<1> QED
  BY <1>1, <1>2, <1>3, <1>6, GoesOn, Zenon

\* A hit was stamped no earlier than the call began, and is fresh.
LEMMA HitCallers ==
    ASSUME CacheInv, TypeOK', NEW t \in Threads, Hit(t)
    PROVE  Callers' /\ Answers'
<1>1. PICK e : e = entries[auth[t]][CacheKey(t)]
  BY Zenon
<1> DEFINE a == [call |-> Call(t), effect |-> e.effect, hit |-> TRUE, since |-> since[t],
                 asOf |-> e.asOf, readAt |-> now[t], storedAt |-> e.storedAt]
<1>2. /\ pc[t] = "peek" /\ CacheKey(t) \in DOMAIN entries[auth[t]]
      /\ e.version = seenVersion[t] /\ ~(now[t] >= e.expires)
      /\ Return(t, a) /\ Quiet
  BY <1>1, Zenon DEF Hit, Usable, Stale, Quiet, fixed
<1>3. Others(t) /\ pc'[t] = "idle" /\ auth'[t] = 0 /\ since'[t] = 0 /\ answer' = a
  BY <1>2, ReturnEnds, Zenon DEF CacheInv, TypeOK
<1>4. CallInv(t)' /\ LookupInv(t)'
  BY <1>3, CallIdle, Zenon DEF LookupInv
<1>5. ASSUME NEW u \in Threads, u # t PROVE CallInv(u)' /\ LookupInv(u)'
  BY <1>2, <1>3, <1>5, CallOthers, LookupOthers, Zenon DEF Quiet
<1>6. auth[t] \in Gens /\ e \in Entry
  BY <1>1, <1>2, Zenon DEF CacheInv, TypeOK, CacheTypes, ThreadTypes
<1>7. Good(auth[t], CacheKey(t), e)
  BY <1>1, <1>2, <1>6, Zenon DEF CacheInv, EntriesInv
<1>8. e.asOf >= since[t]
  <2>1. e.asOf < since[t] => e.version < keyVersion[t]
    BY <1>1, <1>2, Zenon DEF CacheInv, LookupInv
  <2>2. keyVersion[t] <= seenVersion[t]
    BY <1>2, Zenon DEF CacheInv, LookupInv
  <2>3. e.asOf \in Nat /\ e.version \in Nat /\ since[t] \in Nat
        /\ keyVersion[t] \in Nat /\ seenVersion[t] \in Nat
    BY <1>6, Zenon DEF Entry, CacheInv, TypeOK, ThreadTypes
  <2> QED
    BY <1>2, <2>1, <2>2, <2>3
<1>9. now[t] < e.storedAt + Ttl(e.effect)
  <2>1. now[t] \in Nat /\ e.expires \in Nat
    BY <1>6, Zenon DEF Entry, CacheInv, TypeOK, ThreadTypes
  <2> QED
    BY <1>2, <1>7, <2>1 DEF Good
<1>10. Answers'
  BY <1>2, <1>3, <1>7, <1>8, <1>9, Zenon
     DEF Answers, HitsPostdateInvalidation, HitsWithinTtl, Good, Ttl, Quiet
<1> QED
  BY <1>4, <1>5, <1>10, Zenon DEF Callers

LEMMA MissCallers ==
    ASSUME CacheInv, TypeOK', NEW t \in Threads, Miss(t)
    PROVE  Callers' /\ Answers'
<1>1. Others(t) /\ Quiet /\ answer' = answer
  BY Zenon DEF Miss, Goto, Others, Quiet, fixed, call, reads, CacheInv, TypeOK, ThreadTypes
<1>2. pc'[t] = "evaluate" /\ auth'[t] = auth[t] /\ since'[t] = since[t]
  BY Zenon DEF Miss, Goto, call, CacheInv, TypeOK, ThreadTypes
<1>3. CallInv(t)' /\ LookupInv(t)'
  BY <1>1, <1>2, Zenon DEF CallInv, LookupInv, Quiet, CacheInv
<1> QED
  BY <1>1, <1>2, <1>3, GoesOn, Zenon

LEMMA EvaluateCallers ==
    ASSUME CacheInv, TypeOK', NEW t \in Threads, Evaluate(t)
    PROVE  Callers' /\ Answers'
<1> DEFINE e == Cedar[auth[t]][ask[t]]
<1>0. Quiet
  BY Zenon DEF Evaluate, Quiet, fixed, caches
<1>1. CASE Return(t, Evaluated(t, e))
  BY <1>0, <1>1, ReturnEvaluated, Zenon
<1>2. CASE ~Return(t, Evaluated(t, e))
  <2>1. Others(t) /\ answer' = answer
    BY <1>2, Zenon DEF Evaluate, Goto, Others, call, CacheInv, TypeOK, ThreadTypes
  <2>2. pc'[t] = "put" /\ auth'[t] = auth[t] /\ since'[t] = since[t] /\ ask'[t] = ask[t]
        /\ effect'[t] = e
    BY <1>2, Zenon DEF Evaluate, Goto, call, CacheInv, TypeOK, ThreadTypes
  <2>3. CallInv(t)' /\ LookupInv(t)'
    BY <1>0, <2>2, Zenon DEF CallInv, LookupInv, Quiet, CacheInv
  <2> QED
    BY <1>0, <2>1, <2>2, <2>3, GoesOn, Zenon
<1> QED
  BY <1>1, <1>2, Zenon

\* The stamp is that of this moment.
LEMMA StartPutCallers ==
    ASSUME CacheInv, TypeOK', NEW t \in Threads, StartPut(t)
    PROVE  Callers' /\ Answers'
<1>0. Quiet
  BY Zenon DEF StartPut, Quiet, fixed, caches
<1>1. CASE Return(t, Evaluated(t, effect[t]))
  BY <1>0, <1>1, ReturnEvaluated, Zenon
<1>2. CASE ~Return(t, Evaluated(t, effect[t]))
  <2>1. Others(t) /\ answer' = answer
    BY <1>2 DEF StartPut, Goto, Others, call, CacheInv, TypeOK, ThreadTypes
  <2>2. /\ pc[t] = "put" /\ pc'[t] = "push" /\ auth'[t] = auth[t] /\ since'[t] = since[t]
        /\ ask'[t] = ask[t] /\ effect'[t] = effect[t]
        /\ seenVersion'[t] = version[auth[t]] /\ asOf'[t] = invalidations[auth[t]]
        /\ effect[t] = "allow" \/ config.cacheDenies
    BY <1>2, Zenon DEF StartPut, Goto, call, CacheInv, TypeOK, ThreadTypes
  <2>3. version[auth[t]] \in Nat /\ invalidations[auth[t]] \in Nat
    BY Zenon DEF CacheInv, TypeOK, CacheTypes, ThreadTypes
  <2>4. Stamped(auth[t], version[auth[t]], invalidations[auth[t]])
    BY <2>3 DEF Stamped
  <2>5. CallInv(t)
    BY Zenon DEF CacheInv
  <2>6. CallInv(t)'
    BY <1>0, <2>2, <2>4, <2>5, Zenon DEF CallInv, Quiet, Stamped
  <2>7. LookupInv(t)'
    BY <2>2, Zenon DEF LookupInv
  <2> QED
    BY <1>0, <2>1, <2>2, <2>6, <2>7, GoesOn, Zenon
<1> QED
  BY <1>1, <1>2, Zenon

\* A decision that comes into the cache late is known to every lookup by then.
LEMMA PushCallers ==
    ASSUME CacheInv, TypeOK', NEW t \in Threads, Push(t)
    PROVE  Callers' /\ Answers'
<1>1. PICK e : e = [effect |-> effect[t], version |-> seenVersion[t], storedAt |-> now[t],
                   expires |-> now[t] + Ttl(effect[t]), asOf |-> asOf[t]]
  BY Zenon
<1> DEFINE g == auth[t]
           k == CacheKey(t)
           keys == (DOMAIN entries[g] \ Victims(g, k)) \cup {k}
<1>2. /\ entries' = [entries EXCEPT ![g] = [x \in keys |-> IF x = k THEN e ELSE entries[g][x]]]
      /\ pc[t] = "push" /\ Return(t, Evaluated(t, effect[t]))
  BY <1>1, Zenon DEF Push
<1>3. UNCHANGED <<config, version, invalidations>>
  BY Zenon DEF Push, fixed
<1>4. Others(t) /\ pc'[t] = "idle" /\ auth'[t] = 0 /\ since'[t] = 0
      /\ answer' = Evaluated(t, effect[t])
  BY <1>2, ReturnEnds, Zenon DEF CacheInv, TypeOK
<1>5. CallInv(t)' /\ LookupInv(t)'
  BY <1>4, CallIdle, Zenon DEF LookupInv
<1>6. ASSUME NEW u \in Threads, u # t PROVE CallInv(u)'
  BY <1>3, <1>4, <1>6, CallOthers, Zenon
<1>7. ASSUME NEW h \in Gens, NEW x \in DOMAIN entries'[h]
      PROVE  \/ h = g /\ entries'[h][x] = e
             \/ x \in DOMAIN entries[h] /\ entries'[h][x] = entries[h][x]
  <2>1. DOMAIN entries = Gens
    BY Zenon DEF CacheInv, TypeOK, CacheTypes
  <2>2. CASE h = g
    <3>1. entries'[h] = [y \in keys |-> IF y = k THEN e ELSE entries[g][y]]
      BY <1>2, <2>1, <2>2, Zenon
    <3>2. x \in keys /\ entries'[h][x] = IF x = k THEN e ELSE entries[g][x]
      BY <3>1, Zenon
    <3> QED
      BY <2>2, <3>2, Zenon
  <2>3. CASE h # g
    BY <1>2, <2>1, <2>3, Zenon
  <2> QED
    BY <2>2, <2>3, Zenon
<1>8. ASSUME NEW u \in Threads, u # t, pc[u] \in {"get", "peek"} PROVE LookupInv(u)'
  <2>1. LookupInv(u) /\ auth[u] \in Gens
    BY Zenon DEF CacheInv, TypeOK, ThreadTypes
  <2>2. auth[u] = g /\ asOf[t] < since[u] => seenVersion[t] < keyVersion[u]
    BY <1>2, <1>8, <2>1, Zenon DEF LookupInv
  <2>3. ASSUME NEW x \in DOMAIN entries'[auth[u]], entries'[auth[u]][x].asOf < since[u]
        PROVE  entries'[auth[u]][x].version < keyVersion[u]
    <3>1. CASE auth[u] = g /\ entries'[auth[u]][x] = e
      BY <1>1, <2>2, <2>3, <3>1
    <3>2. CASE x \in DOMAIN entries[auth[u]] /\ entries'[auth[u]][x] = entries[auth[u]][x]
      BY <1>8, <2>1, <2>3, <3>2, Zenon DEF LookupInv
    <3> QED
      BY <1>7, <2>1, <3>1, <3>2, Zenon
  <2>4. ASSUME NEW v \in Threads, pc'[v] = "push"
        PROVE  pc[v] = "push" /\ auth'[v] = auth[v] /\ asOf'[v] = asOf[v]
               /\ seenVersion'[v] = seenVersion[v]
    BY <1>4, <2>4, Zenon DEF Others
  <2>5. auth'[u] = auth[u] /\ since'[u] = since[u] /\ keyVersion'[u] = keyVersion[u]
        /\ seenVersion'[u] = seenVersion[u] /\ pc'[u] = pc[u]
    BY <1>4, <1>8, Zenon DEF Others
  <2> QED
    BY <1>3, <1>8, <2>1, <2>3, <2>4, <2>5, Zenon DEF LookupInv
<1>9. ASSUME NEW u \in Threads, u # t PROVE LookupInv(u)'
  BY <1>4, <1>8, <1>9, Zenon DEF LookupInv, Others
<1>10. ~answer'.hit
  BY <1>4, Zenon DEF Evaluated
<1> QED
  BY <1>5, <1>6, <1>9, <1>10, Zenon DEF Callers, Answers, HitsPostdateInvalidation, HitsWithinTtl

\* Maintenance: versions go up, with every invalidation by at least one, and
\* entries go away.
LEMMA UpkeepCallers ==
    ASSUME CacheInv, TypeOK', UNCHANGED <<config, pc, call, reads, answer>>,
           \A g \in Gens :
              /\ \/ version'[g] >= version[g] /\ invalidations'[g] = invalidations[g]
                 \/ version'[g] > version[g] /\ invalidations'[g] >= invalidations[g]
              /\ \A k \in DOMAIN entries'[g] :
                    k \in DOMAIN entries[g] /\ entries'[g][k] = entries[g][k]
    PROVE  Callers' /\ Answers'
<1> SUFFICES ASSUME NEW t \in Threads PROVE CallInv(t)' /\ LookupInv(t)'
  BY Zenon DEF Callers, Answers, CacheInv, HitsPostdateInvalidation, HitsWithinTtl
<1> USE DEF call, reads
<1>1. CallInv(t) /\ LookupInv(t) /\ auth[t] \in Gens /\ since[t] \in Nat /\ asOf[t] \in Nat
      /\ seenVersion[t] \in Nat /\ keyVersion[t] \in Nat
  BY Zenon DEF CacheInv, TypeOK, ThreadTypes
<1>2. /\ version[auth[t]] \in Nat /\ version'[auth[t]] \in Nat
      /\ invalidations[auth[t]] \in Nat /\ invalidations'[auth[t]] \in Nat
  BY <1>1, Zenon DEF CacheInv, TypeOK, CacheTypes
<1>3. \/ version'[auth[t]] >= version[auth[t]]
         /\ invalidations'[auth[t]] = invalidations[auth[t]]
      \/ version'[auth[t]] > version[auth[t]]
         /\ invalidations'[auth[t]] >= invalidations[auth[t]]
  BY <1>1, Zenon
<1>4. ASSUME Stamped(auth[t], seenVersion[t], asOf[t])
      PROVE  Stamped(auth[t], seenVersion[t], asOf[t])'
  BY <1>1, <1>2, <1>3, <1>4 DEF Stamped
<1>5. since[t] <= invalidations'[auth[t]]
  <2>1. since[t] <= invalidations[auth[t]] /\ since[t] \in Nat
    BY <1>1, Zenon DEF CallInv
  <2> QED
    BY ONLY <1>2, <1>3, <2>1
<1>6. CallInv(t)'
  BY <1>1, <1>4, <1>5, Zenon DEF CallInv
<1>7. pc[t] \in {"get", "peek"} => keyVersion[t] <= version'[auth[t]]
  <2>1. SUFFICES ASSUME pc[t] \in {"get", "peek"} PROVE keyVersion[t] <= version'[auth[t]]
    BY Zenon
  <2>2. keyVersion[t] <= version[auth[t]] /\ keyVersion[t] \in Nat
    BY <1>1, <2>1, Zenon DEF LookupInv
  <2> QED
    BY ONLY <1>2, <1>3, <2>2
<1>8. LookupInv(t)'
  BY <1>1, <1>7, Zenon DEF LookupInv
<1> QED
  BY <1>6, <1>8, Zenon

-----------------------------------------------------------------------------
(* The invariant. *)

LEMMA CacheInit == Init => CacheInv
<1> SUFFICES ASSUME Init PROVE CacheInv
  BY Zenon
<1>1. TypeOK
  BY TypeInit, Zenon
<1>2. \A g \in Gens : EntriesInv(g)
  BY DEF Init, EntriesInv
<1>3. \A t \in Threads : CallInv(t) /\ LookupInv(t)
  BY GensZero DEF Init, CallInv, LookupInv
<1>4. HitsPostdateInvalidation /\ HitsWithinTtl
  BY Zenon DEF Init, NoAnswer, HitsPostdateInvalidation, HitsWithinTtl
<1> QED
  BY <1>1, <1>2, <1>3, <1>4, Zenon DEF CacheInv

LEMMA CacheNext == CacheInv /\ [Next]_vars => CacheInv'
<1> SUFFICES ASSUME CacheInv, [Next]_vars PROVE CacheInv'
  BY Zenon
<1>0. TypeOK'
  BY TypeNext, Zenon DEF CacheInv
<1> SUFFICES (\A g \in Gens : EntriesInv(g)') /\ Callers' /\ Answers'
  BY <1>0, Zenon DEF CacheInv, Callers, Answers
<1>a. /\ DOMAIN entries = Gens
      /\ \A g \in Gens : version[g] \in Nat /\ invalidations[g] \in Nat
      /\ \A g \in Gens : version'[g] \in Nat /\ invalidations'[g] \in Nat
      /\ version \in [Gens -> Nat] /\ invalidations \in [Gens -> Nat]
  BY <1>0, Zenon DEF CacheInv, TypeOK, CacheTypes
<1>b. ASSUME Quiet PROVE \A g \in Gens : EntriesInv(g)'
  BY <1>0, <1>a, <1>b, EntriesKept DEF Quiet
<1>c. ASSUME UNCHANGED <<config, entries, version, invalidations, pc, call, reads, answer>>
      PROVE  (\A g \in Gens : EntriesInv(g)') /\ Callers' /\ Answers'
  <2>1. \A g \in Gens : version'[g] >= version[g] /\ invalidations'[g] = invalidations[g]
    BY <1>a, <1>c
  <2>2. Callers' /\ Answers'
    BY <1>0, <1>c, <2>1, UpkeepCallers, Zenon
  <2> QED
    BY <1>b, <1>c, <2>2, Zenon DEF Quiet
<1> USE DEF fixed, caches
<1>1. ASSUME NEW t \in Threads, NEW q \in Questions, Begin(t, q)
      PROVE  (\A g \in Gens : EntriesInv(g)') /\ Callers' /\ Answers'
  BY <1>0, <1>b, <1>1, BeginCallers, Zenon DEF Begin, Quiet
<1>2. ASSUME NEW t \in Threads, MakeKey(t)
      PROVE  (\A g \in Gens : EntriesInv(g)') /\ Callers' /\ Answers'
  BY <1>0, <1>b, <1>2, MakeKeyCallers, Zenon DEF MakeKey, Quiet
<1>3. ASSUME NEW t \in Threads, StartGet(t)
      PROVE  (\A g \in Gens : EntriesInv(g)') /\ Callers' /\ Answers'
  BY <1>0, <1>b, <1>3, StartGetCallers, Zenon DEF StartGet, Quiet
<1>4. ASSUME NEW t \in Threads, Hit(t)
      PROVE  (\A g \in Gens : EntriesInv(g)') /\ Callers' /\ Answers'
  BY <1>0, <1>b, <1>4, HitCallers, Zenon DEF Hit, Quiet
<1>5. ASSUME NEW t \in Threads, Miss(t)
      PROVE  (\A g \in Gens : EntriesInv(g)') /\ Callers' /\ Answers'
  BY <1>0, <1>b, <1>5, MissCallers, Zenon DEF Miss, Quiet
<1>6. ASSUME NEW t \in Threads, Evaluate(t)
      PROVE  (\A g \in Gens : EntriesInv(g)') /\ Callers' /\ Answers'
  BY <1>0, <1>b, <1>6, EvaluateCallers, Zenon DEF Evaluate, Quiet
<1>7. ASSUME NEW t \in Threads, StartPut(t)
      PROVE  (\A g \in Gens : EntriesInv(g)') /\ Callers' /\ Answers'
  BY <1>0, <1>b, <1>7, StartPutCallers, Zenon DEF StartPut, Quiet
<1>8. ASSUME NEW t \in Threads, Push(t)
      PROVE  (\A g \in Gens : EntriesInv(g)') /\ Callers' /\ Answers'
  BY <1>0, <1>8, PushCallers, EntriesPush, Zenon
<1>9. ASSUME NEW h \in Gens, Invalidate(h)
      PROVE  (\A g \in Gens : EntriesInv(g)') /\ Callers' /\ Answers'
  <2>1. UNCHANGED <<config, entries, pc, call, reads, answer>>
    BY <1>9, Zenon DEF Invalidate
  <2>2. \A g \in Gens :
              \/ version'[g] >= version[g] /\ invalidations'[g] = invalidations[g]
              \/ version'[g] > version[g] /\ invalidations'[g] >= invalidations[g]
    BY <1>9, <1>a DEF Invalidate
  <2> QED
    BY <1>0, <2>1, <2>2, EntriesKept, UpkeepCallers, Zenon
<1>10. ASSUME NEW h \in Gens, NEW v \in 1..MaxUpkeep, SetPolicyVersion(h, v)
      PROVE  (\A g \in Gens : EntriesInv(g)') /\ Callers' /\ Answers'
  <2>1. UNCHANGED <<config, entries, invalidations, pc, call, reads, answer>>
    BY <1>10, Zenon DEF SetPolicyVersion
  <2>2. \A g \in Gens : version'[g] >= version[g] /\ invalidations'[g] = invalidations[g]
    BY <1>10, <1>a DEF SetPolicyVersion
  <2> QED
    BY <1>0, <2>1, <2>2, EntriesKept, UpkeepCallers, Zenon
<1>11. ASSUME NEW h \in Gens, StartSweep(h)
      PROVE  (\A g \in Gens : EntriesInv(g)') /\ Callers' /\ Answers'
  BY <1>c, <1>11, Zenon DEF StartSweep
<1>12. ASSUME Sweep
      PROVE  (\A g \in Gens : EntriesInv(g)') /\ Callers' /\ Answers'
  <2>1. UNCHANGED <<config, version, invalidations, pc, call, reads, answer>>
    BY <1>12, Zenon DEF Sweep
  <2>2. \A g \in Gens : version'[g] >= version[g] /\ invalidations'[g] = invalidations[g]
    BY <1>a, <2>1
  <2>3. \A g \in Gens : \A k \in DOMAIN entries'[g] :
            k \in DOMAIN entries[g] /\ entries'[g][k] = entries[g][k]
    BY <1>12, <1>a, Zenon DEF Sweep
  <2> QED
    BY <1>0, <1>12, <2>1, <2>2, <2>3, EntriesSweep, UpkeepCallers, Zenon
<1>13. CASE Reload
  BY <1>c, <1>13, Zenon DEF Reload
<1>14. CASE Tick
  BY <1>c, <1>14, Zenon DEF Tick
<1>15. CASE UNCHANGED vars
  BY <1>c, <1>15, Zenon DEF vars
<1> QED
  BY <1>1, <1>2, <1>3, <1>4, <1>5, <1>6, <1>7, <1>8, <1>9, <1>10, <1>11, <1>12, <1>13,
     <1>14, <1>15, Zenon DEF Next

\* Whatever invalidations, reloads, sweeps and other callers do, no call that
\* began after an invalidation is answered with a decision stamped before it
\* (DecisionCache::invalidate_all, get and put).
THEOREM NoHitPredatesInvalidation == Spec => []HitsPostdateInvalidation
<1>1. CacheInv => HitsPostdateInvalidation
  BY Zenon DEF CacheInv
<1> QED
  BY <1>1, CacheInit, CacheNext, PTL DEF Spec

\* No hit is older than the TTL of its effect by the two readings of the clock,
\* and denies are not cached against the configuration (DecisionCache::put,
\* get).
THEOREM HitsAlwaysWithinTtl == Spec => []HitsWithinTtl
<1>1. CacheInv => HitsWithinTtl
  BY Zenon DEF CacheInv
<1> QED
  BY <1>1, CacheInit, CacheNext, PTL DEF Spec

-----------------------------------------------------------------------------
(* The refinement. *)

\* Who waits for an answer, as the callers see it.
Pending == [t \in Threads |-> Call(t)]
Outcome == [call |-> answer.call, effect |-> answer.effect]

LEMMA EvaluationInit == Init => Fresh!Init
  BY DEF Init, Fresh!Init, Fresh!NoCall, NoAnswer, NoCall, Call

\* A step that changes neither the calls nor the answer is a stutter.
LEMMA EvaluationStutter ==
    ASSUME UNCHANGED <<serving, ask, auth, answer>>
    PROVE  UNCHANGED Fresh!fvars
  BY Zenon DEF Fresh!fvars, Call

\* A call that returns what Cedar decides is one answer.
LEMMA EvaluationAnswer ==
    ASSUME CacheInv, NEW t \in Threads, pc[t] # "idle", NEW a, Return(t, a),
           a.call = Call(t), a.effect = Cedar[auth[t]][ask[t]], serving' = serving
    PROVE  Fresh!Answer(t)
<1>1. Pending[t] = Call(t) /\ Call(t) # NoCall
  <2>1. ask[t] # NoQuestion
    BY Zenon DEF CacheInv, TypeOK, ThreadTypes
  <2> QED
    BY <2>1, Zenon DEF Pending, Call, NoCall
<1>2. Pending' = [Pending EXCEPT ![t] = NoCall]
  <2>1. ask \in [Threads -> Questions \cup {NoQuestion}] /\ auth \in [Threads -> Gens]
    BY Zenon DEF CacheInv, TypeOK, ThreadTypes
  <2>2. ask' = [ask EXCEPT ![t] = NoQuestion] /\ auth' = [auth EXCEPT ![t] = 0]
    BY Zenon DEF Return
  <2> QED
    BY <2>1, <2>2, Zenon DEF Pending, Call, NoCall
<1>3. Outcome' = [call |-> Call(t), effect |-> Cedar[Call(t).gen][Call(t).ask]]
  BY Zenon DEF Outcome, Return, Call
<1> QED
  BY <1>1, <1>2, <1>3, Zenon DEF Fresh!Answer, Fresh!NoCall, NoCall, Pending, Outcome

LEMMA EvaluationBegin ==
    ASSUME CacheInv, NEW t \in Threads, NEW q \in Questions, Begin(t, q)
    PROVE  Fresh!Begin(t, q)
<1>1. Pending[t] = NoCall
  <2>1. ask[t] = NoQuestion /\ auth[t] = 0
    BY Zenon DEF CacheInv, CallInv, TypeOK, ThreadTypes, Begin
  <2> QED
    BY <2>1, Zenon DEF Pending, Call, NoCall
<1>2. Pending' = [Pending EXCEPT ![t] = [ask |-> q, gen |-> serving]]
  <2>1. ask \in [Threads -> Questions \cup {NoQuestion}] /\ auth \in [Threads -> Gens]
    BY Zenon DEF CacheInv, TypeOK, ThreadTypes
  <2>2. ask' = [ask EXCEPT ![t] = q] /\ auth' = [auth EXCEPT ![t] = serving]
    BY Zenon DEF Begin
  <2> QED
    BY <2>1, <2>2, Zenon DEF Pending, Call
<1>3. UNCHANGED <<serving, Outcome>>
  BY Zenon DEF Begin, fixed, Outcome
<1> QED
  BY <1>1, <1>2, <1>3, Zenon DEF Fresh!Begin, Fresh!NoCall, NoCall, Pending, Outcome

\* Every step is one of an evaluation without a cache, or none.
LEMMA EvaluationNext == CacheInv /\ [Next]_vars => [Fresh!Next]_Fresh!fvars
<1> SUFFICES ASSUME CacheInv, [Next]_vars PROVE Fresh!Next \/ UNCHANGED Fresh!fvars
  BY Zenon
<1> USE DEF fixed, call
<1>1. ASSUME NEW t \in Threads, NEW q \in Questions, Begin(t, q) PROVE Fresh!Next
  BY <1>1, EvaluationBegin, Zenon DEF Fresh!Next
<1>2. ASSUME NEW t \in Threads, MakeKey(t) \/ StartGet(t) \/ Miss(t)
      PROVE  UNCHANGED Fresh!fvars
  BY <1>2, EvaluationStutter, Zenon DEF MakeKey, StartGet, Miss
<1>3. ASSUME NEW t \in Threads, Hit(t) PROVE Fresh!Next
  <2>1. PICK e : e = entries[auth[t]][CacheKey(t)]
    BY Zenon
  <2> DEFINE a == [call |-> Call(t), effect |-> e.effect, hit |-> TRUE, since |-> since[t],
                   asOf |-> e.asOf, readAt |-> now[t], storedAt |-> e.storedAt]
  <2>2. pc[t] = "peek" /\ CacheKey(t) \in DOMAIN entries[auth[t]] /\ Return(t, a)
        /\ serving' = serving
    BY <1>3, <2>1, Zenon DEF Hit, Usable
  <2>3. auth[t] \in Gens
    BY Zenon DEF CacheInv, TypeOK, ThreadTypes
  <2>4. Good(auth[t], CacheKey(t), e)
    BY <2>1, <2>2, <2>3, Zenon DEF CacheInv, EntriesInv
  <2>5. a.call = Call(t) /\ a.effect = Cedar[auth[t]][ask[t]]
    BY <2>4, Zenon DEF Good, CacheKey
  <2>6. Fresh!Answer(t)
    BY <2>2, <2>5, EvaluationAnswer, Zenon
  <2> QED
    BY <2>6, Zenon DEF Fresh!Next
<1>4. ASSUME NEW t \in Threads, NEW e, Return(t, Evaluated(t, e)), pc[t] # "idle",
             e = Cedar[auth[t]][ask[t]], serving' = serving
      PROVE  Fresh!Next
  <2>1. Evaluated(t, e).call = Call(t) /\ Evaluated(t, e).effect = e
    BY Zenon DEF Evaluated
  <2>2. Fresh!Answer(t)
    BY <1>4, <2>1, EvaluationAnswer, Zenon
  <2> QED
    BY <2>2, Zenon DEF Fresh!Next
<1>5. ASSUME NEW t \in Threads, Evaluate(t) PROVE Fresh!Next \/ UNCHANGED Fresh!fvars
  <2> DEFINE e == Cedar[auth[t]][ask[t]]
  <2>1. CASE Return(t, Evaluated(t, e))
    BY <1>4, <1>5, <2>1, Zenon DEF Evaluate
  <2>2. CASE ~Return(t, Evaluated(t, e))
    BY <1>5, <2>2, EvaluationStutter, Zenon DEF Evaluate
  <2> QED
    BY <2>1, <2>2, Zenon
<1>6. ASSUME NEW t \in Threads, pc[t] \in {"put", "push"}
      PROVE  effect[t] = Cedar[auth[t]][ask[t]]
  BY <1>6, Zenon DEF CacheInv, CallInv
<1>7. ASSUME NEW t \in Threads, StartPut(t) PROVE Fresh!Next \/ UNCHANGED Fresh!fvars
  <2>1. CASE Return(t, Evaluated(t, effect[t]))
    BY <1>4, <1>6, <1>7, <2>1, Zenon DEF StartPut
  <2>2. CASE ~Return(t, Evaluated(t, effect[t]))
    BY <1>7, <2>2, EvaluationStutter, Zenon DEF StartPut
  <2> QED
    BY <2>1, <2>2, Zenon
<1>8. ASSUME NEW t \in Threads, Push(t) PROVE Fresh!Next
  BY <1>4, <1>6, <1>8, Zenon DEF Push
<1>9. ASSUME NEW g \in Gens,
             Invalidate(g) \/ StartSweep(g) \/ \E v \in 1..MaxUpkeep : SetPolicyVersion(g, v)
      PROVE  UNCHANGED Fresh!fvars
  BY <1>9, EvaluationStutter, Zenon DEF Invalidate, StartSweep, SetPolicyVersion
<1>10. CASE Sweep \/ Tick \/ UNCHANGED vars
  BY <1>10, EvaluationStutter, Zenon DEF Sweep, Tick, vars
<1>11. CASE Reload
  <2>1. Fresh!Reload
    BY <1>11, Zenon DEF Reload, Fresh!Reload, Call
  <2> QED
    BY <2>1, Zenon DEF Fresh!Next
<1> QED
  BY <1>1, <1>2, <1>3, <1>5, <1>7, <1>8, <1>9, <1>10, <1>11, Zenon DEF Next

\* Callers cannot tell the cache from an evaluation of their whole question on
\* the policies that served when they called (AuthorizerHandle::authorize,
\* Authorizer::authorize, CacheKey::for_request_with_entities).
THEOREM CacheImplementsEvaluation == Spec => ImplementsEvaluation
  BY CacheInit, CacheNext, EvaluationInit, EvaluationNext, PTL
     DEF Spec, ImplementsEvaluation, Fresh!EvaluationSpec
-----------------------------------------------------------------------------
(***************************************************************************)
(* The bounds of the cache: its capacity, its order and its counters.      *)
(***************************************************************************)

\* A non-empty set of naturals has a least element.
LEMMA Least ==
    ASSUME NEW T, T \subseteq Nat, T # {}
    PROVE  \E x \in T : \A y \in T : x <= y
<1> DEFINE R == {ss \in Nat \X Nat : ss[1] < ss[2]}
<1>1. R = OpToRel(<, Nat)
  BY DEF OpToRel
<1>2. IsWellFoundedOn(R, Nat)
  BY <1>1, NatLessThanWellFounded, Zenon
<1> HIDE DEF R
<1>3. \E x \in T : \A y \in T : ~ (<<y, x>> \in R)
  BY <1>2, WFMin, Zenon
<1>4. \A x, y \in Nat : <<y, x>> \notin R => x <= y
  BY DEF R
<1> QED
  BY <1>3, <1>4, Zenon

\* The recency list of a finite, non-empty map has a least recent key: one with
\* the fewest keys pushed before it has none.
LEMMA OldestExists ==
    ASSUME NEW g \in Gens, ListsInOrder(older[g], DOMAIN entries[g]), IsFiniteSet(DOMAIN entries[g]),
           DOMAIN entries[g] # {}
    PROVE  \E x \in DOMAIN entries[g] : \A y \in DOMAIN entries[g] : <<y, x>> \notin older[g]
<1> DEFINE keys == DOMAIN entries[g]
           before(x) == {y \in keys : <<y, x>> \in older[g]}
           T == {Cardinality(before(x)) : x \in keys}
<1>1. ASSUME NEW x \in keys
      PROVE  IsFiniteSet(before(x)) /\ Cardinality(before(x)) \in Nat
  <2>1. before(x) \in SUBSET keys
    BY Zenon
  <2> HIDE DEF before
  <2>2. IsFiniteSet(before(x))
    BY <2>1, FS_Subset, Zenon
  <2> QED
    BY <2>2, FS_CardinalityType, Zenon
<1>2. T \subseteq Nat /\ T # {}
  BY <1>1, Zenon
<1>3. PICK c \in T : \A d \in T : c <= d
  BY <1>2, Least, Zenon
<1>4. PICK x \in keys : c = Cardinality(before(x))
  BY Zenon
<1>5. ASSUME NEW y \in keys, <<y, x>> \in older[g] PROVE FALSE
  <2>1. before(y) \subseteq before(x)
    BY <1>5, Zenon DEF ListsInOrder
  <2>2. y \in before(x) /\ y \notin before(y)
    BY <1>5, Zenon DEF ListsInOrder
  <2>3. Cardinality(before(x)) <= Cardinality(before(y))
    BY <1>3, <1>4, Zenon
  <2>4. /\ IsFiniteSet(before(x)) /\ Cardinality(before(x)) \in Nat
        /\ Cardinality(before(y)) \in Nat
    BY <1>1, Zenon
  <2> HIDE DEF before, keys, T
  <2>5. /\ Cardinality(before(y)) <= Cardinality(before(x))
        /\ Cardinality(before(x)) = Cardinality(before(y)) => before(x) = before(y)
    BY <2>1, <2>4, FS_Subset, Zenon
  <2>6. Cardinality(before(x)) = Cardinality(before(y))
    BY <2>3, <2>4, <2>5
  <2> QED
    BY <2>2, <2>5, <2>6, Zenon
<1> QED
  BY <1>5, Zenon

\* LruCache::push displaces at most one key, and one when the map is full.
LEMMA VictimsAre ==
    ASSUME NEW g \in Gens, NEW k, ListsInOrder(older[g], DOMAIN entries[g]), IsFiniteSet(DOMAIN entries[g]),
           config.capacity \in Nat \ {0}
    PROVE  \/ /\ Victims(g, k) = {}
              /\ k \in DOMAIN entries[g] \/ Cardinality(DOMAIN entries[g]) < config.capacity
           \/ /\ k \notin DOMAIN entries[g]
              /\ \E x \in DOMAIN entries[g] : Victims(g, k) = {x}
<1> DEFINE D == DOMAIN entries[g]
<1>1. Cardinality(D) \in Nat /\ (D = {} => Cardinality(D) = 0)
  BY FS_CardinalityType, FS_EmptySet, Zenon
<1>2. CASE k \in D \/ Cardinality(D) < config.capacity
  <2>1. k \in D \/ ~(Cardinality(D) >= config.capacity)
    BY <1>1, <1>2
  <2> QED
    BY <1>2, <2>1, Zenon DEF Victims
<1>3. CASE k \notin D /\ ~(Cardinality(D) < config.capacity)
  <2>1. Cardinality(D) >= config.capacity /\ Cardinality(D) # 0
    BY <1>1, <1>3
  <2>2. PICK x \in D : \A y \in D : <<y, x>> \notin older[g]
    BY <1>1, <2>1, OldestExists, Zenon
  <2>3. \A z \in D : (\A y \in D : <<y, z>> \notin older[g]) => z = x
    BY <2>2, Zenon DEF ListsInOrder
  <2>4. Victims(g, k) = {z \in D : \A y \in D : <<y, z>> \notin older[g]}
    BY <1>3, <2>1, Zenon DEF Victims
  <2>5. Victims(g, k) = {x}
    BY <2>2, <2>3, <2>4, Zenon
  <2> QED
    BY <1>3, <2>5, Zenon
<1> QED
  BY <1>2, <1>3, Zenon

\* What a push does to the number of entries and of evictions.
LEMMA PushCounts ==
    ASSUME NEW g \in Gens, NEW k, ListsInOrder(older[g], DOMAIN entries[g]), IsFiniteSet(DOMAIN entries[g]),
           config.capacity \in Nat \ {0}, Cardinality(DOMAIN entries[g]) <= config.capacity,
           NEW D, D = (DOMAIN entries[g] \ Victims(g, k)) \cup {k}
    PROVE  /\ IsFiniteSet(D) /\ Cardinality(D) \in Nat /\ Cardinality(Victims(g, k)) \in Nat
           /\ Cardinality(D) <= config.capacity
           /\ Cardinality(Victims(g, k)) + Cardinality(D) <= Cardinality(DOMAIN entries[g]) + 1
<1> DEFINE K == DOMAIN entries[g]
<1>1. Cardinality(K) \in Nat
  BY FS_CardinalityType, Zenon
<1>2. CASE /\ Victims(g, k) = {}
           /\ k \in K \/ Cardinality(K) < config.capacity
  <2>1. D = K \cup {k} /\ Cardinality(Victims(g, k)) = 0
    BY <1>2, FS_EmptySet, Zenon
  <2>2. IsFiniteSet(K)
    BY Zenon
  <2> HIDE DEF K
  <2>3. /\ IsFiniteSet(K \cup {k})
        /\ Cardinality(K \cup {k}) = IF k \in K THEN Cardinality(K) ELSE Cardinality(K) + 1
    BY <2>2, FS_AddElement
  <2>4. /\ IsFiniteSet(D)
        /\ Cardinality(D) = IF k \in K THEN Cardinality(K) ELSE Cardinality(K) + 1
    BY <2>1, <2>3, Zenon
  <2> QED
    BY <1>1, <1>2, <2>1, <2>4 DEF K
<1>3. CASE k \notin K /\ \E x \in K : Victims(g, k) = {x}
  <2>1. PICK x \in K : Victims(g, k) = {x}
    BY <1>3, Zenon
  <2>2. D = (K \ {x}) \cup {k} /\ k \notin K \ {x} /\ Cardinality(Victims(g, k)) = 1
    BY <1>3, <2>1, FS_Singleton, Zenon
  <2>3. IsFiniteSet(K \ {x}) /\ Cardinality(K \ {x}) = Cardinality(K) - 1
    BY <2>1, FS_RemoveElement, Zenon
  <2> HIDE DEF K
  <2>4. /\ IsFiniteSet((K \ {x}) \cup {k})
        /\ Cardinality((K \ {x}) \cup {k}) = Cardinality(K \ {x}) + 1
    BY <2>2, <2>3, FS_AddElement
  <2>5. IsFiniteSet(D) /\ Cardinality(D) = Cardinality(K \ {x}) + 1
    BY <2>2, <2>4, Zenon
  <2> QED
    BY <1>1, <2>2, <2>3, <2>5 DEF K
<1> QED
  BY <1>2, <1>3, VictimsAre, Zenon

\* The recency list of what is left of a map, with k pushed last.
LEMMA OrderPushed ==
    ASSUME NEW K, NEW L, NEW k, NEW R, ListsInOrder(L, K), R \subseteq K, k \notin R
    PROVE  ListsInOrder((L \cap (R \X R)) \cup (R \X {k}), R \cup {k})
<1> DEFINE M == (L \cap (R \X R)) \cup (R \X {k})
           J == R \cup {k}
<1>1. M \subseteq J \X J
  BY Zenon
<1>2. \A x, y \in J : <<x, y>> \in M <=> x \in R /\ (y = k \/ (y \in R /\ <<x, y>> \in L))
  BY Zenon
<1>3. \A x \in J : x \in R \/ x = k
  BY Zenon
<1> HIDE DEF M, J
<1>4. ASSUME NEW x \in J, NEW y \in J
      PROVE  /\ <<x, y>> \in M => <<y, x>> \notin M
             /\ x # y => <<x, y>> \in M \/ <<y, x>> \in M
  <2>1. <<x, y>> \in M <=> x \in R /\ (y = k \/ (y \in R /\ <<x, y>> \in L))
    BY <1>2, Zenon
  <2>2. <<y, x>> \in M <=> y \in R /\ (x = k \/ (x \in R /\ <<y, x>> \in L))
    BY <1>2, Zenon
  <2>3. x \in R /\ y \in R =>
            /\ <<x, y>> \in L => <<y, x>> \notin L
            /\ x # y => <<x, y>> \in L \/ <<y, x>> \in L
    BY Zenon DEF ListsInOrder
  <2>4. (x \in R \/ x = k) /\ (y \in R \/ y = k)
    BY <1>3, Zenon
  <2> QED
    BY <2>1, <2>2, <2>3, <2>4, Zenon
<1>5. ASSUME NEW x \in J, NEW y \in J, NEW z \in J, <<x, y>> \in M, <<y, z>> \in M
      PROVE  <<x, z>> \in M
  <2>1. x \in R /\ (y = k \/ (y \in R /\ <<x, y>> \in L))
    BY <1>2, <1>5, Zenon
  <2>2. y \in R /\ (z = k \/ (z \in R /\ <<y, z>> \in L))
    BY <1>2, <1>5, Zenon
  <2>3. z \in R => <<x, z>> \in L
    BY <2>1, <2>2, Zenon DEF ListsInOrder
  <2> QED
    BY <1>2, <2>1, <2>2, <2>3, Zenon
<1>6. ListsInOrder(M, J)
  BY <1>1, <1>4, <1>5, Zenon DEF ListsInOrder
<1> QED
  BY <1>6, Zenon DEF M, J

\* The recency list of the entries that a sweep keeps.
LEMMA OrderSwept ==
    ASSUME NEW K, NEW L, NEW J, ListsInOrder(L, K), J \subseteq K
    PROVE  ListsInOrder(L \cap (J \X J), J)
<1> DEFINE M == L \cap (J \X J)
<1>1. M \subseteq J \X J
  BY Zenon
<1>2. \A x, y \in J : <<x, y>> \in M <=> <<x, y>> \in L
  BY Zenon
<1> HIDE DEF M
<1>3. ListsInOrder(M, J)
  BY <1>1, <1>2, Zenon DEF ListsInOrder
<1> QED
  BY <1>3, Zenon DEF M

\* The callers that fill a cache are finitely many; one that returns is no
\* longer among them, one that misses now is.
LEMMA FillingFinite ==
    ASSUME NEW g \in Gens
    PROVE  IsFiniteSet(Filling(g)) /\ Cardinality(Filling(g)) \in Nat
<1>1. Filling(g) \in SUBSET Threads
  BY Zenon DEF Filling
<1>2. IsFiniteSet(Filling(g))
  BY <1>1, DecisionCacheAssumption, FS_Subset, Zenon
<1> QED
  BY <1>2, FS_CardinalityType, Zenon

\* A step of t that keeps it where it was, or lets it leave, adds no caller.
LEMMA FillingShrinks ==
    ASSUME NEW g \in Gens, Filling(g)' \subseteq Filling(g)
    PROVE  /\ Cardinality(Filling(g)') <= Cardinality(Filling(g))
           /\ Cardinality(Filling(g)') \in Nat /\ Cardinality(Filling(g)) \in Nat
<1>1. IsFiniteSet(Filling(g)) /\ Cardinality(Filling(g)) \in Nat
  BY FillingFinite, Zenon
<1>2. Filling(g)' \in SUBSET Filling(g)
  BY Zenon
<1> DEFINE F == Filling(g)
           G == Filling(g)'
<1> HIDE DEF F, G
<1>3. IsFiniteSet(G) /\ Cardinality(G) <= Cardinality(F)
  BY <1>1, <1>2, FS_Subset DEF F, G
<1> QED
  BY <1>1, <1>3, FS_CardinalityType DEF F, G

\* Configurations with the same fields are equal.
LEMMA ConfigEqual ==
    ASSUME NEW p \in Config, NEW q \in Config, p.on = q.on, p.capacity = q.capacity,
           p.allowTtl = q.allowTtl, p.denyTtl = q.denyTtl, p.cacheDenies = q.cacheDenies
    PROVE  p = q
  BY DEF Config

\* Settings that init_cache accepts are in force as they are.
LEMMA SettingsInit ==
    ASSUME NEW s \in Settings, NEW c \in Configs(s)
    PROVE  c.on => /\ ~Malformed(s) => [c EXCEPT !.cacheDenies = TRUE] = StrictConfig(s)
                   /\ c.capacity > 0
<1> SUFFICES ASSUME c.on PROVE /\ ~Malformed(s) => [c EXCEPT !.cacheDenies = TRUE] = StrictConfig(s)
                               /\ c.capacity > 0
  BY Zenon
<1>1. s.ttl \in Given /\ s.denyTtl \in Given /\ s.capacity \in Given
  BY DecisionCacheAssumption, Zenon
<1>2. PICK d : /\ d = LenientConfig(s) \/ (d = StrictConfig(s) /\ ~Malformed(s))
               /\ Buildable(d) /\ (c = d \/ c = [d EXCEPT !.cacheDenies = FALSE])
  <2> DEFINE read == {LenientConfig(s)} \cup (IF Malformed(s) THEN {} ELSE {StrictConfig(s)})
             built == {d \in read : Buildable(d)}
  <2>1. c \in {NoCache} \cup built \cup {[d EXCEPT !.cacheDenies = FALSE] : d \in built}
    BY Zenon DEF Configs
  <2>2. c # NoCache
    BY DEF NoCache
  <2>3. \A d \in read : d = LenientConfig(s) \/ (d = StrictConfig(s) /\ ~Malformed(s))
    BY Zenon
  <2> HIDE DEF read
  <2>4. PICK d \in built : c = d \/ c = [d EXCEPT !.cacheDenies = FALSE]
    BY <2>1, <2>2, Zenon
  <2> QED
    BY <2>3, <2>4, Zenon
<1>3. ~Malformed(s) => LenientConfig(s) = StrictConfig(s)
  BY <1>1, Zenon DEF Malformed, LenientConfig, StrictConfig, OrLenient, Or, Given
<1>4. ~Malformed(s) => [c EXCEPT !.cacheDenies = TRUE] = StrictConfig(s)
  <2> SUFFICES ASSUME ~Malformed(s) PROVE [c EXCEPT !.cacheDenies = TRUE] = StrictConfig(s)
    BY Zenon
  <2>1. d = StrictConfig(s)
    BY <1>2, <1>3, Zenon
  <2>2. c \in Config /\ [c EXCEPT !.cacheDenies = TRUE] \in Config
    BY ConfigType, Zenon DEF Config
  <2>3. StrictConfig(s) \in Config /\ StrictConfig(s).cacheDenies = TRUE
    BY <1>1, DecisionCacheAssumption, Zenon DEF StrictConfig, Malformed, Or, Config, Given
  <2>4. /\ c.on = d.on /\ c.capacity = d.capacity
        /\ c.allowTtl = d.allowTtl /\ c.denyTtl = d.denyTtl
    BY <1>2, <2>1, <2>2, <2>3, Zenon DEF Config
  <2> DEFINE e == [c EXCEPT !.cacheDenies = TRUE]
  <2>5. /\ e.on = c.on /\ e.capacity = c.capacity /\ e.allowTtl = c.allowTtl
        /\ e.denyTtl = c.denyTtl /\ e.cacheDenies = TRUE
    BY <2>2, Zenon DEF Config
  <2> HIDE DEF e
  <2> QED
    BY <2>1, <2>2, <2>3, <2>4, <2>5, ConfigEqual, Zenon DEF e
<1>5. c.capacity \in Nat
  BY ConfigType, Zenon DEF Config
<1>6. c.capacity # 0
  <2>1. d.capacity # 0
    BY <1>2, Zenon DEF Buildable
  <2>2. c.capacity = d.capacity
    BY <1>2 DEF LenientConfig, StrictConfig
  <2> QED
    BY <2>1, <2>2, Zenon
<1> QED
  BY <1>4, <1>5, <1>6

\* The number of entries, evictions and callers that fill stays within the
\* misses when none of them grows.
LEMMA BoundKept ==
    ASSUME BoundInv, config' = config, settings' = settings,
           entries' = entries, older' = older, misses' = misses, evictions' = evictions,
           config.on => \A g \in Gens : Filling(g)' \subseteq Filling(g),
           \A t \in Threads : pc'[t] \in {"key", "get", "peek", "put", "push"} => config.on
    PROVE  BoundInv'
<1>2. SettingsHonoured'
  BY Zenon DEF BoundInv, SettingsHonoured, Malformed, StrictConfig, Or
<1>1. ASSUME NEW g \in Gens, config.on
      PROVE  evictions[g] + Cardinality(DOMAIN entries[g]) + Cardinality(Filling(g)') <= misses[g]
  <2>1. /\ evictions[g] \in Nat /\ misses[g] \in Nat
        /\ IsFiniteSet(DOMAIN entries[g])
        /\ evictions[g] + Cardinality(DOMAIN entries[g]) + Cardinality(Filling(g)) <= misses[g]
    BY <1>1, Zenon DEF BoundInv
  <2>2. Cardinality(DOMAIN entries[g]) \in Nat
    BY <2>1, FS_CardinalityType, Zenon
  <2>3. /\ Cardinality(Filling(g)') <= Cardinality(Filling(g))
        /\ Cardinality(Filling(g)') \in Nat /\ Cardinality(Filling(g)) \in Nat
    BY <1>1, FillingShrinks, Zenon
  <2> QED
    BY <2>1, <2>2, <2>3
<1> QED
  BY <1>1, <1>2, Zenon DEF BoundInv

\* A caller that returns, or goes on without a new miss, joins no others.
LEMMA FillingMoves ==
    ASSUME NEW t \in Threads, NEW g \in Gens,
           \A u \in Threads \ {t} : pc'[u] = pc[u] /\ auth'[u] = auth[u],
           \/ pc'[t] \notin {"evaluate", "put", "push"}
           \/ pc[t] \in {"evaluate", "put", "push"} /\ auth'[t] = auth[t]
    PROVE  Filling(g)' \subseteq Filling(g)
  BY Zenon DEF Filling

\* The steps of authorize that leave the map alone, but for a miss.
LEMMA BoundCaller ==
    ASSUME TypeOK, BoundInv, NEW t \in Threads,
           \/ \E q \in Questions : Begin(t, q)
           \/ MakeKey(t) \/ StartGet(t) \/ Hit(t) \/ Evaluate(t) \/ StartPut(t)
    PROVE  BoundInv'
<1>0. /\ pc \in [Threads -> Steps] /\ auth \in [Threads -> Gens]
      /\ \A u \in Threads : pc[u] \in {"key", "get", "peek", "put", "push"} => config.on
  BY Zenon DEF TypeOK, ThreadTypes, BoundInv
<1>1. /\ config' = config /\ settings' = settings /\ entries' = entries /\ older' = older
      /\ misses' = misses /\ evictions' = evictions
  BY Zenon DEF Begin, MakeKey, StartGet, Hit, Evaluate, StartPut, fixed, caches
<1>2. \A u \in Threads \ {t} : pc'[u] = pc[u] /\ auth'[u] = auth[u]
  BY <1>0, Zenon DEF Begin, MakeKey, StartGet, Hit, Evaluate, StartPut, Return, Goto, call
<1>3. /\ pc'[t] \in {"key", "get", "peek", "put", "push"} => config.on
      /\ config.on => \/ pc'[t] \notin {"evaluate", "put", "push"}
                      \/ pc[t] \in {"evaluate", "put", "push"} /\ auth'[t] = auth[t]
  <2>1. CASE \E q \in Questions : Begin(t, q)
    BY <1>0, <2>1, Zenon DEF Begin, Goto
  <2>2. CASE MakeKey(t) \/ StartGet(t)
    BY <1>0, <2>2, Zenon DEF MakeKey, StartGet, Goto, call
  <2>3. CASE Hit(t)
    BY <1>0, <2>3, Zenon DEF Hit, Return, Goto
  <2>4. CASE Evaluate(t)
    BY <1>0, <2>4, Zenon DEF Evaluate, Return, Goto, call
  <2>5. CASE StartPut(t)
    BY <1>0, <2>5, Zenon DEF StartPut, Return, Goto, call
  <2> QED
    BY <2>1, <2>2, <2>3, <2>4, <2>5, Zenon
<1>4. config.on => \A g \in Gens : Filling(g)' \subseteq Filling(g)
  BY <1>2, <1>3, FillingMoves, Zenon
<1>5. \A u \in Threads : pc'[u] \in {"key", "get", "peek", "put", "push"} => config.on
  BY <1>0, <1>2, <1>3, Zenon
<1> QED
  BY <1>1, <1>4, <1>5, BoundKept, Zenon

\* Maintenance, reloads and the clock leave the maps and the callers alone.
LEMMA BoundIdle ==
    ASSUME BoundInv,
           \/ \E g \in Gens : Invalidate(g) \/ \E v \in 1..MaxUpkeep : SetPolicyVersion(g, v)
           \/ \E g \in Gens : StartSweep(g)
           \/ Reload \/ Tick \/ UNCHANGED vars
    PROVE  BoundInv'
<1>1. /\ config' = config /\ settings' = settings /\ entries' = entries /\ older' = older
      /\ misses' = misses /\ evictions' = evictions /\ pc' = pc /\ auth' = auth
  BY Zenon DEF Invalidate, SetPolicyVersion, StartSweep, Reload, Tick, vars, fixed, caches, call
<1>2. \A g \in Gens : Filling(g)' \subseteq Filling(g)
  BY <1>1, Zenon DEF Filling
<1>3. \A u \in Threads : pc'[u] \in {"key", "get", "peek", "put", "push"} => config.on
  BY <1>1, Zenon DEF BoundInv
<1> QED
  BY <1>1, <1>2, <1>3, BoundKept, Zenon

\* A miss is counted before its caller may fill.
LEMMA BoundMiss ==
    ASSUME TypeOK, BoundInv, NEW t \in Threads, Miss(t)
    PROVE  BoundInv'
<1>1. /\ UNCHANGED <<settings, config, entries, older, evictions, auth>>
      /\ misses' = [misses EXCEPT ![auth[t]] = @ + 1]
      /\ pc[t] = "peek" /\ pc' = [pc EXCEPT ![t] = "evaluate"]
      /\ pc \in [Threads -> Steps] /\ auth[t] \in Gens /\ misses \in [Gens -> Nat]
  BY Zenon DEF Miss, Goto, fixed, call, TypeOK, ThreadTypes, BoundInv
<1>2. SettingsHonoured'
  BY <1>1, Zenon DEF BoundInv, SettingsHonoured, Malformed, StrictConfig, Or
<1>3. misses' \in [Gens -> Nat]
  BY <1>1
<1>4. \A u \in Threads : pc'[u] \in {"key", "get", "peek", "put", "push"} => config.on
  BY <1>1, Zenon DEF BoundInv
<1>5. ASSUME NEW g \in Gens, config.on
      PROVE  evictions[g] + Cardinality(DOMAIN entries[g]) + Cardinality(Filling(g)') <= misses'[g]
  <2>1. /\ evictions[g] \in Nat /\ misses[g] \in Nat
        /\ IsFiniteSet(DOMAIN entries[g])
        /\ evictions[g] + Cardinality(DOMAIN entries[g]) + Cardinality(Filling(g)) <= misses[g]
    BY <1>5, Zenon DEF BoundInv
  <2>2. /\ Cardinality(DOMAIN entries[g]) \in Nat
        /\ IsFiniteSet(Filling(g)) /\ Cardinality(Filling(g)) \in Nat
    BY <2>1, FS_CardinalityType, FillingFinite, Zenon
  <2>3. CASE g # auth[t]
    <3>1. Filling(g)' = Filling(g) /\ misses'[g] = misses[g]
      BY <1>1, <2>3, Zenon DEF Filling
    <3> QED
      BY <2>1, <3>1, Zenon
  <2>4. CASE g = auth[t]
    <3>1. Filling(g)' = Filling(g) \cup {t} /\ misses'[g] = misses[g] + 1
      BY <1>1, <2>4, Zenon DEF Filling
    <3> DEFINE F == Filling(g)
    <3> HIDE DEF F
    <3>2. Cardinality(F \cup {t}) = IF t \in F THEN Cardinality(F) ELSE Cardinality(F) + 1
      BY <2>2, FS_AddElement, Zenon DEF F
    <3>3. Cardinality(Filling(g)') <= Cardinality(Filling(g)) + 1 /\ Cardinality(Filling(g)') \in Nat
      BY <2>2, <3>1, <3>2 DEF F
    <3> QED
      BY <2>1, <2>2, <3>1, <3>3
  <2> QED
    BY <2>3, <2>4, Zenon
<1> QED
  BY <1>1, <1>2, <1>3, <1>4, <1>5, Zenon DEF BoundInv

\* A push adds its entry, displaces the least recent one of a full map, and its
\* caller is no longer among those that fill.
LEMMA BoundPush ==
    ASSUME TypeOK, BoundInv, NEW t \in Threads, Push(t)
    PROVE  BoundInv'
<1> DEFINE g == auth[t]
           k == CacheKey(t)
           K == DOMAIN entries[g]
           out == Victims(g, k)
           D == (K \ out) \cup {k}
<1>1. /\ UNCHANGED <<settings, config, misses>> /\ pc[t] = "push"
      /\ DOMAIN entries = Gens /\ DOMAIN older = Gens /\ g \in Gens
      /\ evictions \in [Gens -> Nat] /\ misses \in [Gens -> Nat]
      /\ pc \in [Threads -> Steps] /\ auth \in [Threads -> Gens]
      /\ pc' = [pc EXCEPT ![t] = "idle"] /\ auth' = [auth EXCEPT ![t] = 0]
  BY Zenon DEF Push, Return, Goto, fixed, TypeOK, CacheTypes, ThreadTypes, BoundInv
<1>2. /\ config.on /\ config.capacity \in Nat \ {0}
      /\ IsFiniteSet(K) /\ Cardinality(K) <= config.capacity
      /\ ListsInOrder(older[g], K)
  <2>1. config.on /\ config.capacity > 0 /\ config.capacity \in Nat
    BY <1>1, Zenon DEF BoundInv, SettingsHonoured, TypeOK, CacheTypes, Config
  <2>2. config.capacity \in Nat \ {0}
    BY <2>1
  <2> QED
    BY <1>1, <2>1, <2>2, Zenon DEF BoundInv
<1>3. /\ entries'[g] = [x \in D |-> IF x = k THEN
                            [effect |-> effect[t], version |-> seenVersion[t], storedAt |-> now[t],
                             expires |-> now[t] + Ttl(effect[t]), asOf |-> asOf[t]]
                            ELSE entries[g][x]]
      /\ older'[g] = (older[g] \cap ((D \ {k}) \X (D \ {k}))) \cup ((D \ {k}) \X {k})
      /\ evictions'[g] = evictions[g] + Cardinality(out)
      /\ DOMAIN older' = Gens
      /\ \A h \in Gens \ {g} : /\ entries'[h] = entries[h] /\ older'[h] = older[h]
                               /\ evictions'[h] = evictions[h]
      /\ evictions' = [evictions EXCEPT ![g] = @ + Cardinality(out)]
  BY <1>1, Zenon DEF Push
<1>4. DOMAIN entries'[g] = D
  BY <1>3, Zenon
<1>5. /\ IsFiniteSet(D) /\ Cardinality(D) \in Nat /\ Cardinality(out) \in Nat
      /\ Cardinality(D) <= config.capacity
      /\ Cardinality(out) + Cardinality(D) <= Cardinality(K) + 1
  BY <1>1, <1>2, PushCounts, Zenon
<1>6. ListsInOrder(older'[g], DOMAIN entries'[g])
  <2>1. D \ {k} \subseteq K /\ k \notin D \ {k} /\ D = (D \ {k}) \cup {k}
    BY Zenon
  <2> HIDE DEF D, K, k
  <2>2. ListsInOrder((older[g] \cap ((D \ {k}) \X (D \ {k}))) \cup ((D \ {k}) \X {k}), (D \ {k}) \cup {k})
    BY <1>2, <2>1, OrderPushed, Zenon
  <2> QED
    BY <1>3, <1>4, <2>1, <2>2, Zenon
<1> HIDE DEF k, K, out, D
<1>7. evictions' \in [Gens -> Nat]
  <2>1. evictions \in [Gens -> Nat] /\ evictions[g] \in Nat /\ Cardinality(out) \in Nat
    BY <1>1, <1>5, Zenon
  <2>2. evictions[g] + Cardinality(out) \in Nat
    BY ONLY <2>1
  <2> QED
    BY <1>3, <2>1, <2>2, Zenon
<1>8. \A u \in Threads \ {t} : pc'[u] = pc[u] /\ auth'[u] = auth[u]
  BY <1>1, Zenon
<1>9. pc'[t] = "idle"
  BY <1>1, Zenon
<1>10. ASSUME NEW h \in Gens
       PROVE  evictions'[h] + Cardinality(DOMAIN entries'[h]) + Cardinality(Filling(h)') <= misses[h]
  <2>1. /\ evictions[h] \in Nat /\ misses[h] \in Nat /\ IsFiniteSet(DOMAIN entries[h])
        /\ evictions[h] + Cardinality(DOMAIN entries[h]) + Cardinality(Filling(h)) <= misses[h]
    BY <1>2, Zenon DEF BoundInv
  <2>2. Cardinality(DOMAIN entries[h]) \in Nat
    BY <2>1, FS_CardinalityType, Zenon
  <2>3. Filling(h)' \subseteq Filling(h)
    BY <1>8, <1>9, FillingMoves, Zenon
  <2>4. /\ Cardinality(Filling(h)') <= Cardinality(Filling(h))
        /\ Cardinality(Filling(h)') \in Nat /\ Cardinality(Filling(h)) \in Nat
    BY <2>3, FillingShrinks, Zenon
  <2>5. CASE h # g
    <3>1. /\ Cardinality(DOMAIN entries'[h]) = Cardinality(DOMAIN entries[h])
          /\ evictions'[h] = evictions[h]
      BY <1>3, <2>5, Zenon
    <3> QED
      BY ONLY <2>1, <2>2, <2>4, <3>1
  <2>6. CASE h = g
    <3>1. Filling(h)' = Filling(h) \ {t} /\ t \in Filling(h)
      BY <1>1, <1>8, <1>9, <2>6, Zenon DEF Filling
    <3>2. IsFiniteSet(Filling(h))
      BY FillingFinite, Zenon
    <3>3. Cardinality(Filling(h) \ {t}) = Cardinality(Filling(h)) - 1
      <4> DEFINE F == Filling(h)
      <4> HIDE DEF F
      <4>1. Cardinality(F \ {t}) = Cardinality(F) - 1
        BY <3>1, <3>2, FS_RemoveElement, Zenon DEF F
      <4> QED
        BY <4>1 DEF F
    <3>4. Cardinality(Filling(h)') = Cardinality(Filling(h)) - 1
      BY <3>1, <3>3, Zenon
    <3>5. /\ evictions'[h] = evictions[h] + Cardinality(out)
          /\ Cardinality(DOMAIN entries'[h]) = Cardinality(D)
          /\ Cardinality(out) + Cardinality(D) <= Cardinality(DOMAIN entries[h]) + 1
      BY <1>3, <1>4, <1>5, <2>6, Zenon DEF K
    <3> QED
      BY <1>5, <2>1, <2>2, <2>4, <3>4, <3>5
  <2> QED
    BY <2>5, <2>6, Zenon
<1>11. ASSUME NEW h \in Gens
       PROVE  /\ IsFiniteSet(DOMAIN entries'[h])
              /\ Cardinality(DOMAIN entries'[h]) <= config.capacity
              /\ ListsInOrder(older'[h], DOMAIN entries'[h])
  <2>1. CASE h = g
    BY <1>4, <1>5, <1>6, <2>1, Zenon
  <2>2. CASE h # g
    BY <1>3, <2>2, Zenon DEF BoundInv
  <2> QED
    BY <2>1, <2>2, Zenon
<1>12. SettingsHonoured'
  BY <1>1, Zenon DEF BoundInv, SettingsHonoured, Malformed, StrictConfig, Or
<1> QED
  BY <1>1, <1>2, <1>3, <1>7, <1>10, <1>11, <1>12, Zenon DEF BoundInv

\* A sweep keeps some of the map's keys, in their order.
LEMMA BoundSweep ==
    ASSUME TypeOK, BoundInv, Sweep
    PROVE  BoundInv'
<1> DEFINE g == sweep.gen
           K == DOMAIN entries[g]
           keep == {k \in K : ~Stale(entries[g][k], sweep.version, sweep.now)}
<1>1. /\ UNCHANGED <<settings, config, misses, pc, auth>>
      /\ DOMAIN entries = Gens /\ DOMAIN older = Gens /\ g \in Gens
      /\ misses \in [Gens -> Nat]
  BY Zenon DEF Sweep, fixed, call, TypeOK, CacheTypes, BoundInv
<1>2. /\ DOMAIN entries'[g] = keep
      /\ older'[g] = older[g] \cap (keep \X keep)
      /\ DOMAIN older' = Gens /\ evictions' = evictions
      /\ \A h \in Gens \ {g} : entries'[h] = entries[h] /\ older'[h] = older[h]
  BY <1>1, Zenon DEF Sweep
<1>3. keep \subseteq K
  BY Zenon
<1> HIDE DEF keep, K
<1>4. \A h \in Gens : DOMAIN entries'[h] \subseteq DOMAIN entries[h]
  BY <1>2, <1>3, Zenon DEF K
<1>5. ASSUME NEW h \in Gens
      PROVE  /\ IsFiniteSet(DOMAIN entries'[h])
             /\ Cardinality(DOMAIN entries'[h]) <= Cardinality(DOMAIN entries[h])
             /\ Cardinality(DOMAIN entries'[h]) \in Nat /\ Cardinality(DOMAIN entries[h]) \in Nat
  <2>1. IsFiniteSet(DOMAIN entries[h])
    BY Zenon DEF BoundInv
  <2> QED
    BY <1>4, <2>1, FS_Subset, FS_CardinalityType, Zenon
<1>6. ASSUME NEW h \in Gens
      PROVE  ListsInOrder(older'[h], DOMAIN entries'[h])
  <2>1. ListsInOrder(older[h], DOMAIN entries[h])
    BY Zenon DEF BoundInv
  <2>2. CASE h = g
    <3>1. ListsInOrder(older[g], K)
      BY <2>1, <2>2, Zenon DEF K
    <3>2. ListsInOrder(older[g] \cap (keep \X keep), keep)
      BY <1>3, <3>1, OrderSwept, Zenon
    <3> QED
      BY <1>2, <2>2, <3>2, Zenon
  <2>3. CASE h # g
    BY <1>2, <2>1, <2>3, Zenon
  <2> QED
    BY <2>2, <2>3, Zenon
<1>7. \A h \in Gens : Filling(h)' = Filling(h)
  BY <1>1, Zenon DEF Filling
<1>8. ASSUME NEW h \in Gens
      PROVE  Cardinality(DOMAIN entries'[h]) <= config.capacity
  <2>1. Cardinality(DOMAIN entries[h]) <= config.capacity /\ config.capacity \in Nat
    BY Zenon DEF BoundInv, TypeOK, CacheTypes, Config
  <2> QED
    BY <1>5, <2>1
<1>9. ASSUME NEW h \in Gens, config.on
      PROVE  evictions[h] + Cardinality(DOMAIN entries'[h]) + Cardinality(Filling(h)) <= misses[h]
  <2>1. /\ evictions[h] \in Nat /\ misses[h] \in Nat
        /\ evictions[h] + Cardinality(DOMAIN entries[h]) + Cardinality(Filling(h)) <= misses[h]
    BY <1>9, Zenon DEF BoundInv
  <2>2. Cardinality(Filling(h)) \in Nat
    BY FillingFinite, FS_CardinalityType, Zenon
  <2> QED
    BY <1>5, <2>1, <2>2
<1>10. ASSUME NEW h \in Gens, ~config.on
       PROVE  DOMAIN entries'[h] = {} /\ evictions[h] = 0
  <2>1. DOMAIN entries[h] = {} /\ evictions[h] = 0
    BY <1>10, Zenon DEF BoundInv
  <2> QED
    BY <1>4, <2>1, Zenon
<1>11. SettingsHonoured'
  BY <1>1, Zenon DEF BoundInv, SettingsHonoured, Malformed, StrictConfig, Or
<1> QED
  BY <1>1, <1>2, <1>5, <1>6, <1>7, <1>8, <1>9, <1>10, <1>11, Zenon DEF BoundInv

LEMMA BoundInit == Init => BoundInv
<1> SUFFICES ASSUME Init PROVE BoundInv
  BY Zenon
<1>1. SettingsHonoured
  BY SettingsInit, Zenon DEF Init, SettingsHonoured
<1>2. config.capacity \in Nat
  BY TypeInit, Zenon DEF TypeOK, CacheTypes, Config
<1>3. ASSUME NEW g \in Gens
      PROVE  /\ DOMAIN entries[g] = {} /\ older[g] = {} /\ evictions[g] = 0 /\ misses[g] = 0
             /\ Filling(g) = {}
  <2>1. entries[g] = << >> /\ older[g] = {} /\ evictions[g] = 0 /\ misses[g] = 0
    BY Zenon DEF Init
  <2>2. DOMAIN entries[g] = {}
    BY <2>1
  <2>3. Filling(g) = {}
    BY DEF Filling, Init
  <2> QED
    BY <2>1, <2>2, <2>3, Zenon
<1>4. IsFiniteSet({}) /\ Cardinality({}) = 0
  BY FS_EmptySet, Zenon
<1>5. ListsInOrder({}, {})
  BY Zenon DEF ListsInOrder
<1>6. misses \in [Gens -> Nat] /\ evictions \in [Gens -> Nat] /\ DOMAIN older = Gens
  BY DEF Init
<1>7. \A t \in Threads : pc[t] = "idle"
  BY Zenon DEF Init
<1>8. 0 <= config.capacity /\ 0 + 0 + 0 <= 0
  BY <1>2
<1> QED
  BY <1>1, <1>3, <1>4, <1>5, <1>6, <1>7, <1>8, Zenon DEF BoundInv

LEMMA BoundNext == TypeOK /\ BoundInv /\ [Next]_vars => BoundInv'
<1> SUFFICES ASSUME TypeOK, BoundInv, [Next]_vars PROVE BoundInv'
  BY Zenon
<1>1. ASSUME NEW t \in Threads, NEW q \in Questions, Begin(t, q) PROVE BoundInv'
  BY <1>1, BoundCaller, Zenon
<1>2. ASSUME NEW t \in Threads,
             MakeKey(t) \/ StartGet(t) \/ Hit(t) \/ Evaluate(t) \/ StartPut(t)
      PROVE  BoundInv'
  BY <1>2, BoundCaller, Zenon
<1>3. ASSUME NEW t \in Threads, Miss(t) PROVE BoundInv'
  BY <1>3, BoundMiss, Zenon
<1>4. ASSUME NEW t \in Threads, Push(t) PROVE BoundInv'
  BY <1>4, BoundPush, Zenon
<1>5. CASE Sweep
  BY <1>5, BoundSweep, Zenon
<1>6. CASE \/ \E g \in Gens : Invalidate(g) \/ \E v \in 1..MaxUpkeep : SetPolicyVersion(g, v)
           \/ \E g \in Gens : StartSweep(g)
           \/ Reload \/ Tick \/ UNCHANGED vars
  BY <1>6, BoundIdle, Zenon
<1> QED
  BY <1>1, <1>2, <1>3, <1>4, <1>5, <1>6, Zenon DEF Next

\* A decision cache never holds more entries than its configured capacity, its
\* order of eviction always covers exactly the keys of its map, what it evicted
\* and what it holds never outnumber its misses, and the settings it runs with
\* are the ones it was given (cache.rs: get, put, evict_expired; config.rs).
THEOREM CacheAlwaysBounded == Spec => []CacheBounded
<1>1. TypeOK /\ BoundInv => CacheBounded
  <2> SUFFICES ASSUME TypeOK, BoundInv PROVE CacheBounded
    BY Zenon
  <2>1. ASSUME NEW g \in Gens
        PROVE  evictions[g] + Cardinality(DOMAIN entries[g]) <= misses[g]
    <3>1. /\ IsFiniteSet(DOMAIN entries[g]) /\ evictions[g] \in Nat /\ misses[g] \in Nat
      BY Zenon DEF BoundInv
    <3>2. CASE config.on
      <4>1. evictions[g] + Cardinality(DOMAIN entries[g]) + Cardinality(Filling(g)) <= misses[g]
        BY <3>2, Zenon DEF BoundInv
      <4>2. Cardinality(Filling(g)) \in Nat /\ Cardinality(DOMAIN entries[g]) \in Nat
        BY <3>1, FillingFinite, FS_CardinalityType, Zenon
      <4> QED
        BY <3>1, <4>1, <4>2
    <3>3. CASE ~config.on
      <4>1. DOMAIN entries[g] = {} /\ evictions[g] = 0
        BY <3>3, Zenon DEF BoundInv
      <4>2. Cardinality({}) = 0
        BY FS_EmptySet, Zenon
      <4> QED
        BY <3>1, <4>1, <4>2
    <3> QED
      BY <3>2, <3>3, Zenon
  <2> QED
    BY <2>1, Zenon DEF BoundInv, CacheBounded
<1> QED
  BY <1>1, TypeInit, TypeNext, BoundInit, BoundNext, PTL DEF Spec
=============================================================================
