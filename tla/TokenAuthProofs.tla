-------------------------- MODULE TokenAuthProofs --------------------------
(***************************************************************************)
(* Proofs about TokenKeys and DpopReplay: the key registry stays           *)
(* consistent and its graces end, a validator accepts only current keys,   *)
(* and the answers of the replay tracker are right.                        *)
(***************************************************************************)
EXTENDS TokenKeys, DpopReplay, FiniteSetTheorems, TLAPS

-----------------------------------------------------------------------------
(* The invariants of the registry and of the validator. *)

\* No entry has a grace beyond the one its id was given last.
GracesBounded == \A k \in Kids : \A e \in entries[k] : e.grace <= deadline[k]

\* The keys the document d lists for the id k.
KeysListed(d, k) == {l.key : l \in {m \in Listed(d) : KidOf(m) = k}}

\* The keys of k that a validator can find.
KeysHeld(k) == {e.key : e \in {x \in entries[k] : x.alg = EdDSA}}

\* What is to be added is the rest of the document, and of what was added every
\* id, unless callers use it, has keys of the document only.
RefreshInv ==
    applying # 0 =>
        LET doc == Documents[applying]
            done == Len(doc) - Len(todo)
        IN  /\ done >= 0
            /\ \A i \in DOMAIN todo : todo[i] = doc[i + done]
            /\ \A i \in 1..done : Usable(doc[i]) /\ KidOf(doc[i]) \notin OwnKids =>
                    KeysHeld(KidOf(doc[i])) \subseteq KeysListed(applying, KidOf(doc[i]))

\* An id of the document added last has keys of it, or of the one being added.
AppliedInv ==
    applied # 0 =>
        \A l \in Listed(applied) : KidOf(l) \notin OwnKids =>
            KeysHeld(KidOf(l)) \subseteq ListedFor(KidOf(l))

ValidatorInv ==
    /\ todo \in Seq(ListedKey)
    /\ phase = "direct" => applied = 0 /\ applying = 0
    /\ phase # "direct" => \A k \in Kids : \A e \in entries[k] : e.grace = NoGrace
    /\ RefreshInv /\ AppliedInv

KeysInv == RegistryInv /\ GracesBounded /\ ValidatorInv

-----------------------------------------------------------------------------
(* The registry. *)

\* The queue has as many ids as are registered.
LEMMA QueueCounts ==
    ASSUME RegistryInv
    PROVE  /\ order \in Seq(Kids) /\ Len(order) \in Nat /\ DOMAIN order = 1..Len(order)
           /\ Cardinality(Registered) = Len(order) /\ Len(order) <= Cap
<1>1. order \in Seq(Kids) /\ Len(order) <= Cap
    BY Zenon DEF RegistryInv, TypeOK
<1>2. Len(order) \in Nat /\ DOMAIN order = 1..Len(order)
    BY <1>1
<1>3. order \in [1..Len(order) -> Registered]
    <2>1. order \in [1..Len(order) -> Kids]
        BY <1>1, <1>2
    <2>. QED
        BY <1>2, <2>1, Zenon DEF RegistryInv
<1>4. order \in Bijection(1..Len(order), Registered)
    <2>1. \A i, j \in 1..Len(order) : order[i] = order[j] => i = j
        BY <1>2, Zenon DEF RegistryInv
    <2>2. \A k \in Registered : \E i \in 1..Len(order) : order[i] = k
        BY <1>2, Zenon DEF RegistryInv
    <2>3. DOMAIN order = 1..Len(order)
        BY <1>2, Zenon
    <2>. QED
        BY <1>3, <2>1, <2>2, <2>3, Zenon DEF Bijection, Injection, Surjection, IsInjective
<1>5. IsFiniteSet(1..Len(order)) /\ Cardinality(1..Len(order)) = Len(order)
    <2>1. Cardinality(1..Len(order)) = IF 1 > Len(order) THEN 0 ELSE Len(order) - 1 + 1
        BY <1>2, FS_Interval
    <2>2. IsFiniteSet(1..Len(order))
        BY <1>2, FS_Interval
    <2>. QED
        BY <1>2, <2>1, <2>2
<1>6. Cardinality(Registered) = Len(order)
    BY <1>4, <1>5, FS_Bijection, Zenon DEF ExistsBijection
<1>. QED
    BY <1>1, <1>2, <1>6, Zenon

\* An id not yet registered takes a free place, or that of one evicted.
LEMMA EvictionsSuffice ==
    ASSUME RegistryInv, NEW k \in Kids
    PROVE  /\ Evictions(k) \in {0, 1} /\ Evictions(k) <= Len(order)
           /\ k \in Registered => Evictions(k) = 0
           /\ k \notin Registered => Len(order) - Evictions(k) < Cap
<1>1. Len(order) \in Nat /\ Cardinality(Registered) = Len(order) /\ Len(order) <= Cap
    BY QueueCounts, Zenon
<1>2. Cap \in Nat \ {0}
    BY TokenKeysAssumption, Zenon
<1>. QED
    BY <1>1, <1>2 DEF Evictions

\* The places of the ids that stay.
LEMMA RemainingIs ==
    ASSUME RegistryInv, NEW k \in Kids
    PROVE  /\ Remaining(k) \in Seq(Kids)
           /\ DOMAIN Remaining(k) = 1..(Len(order) - Evictions(k))
           /\ Len(Remaining(k)) = Len(order) - Evictions(k)
           /\ \A i \in DOMAIN Remaining(k) : Remaining(k)[i] = order[i + Evictions(k)]
<1>1. Len(order) \in Nat /\ order \in Seq(Kids) /\ DOMAIN order = 1..Len(order)
    BY QueueCounts, Zenon
<1>2. PICK n \in Nat : n = Evictions(k) /\ n <= Len(order)
    BY EvictionsSuffice, Zenon
<1>3. PICK m \in Nat : m = Len(order)
    BY <1>1, Zenon
<1>4. \A i \in (n + 1)..m : order[i] \in Kids
    <2>1. \A i \in (n + 1)..m : i \in DOMAIN order
        BY <1>1, <1>2, <1>3
    <2>. QED
        BY <1>1, <2>1
<1>5. /\ SubSeq(order, n + 1, m) \in Seq(Kids)
      /\ Len(SubSeq(order, n + 1, m)) = IF n + 1 <= m THEN m - (n + 1) + 1 ELSE 0
      /\ \A i \in 1..(m - (n + 1) + 1) : SubSeq(order, n + 1, m)[i] = order[n + 1 + i - 1]
    <2>1. n + 1 \in Int /\ m \in Int
        BY <1>2, <1>3
    <2>. QED
        BY <1>4, <2>1
<1>6. PICK r : r = Remaining(k) /\ r = SubSeq(order, n + 1, m)
    BY <1>2, <1>3, Zenon DEF Remaining
<1>7. r \in Seq(Kids) /\ Len(r) = m - n
    BY <1>2, <1>3, <1>5, <1>6
<1>8. DOMAIN r = 1..(m - n)
    BY <1>7
<1>9. \A i \in 1..(m - n) : r[i] = order[i + n]
    <2>1. SUFFICES ASSUME NEW i \in 1..(m - n) PROVE r[i] = order[i + n]
        BY Zenon
    <2>2. i \in 1..(m - (n + 1) + 1) /\ n + 1 + i - 1 = i + n
        BY <1>2, <1>3, <2>1
    <2>. QED
        BY <1>5, <1>6, <2>2, Zenon
<1>. QED
    BY <1>2, <1>3, <1>6, <1>7, <1>8, <1>9, Zenon

\* The queue after reserve_kid_slot: it names the ids that stay and the new one.
LEMMA SlotReserved ==
    ASSUME RegistryInv, NEW k \in Kids, ReserveKidSlot(k)
    PROVE  /\ order' \in Seq(Kids) /\ Len(order') <= Cap
           /\ \A i, j \in DOMAIN order' : i # j => order'[i] # order'[j]
           /\ {order'[i] : i \in DOMAIN order'} = (Registered \ Evicted(k)) \cup {k}
           /\ k \notin Evicted(k)
<1>1. /\ order \in Seq(Kids) /\ Len(order) \in Nat /\ DOMAIN order = 1..Len(order)
      /\ Len(order) <= Cap
    BY QueueCounts, Zenon
<1>2. Cap \in Nat
    BY TokenKeysAssumption, Zenon
<1>3. PICK n \in {0, 1} : /\ n = Evictions(k) /\ n <= Len(order) /\ (k \in Registered => n = 0)
                          /\ (k \notin Registered => Len(order) - n < Cap)
    BY EvictionsSuffice, Zenon
<1>4. PICK r : /\ r = Remaining(k) /\ r \in Seq(Kids) /\ DOMAIN r = 1..(Len(order) - n)
               /\ Len(r) = Len(order) - n /\ \A i \in DOMAIN r : r[i] = order[i + n]
    BY <1>3, RemainingIs, Zenon
<1>5. \A i \in DOMAIN r : i + n \in DOMAIN order
    BY <1>1, <1>3, <1>4
<1>6. \A i, j \in DOMAIN r : i # j => r[i] # r[j]
    <2>1. \A i, j \in DOMAIN r : i # j => i + n # j + n
        BY <1>1, <1>3, <1>4
    <2>. QED
        BY <1>4, <1>5, <2>1 DEF RegistryInv
<1>7. \A i \in DOMAIN r : r[i] \in Registered
    BY <1>4, <1>5, Zenon DEF RegistryInv
<1>8. Evicted(k) = Registered \ {r[i] : i \in DOMAIN r}
    BY <1>4, Zenon DEF Evicted
<1>9. Registered \ Evicted(k) = {r[i] : i \in DOMAIN r}
    BY <1>7, <1>8, Zenon
<1>10. CASE k \in Registered
    <2>1. order' = order /\ n = 0
        BY <1>3, <1>10, Zenon DEF ReserveKidSlot
    <2>2. DOMAIN r = DOMAIN order /\ \A i \in DOMAIN r : i + n = i
        BY <1>1, <1>4, <2>1
    <2>3. \A i \in DOMAIN r : r[i] = order[i]
        BY <1>4, <2>2, Zenon
    <2>4. {r[i] : i \in DOMAIN r} = {order[i] : i \in DOMAIN order}
        BY <2>2, <2>3, Zenon
    <2>5. {order[i] : i \in DOMAIN order} = Registered
        BY Zenon DEF RegistryInv
    <2>6. k \notin Evicted(k) /\ (Registered \ Evicted(k)) \cup {k} = Registered
        BY <1>8, <1>10, <2>4, <2>5, Zenon
    <2>. QED
        BY <1>1, <2>1, <2>5, <2>6 DEF RegistryInv
<1>11. CASE k \notin Registered
    <2>1. order' = Append(r, k)
        BY <1>4, <1>11, Zenon DEF ReserveKidSlot
    <2>2. PICK m \in Nat : m = Len(r) /\ m = Len(order) - n
        BY <1>1, <1>3, <1>4
    <2>3. order' \in Seq(Kids) /\ Len(order') = m + 1 /\ DOMAIN order' = 1..(m + 1)
        BY <1>4, <2>1, <2>2
    <2>4. \A i \in DOMAIN r : order'[i] = r[i]
        BY <1>4, <2>1, <2>2
    <2>5. order'[m + 1] = k
        BY <1>4, <2>1, <2>2
    <2>6. DOMAIN order' = DOMAIN r \cup {m + 1} /\ m + 1 \notin DOMAIN r
        BY <1>4, <2>2, <2>3
    <2>7. \A i \in DOMAIN r : order'[i] # k
        BY <1>7, <1>11, <2>4, Zenon
    <2>8. \A i, j \in DOMAIN order' : i # j => order'[i] # order'[j]
        BY <1>6, <2>4, <2>5, <2>6, <2>7, Zenon
    <2>9. {order'[i] : i \in DOMAIN order'} = {r[i] : i \in DOMAIN r} \cup {k}
        BY <2>4, <2>5, <2>6
    <2>10. Len(order') <= Cap
        BY <1>1, <1>2, <1>3, <1>11, <2>2, <2>3
    <2>11. k \notin Evicted(k)
        BY <1>8, <1>11, Zenon
    <2>. QED
        BY <1>9, <2>3, <2>8, <2>9, <2>10, <2>11, Zenon
<1>. QED
    BY <1>10, <1>11, Zenon

\* What add and rotate do to the registry, when the id k gets the entries es.
Updates(k, es) ==
    /\ ReserveKidSlot(k)
    /\ entries' = [j \in Kids |-> IF j = k THEN es
                                ELSE IF j \in Evicted(k) THEN {} ELSE entries[j]]

\* Entries of one id: one is active, and no two of the same algorithm.
WellKept(es) ==
    /\ \E e \in es : e.grace = NoGrace
    /\ \A e, f \in es : e.alg = f.alg /\ e.grace = NoGrace /\ f.grace = NoGrace => e = f

\* The map after it.
LEMMA EntriesUpdated ==
    ASSUME RegistryInv, NEW k \in Kids, NEW es, Updates(k, es)
    PROVE  /\ entries'[k] = es
           /\ \A j \in Kids \ {k} : entries'[j] = entries[j] \/ entries'[j] = {}
           /\ \A j \in Kids \ {k} : j \in Evicted(k) => entries'[j] = {}
           /\ \A j \in Kids \ {k} : j \notin Evicted(k) => entries'[j] = entries[j]
BY Zenon DEF Updates

\* The registry stays consistent.
LEMMA RegistryUpdated ==
    ASSUME RegistryInv, NEW k \in Kids, NEW es \in SUBSET Entry, Updates(k, es), WellKept(es)
    PROVE  /\ entries' \in [Kids -> SUBSET Entry] /\ order' \in Seq(Kids) /\ Len(order') <= Cap
           /\ \A i, j \in DOMAIN order' : i # j => order'[i] # order'[j]
           /\ {order'[i] : i \in DOMAIN order'} = Registered'
           /\ \A j \in Registered' : WellKept(entries'[j])
<1>1. /\ order' \in Seq(Kids) /\ Len(order') <= Cap
      /\ \A i, j \in DOMAIN order' : i # j => order'[i] # order'[j]
      /\ {order'[i] : i \in DOMAIN order'} = (Registered \ Evicted(k)) \cup {k}
      /\ k \notin Evicted(k)
    BY SlotReserved, Zenon DEF Updates
<1>2. entries \in [Kids -> SUBSET Entry]
    BY Zenon DEF RegistryInv, TypeOK
<1>3. entries' \in [Kids -> SUBSET Entry]
    BY <1>2, Zenon DEF Updates
<1>4. /\ entries'[k] = es
      /\ \A j \in Kids \ {k} : j \in Evicted(k) => entries'[j] = {}
      /\ \A j \in Kids \ {k} : j \notin Evicted(k) => entries'[j] = entries[j]
    BY EntriesUpdated, Zenon
<1>5. es # {}
    BY Zenon DEF WellKept
<1>6. Registered' = (Registered \ Evicted(k)) \cup {k}
    BY <1>1, <1>4, <1>5, Zenon DEF Registered
<1>7. ASSUME NEW j \in Registered'
      PROVE  WellKept(entries'[j])
    <2>1. CASE j = k
        BY <1>4, <2>1, Zenon
    <2>2. CASE j # k
        <3>1. j \in Registered /\ j \in Kids /\ entries'[j] = entries[j]
            BY <1>4, <1>6, <2>2, Zenon DEF Registered
        <3>. QED
            BY <3>1, Zenon DEF RegistryInv, WellKept
    <2>. QED
        BY <2>1, <2>2, Zenon
<1>. QED
    BY <1>1, <1>3, <1>6, <1>7, Zenon

\* The entries of every id are well kept, if there are any.
LEMMA EntriesTyped ==
    ASSUME RegistryInv, NEW k \in Kids
    PROVE  /\ entries[k] \subseteq Entry
           /\ \A e \in entries[k] : e.alg \in Algs /\ e.key \in Keys /\ e.grace \in Int
           /\ entries[k] # {} => WellKept(entries[k])
<1>1. entries[k] \subseteq Entry
    BY Zenon DEF RegistryInv, TypeOK
<1>2. \A e \in entries[k] : e.alg \in Algs /\ e.key \in Keys /\ e.grace \in Int
    BY <1>1, Zenon DEF Entry
<1>3. entries[k] # {} => WellKept(entries[k])
    BY Zenon DEF RegistryInv, WellKept, Registered
<1>. QED
    BY <1>1, <1>2, <1>3, Zenon

\* An active entry.
LEMMA NewTyped ==
    ASSUME NEW alg \in Algs, NEW key \in Keys
    PROVE  /\ New(alg, key) \in Entry /\ New(alg, key).alg = alg /\ New(alg, key).key = key
           /\ New(alg, key).grace = NoGrace
BY DEF New, Entry, NoGrace

\* add replaces the active entry of its algorithm.
LEMMA AddUpdates ==
    ASSUME RegistryInv, NEW k \in Kids, NEW alg \in Algs, NEW key \in Keys, Add(k, alg, key)
    PROVE  \E es \in SUBSET Entry :
                /\ Updates(k, es) /\ WellKept(es)
                /\ es = Kept(entries[k], alg) \cup {New(alg, key)}
<1>1. PICK es : es = Kept(entries[k], alg) \cup {New(alg, key)}
    BY Zenon
<1>2. es \in SUBSET Entry
    BY <1>1, EntriesTyped, NewTyped, Zenon DEF Kept
<1>3. Updates(k, es)
    BY <1>1, Zenon DEF Add, Updates
<1>4. \E e \in es : e.grace = NoGrace
    BY <1>1, NewTyped
<1>5. ASSUME NEW e \in es, NEW f \in es, e.alg = f.alg, e.grace = NoGrace, f.grace = NoGrace
      PROVE  e = f
    <2>1. \A x \in Kept(entries[k], alg) :
            x \in entries[k] /\ (x.grace = NoGrace => x.alg # alg)
        BY Zenon DEF Kept
    <2>2. CASE e = New(alg, key)
        BY <1>1, <1>5, <2>1, <2>2, NewTyped, Zenon
    <2>3. CASE f = New(alg, key)
        BY <1>1, <1>5, <2>1, <2>3, NewTyped, Zenon
    <2>4. CASE e \in entries[k] /\ f \in entries[k]
        BY <1>5, <2>4, EntriesTyped, Zenon DEF WellKept
    <2>. QED
        BY <1>1, <2>1, <2>2, <2>3, <2>4, Zenon
<1>. QED
    BY <1>1, <1>2, <1>3, <1>4, <1>5, Zenon DEF WellKept

\* rotate leaves only the new entry active.
LEMMA RotateUpdates ==
    ASSUME RegistryInv, NEW k \in Kids, NEW alg \in Algs, NEW key \in Keys,
           NEW grace \in Graces,
           RotateKeys(k, alg, key, grace)
    PROVE  \E es \in SUBSET Entry :
                /\ Updates(k, es) /\ WellKept(es)
                /\ \A e \in es : e.grace <= clock + grace
<1>1. PICK u \in Nat : u = clock + grace
    BY TokenKeysAssumption DEF RegistryInv, TypeOK
<1>2. PICK es : es = InGrace(entries[k], u) \cup {New(alg, key)}
    BY Zenon
<1>3. \A x \in InGrace(entries[k], u) : x \in Entry /\ x.grace = u
    <2>1. ASSUME NEW e \in Entry
          PROVE  [e EXCEPT !.grace = u] \in Entry /\ [e EXCEPT !.grace = u].grace = u
        BY <1>1 DEF Entry
    <2>. QED
        BY <2>1, EntriesTyped, Zenon DEF InGrace
<1>4. es \in SUBSET Entry
    BY <1>2, <1>3, NewTyped, Zenon
<1>5. Updates(k, es)
    BY <1>1, <1>2, Zenon DEF RotateKeys, Updates
<1>6. u # NoGrace /\ NoGrace <= u
    BY <1>1 DEF NoGrace
<1>7. WellKept(es)
    BY <1>2, <1>3, <1>6, NewTyped DEF WellKept
<1>8. \A e \in es : e.grace <= u
    <2>1. u <= u
        BY <1>1
    <2>. QED
        BY <1>2, <1>3, <1>6, <2>1, NewTyped
<1>. QED
    BY <1>1, <1>4, <1>5, <1>7, <1>8, Zenon

\* The part of TypeOK that is not about the registry.
RestTyped ==
    /\ clock \in 0..MaxTime /\ ops \in 0..MaxOps /\ deadline \in [Kids -> Nat]
    /\ phase \in {"direct", "discover", "backoff", "load", "ready", "failed"}
    /\ attempt \in 0..MaxAttempts
    /\ published \in DOMAIN Documents
    /\ applying \in {0} \cup DOMAIN Documents /\ applied \in {0} \cup DOMAIN Documents

\* An update keeps the invariant of the registry.
LEMMA RegistryInvUpdated ==
    ASSUME RegistryInv, NEW k \in Kids, NEW es \in SUBSET Entry, Updates(k, es), WellKept(es),
           RestTyped'
    PROVE  RegistryInv'
<1>1. /\ entries' \in [Kids -> SUBSET Entry] /\ order' \in Seq(Kids) /\ Len(order') <= Cap
      /\ \A i, j \in DOMAIN order' : i # j => order'[i] # order'[j]
      /\ {order'[i] : i \in DOMAIN order'} = Registered'
      /\ \A j \in Registered' : WellKept(entries'[j])
    BY RegistryUpdated, Zenon
<1>2. TypeOK'
    BY <1>1, Zenon DEF TypeOK, RestTyped
<1>. QED
    BY <1>1, <1>2, Zenon DEF RegistryInv, WellKept

\* So does a step that leaves the registry alone.
LEMMA RegistryInvKept ==
    ASSUME RegistryInv, UNCHANGED registry, RestTyped'
    PROVE  RegistryInv'
<1>1. TypeOK'
    BY Zenon DEF RegistryInv, TypeOK, RestTyped, registry
<1>. QED
    BY <1>1 DEF RegistryInv, Registered, registry

-----------------------------------------------------------------------------
(* Refreshes. *)

\* The keys of a document.
LEMMA DocumentTyped ==
    ASSUME NEW d \in DOMAIN Documents
    PROVE  /\ Documents[d] \in Seq(ListedKey) /\ Len(Documents[d]) \in Nat
           /\ DOMAIN Documents[d] = 1..Len(Documents[d])
           /\ \A i \in DOMAIN Documents[d] : Documents[d][i] \in ListedKey
<1>1. Documents \in Seq(Seq(ListedKey))
    BY TokenKeysAssumption, Zenon
<1>2. Documents[d] \in Seq(ListedKey)
    BY <1>1
<1>. QED
    BY <1>2

\* The id of a listed key.
LEMMA KidTyped ==
    ASSUME NEW l \in ListedKey
    PROVE  KidOf(l) \in Kids /\ l.key \in Keys
<1>1. l.key \in Keys /\ l.kid \in Kids \cup {NoKid}
    BY Zenon DEF ListedKey
<1>. QED
    BY <1>1, TokenKeysAssumption, Zenon DEF KidOf

\* The keys listed for an id are those of either document.
LEMMA ListedForIs ==
    ASSUME NEW k, NEW key
    PROVE  key \in ListedFor(k) <=>
                \E d \in {applied, applying} \ {0} : key \in KeysListed(d, k)
BY Zenon DEF ListedFor, KeysListed

\* An update takes keys from other ids, and gives them none.
LEMMA HeldShrinks ==
    ASSUME RegistryInv, NEW k \in Kids, NEW es, Updates(k, es)
    PROVE  /\ \A j \in Kids \ {k} : KeysHeld(j)' \subseteq KeysHeld(j)
           /\ KeysHeld(k)' = {e.key : e \in {x \in es : x.alg = EdDSA}}
<1>1. /\ entries'[k] = es
      /\ \A j \in Kids \ {k} : entries'[j] = entries[j] \/ entries'[j] = {}
    BY EntriesUpdated, Zenon
<1>. QED
    BY <1>1, Zenon DEF KeysHeld

\* Where keys are only taken from the ids of the issuer, the invariant of the
\* validator stays.
LEMMA ShrinkKeeps ==
    ASSUME RestTyped, ValidatorInv, UNCHANGED <<applying, todo, applied>>,
           \A j \in Kids \ OwnKids : KeysHeld(j)' \subseteq KeysHeld(j)
    PROVE  RefreshInv' /\ AppliedInv'
<1>1. RefreshInv'
    <2>1. SUFFICES ASSUME applying # 0 PROVE RefreshInv'
        BY Zenon DEF RefreshInv
    <2>2. PICK d \in DOMAIN Documents : d = applying
        BY <2>1, Zenon DEF RestTyped
    <2>3. PICK doc : doc = Documents[d]
        BY Zenon
    <2>4. PICK n : n = Len(doc) - Len(todo)
        BY Zenon
    <2>5. /\ n >= 0
          /\ \A i \in DOMAIN todo : todo[i] = doc[i + n]
          /\ \A i \in 1..n : Usable(doc[i]) /\ KidOf(doc[i]) \notin OwnKids =>
                KeysHeld(KidOf(doc[i])) \subseteq KeysListed(d, KidOf(doc[i]))
        BY <2>1, <2>2, <2>3, <2>4, Zenon DEF ValidatorInv, RefreshInv
    <2>6. \A i \in 1..n : i \in DOMAIN doc
        <3>1. todo \in Seq(ListedKey)
            BY Zenon DEF ValidatorInv
        <3>2. Len(todo) \in Nat
            BY <3>1
        <3>3. Len(doc) \in Nat /\ DOMAIN doc = 1..Len(doc)
            BY <2>3, DocumentTyped, Zenon
        <3>. QED
            BY <2>4, <3>2, <3>3
    <2>7. \A i \in 1..n : KidOf(doc[i]) \in Kids
        BY <2>3, <2>6, DocumentTyped, KidTyped, Zenon
    <2>8. ASSUME NEW i \in 1..n, Usable(doc[i]), KidOf(doc[i]) \notin OwnKids
          PROVE  KeysHeld(KidOf(doc[i]))' \subseteq KeysListed(d, KidOf(doc[i]))
        <3>1. PICK k \in Kids \ OwnKids : k = KidOf(doc[i])
            BY <2>7, <2>8, Zenon
        <3>2. KeysHeld(k)' \subseteq KeysListed(d, k)
            BY <2>5, <2>8, <3>1, Zenon
        <3>. QED
            BY <3>1, <3>2, Zenon
    <2>9. /\ applying' = d /\ todo' = todo
        BY <2>2, Zenon
    <2>. QED
        BY <2>3, <2>4, <2>5, <2>8, <2>9, Zenon DEF RefreshInv
<1>2. AppliedInv'
    <2>1. SUFFICES ASSUME applied # 0, NEW l \in Listed(applied), KidOf(l) \notin OwnKids
                   PROVE  KeysHeld(KidOf(l))' \subseteq ListedFor(KidOf(l))
        BY Zenon DEF AppliedInv, ListedFor
    <2>2. l \in ListedKey
        <3>1. applied \in DOMAIN Documents
            BY <2>1, Zenon DEF RestTyped
        <3>. QED
            BY <2>1, <3>1, DocumentTyped, Zenon DEF Listed
    <2>3. PICK k \in Kids \ OwnKids : k = KidOf(l)
        BY <2>1, <2>2, KidTyped, Zenon
    <2>4. KeysHeld(k) \subseteq ListedFor(k)
        BY <2>1, <2>3, Zenon DEF ValidatorInv, AppliedInv
    <2>5. KeysHeld(k)' \subseteq ListedFor(k)
        BY <2>3, <2>4, Zenon
    <2>. QED
        BY <2>3, <2>5, Zenon
<1>. QED
    BY <1>1, <1>2, Zenon

-----------------------------------------------------------------------------
(* Every step preserves the invariant. *)

\* The initial states satisfy it.
LEMMA KeysInit ==
    ASSUME Init
    PROVE  KeysInv
<1>1. RegistryInv
    <2>1. 1 \in DOMAIN Documents
        <3>1. Documents \in Seq(Seq(ListedKey)) /\ Documents # <<>>
            BY TokenKeysAssumption, Zenon
        <3>. QED
            BY <3>1
    <2>2. 0 \in 0..MaxTime /\ 0 \in 0..MaxOps /\ 0 \in 0..MaxAttempts
        BY TokenKeysAssumption
    <2>3. order \in Seq(Kids) /\ DOMAIN order = {} /\ Len(order) <= Cap
        BY TokenKeysAssumption DEF Init
    <2>4. Registered = {}
        BY Zenon DEF Init, Registered
    <2>5. TypeOK
        BY <2>1, <2>2, <2>3, Zenon DEF Init, TypeOK
    <2>. QED
        BY <2>3, <2>4, <2>5, Zenon DEF RegistryInv
<1>2. GracesBounded
    BY Zenon DEF Init, GracesBounded
<1>3. ValidatorInv
    <2>1. todo \in Seq(ListedKey)
        BY DEF Init
    <2>. QED
        BY <2>1, Zenon DEF Init, ValidatorInv, RefreshInv, AppliedInv
<1>. QED
    BY <1>1, <1>2, <1>3, Zenon DEF KeysInv

\* What the registry's invariant says beside.
LEMMA KeysTyped ==
    ASSUME KeysInv
    PROVE  RegistryInv /\ RestTyped /\ ValidatorInv /\ GracesBounded
BY Zenon DEF KeysInv, RegistryInv, TypeOK, RestTyped

\* Callers add keys to a registry of their own, or under their own ids.
LEMMA AddKeyStep ==
    ASSUME KeysInv, NEW k \in Kids, NEW alg \in Algs, NEW key \in Keys, AddKey(k, alg, key)
    PROVE  KeysInv'
<1>0. RegistryInv /\ RestTyped /\ ValidatorInv /\ GracesBounded
    BY KeysTyped, Zenon
<1>1. UNCHANGED <<clock, deadline, phase, attempt, published, applying, todo, applied>>
    BY Zenon DEF AddKey, jwks
<1>2. PICK es \in SUBSET Entry :
            /\ Updates(k, es) /\ WellKept(es)
            /\ es = Kept(entries[k], alg) \cup {New(alg, key)}
    BY <1>0, AddUpdates, Zenon DEF AddKey
<1>3. RestTyped'
    <2>1. ops \in 0..MaxOps /\ ops < MaxOps /\ ops' = ops + 1 /\ MaxOps \in Nat
        BY <1>0, TokenKeysAssumption, Zenon DEF AddKey, RestTyped
    <2>2. ops' \in 0..MaxOps
        BY <2>1
    <2>. QED
        BY <1>0, <1>1, <2>2, Zenon DEF RestTyped
<1>4. RegistryInv'
    BY <1>0, <1>2, <1>3, RegistryInvUpdated, Zenon
<1>5. /\ entries'[k] = es
      /\ \A j \in Kids \ {k} : entries'[j] = entries[j] \/ entries'[j] = {}
    BY <1>0, <1>2, EntriesUpdated, Zenon
<1>6. \A e \in es : e \in entries[k] \/ e.grace = NoGrace
    BY <1>2, NewTyped DEF Kept
<1>7. GracesBounded'
    <2>1. deadline[k] \in Nat /\ deadline' = deadline
        BY <1>0, <1>1, Zenon DEF RestTyped
    <2>2. NoGrace <= deadline[k]
        BY <2>1 DEF NoGrace
    <2>. QED
        BY <1>0, <1>5, <1>6, <2>1, <2>2, Zenon DEF GracesBounded
<1>8. ValidatorInv'
    <2>1. phase' # "direct" => \A j \in Kids : \A e \in entries'[j] : e.grace = NoGrace
        BY <1>0, <1>1, <1>5, <1>6, Zenon DEF ValidatorInv
    <2>2. todo' \in Seq(ListedKey) /\ (phase' = "direct" => applied' = 0 /\ applying' = 0)
        BY <1>0, <1>1, Zenon DEF ValidatorInv
    <2>3. CASE phase = "direct"
        BY <1>0, <1>1, <2>1, <2>2, <2>3, Zenon DEF ValidatorInv, RefreshInv, AppliedInv
    <2>4. CASE k \in OwnKids
        <3>1. \A j \in Kids \ OwnKids : KeysHeld(j)' \subseteq KeysHeld(j)
            BY <1>0, <1>2, <2>4, HeldShrinks, Zenon
        <3>2. RefreshInv' /\ AppliedInv'
            BY <1>0, <1>1, <3>1, ShrinkKeeps, Zenon
        <3>. QED
            BY <2>1, <2>2, <3>2, Zenon DEF ValidatorInv
    <2>. QED
        BY <2>3, <2>4, Zenon DEF AddKey
<1>. QED
    BY <1>4, <1>7, <1>8, Zenon DEF KeysInv

\* A rotation gives every entry of the id the same grace.
LEMMA RotateStep ==
    ASSUME KeysInv, NEW k \in Kids, NEW alg \in Algs, NEW key \in Keys,
           NEW grace \in Graces,
           Rotate(k, alg, key, grace)
    PROVE  KeysInv'
<1>0. RegistryInv /\ RestTyped /\ ValidatorInv /\ GracesBounded
    BY KeysTyped, Zenon
<1>1. /\ UNCHANGED <<clock, phase, attempt, published, applying, todo, applied>>
      /\ phase = "direct"
    BY Zenon DEF Rotate, jwks
<1>2. PICK es \in SUBSET Entry :
            /\ Updates(k, es) /\ WellKept(es)
            /\ \A e \in es : e.grace <= clock + grace
    BY <1>0, RotateUpdates, Zenon DEF Rotate
<1>3. PICK u \in Nat : u = clock + grace
    BY <1>0, TokenKeysAssumption DEF RestTyped
<1>4. deadline \in [Kids -> Nat] /\ deadline' = [deadline EXCEPT ![k] = u]
    BY <1>0, <1>3, Zenon DEF Rotate, RestTyped
<1>5. RestTyped'
    <2>1. ops \in 0..MaxOps /\ ops < MaxOps /\ ops' = ops + 1 /\ MaxOps \in Nat
        BY <1>0, TokenKeysAssumption, Zenon DEF Rotate, RestTyped
    <2>2. ops' \in 0..MaxOps
        BY <2>1
    <2>3. deadline' \in [Kids -> Nat]
        BY <1>4, Zenon
    <2>. QED
        BY <1>0, <1>1, <2>2, <2>3, Zenon DEF RestTyped
<1>6. RegistryInv'
    BY <1>0, <1>2, <1>5, RegistryInvUpdated, Zenon
<1>7. /\ entries'[k] = es
      /\ \A j \in Kids \ {k} : entries'[j] = entries[j] \/ entries'[j] = {}
    BY <1>0, <1>2, EntriesUpdated, Zenon
<1>8. GracesBounded'
    <2>1. deadline'[k] = u /\ \A j \in Kids \ {k} : deadline'[j] = deadline[j]
        BY <1>4, Zenon
    <2>. QED
        BY <1>0, <1>2, <1>3, <1>7, <2>1, Zenon DEF GracesBounded
<1>9. ValidatorInv'
    BY <1>0, <1>1, Zenon DEF ValidatorInv, RefreshInv, AppliedInv
<1>. QED
    BY <1>6, <1>8, <1>9, Zenon DEF KeysInv

\* A step that leaves the registry and the refresh alone.
LEMMA AsideStep ==
    ASSUME KeysInv, RestTyped', UNCHANGED <<registry, deadline, applying, todo, applied>>,
           phase' = "direct" <=> phase = "direct"
    PROVE  KeysInv'
<1>0. RegistryInv /\ RestTyped /\ ValidatorInv /\ GracesBounded
    BY KeysTyped, Zenon
<1>1. entries' = entries
    BY Zenon DEF registry
<1>2. RegistryInv'
    BY <1>0, RegistryInvKept, Zenon
<1>3. GracesBounded'
    BY <1>0, <1>1, Zenon DEF GracesBounded
<1>4. \A j \in Kids \ OwnKids : KeysHeld(j)' \subseteq KeysHeld(j)
    BY <1>1, Zenon DEF KeysHeld
<1>5. RefreshInv' /\ AppliedInv'
    BY <1>0, <1>4, ShrinkKeeps, Zenon
<1>6. ValidatorInv'
    BY <1>0, <1>1, <1>5, Zenon DEF ValidatorInv
<1>. QED
    BY <1>2, <1>3, <1>6, Zenon DEF KeysInv

\* Discovery and the issuer touch neither.
LEMMA DiscoverStep ==
    ASSUME KeysInv, Discover \/ LoadFails \/ Publish \/ Tick \/ UNCHANGED vars
    PROVE  KeysInv'
<1>0. RestTyped
    BY KeysTyped, Zenon
<1>1. UNCHANGED <<registry, deadline, applying, todo, applied>>
    BY Zenon
    DEF Discover, DiscoverFailsTransiently, Backoff, DiscoverFails, DiscoverOk, LoadFails,
           Publish, Tick, vars, jwks
<1>2. phase' = "direct" <=> phase = "direct"
    BY Zenon
    DEF Discover, DiscoverFailsTransiently, Backoff, DiscoverFails, DiscoverOk, LoadFails,
           Publish, Tick, vars, jwks
<1>3. phase' \in {"direct", "discover", "backoff", "load", "ready", "failed"}
    BY <1>0, Zenon
    DEF RestTyped, Discover, DiscoverFailsTransiently, Backoff, DiscoverFails, DiscoverOk,
                LoadFails, Publish, Tick, vars, jwks
<1>4. ops' \in 0..MaxOps
    BY <1>0, Zenon
    DEF RestTyped, Discover, DiscoverFailsTransiently, Backoff, DiscoverFails, DiscoverOk,
                LoadFails, Publish, Tick, vars, jwks
<1>5. clock' \in 0..MaxTime
    <2>1. CASE Tick
        BY <1>0, <2>1, TokenKeysAssumption DEF RestTyped, Tick
    <2>2. CASE clock' = clock
        BY <1>0, <2>2, Zenon DEF RestTyped
    <2>. QED
        BY <2>1, <2>2, Zenon
        DEF Discover, DiscoverFailsTransiently, Backoff, DiscoverFails, DiscoverOk,
                          LoadFails, Publish, vars
<1>6. attempt' \in 0..MaxAttempts
    <2>1. CASE DiscoverFailsTransiently
        BY <1>0, <2>1, TokenKeysAssumption DEF RestTyped, DiscoverFailsTransiently, Counted
    <2>2. CASE attempt' = attempt
        BY <1>0, <2>2, Zenon DEF RestTyped
    <2>. QED
        BY <2>1, <2>2, Zenon
        DEF Discover, Backoff, DiscoverFails, DiscoverOk, LoadFails, Publish, Tick,
                          vars, jwks
<1>7. published' \in DOMAIN Documents
    <2>1. CASE Publish
        <3>1. published \in DOMAIN Documents /\ published < Len(Documents)
              /\ published' = published + 1
            BY <1>0, <2>1, Zenon DEF RestTyped, Publish
        <3>2. Documents \in Seq(Seq(ListedKey))
            BY TokenKeysAssumption, Zenon
        <3>. QED
            BY <3>1, <3>2
    <2>2. CASE published' = published
        BY <1>0, <2>2, Zenon DEF RestTyped
    <2>. QED
        BY <2>1, <2>2, Zenon
        DEF Discover, DiscoverFailsTransiently, Backoff, DiscoverFails, DiscoverOk,
                          LoadFails, Tick, vars, jwks
<1>8. RestTyped'
    BY <1>0, <1>1, <1>3, <1>4, <1>5, <1>6, <1>7, Zenon DEF RestTyped
<1>. QED
    BY <1>1, <1>2, <1>8, AsideStep, Zenon

\* A refresh begins with the whole document to add.
LEMMA StartRefreshStep ==
    ASSUME KeysInv, StartRefresh
    PROVE  KeysInv'
<1>0. RegistryInv /\ RestTyped /\ ValidatorInv /\ GracesBounded
    BY KeysTyped, Zenon
<1>1. /\ UNCHANGED <<entries, clock, ops, deadline, phase, attempt, published, applied>>
      /\ UNCHANGED registry /\ applying = 0
    BY Zenon DEF StartRefresh, registry
<1>2. PICK d \in DOMAIN Documents : d = published /\ applying' = d /\ todo' = Documents[d]
    BY <1>0, Zenon DEF StartRefresh, RestTyped
<1>3. RestTyped'
    BY <1>0, <1>1, <1>2, Zenon DEF RestTyped
<1>4. RegistryInv'
    BY <1>0, <1>1, <1>3, RegistryInvKept, Zenon
<1>5. GracesBounded'
    BY <1>0, <1>1, Zenon DEF GracesBounded
<1>6. RefreshInv'
    <2>1. PICK n \in Nat : n = Len(Documents[d]) /\ DOMAIN Documents[d] = 1..n
        BY DocumentTyped, Zenon
    <2>2. /\ n - n = 0 /\ 0 >= 0 /\ 1..0 = {} /\ \A i \in 1..n : i + 0 = i
        BY <2>1
    <2>3. \A i \in 1..n : todo'[i] = Documents[d][i + 0]
        BY <1>2, <2>2, Zenon
    <2>4. Len(Documents[applying']) - Len(todo') = 0
        BY <1>2, <2>1, <2>2, Zenon
    <2>. QED
        BY <1>2, <2>1, <2>2, <2>3, <2>4, Zenon DEF RefreshInv
<1>7. AppliedInv'
    <2>1. \A k : ListedFor(k) \subseteq ListedFor(k)'
        BY <1>1, <1>2, Zenon DEF ListedFor
    <2>. QED
        BY <1>0, <1>1, <2>1, Zenon DEF ValidatorInv, AppliedInv, KeysHeld
<1>8. ValidatorInv'
    <2>1. todo' \in Seq(ListedKey)
        BY <1>2, DocumentTyped, Zenon
    <2>2. phase' # "direct"
        BY <1>1, Zenon DEF StartRefresh
    <2>. QED
        BY <1>0, <1>1, <1>6, <1>7, <2>1, <2>2, Zenon DEF ValidatorInv
<1>. QED
    BY <1>4, <1>5, <1>8, Zenon DEF KeysInv

\* A refresh ends when all keys of the document are added: what they left under
\* an id is of the document.
LEMMA EndRefreshStep ==
    ASSUME KeysInv, EndRefresh
    PROVE  KeysInv'
<1>0. RegistryInv /\ RestTyped /\ ValidatorInv /\ GracesBounded
    BY KeysTyped, Zenon
<1>1. /\ UNCHANGED <<entries, clock, ops, deadline, attempt, published, todo>>
      /\ UNCHANGED registry /\ applying' = 0 /\ phase' = "ready" /\ todo = <<>>
    BY Zenon DEF EndRefresh, registry
<1>2. PICK d \in DOMAIN Documents : d = applying /\ applied' = d /\ d # 0
    BY <1>0, Zenon DEF EndRefresh, RestTyped
<1>3. RestTyped'
    BY <1>0, <1>1, <1>2, Zenon DEF RestTyped
<1>4. RegistryInv'
    BY <1>0, <1>1, <1>3, RegistryInvKept, Zenon
<1>5. GracesBounded'
    BY <1>0, <1>1, Zenon DEF GracesBounded
<1>6. RefreshInv'
    BY <1>1, Zenon DEF RefreshInv
<1>7. AppliedInv'
    <2>1. SUFFICES ASSUME NEW l \in Listed(d), KidOf(l) \notin OwnKids
                   PROVE  KeysHeld(KidOf(l))' \subseteq ListedFor(KidOf(l))'
        BY <1>2, Zenon DEF AppliedInv
    <2>2. PICK i \in DOMAIN Documents[d] : l = Documents[d][i] /\ Usable(l)
        BY <2>1, Zenon DEF Listed
    <2>3. PICK n \in Nat : n = Len(Documents[d]) /\ DOMAIN Documents[d] = 1..n
        BY DocumentTyped, Zenon
    <2>4. Len(Documents[applying]) - Len(todo) = n
        BY <1>1, <1>2, <2>3
    <2>5. KeysHeld(KidOf(l)) \subseteq KeysListed(d, KidOf(l))
        BY <1>0, <1>2, <2>1, <2>2, <2>3, <2>4, Zenon DEF ValidatorInv, RefreshInv
    <2>6. KeysListed(d, KidOf(l)) \subseteq ListedFor(KidOf(l))'
        BY <1>2, Zenon DEF ListedFor, KeysListed
    <2>7. KeysHeld(KidOf(l))' = KeysHeld(KidOf(l))
        BY <1>1, Zenon DEF KeysHeld
    <2>. QED
        BY <2>5, <2>6, <2>7, Zenon
<1>8. ValidatorInv'
    <2>1. phase # "direct"
        BY <1>0, <1>2, Zenon DEF ValidatorInv
    <2>. QED
        BY <1>0, <1>1, <1>6, <1>7, <2>1, Zenon DEF ValidatorInv
<1>. QED
    BY <1>4, <1>5, <1>8, Zenon DEF KeysInv

\* The refresh goes on with the next key of the document, listed: it stays true
\* when the id of a usable one gets only this key, and no other id gets one.
LEMMA ListedNext ==
    ASSUME RestTyped, ValidatorInv, applying # 0, todo # <<>>, todo' = Tail(todo),
           UNCHANGED <<applying, applied>>, NEW listed, listed = Head(todo),
           NEW k, k = KidOf(listed),
           \/ ~Usable(listed) /\ \A j \in Kids : KeysHeld(j)' \subseteq KeysHeld(j)
           \/ /\ Usable(listed) /\ KeysHeld(k)' \subseteq {listed.key}
              /\ \A j \in Kids \ {k} : KeysHeld(j)' \subseteq KeysHeld(j)
    PROVE  listed \in ListedKey /\ todo' \in Seq(ListedKey) /\ RefreshInv' /\ AppliedInv'
<1>1. PICK d \in DOMAIN Documents : d = applying /\ d # 0
    BY Zenon DEF RestTyped
<1>2. PICK doc : doc = Documents[d]
    BY Zenon
<1>3. PICK m \in Nat : m = Len(doc) /\ DOMAIN doc = 1..m
    BY <1>2, DocumentTyped, Zenon
<1>4. todo \in Seq(ListedKey)
    BY Zenon DEF ValidatorInv
<1>5. PICK r \in Nat : r = Len(todo) /\ DOMAIN todo = 1..r
    BY <1>4
<1>6. r >= 1
    BY <1>4, <1>5
<1>7. /\ listed \in ListedKey /\ todo' \in Seq(ListedKey) /\ Len(todo') = r - 1
      /\ \A i \in 1..(r - 1) : todo'[i] = todo[i + 1]
    <2>1. /\ Head(todo) \in ListedKey /\ Tail(todo) \in Seq(ListedKey)
          /\ Len(Tail(todo)) = Len(todo) - 1
          /\ \A i \in 1..Len(Tail(todo)) : Tail(todo)[i] = todo[i + 1]
        BY <1>4
    <2>. QED
        BY <1>5, <2>1, Zenon
<1>8. PICK n \in Nat : n = m - r /\ Len(Documents[applying]) - Len(todo) = n
    <2>1. m - r >= 0
        BY <1>1, <1>2, <1>3, <1>5, Zenon DEF ValidatorInv, RefreshInv
    <2>. QED
        BY <1>1, <1>2, <1>3, <1>5, <2>1
<1>9. /\ \A i \in 1..r : todo[i] = doc[i + n]
      /\ \A i \in 1..n : Usable(doc[i]) /\ KidOf(doc[i]) \notin OwnKids =>
            KeysHeld(KidOf(doc[i])) \subseteq KeysListed(d, KidOf(doc[i]))
    BY <1>1, <1>2, <1>5, <1>8, Zenon DEF ValidatorInv, RefreshInv
<1>10. listed = doc[n + 1] /\ n + 1 \in DOMAIN doc
    <2>1. Head(todo) = todo[1]
        BY <1>4
    <2>2. 1 \in 1..r /\ 1 + n = n + 1 /\ n + 1 \in 1..m
        BY <1>3, <1>5, <1>6, <1>8
    <2>. QED
        BY <1>3, <1>9, <2>1, <2>2, Zenon
<1>11. k \in Kids /\ (Usable(listed) => listed.key \in KeysListed(d, k))
    BY <1>2, <1>7, <1>10, KidTyped, Zenon DEF KeysListed, Listed
<1>12. \A i \in 1..(n + 1) : KidOf(doc[i]) \in Kids
    <2>1. \A i \in 1..(n + 1) : i \in DOMAIN doc
        BY <1>3, <1>10
    <2>. QED
        BY <1>2, <2>1, DocumentTyped, KidTyped, Zenon
<1>13. ASSUME NEW i \in 1..(n + 1), Usable(doc[i]), KidOf(doc[i]) \notin OwnKids
       PROVE  KeysHeld(KidOf(doc[i]))' \subseteq KeysListed(d, KidOf(doc[i]))
    <2>1. PICK j \in Kids : j = KidOf(doc[i])
        BY <1>12, Zenon
    <2>2. CASE j = k /\ Usable(listed)
        BY <1>11, <2>1, <2>2, Zenon
    <2>3. CASE ~(j = k /\ Usable(listed))
        <3>1. i # n + 1
            BY <1>10, <1>13, <2>1, <2>3, Zenon
        <3>2. i \in 1..n
            BY <3>1
        <3>3. KeysHeld(j)' \subseteq KeysHeld(j)
            BY <2>3, Zenon
        <3>4. KeysHeld(j)' \subseteq KeysListed(d, j)
            BY <1>9, <1>13, <2>1, <3>2, <3>3, Zenon
        <3>. QED
            BY <2>1, <3>4, Zenon
    <2>. QED
        BY <2>2, <2>3, Zenon
<1>14. RefreshInv'
    <2>1. Len(Documents[applying']) - Len(todo') = n + 1
        BY <1>1, <1>2, <1>3, <1>5, <1>7, <1>8
    <2>2. \A i \in DOMAIN todo' : todo'[i] = doc[i + (n + 1)]
        <3>1. DOMAIN todo' = 1..(r - 1)
            BY <1>5, <1>6, <1>7
        <3>2. \A i \in 1..(r - 1) : i + 1 \in 1..r /\ (i + 1) + n = i + (n + 1)
            BY <1>5, <1>8
        <3>. QED
            BY <1>7, <1>9, <3>1, <3>2, Zenon
    <2>3. n + 1 >= 0
        BY <1>8
    <2>4. applying' = d
        BY <1>1, Zenon
    <2>. QED
        BY <1>2, <1>13, <2>1, <2>2, <2>3, <2>4, Zenon DEF RefreshInv
<1>15. AppliedInv'
    <2>1. SUFFICES ASSUME applied # 0, NEW l \in Listed(applied), KidOf(l) \notin OwnKids
                   PROVE  KeysHeld(KidOf(l))' \subseteq ListedFor(KidOf(l))
        BY Zenon DEF AppliedInv, ListedFor
    <2>2. l \in ListedKey
        <3>1. applied \in DOMAIN Documents
            BY <2>1, Zenon DEF RestTyped
        <3>. QED
            BY <2>1, <3>1, DocumentTyped, Zenon DEF Listed
    <2>3. PICK j \in Kids : j = KidOf(l)
        BY <2>2, KidTyped, Zenon
    <2>4. KeysHeld(j) \subseteq ListedFor(j)
        BY <2>1, <2>3, Zenon DEF ValidatorInv, AppliedInv
    <2>5. CASE j = k /\ Usable(listed)
        <3>1. listed.key \in ListedFor(k)
            BY <1>1, <1>11, <2>5, ListedForIs, Zenon
        <3>2. KeysHeld(k)' \subseteq {listed.key}
            BY <2>5, Zenon
        <3>. QED
            BY <2>3, <2>5, <3>1, <3>2, Zenon
    <2>6. CASE ~(j = k /\ Usable(listed))
        <3>1. KeysHeld(j)' \subseteq KeysHeld(j)
            BY <2>6, Zenon
        <3>. QED
            BY <2>3, <2>4, <3>1, Zenon
    <2>. QED
        BY <2>5, <2>6, Zenon
<1>. QED
    BY <1>7, <1>14, <1>15, Zenon

\* One key of the document is added, or skipped.
LEMMA AddListedStep ==
    ASSUME KeysInv, AddListed
    PROVE  KeysInv'
<1>0. RegistryInv /\ RestTyped /\ ValidatorInv /\ GracesBounded
    BY KeysTyped, Zenon
<1>1. /\ UNCHANGED <<clock, ops, deadline, phase, attempt, published, applying, applied>>
      /\ applying # 0 /\ todo # <<>> /\ todo' = Tail(todo)
    BY Zenon DEF AddListed
<1>2. RestTyped'
    BY <1>0, <1>1, Zenon DEF RestTyped
<1>3. phase # "direct" /\ \A k \in Kids : \A e \in entries[k] : e.grace = NoGrace
    BY <1>0, <1>1, Zenon DEF ValidatorInv
<1>4. PICK listed : listed = Head(todo)
    BY Zenon
<1>5. PICK k : k = KidOf(listed)
    BY Zenon
<1>6. CASE ~Usable(listed)
    <2>1. UNCHANGED registry /\ entries' = entries
        BY <1>4, <1>6, Zenon DEF AddListed, registry
    <2>2. \A j \in Kids : KeysHeld(j)' \subseteq KeysHeld(j)
        BY <2>1, Zenon DEF KeysHeld
    <2>3. todo' \in Seq(ListedKey) /\ RefreshInv' /\ AppliedInv'
        BY <1>0, <1>1, <1>4, <1>5, <1>6, <2>2, ListedNext, Zenon
    <2>4. RegistryInv'
        BY <1>0, <1>2, <2>1, RegistryInvKept, Zenon
    <2>5. GracesBounded'
        BY <1>0, <1>1, <2>1, Zenon DEF GracesBounded
    <2>6. ValidatorInv'
        BY <1>1, <1>3, <2>1, <2>3, Zenon DEF ValidatorInv
    <2>. QED
        BY <2>4, <2>5, <2>6, Zenon DEF KeysInv
<1>7. CASE Usable(listed)
    <2>1. Add(k, EdDSA, listed.key)
        BY <1>4, <1>5, <1>7, Zenon DEF AddListed
    <2>2. listed \in ListedKey
        <3>1. todo \in Seq(ListedKey)
            BY <1>0, Zenon DEF ValidatorInv
        <3>. QED
            BY <1>1, <1>4, <3>1
    <2>3. k \in Kids /\ listed.key \in Keys /\ EdDSA \in Algs
        BY <1>5, <2>2, KidTyped, TokenKeysAssumption, Zenon
    <2>4. PICK es \in SUBSET Entry :
                /\ Updates(k, es) /\ WellKept(es)
                /\ es = Kept(entries[k], EdDSA) \cup {New(EdDSA, listed.key)}
        BY <1>0, <2>1, <2>3, AddUpdates, Zenon
    <2>5. RegistryInv'
        BY <1>0, <1>2, <2>3, <2>4, RegistryInvUpdated, Zenon
    <2>6. /\ entries'[k] = es
          /\ \A j \in Kids \ {k} : entries'[j] = entries[j] \/ entries'[j] = {}
        BY <1>0, <2>3, <2>4, EntriesUpdated, Zenon
    <2>7. \A e \in es : /\ e \in entries[k] \/ e.grace = NoGrace
                        /\ e.alg = EdDSA => e.key = listed.key
        BY <1>3, <2>3, <2>4, NewTyped DEF Kept
    <2>8. KeysHeld(k)' \subseteq {listed.key}
        BY <2>6, <2>7, Zenon DEF KeysHeld
    <2>9. \A j \in Kids \ {k} : KeysHeld(j)' \subseteq KeysHeld(j)
        BY <1>0, <2>3, <2>4, HeldShrinks, Zenon
    <2>10. todo' \in Seq(ListedKey) /\ RefreshInv' /\ AppliedInv'
        BY <1>0, <1>1, <1>4, <1>5, <1>7, <2>8, <2>9, ListedNext, Zenon
    <2>11. GracesBounded'
        <3>1. deadline[k] \in Nat /\ deadline' = deadline
            BY <1>0, <1>1, <2>3, Zenon DEF RestTyped
        <3>2. NoGrace <= deadline[k]
            BY <3>1 DEF NoGrace
        <3>. QED
            BY <1>0, <2>3, <2>6, <2>7, <3>1, <3>2, Zenon DEF GracesBounded
    <2>12. \A j \in Kids : \A e \in entries'[j] : e.grace = NoGrace
        BY <1>3, <2>3, <2>6, <2>7, Zenon
    <2>13. ValidatorInv'
        BY <1>1, <1>3, <2>10, <2>12, Zenon DEF ValidatorInv
    <2>. QED
        BY <2>5, <2>11, <2>13, Zenon DEF KeysInv
<1>. QED
    BY <1>6, <1>7, Zenon

\* The invariant holds in every reachable state.
LEMMA KeysAlways == Spec => []KeysInv
<1>1. Init => KeysInv
    BY KeysInit, Zenon
<1>2. KeysInv /\ [Next]_vars => KeysInv'
    <2>1. SUFFICES ASSUME KeysInv, [Next]_vars PROVE KeysInv'
        BY Zenon
    <2>2. CASE Refresh
        BY <2>1, <2>2, StartRefreshStep, AddListedStep, EndRefreshStep, Zenon DEF Refresh
    <2>3. ASSUME NEW k \in Kids, NEW alg \in Algs, NEW key \in Keys,
                 AddKey(k, alg, key) \/ \E grace \in Graces : Rotate(k, alg, key, grace)
          PROVE  KeysInv'
        BY <2>1, <2>3, AddKeyStep, RotateStep, Zenon
    <2>4. CASE Discover \/ LoadFails \/ Publish \/ Tick \/ UNCHANGED vars
        BY <2>1, <2>4, DiscoverStep, Zenon
    <2>. QED
        BY <2>1, <2>2, <2>3, <2>4, Zenon DEF Next
<1>. QED
    BY <1>1, <1>2, PTL DEF Spec

\* The registry's map and queue agree, within the cap, and a key that is no
\* longer the active one is found only until the grace of the last rotate of its
\* id ends (auth_keys.rs:199), whatever was added, rotated, evicted and refreshed.
THEOREM GracesEnd == Spec => []GraceEnds
<1>1. KeysInv => GraceEnds
    <2>1. SUFFICES ASSUME KeysInv PROVE GraceEnds
        BY Zenon
    <2>2. RegistryInv /\ RestTyped /\ GracesBounded
        BY <2>1, KeysTyped, Zenon
    <2>3. ASSUME NEW k \in Kids, NEW alg \in Algs, NEW key \in Get(k, alg)
          PROVE  New(alg, key) \in entries[k] \/ clock < deadline[k]
        <3>1. PICK e \in entries[k] : e.key = key /\ e.alg = alg /\ Live(e)
            BY Zenon DEF Get
        <3>2. e \in Entry
            BY <2>2, EntriesTyped, Zenon
        <3>3. CASE e.grace = NoGrace
            BY <3>1, <3>2, <3>3, Zenon DEF Entry, New
        <3>4. CASE e.grace > clock
            <4>1. e.grace <= deadline[k] /\ e.grace \in Int
                BY <2>2, <3>2, Zenon DEF GracesBounded, Entry
            <4>2. clock \in Int /\ deadline[k] \in Int
                BY <2>2, TokenKeysAssumption DEF RestTyped
            <4>. QED
                BY <3>4, <4>1, <4>2
        <3>. QED
            BY <3>1, <3>3, <3>4, Zenon DEF Live
    <2>. QED
        BY <2>2, <2>3, Zenon DEF GraceEnds
<1>. QED
    BY <1>1, KeysAlways, PTL

\* A sum that wraps around is smaller than its terms make it, for terms that are
\* signed integers and not negative.
LEMMA WrapsDown ==
    ASSUME NEW x \in Int, x >= -IntMax - 1
    PROVE  Wrap(x) \in Int /\ Wrap(x) <= x
<1>1. IntMax \in Nat
    BY TokenKeysAssumption, Zenon
<1>2. PICK y \in Nat : y = x + IntMax + 1
    BY <1>1
<1>3. PICK m \in Nat \ {0} : m = 2 * (IntMax + 1)
    BY <1>1
<1>4. y % m \in Nat /\ y % m <= y
    BY <1>2, <1>3
<1>5. Wrap(x) = (y % m) - IntMax - 1
    BY <1>2, <1>3, Zenon DEF Wrap
<1>. QED
    BY <1>1, <1>2, <1>4, <1>5

\* A token that validates has not expired, machine arithmetic notwithstanding
\* (jwt.rs:283), and is signed with the key its id has in the document added
\* last, or in the one being added (jwt.rs:346), for every cap, every sequence of
\* documents and any keys callers add of their own.
THEOREM AcceptedKeysCurrent == Spec => []AcceptedCurrent
<1>1. KeysInv => AcceptedCurrent
    <2>1. SUFFICES ASSUME KeysInv, NEW t \in Tokens, Validates(t)
                   PROVE  /\ t.exp # NoExp /\ t.exp + Skew >= clock
                          /\ /\ applied # 0
                             /\ t.kid \in {KidOf(l) : l \in Listed(applied)} \ OwnKids
                             => t.key \in ListedFor(t.kid)
        BY Zenon DEF AcceptedCurrent
    <2>2. RegistryInv /\ RestTyped /\ ValidatorInv
        BY <2>1, KeysTyped, Zenon
    <2>3. t.exp # NoExp /\ t.exp + Skew >= clock
        <3>1. t.exp # NoExp /\ ~(Wrap(t.exp + Skew) < clock)
            BY <2>1, Zenon DEF Validates, Expired
        <3>2. t.exp \in (-IntMax - 1)..IntMax /\ IntMax \in Nat /\ Skew \in Nat
            BY <3>1, TokenKeysAssumption, Zenon
        <3>3. PICK x \in Int : x = t.exp + Skew /\ x >= -IntMax - 1
            BY <3>2
        <3>4. Wrap(x) \in Int /\ Wrap(x) <= x
            BY <3>3, WrapsDown, Zenon
        <3>5. clock \in Int
            BY <2>2 DEF RestTyped
        <3>. QED
            BY <3>1, <3>3, <3>4, <3>5
    <2>4. ASSUME applied # 0, t.kid \in {KidOf(l) : l \in Listed(applied)} \ OwnKids
          PROVE  t.key \in ListedFor(t.kid)
        <3>1. PICK l \in Listed(applied) : t.kid = KidOf(l) /\ KidOf(l) \notin OwnKids
            BY <2>4, Zenon
        <3>2. t.key \in KeysHeld(t.kid)
            BY <2>1 DEF Validates, Get, KeysHeld
        <3>3. KeysHeld(KidOf(l)) \subseteq ListedFor(KidOf(l))
            BY <2>2, <2>4, <3>1, Zenon DEF ValidatorInv, AppliedInv
        <3>. QED
            BY <3>1, <3>2, <3>3, Zenon
    <2>. QED
        BY <2>3, <2>4, Zenon
<1>. QED
    BY <1>1, KeysAlways, PTL

-----------------------------------------------------------------------------
(* The replay tracker. *)

\* A thread on its way to the lock has a time at most a pause old.
ThreadsInv ==
    \A t \in Verifiers : pc[t] = "lock" =>
        jti[t] \in Jtis /\ now[t] <= time /\ time <= now[t] + MaxPause

\* A record is of the last acceptance, with a time at most a pause before it,
\* and survived the last sweep or was made after it.
RecordsInv ==
    \A j \in Jtis : seen[j] # Never =>
        /\ acceptedAt[j] # Never /\ seen[j] <= acceptedAt[j]
        /\ acceptedAt[j] <= seen[j] + MaxPause
        /\ acceptedAt[j] <= time /\ seen[j] > lastSweep - Ttl - MaxPause

\* What was accepted and is not recorded has been forgotten in time.
ForgottenInv ==
    \A j \in Jtis : seen[j] = Never /\ acceptedAt[j] # Never =>
        time >= acceptedAt[j] + Ttl - MaxPause

ReplayInv ==
    /\ DpopTypeOK /\ ThreadsInv /\ RecordsInv /\ ForgottenInv /\ lastSweep <= time
    /\ IsFiniteSet(Recorded(seen)) /\ Cardinality(Recorded(seen)) <= MaxEntries

\* duration_since, which is never negative, compared with a positive duration.
LEMMA SinceAtLeast ==
    ASSUME NEW later \in Int, NEW earlier \in Int, NEW d \in Nat \ {0}
    PROVE  Since(later, earlier) >= d <=> later - earlier >= d
BY DEF Since

\* The durations.
LEMMA Durations ==
    /\ Ttl \in Nat \ {0} /\ SweepInterval \in Nat \ {0} /\ MaxEntries \in Nat \ {0}
    /\ MaxPause \in Nat /\ Never = -1 /\ None \notin Jtis
BY DpopAssumption, Zenon DEF Never

\* A thread before the lock.
LEMMA ThreadTyped ==
    ASSUME ReplayInv, NEW t \in Verifiers, pc[t] = "lock"
    PROVE  /\ jti[t] \in Jtis /\ now[t] \in Nat /\ time \in Nat /\ lastSweep \in Nat
           /\ now[t] <= time /\ time <= now[t] + MaxPause /\ lastSweep <= time
BY Zenon DEF ReplayInv, ThreadsInv, DpopTypeOK

\* A record, or none.
LEMMA RecordTyped ==
    ASSUME DpopTypeOK, NEW j \in Jtis
    PROVE  /\ seen[j] \in Int /\ acceptedAt[j] \in Int
           /\ seen[j] # Never => seen[j] \in Nat
           /\ acceptedAt[j] # Never => acceptedAt[j] \in Nat
BY DEF DpopTypeOK, Never

\* When a record is stale for a thread, and when a sweep is due.
LEMMA StaleIs ==
    ASSUME ReplayInv, NEW t \in Verifiers, pc[t] = "lock", NEW j \in Jtis
    PROVE  /\ Stale(t, j) <=> seen[j] # Never /\ now[t] - seen[j] >= Ttl
           /\ SweepDue(t) <=> now[t] - lastSweep >= SweepInterval
<1>1. seen[j] \in Int /\ now[t] \in Int /\ lastSweep \in Int
    BY ThreadTyped, RecordTyped DEF ReplayInv
<1>2. Since(now[t], seen[j]) >= Ttl <=> now[t] - seen[j] >= Ttl
    BY <1>1, Durations, SinceAtLeast, Zenon
<1>3. Since(now[t], lastSweep) >= SweepInterval <=> now[t] - lastSweep >= SweepInterval
    BY <1>1, Durations, SinceAtLeast, Zenon
<1>. QED
    BY <1>2, <1>3, Zenon DEF Stale, SweepDue

\* The records a thread leaves before it adds its own.
LEMMA UnexpiredIs ==
    ASSUME ReplayInv, NEW t \in Verifiers, pc[t] = "lock"
    PROVE  /\ Unexpired(t) \in [Jtis -> Nat \cup {Never}]
           /\ Unexpired(t)[jti[t]] = Never
           /\ \A j \in Jtis : Unexpired(t)[j] # Never =>
                /\ Unexpired(t)[j] = seen[j] /\ seen[j] # Never
                /\ SweepDue(t) => now[t] - seen[j] < Ttl
           /\ \A j \in Jtis : Unexpired(t)[j] = Never /\ seen[j] # Never =>
                j = jti[t] \/ now[t] - seen[j] >= Ttl
<1>1. seen \in [Jtis -> Nat \cup {Never}] /\ jti[t] \in Jtis
    BY ThreadTyped, Zenon DEF ReplayInv, DpopTypeOK
<1>2. Unexpired(t) \in [Jtis -> Nat \cup {Never}] /\ Unexpired(t)[jti[t]] = Never
    BY <1>1, Zenon DEF Unexpired
<1>3. ASSUME NEW j \in Jtis, Unexpired(t)[j] # Never
      PROVE  /\ Unexpired(t)[j] = seen[j] /\ seen[j] # Never
             /\ SweepDue(t) => now[t] - seen[j] < Ttl
    <2>1. Unexpired(t)[j] = seen[j] /\ ~(SweepDue(t) /\ Stale(t, j))
        BY <1>3, Zenon DEF Unexpired
    <2>2. seen[j] \in Int /\ now[t] \in Int /\ Ttl \in Int
        BY ThreadTyped, RecordTyped, Durations DEF ReplayInv
    <2>3. SweepDue(t) => ~(now[t] - seen[j] >= Ttl)
        BY <1>3, <2>1, StaleIs, Zenon
    <2>. QED
        BY <1>3, <2>1, <2>2, <2>3
<1>4. ASSUME NEW j \in Jtis, Unexpired(t)[j] = Never, seen[j] # Never
      PROVE  j = jti[t] \/ now[t] - seen[j] >= Ttl
    BY <1>4, StaleIs, Zenon DEF Unexpired
<1>. QED
    BY <1>2, <1>3, <1>4, Zenon

\* A thread that meets no replay forgets nothing too early.
LEMMA ForgetsInTime ==
    ASSUME ReplayInv, NEW t \in Verifiers, pc[t] = "lock", ~Replay(t), NEW j \in Jtis,
           Unexpired(t)[j] = Never, acceptedAt[j] # Never
    PROVE  time >= acceptedAt[j] + Ttl - MaxPause
<1>1. CASE seen[j] = Never
    BY <1>1, Zenon DEF ReplayInv, ForgottenInv
<1>2. CASE seen[j] # Never
    <2>1. now[t] - seen[j] >= Ttl
        <3>1. CASE j = jti[t]
            BY <1>2, <3>1, StaleIs, Zenon DEF Replay
        <3>2. CASE j # jti[t]
            BY <1>2, <3>2, UnexpiredIs, Zenon
        <3>. QED
            BY <3>1, <3>2, Zenon
    <2>2. acceptedAt[j] <= seen[j] + MaxPause
        BY <1>2, Zenon DEF ReplayInv, RecordsInv
    <2>3. /\ seen[j] \in Int /\ acceptedAt[j] \in Int /\ now[t] \in Nat /\ time \in Nat
          /\ now[t] <= time /\ MaxPause \in Nat /\ Ttl \in Nat
        BY ThreadTyped, RecordTyped, Durations, Zenon DEF ReplayInv
    <2>. QED
        BY <2>1, <2>2, <2>3
<1>. QED
    BY <1>1, <1>2, Zenon

\* What it leaves has survived its sweep, or the one before.
LEMMA SurvivesSweep ==
    ASSUME ReplayInv, NEW t \in Verifiers, pc[t] = "lock", Swept(t)
    PROVE  /\ lastSweep' \in Nat /\ lastSweep' <= time
           /\ \A j \in Jtis : Unexpired(t)[j] # Never => seen[j] > lastSweep' - Ttl - MaxPause
           /\ now[t] > lastSweep' - Ttl - MaxPause
<1>1. /\ now[t] \in Nat /\ time \in Nat /\ lastSweep \in Nat /\ now[t] <= time
      /\ time <= now[t] + MaxPause /\ lastSweep <= time
    BY ThreadTyped, Zenon
<1>2. Ttl \in Nat \ {0} /\ MaxPause \in Nat
    BY Durations, Zenon
<1>3. (lastSweep' = now[t] /\ SweepDue(t)) \/ lastSweep' = lastSweep
    BY Zenon DEF Swept
<1>4. lastSweep' \in Nat /\ lastSweep' <= time
    BY <1>1, <1>3, Zenon
<1>5. now[t] > lastSweep' - Ttl - MaxPause
    BY <1>1, <1>2, <1>4
<1>6. ASSUME NEW j \in Jtis, Unexpired(t)[j] # Never
      PROVE  seen[j] > lastSweep' - Ttl - MaxPause
    <2>1. seen[j] # Never /\ (SweepDue(t) => now[t] - seen[j] < Ttl)
        BY <1>6, UnexpiredIs, Zenon
    <2>2. seen[j] > lastSweep - Ttl - MaxPause
        BY <2>1, Zenon DEF ReplayInv, RecordsInv
    <2>3. seen[j] \in Int
        BY RecordTyped, Zenon DEF ReplayInv
    <2>4. CASE lastSweep' = lastSweep
        BY <2>2, <2>4, Zenon
    <2>5. CASE lastSweep' = now[t] /\ SweepDue(t)
        BY <1>1, <1>2, <2>1, <2>3, <2>5
    <2>. QED
        BY <1>3, <2>4, <2>5, Zenon
<1>. QED
    BY <1>4, <1>5, <1>6, Zenon

\* It leaves no more records than there were.
LEMMA FewerRecorded ==
    ASSUME ReplayInv, NEW t \in Verifiers, pc[t] = "lock"
    PROVE  /\ IsFiniteSet(Recorded(Unexpired(t)))
           /\ Cardinality(Recorded(Unexpired(t))) <= MaxEntries
           /\ Cardinality(Recorded(Unexpired(t))) \in Nat
<1>1. Recorded(Unexpired(t)) \in SUBSET Recorded(seen)
    BY UnexpiredIs, Zenon DEF Recorded
<1>2. IsFiniteSet(Recorded(seen)) /\ Cardinality(Recorded(seen)) <= MaxEntries
    BY Zenon DEF ReplayInv
<1>3. /\ IsFiniteSet(Recorded(Unexpired(t)))
      /\ Cardinality(Recorded(Unexpired(t))) <= Cardinality(Recorded(seen))
    BY <1>1, <1>2, FS_Subset, Zenon
<1>4. Cardinality(Recorded(Unexpired(t))) \in Nat /\ Cardinality(Recorded(seen)) \in Nat
    BY <1>2, <1>3, FS_CardinalityType, Zenon
<1>. QED
    BY <1>2, <1>3, <1>4, Durations

\* The thread returns, and the others go on.
LEMMA ThreadReturns ==
    ASSUME ReplayInv, NEW t \in Verifiers, Return(t), time' = time
    PROVE  /\ pc' \in [Verifiers -> {"idle", "lock"}]
           /\ jti' \in [Verifiers -> Jtis \cup {None}]
           /\ now' \in [Verifiers -> Nat] /\ ThreadsInv'
<1>1. /\ pc \in [Verifiers -> {"idle", "lock"}] /\ jti \in [Verifiers -> Jtis \cup {None}]
      /\ now \in [Verifiers -> Nat]
    BY Zenon DEF ReplayInv, DpopTypeOK
<1>2. /\ pc' \in [Verifiers -> {"idle", "lock"}] /\ jti' \in [Verifiers -> Jtis \cup {None}]
      /\ now' \in [Verifiers -> Nat]
    BY <1>1, Zenon DEF Return
<1>3. /\ pc'[t] = "idle"
      /\ \A u \in Verifiers \ {t} : pc'[u] = pc[u] /\ jti'[u] = jti[u] /\ now'[u] = now[u]
    BY <1>1, Zenon DEF Return
<1>4. ThreadsInv'
    BY <1>3, Zenon DEF ReplayInv, ThreadsInv
<1>. QED
    BY <1>2, <1>4, Zenon

\* A refusal for capacity leaves what is not expired.
LEMMA ExhaustedStep ==
    ASSUME ReplayInv, NEW t \in Verifiers, Exhausted(t)
    PROVE  ReplayInv'
<1>1. /\ pc[t] = "lock" /\ ~Replay(t) /\ seen' = Unexpired(t) /\ Swept(t) /\ Return(t)
      /\ time' = time /\ acceptedAt' = acceptedAt
    BY Zenon DEF Exhausted
<1>2. /\ pc' \in [Verifiers -> {"idle", "lock"}] /\ jti' \in [Verifiers -> Jtis \cup {None}]
      /\ now' \in [Verifiers -> Nat] /\ ThreadsInv'
    BY <1>1, ThreadReturns, Zenon
<1>3. /\ lastSweep' \in Nat /\ lastSweep' <= time
      /\ \A j \in Jtis : Unexpired(t)[j] # Never => seen[j] > lastSweep' - Ttl - MaxPause
    BY <1>1, SurvivesSweep, Zenon
<1>4. /\ seen' \in [Jtis -> Nat \cup {Never}]
      /\ \A j \in Jtis : seen'[j] # Never => seen'[j] = seen[j] /\ seen[j] # Never
    BY <1>1, UnexpiredIs, Zenon
<1>5. DpopTypeOK'
    BY <1>1, <1>2, <1>3, <1>4, Zenon DEF ReplayInv, DpopTypeOK
<1>6. RecordsInv'
    BY <1>1, <1>3, <1>4, Zenon DEF ReplayInv, RecordsInv
<1>7. ForgottenInv'
    BY <1>1, ForgetsInTime, Zenon DEF ForgottenInv
<1>8. IsFiniteSet(Recorded(seen')) /\ Cardinality(Recorded(seen')) <= MaxEntries
    BY <1>1, FewerRecorded, Zenon
<1>9. Recorded(seen)' = Recorded(seen')
    BY Zenon DEF Recorded
<1>. QED
    BY <1>1, <1>2, <1>3, <1>5, <1>6, <1>7, <1>8, <1>9, Zenon DEF ReplayInv

\* An acceptance records the thread's jti with the thread's time.
LEMMA AcceptStep ==
    ASSUME ReplayInv, NEW t \in Verifiers, Accept(t)
    PROVE  ReplayInv'
<1>1. PICK k, n : k = jti[t] /\ n = now[t]
    BY Zenon
<1>2. /\ pc[t] = "lock" /\ ~Replay(t) /\ ~Full(t) /\ seen' = [Unexpired(t) EXCEPT ![k] = n]
      /\ Swept(t) /\ Return(t) /\ time' = time /\ acceptedAt' = [acceptedAt EXCEPT ![k] = time]
    BY <1>1, Zenon DEF Accept
<1>3. /\ pc' \in [Verifiers -> {"idle", "lock"}] /\ jti' \in [Verifiers -> Jtis \cup {None}]
      /\ now' \in [Verifiers -> Nat] /\ ThreadsInv'
    BY <1>2, ThreadReturns, Zenon
<1>4. k \in Jtis /\ n \in Nat /\ time \in Nat /\ n <= time /\ time <= n + MaxPause
    BY <1>1, <1>2, ThreadTyped, Zenon
<1>5. /\ lastSweep' \in Nat /\ lastSweep' <= time
      /\ \A j \in Jtis : Unexpired(t)[j] # Never => seen[j] > lastSweep' - Ttl - MaxPause
      /\ n > lastSweep' - Ttl - MaxPause
    BY <1>1, <1>2, SurvivesSweep, Zenon
<1>6. /\ Unexpired(t) \in [Jtis -> Nat \cup {Never}]
      /\ \A j \in Jtis : Unexpired(t)[j] # Never =>
            Unexpired(t)[j] = seen[j] /\ seen[j] # Never
      /\ Unexpired(t)[k] = Never
    BY <1>1, <1>2, UnexpiredIs, Zenon
<1>7. acceptedAt \in [Jtis -> Nat \cup {Never}]
    BY Zenon DEF ReplayInv, DpopTypeOK
<1>8. /\ seen' \in [Jtis -> Nat \cup {Never}] /\ acceptedAt' \in [Jtis -> Nat \cup {Never}]
      /\ seen'[k] = n /\ acceptedAt'[k] = time
      /\ \A j \in Jtis \ {k} : seen'[j] = Unexpired(t)[j] /\ acceptedAt'[j] = acceptedAt[j]
    BY <1>2, <1>4, <1>6, <1>7, Zenon
<1>9. DpopTypeOK'
    BY <1>2, <1>3, <1>5, <1>8, Zenon DEF ReplayInv, DpopTypeOK
<1>10. n # Never /\ time # Never
    BY <1>4 DEF Never
<1>11. RecordsInv'
    <2>1. SUFFICES ASSUME NEW j \in Jtis, seen'[j] # Never
                   PROVE  /\ acceptedAt'[j] # Never /\ seen'[j] <= acceptedAt'[j]
                          /\ acceptedAt'[j] <= seen'[j] + MaxPause
                          /\ acceptedAt'[j] <= time'
                          /\ seen'[j] > lastSweep' - Ttl - MaxPause
        BY Zenon DEF RecordsInv
    <2>2. CASE j = k
        BY <1>2, <1>4, <1>5, <1>8, <1>10, <2>2
    <2>3. CASE j # k
        <3>1. seen'[j] = seen[j] /\ seen[j] # Never /\ acceptedAt'[j] = acceptedAt[j]
              /\ Unexpired(t)[j] # Never
            BY <1>6, <1>8, <2>1, <2>3, Zenon
        <3>. QED
            BY <1>2, <1>5, <3>1, Zenon DEF ReplayInv, RecordsInv
    <2>. QED
        BY <2>2, <2>3, Zenon
<1>12. ForgottenInv'
    <2>1. SUFFICES ASSUME NEW j \in Jtis, seen'[j] = Never, acceptedAt'[j] # Never
                   PROVE  time >= acceptedAt'[j] + Ttl - MaxPause
        BY <1>2, Zenon DEF ForgottenInv
    <2>2. j # k
        BY <1>8, <1>10, <2>1, Zenon
    <2>3. Unexpired(t)[j] = Never /\ acceptedAt'[j] = acceptedAt[j] /\ acceptedAt[j] # Never
        BY <1>8, <2>1, <2>2, Zenon
    <2>. QED
        BY <1>2, <2>3, ForgetsInTime, Zenon
<1>13. IsFiniteSet(Recorded(seen')) /\ Cardinality(Recorded(seen')) <= MaxEntries
    <2>1. Recorded(seen') = Recorded(Unexpired(t)) \cup {k} /\ k \notin Recorded(Unexpired(t))
        BY <1>4, <1>6, <1>8, <1>10, Zenon DEF Recorded
    <2>2. /\ IsFiniteSet(Recorded(Unexpired(t))) /\ Cardinality(Recorded(Unexpired(t))) \in Nat
          /\ ~(Cardinality(Recorded(Unexpired(t))) >= MaxEntries)
        BY <1>2, FewerRecorded, Zenon DEF Full
    <2>3. /\ IsFiniteSet(Recorded(Unexpired(t)) \cup {k})
          /\ Cardinality(Recorded(Unexpired(t)) \cup {k})
                = Cardinality(Recorded(Unexpired(t))) + 1
        BY <2>1, <2>2, FS_AddElement, Zenon
    <2>. QED
        BY <2>1, <2>2, <2>3, Durations
<1>14. Recorded(seen)' = Recorded(seen')
    BY Zenon DEF Recorded
<1>. QED
    BY <1>2, <1>3, <1>5, <1>9, <1>11, <1>12, <1>13, <1>14, Zenon DEF ReplayInv

\* The other steps leave the records alone.
LEMMA OtherStep ==
    ASSUME ReplayInv,
           \/ \E t \in Verifiers, j \in Jtis, d \in Defects \cup {None} :
                Verify(t, j, d)
           \/ \E t \in Verifiers : RefuseReplay(t)
           \/ Pass \/ UNCHANGED dpopVars
    PROVE  ReplayInv'
<1>1. UNCHANGED <<seen, lastSweep, acceptedAt>>
    BY Zenon DEF Verify, RefuseReplay, Pass, dpopVars
<1>2. time \in Nat /\ time' \in Nat /\ time <= time'
    BY DEF ReplayInv, DpopTypeOK, Verify, RefuseReplay, Pass, dpopVars
<1> DEFINE Typed == /\ pc \in [Verifiers -> {"idle", "lock"}]
                    /\ jti \in [Verifiers -> Jtis \cup {None}]
                    /\ now \in [Verifiers -> Nat]
<1>3. Typed' /\ ThreadsInv'
    <2>1. ASSUME NEW t \in Verifiers, NEW j \in Jtis, NEW d, Verify(t, j, d)
          PROVE  Typed' /\ ThreadsInv'
        <3>1. /\ pc \in [Verifiers -> {"idle", "lock"}]
              /\ jti \in [Verifiers -> Jtis \cup {None}]
              /\ now \in [Verifiers -> Nat] /\ time' = time
            BY <2>1, Zenon DEF ReplayInv, DpopTypeOK, Verify
        <3>2. /\ pc' \in [Verifiers -> {"idle", "lock"}]
              /\ jti' \in [Verifiers -> Jtis \cup {None}]
              /\ now' \in [Verifiers -> Nat]
            BY <1>2, <2>1, <3>1, Zenon DEF Verify
        <3>3. /\ jti'[t] = j /\ now'[t] = time
              /\ \A u \in Verifiers \ {t} :
                    pc'[u] = pc[u] /\ jti'[u] = jti[u] /\ now'[u] = now[u]
            BY <2>1, <3>1, Zenon DEF Verify
        <3>4. time <= time /\ time <= time + MaxPause
            BY <1>2, Durations
        <3>5. ThreadsInv'
            BY <3>1, <3>3, <3>4, Zenon DEF ReplayInv, ThreadsInv
        <3>. QED
            BY <3>2, <3>5, Zenon
    <2>2. ASSUME NEW t \in Verifiers, RefuseReplay(t)
          PROVE  Typed' /\ ThreadsInv'
        BY <2>2, ThreadReturns, Zenon DEF RefuseReplay
    <2>3. CASE Pass
        <3>1. UNCHANGED <<pc, jti, now>> /\ time' = time + 1
              /\ \A t \in Verifiers : pc[t] = "lock" => time < now[t] + MaxPause
            BY <2>3, Zenon DEF Pass
        <3>2. \A t \in Verifiers : now[t] \in Nat
            BY Zenon DEF ReplayInv, DpopTypeOK
        <3>3. ThreadsInv'
            BY <1>2, <3>1, <3>2, Durations DEF ReplayInv, ThreadsInv
        <3>. QED
            BY <3>1, <3>3, Zenon DEF ReplayInv, DpopTypeOK
    <2>4. CASE UNCHANGED dpopVars
        BY <2>4, Zenon DEF ReplayInv, DpopTypeOK, ThreadsInv, dpopVars
    <2>. QED
        BY <2>1, <2>2, <2>3, <2>4, Zenon
<1>4. DpopTypeOK'
    BY <1>1, <1>2, <1>3, Zenon DEF ReplayInv, DpopTypeOK
<1>5. RecordsInv'
    <2>1. \A j \in Jtis : acceptedAt[j] \in Int
        BY RecordTyped, Zenon DEF ReplayInv
    <2>. QED
        BY <1>1, <1>2, <2>1 DEF ReplayInv, RecordsInv
<1>6. ForgottenInv'
    <2>1. SUFFICES ASSUME NEW j \in Jtis, seen[j] = Never, acceptedAt[j] # Never
                   PROVE  time' >= acceptedAt[j] + Ttl - MaxPause
        BY <1>1, Zenon DEF ForgottenInv
    <2>2. time >= acceptedAt[j] + Ttl - MaxPause /\ acceptedAt[j] \in Int
        BY <2>1, RecordTyped, Zenon DEF ReplayInv, ForgottenInv
    <2>. QED
        BY <1>2, <2>2, Durations
<1>7. lastSweep' <= time'
    <2>1. lastSweep \in Nat /\ lastSweep <= time
        BY Zenon DEF ReplayInv, DpopTypeOK
    <2>. QED
        BY <1>1, <1>2, <2>1
<1>8. Recorded(seen)' = Recorded(seen)
    BY <1>1, Zenon DEF Recorded
<1>. QED
    BY <1>3, <1>4, <1>5, <1>6, <1>7, <1>8, Zenon DEF ReplayInv

\* The invariant holds in every reachable state.
LEMMA ReplayAlways == DpopSpec => []ReplayInv
<1>1. DpopInit => ReplayInv
    <2>1. SUFFICES ASSUME DpopInit PROVE ReplayInv
        BY Zenon
    <2>2. DpopTypeOK /\ ThreadsInv /\ RecordsInv /\ ForgottenInv
        BY <2>1, Zenon DEF DpopInit, DpopTypeOK, ThreadsInv, RecordsInv, ForgottenInv
    <2>3. Recorded(seen) = {} /\ lastSweep <= time
        BY <2>1 DEF DpopInit, Recorded
    <2>4. IsFiniteSet({}) /\ Cardinality({}) <= MaxEntries
        BY FS_EmptySet, Durations
    <2>. QED
        BY <2>2, <2>3, <2>4, Zenon DEF ReplayInv
<1>2. ReplayInv /\ [DpopNext]_dpopVars => ReplayInv'
    BY ExhaustedStep, AcceptStep, OtherStep, Zenon DEF DpopNext
<1>. QED
    BY <1>1, <1>2, PTL DEF DpopSpec

\* The answers, apart from the bound on the records.
AnswersRight ==
    /\ NoEarlyReplay /\ NoFalseReplay
    /\ verdict.result = "full" =>
            \A age \in verdict.ages : age < Ttl + SweepInterval + 2 * MaxPause

\* An acceptance follows one that is a TTL old, less a pause, or none.
LEMMA AcceptRight ==
    ASSUME ReplayInv, NEW t \in Verifiers, Accept(t)
    PROVE  AnswersRight'
<1>1. pc[t] = "lock" /\ ~Replay(t) /\ verdict' = Verdict(t, "ok", Unexpired(t))
    BY Zenon DEF Accept
<1>2. PICK k \in Jtis : k = jti[t]
    BY <1>1, ThreadTyped, Zenon
<1>3. /\ verdict'.result = "ok"
      /\ verdict'.gap = IF acceptedAt[k] = Never THEN Never ELSE time - acceptedAt[k]
    BY <1>1, <1>2, Zenon DEF Verdict
<1>4. ASSUME acceptedAt[k] # Never
      PROVE  time - acceptedAt[k] >= Ttl - MaxPause
    <2>1. Unexpired(t)[k] = Never
        BY <1>1, <1>2, UnexpiredIs, Zenon
    <2>2. time >= acceptedAt[k] + Ttl - MaxPause
        BY <1>1, <1>4, <2>1, ForgetsInTime, Zenon
    <2>3. acceptedAt[k] \in Int /\ time \in Int
        BY <1>1, RecordTyped, ThreadTyped DEF ReplayInv
    <2>. QED
        BY <2>2, <2>3, Durations
<1>5. NoEarlyReplay'
    BY <1>3, <1>4, Zenon DEF NoEarlyReplay
<1>. QED
    BY <1>3, <1>5, Zenon DEF AnswersRight, NoFalseReplay

\* A replay follows an acceptance that is less than a TTL and a pause old.
LEMMA RefusalRight ==
    ASSUME ReplayInv, NEW t \in Verifiers, RefuseReplay(t)
    PROVE  AnswersRight'
<1>1. pc[t] = "lock" /\ Replay(t) /\ verdict' = Verdict(t, "replay", seen)
    BY Zenon DEF RefuseReplay
<1>2. PICK k \in Jtis : k = jti[t]
    BY <1>1, ThreadTyped, Zenon
<1>3. /\ verdict'.result = "replay"
      /\ verdict'.gap = IF acceptedAt[k] = Never THEN Never ELSE time - acceptedAt[k]
    BY <1>1, <1>2, Zenon DEF Verdict
<1>4. seen[k] # Never /\ ~(now[t] - seen[k] >= Ttl)
    BY <1>1, <1>2, StaleIs, Zenon DEF Replay
<1>5. acceptedAt[k] # Never /\ seen[k] <= acceptedAt[k]
    BY <1>4, Zenon DEF ReplayInv, RecordsInv
<1>6. /\ seen[k] \in Nat /\ acceptedAt[k] \in Nat /\ now[t] \in Nat /\ time \in Nat
      /\ time <= now[t] + MaxPause
    BY <1>1, <1>4, <1>5, RecordTyped, ThreadTyped, Zenon DEF ReplayInv
<1>7. time - acceptedAt[k] < Ttl + MaxPause
    BY <1>4, <1>5, <1>6, Durations
<1>8. time - acceptedAt[k] # Never
    <2>1. acceptedAt[k] <= time
        BY <1>4, Zenon DEF ReplayInv, RecordsInv
    <2>. QED
        BY <1>6, <2>1 DEF Never
<1>9. NoFalseReplay'
    BY <1>3, <1>5, <1>7, <1>8, Zenon DEF NoFalseReplay
<1>. QED
    BY <1>3, <1>9, Zenon DEF AnswersRight, NoEarlyReplay

\* A refusal for capacity meets no record much older than a TTL.
LEMMA ExhaustionRight ==
    ASSUME ReplayInv, NEW t \in Verifiers, Exhausted(t)
    PROVE  AnswersRight'
<1>1. pc[t] = "lock" /\ verdict' = Verdict(t, "full", Unexpired(t))
    BY Zenon DEF Exhausted
<1>2. /\ verdict'.result = "full"
      /\ verdict'.ages = {time - Unexpired(t)[j] : j \in Recorded(Unexpired(t))}
    BY <1>1, Zenon DEF Verdict
<1>3. ASSUME NEW j \in Jtis, Unexpired(t)[j] # Never
      PROVE  time - Unexpired(t)[j] < Ttl + SweepInterval + 2 * MaxPause
    <2>1. /\ Unexpired(t)[j] = seen[j] /\ seen[j] # Never
          /\ SweepDue(t) => now[t] - seen[j] < Ttl
        BY <1>1, <1>3, UnexpiredIs, Zenon
    <2>2. /\ seen[j] \in Nat /\ now[t] \in Nat /\ time \in Nat /\ lastSweep \in Nat
          /\ time <= now[t] + MaxPause
        BY <1>1, <2>1, RecordTyped, ThreadTyped, Zenon DEF ReplayInv
    <2>3. seen[j] > lastSweep - Ttl - MaxPause
        BY <2>1, Zenon DEF ReplayInv, RecordsInv
    <2>4. SweepDue(t) \/ ~(now[t] - lastSweep >= SweepInterval)
        BY <1>1, StaleIs, Zenon
    <2>. QED
        BY <2>1, <2>2, <2>3, <2>4, Durations
<1>4. \A age \in verdict'.ages : age < Ttl + SweepInterval + 2 * MaxPause
    BY <1>2, <1>3, Zenon DEF Recorded
<1>. QED
    BY <1>2, <1>4, Zenon DEF AnswersRight, NoEarlyReplay, NoFalseReplay

\* Every answer of check_and_record is the right one (jti.rs:64), for any number
\* of threads, whatever they do between reading the clock and taking the lock,
\* any TTL, sweep interval, limit and pause.
THEOREM VerdictsRight == DpopSpec => []ReplayVerdicts
<1>1. DpopInit => AnswersRight
    BY DEF DpopInit, NoVerdict, AnswersRight, NoEarlyReplay, NoFalseReplay
<1>2. ReplayInv /\ AnswersRight /\ [DpopNext]_dpopVars => AnswersRight'
    <2>1. SUFFICES ASSUME ReplayInv, AnswersRight, [DpopNext]_dpopVars PROVE AnswersRight'
        BY Zenon
    <2>2. CASE verdict' = verdict
        BY <2>1, <2>2, Zenon DEF AnswersRight, NoEarlyReplay, NoFalseReplay
    <2>3. CASE \E t \in Verifiers : RefuseReplay(t) \/ Exhausted(t) \/ Accept(t)
        BY <2>1, <2>3, AcceptRight, RefusalRight, ExhaustionRight, Zenon
    <2>. QED
        BY <2>1, <2>2, <2>3, Zenon DEF DpopNext, Verify, Pass, dpopVars
<1>3. ReplayInv /\ AnswersRight => ReplayVerdicts
    BY Zenon DEF ReplayInv, AnswersRight, ReplayVerdicts, NoFalseExhaustion
<1>. QED
    BY <1>1, <1>2, <1>3, ReplayAlways, PTL DEF DpopSpec
=============================================================================
