------------------------- MODULE PolicyReloadProofs -------------------------
(***************************************************************************)
(* Proofs about PolicyReload, for every set of files and contents and every *)
(* bound on files, edits, signals and I/O errors.                          *)
(***************************************************************************)
EXTENDS PolicyReload, FiniteSetTheorems, TLAPS

\* The initial states satisfy TypeOK.
LEMMA TypeInit == ReloadInit => ReloadTypes
<1> SUFFICES ASSUME ReloadInit PROVE ReloadTypes
  OBVIOUS
<1>1. changed \in BOOLEAN
  BY Zenon DEF ReloadInit
<1>2. Nothing \in [Files -> Content]
  BY DEF Nothing, Content
<1>3. got \in [Tasks -> [Files -> Content]] /\ current \in [Files -> Content]
  BY <1>2 DEF ReloadInit
<1> QED
  BY <1>1, <1>3 DEF ReloadInit, ReloadTypes

\* Every step of PolicyReload keeps the types.
LEMMA TypeNext == ReloadTypes /\ [ReloadNext]_reloadVars => ReloadTypes'
<1> SUFFICES ASSUME ReloadTypes, [ReloadNext]_reloadVars PROVE ReloadTypes'
  OBVIOUS
<1> USE DEF ReloadTypes, env, loads
<1>1. CASE \E f \in Files, c \in Content : Edit(f, c)
  BY <1>1 DEF Edit
<1>2. CASE \E f \in Files : Scan(f)
  <2>1. PICK f \in Files : Scan(f)
    BY <1>2
  <2>2. changed' \in BOOLEAN
    BY <2>1, Zenon DEF Scan
  <2> QED
    BY <2>1, <2>2 DEF Scan
<1>3. ASSUME NEW t \in Tasks, Load(t) PROVE ReloadTypes'
  <2>1. Nothing \in [Files -> Content]
    BY DEF Nothing, Content
  <2>7. errors' \in Nat
    BY <1>3 DEF Load, List, Read, Parse, Install, Refused, Found, Glitch
  <2>2. ASSUME Fail(t), UNCHANGED <<env, changed, hups>> PROVE ReloadTypes'
    BY <2>2, <2>7 DEF Fail
  <2>3. CASE List(t)
    <3>1. CASE Fail(t)
      BY <2>2, <2>3, <3>1 DEF List
    <3>2. CASE ~Fail(t)
      <4>1. todo' \in [Tasks -> SUBSET Files]
        BY <2>3, <3>2 DEF List, Refused, Found, Present, Files
      <4> QED
        BY <2>1, <2>3, <2>7, <3>2, <4>1 DEF List, Refused
    <3> QED
      BY <3>1, <3>2
  <2>4. CASE \E f \in Files : Read(t, f)
    <3>1. PICK f \in Files : Read(t, f)
      BY <2>4
    <3>2. CASE Fail(t)
      BY <2>2, <3>1, <3>2 DEF Read
    <3>3. CASE ~Fail(t)
      <4>1. todo' \in [Tasks -> SUBSET Files]
        BY <3>1, <3>3 DEF Read, Refused
      <4>2. [got[t] EXCEPT ![f] = store[f]] \in [Files -> Content]
        OBVIOUS
      <4>3. got' \in [Tasks -> [Files -> Content]]
        BY <3>1, <3>3, <4>2 DEF Read, Refused
      <4> QED
        BY <2>7, <3>1, <3>3, <4>1, <4>3 DEF Read, Refused
    <3> QED
      BY <3>2, <3>3
  <2>5. CASE Parse(t)
    <3>1. CASE Fail(t)
      BY <2>2, <2>5, <3>1 DEF Parse
    <3>2. CASE ~Fail(t)
      <4>1. todo' \in [Tasks -> SUBSET Files]
        BY <2>5, <3>2 DEF Parse, Found, Files
      <4> QED
        BY <2>5, <2>7, <3>2, <4>1 DEF Parse
    <3> QED
      BY <3>1, <3>2
  <2>6. CASE Install(t)
    BY <2>2, <2>6 DEF Install
  <2> QED
    BY <1>3, <2>3, <2>4, <2>5, <2>6 DEF Load
<1>4. CASE Baseline
  <2>1. errors' \in Nat /\ phase' \in {"serve", "exit"}
    BY <1>4 DEF Baseline, Glitch
  <2> QED
    BY <1>4, <2>1 DEF Baseline
<1>5. CASE Tick
  <2>1. changed' \in BOOLEAN
    BY <1>5, Zenon DEF Tick
  <2> QED
    BY <1>5, <2>1 DEF Tick
<1>6. CASE Sighup
  BY <1>6 DEF Sighup, Tasks
<1>7. CASE UNCHANGED reloadVars
  BY <1>7 DEF reloadVars
<1> QED
  BY <1>1, <1>2, <1>3, <1>4, <1>5, <1>6, <1>7 DEF ReloadNext

-----------------------------------------------------------------------------
(* Only valid snapshots are served. *)

\* A step that leaves the loads and the serving snapshot alone keeps ValidInv.
LEMMA ValidSame ==
    ASSUME ValidInv, ReloadTypes', UNCHANGED <<todo, got, current>>,
           \A t \in Tasks : at'[t] \in {"read", "schema"} => at[t] = at'[t],
           phase' \in {"watch", "serve"} => phase \in {"watch", "serve"}
    PROVE  ValidInv'
  BY DEF ValidInv, Valid, Listed, Present

\* Reading a listed file leaves the set of listed files as it is.
LEMMA ReadKeepsListed ==
    ASSUME ReloadTypes, NEW t \in Tasks, NEW f \in todo[t], store[f] # Absent,
           todo' = [todo EXCEPT ![t] = @ \ {f}],
           got' = [got EXCEPT ![t][f] = store[f]]
    PROVE  \A u \in Tasks : Listed(u)' = Listed(u)
<1>1. todo'[t] = todo[t] \ {f} /\ got'[t] = [got[t] EXCEPT ![f] = store[f]]
  BY DEF ReloadTypes
<1>2. Listed(t)' = Listed(t)
  BY <1>1 DEF ReloadTypes, Listed, Present, Files
<1>3. ASSUME NEW u \in Tasks, u # t PROVE Listed(u)' = Listed(u)
  <2>1. todo'[u] = todo[u] /\ got'[u] = got[u]
    BY <1>3 DEF ReloadTypes
  <2> QED
    BY <2>1 DEF Listed, Present
<1> QED
  BY <1>2, <1>3

\* Every step keeps ValidInv.
LEMMA ValidNext == ValidInv /\ [ReloadNext]_reloadVars => ValidInv'
<1> SUFFICES ASSUME ValidInv, [ReloadNext]_reloadVars PROVE ValidInv'
  OBVIOUS
<1>1. ReloadTypes /\ ReloadTypes'
  BY TypeNext DEF ValidInv
<1>2. CASE \E f \in Files, c \in Content : Edit(f, c)
  BY <1>1, <1>2, ValidSame DEF Edit, loads
<1>3. CASE \E f \in Files : Scan(f)
  BY <1>1, <1>3, ValidSame DEF Scan, loads
<1>4. CASE Baseline
  BY <1>1, <1>4, ValidSame DEF Baseline, loads
<1>5. CASE Tick \/ Sighup
  BY <1>1, <1>5, ValidSame DEF Tick, Sighup, ReloadTypes, Tasks
<1>6. CASE UNCHANGED reloadVars
  BY <1>1, <1>6, ValidSame DEF reloadVars
<1>7. ASSUME NEW t \in Tasks, Load(t) PROVE ValidInv'
  <2>1. ASSUME Fail(t) PROVE ValidInv'
    BY <1>1, <2>1, ValidSame DEF Fail, ReloadTypes
  <2>2. CASE List(t)
    <3>1. SUFFICES ASSUME NEW s \in {Present(store), {}},
                          s # {} => WithinLimit(store),
                          at' = [at EXCEPT ![t] = "read"],
                          todo' = [todo EXCEPT ![t] = s],
                          got' = [got EXCEPT ![t] = Nothing],
                          UNCHANGED <<phase, current>>
                   PROVE  ValidInv'
      BY <1>1, <2>1, <2>2 DEF List, Refused, Found, ReloadTypes
    <3>2. Listed(t)' = s
      BY <1>1, <3>1 DEF ReloadTypes, Listed, Present, Nothing, Files
    <3>4. Cardinality(s) <= MaxFiles
      BY <3>1, FS_EmptySet, PolicyReloadAssumption DEF WithinLimit
    <3>3. ASSUME NEW u \in Tasks, u # t
          PROVE  Listed(u)' = Listed(u) /\ at'[u] = at[u]
      <4>1. todo'[u] = todo[u] /\ got'[u] = got[u] /\ at'[u] = at[u]
        BY <1>1, <3>1, <3>3 DEF ReloadTypes
      <4> QED
        BY <4>1 DEF Listed, Present
    <3> QED
      BY <1>1, <3>1, <3>2, <3>3, <3>4 DEF ValidInv, Valid, WithinLimit, Present
  <2>3. CASE \E f \in Files : Read(t, f)
    <3>1. PICK f \in Files : Read(t, f)
      BY <2>3
    <3>2. CASE Fail(t)
      BY <2>1, <3>2
    <3>3. CASE ~Fail(t)
      <4>1. \A u \in Tasks : Listed(u)' = Listed(u)
        BY <1>1, <3>1, <3>3, ReadKeepsListed DEF Read, Refused
      <4> QED
        BY <1>1, <3>1, <3>3, <4>1 DEF Read, Refused, ValidInv, Valid, WithinLimit, Present
    <3> QED
      BY <3>2, <3>3
  <2>4. CASE Parse(t)
    <3>1. CASE ~Parses(t)
      BY <2>1, <2>4, <3>1 DEF Parse
    <3>2. CASE Parses(t)
      <4>1. \A u \in Tasks : Listed(u)' = Listed(u)
        <5>1. ASSUME NEW u \in Tasks PROVE todo'[u] \cap Policies = todo[u] \cap Policies
          BY <1>1, <2>4, <3>2, PolicyReloadAssumption DEF Parse, Found, ReloadTypes
        <5>2. got' = got
          BY <2>4, <3>2 DEF Parse, Fail
        <5> QED
          BY <5>1, <5>2 DEF Listed, Present
      <4>2. \A u \in Tasks : at'[u] \in {"read", "schema"} => at[u] \in {"read", "schema"}
        BY <1>1, <2>4, <3>2 DEF Parse, ReloadTypes
      <4> QED
        BY <1>1, <2>4, <3>2, <4>1, <4>2 DEF Parse, ValidInv, Valid, WithinLimit, Present
    <3> QED
      BY <3>1, <3>2
  <2>5. CASE Install(t)
    <3>1. CASE ~Parses(t)
      BY <2>1, <2>5, <3>1 DEF Install
    <3>2. CASE Parses(t)
      <4>1. Listed(t) = Present(got[t])
        BY <2>5 DEF Install, Listed
      <4>2. Valid(got[t])
        BY <2>5, <3>2, <4>1 DEF Install, Parses, Valid, WithinLimit, ValidInv
      <4>3. Valid(current)'
        BY <2>5, <3>2, <4>2 DEF Install, Valid, WithinLimit, Present
      <4>4. \A u \in Tasks : Listed(u)' = Listed(u)
        BY <2>5, <3>2 DEF Install, Listed, Present
      <4>5. \A u \in Tasks : at'[u] \in {"read", "schema"} => at[u] \in {"read", "schema"}
        BY <1>1, <2>5, <3>2 DEF Install, ReloadTypes
      <4> QED
        BY <1>1, <4>3, <4>4, <4>5 DEF ValidInv
    <3> QED
      BY <3>1, <3>2
  <2> QED
    BY <1>7, <2>2, <2>3, <2>4, <2>5 DEF Load
<1> QED
  BY <1>2, <1>3, <1>4, <1>5, <1>6, <1>7 DEF ReloadNext

\* The server answers only from snapshots that parsed as a whole and are
\* within the limits (AuthorizerHandle::reload), with any number of edits and
\* signals at any moment.
THEOREM AlwaysServesOnlyValid == ReloadSpec => [](ValidInv /\ ServesOnlyValid)
<1>1. ReloadInit => ValidInv
  BY TypeInit DEF ReloadInit, ValidInv, Tasks
<1>2. ValidInv => ServesOnlyValid
  BY DEF ValidInv, ServesOnlyValid
<1> QED
  BY <1>1, <1>2, ValidNext, PTL DEF ReloadSpec

-----------------------------------------------------------------------------
(* No edit is forgotten. *)

\* A step of the environment that only adds to what is noticed, and notices
\* every file it writes, keeps a load's reads up to date.
LEMMA UpToDateKept ==
    ASSUME ReloadTypes, NEW t \in Tasks, UpToDate(t),
           at'[t] = at[t], todo'[t] = todo[t], got'[t] = got[t],
           \A f \in Files : Noticed(f) => Noticed(f)',
           \A f \in Files : store'[f] = store[f] \/ Noticed(f)'
    PROVE  UpToDate(t)'
<1>1. ASSUME NEW f \in Files, Noticed(f) \/ Current(t, f)
      PROVE  (Noticed(f) \/ Current(t, f))'
  <2>1. CASE Noticed(f)
    BY <2>1
  <2>2. CASE Current(t, f) /\ store'[f] = store[f]
    BY <2>2 DEF Current
  <2> QED
    BY <1>1, <2>1, <2>2
<1>2. Policies \subseteq Files
  BY DEF Files
<1> QED
  BY <1>1, <1>2 DEF UpToDate

\* What a step of a load leaves alone.
LEMMA LoadFrame ==
    ASSUME ReloadTypes, NEW t \in Tasks, Load(t)
    PROVE  /\ UNCHANGED <<store, unseen, changed>> /\ at[t] # "idle"
           /\ \A u \in Tasks : u # t =>
                at'[u] = at[u] /\ todo'[u] = todo[u] /\ got'[u] = got[u]
<1>1. CASE List(t)
  BY <1>1 DEF List, Refused, Found, Fail, ReloadTypes, env
<1>2. CASE \E f \in Files : Read(t, f)
  <2>1. PICK f \in Files : Read(t, f)
    BY <1>2
  <2> QED
    BY <2>1 DEF Read, Refused, Fail, ReloadTypes, env
<1>3. CASE Parse(t)
  BY <1>3 DEF Parse, Found, Fail, ReloadTypes, env
<1>4. CASE Install(t)
  BY <1>4 DEF Install, Fail, ReloadTypes, env
<1> QED
  BY <1>1, <1>2, <1>3, <1>4 DEF Load

\* A step of one load keeps the other load up to date; only the startup and
\* the watcher load when no signal arrives.
LEMMA OtherLoad ==
    ASSUME ReloadTypes, Following, NEW t \in Tasks, Load(t)
    PROVE  /\ t \in {"startup", "watcher"} /\ at'["sighup"] = "idle"
           /\ \A u \in {"startup", "watcher"} : u # t => UpToDate(u)' /\ at'[u] = at[u]
           /\ t = "startup" => phase = "load"
           /\ t = "watcher" => phase = "serve"
<1>1. ReloadTypes
  BY DEF Following
<1>2. /\ UNCHANGED <<store, unseen, changed>> /\ at[t] # "idle"
      /\ \A u \in Tasks : u # t =>
            at'[u] = at[u] /\ todo'[u] = todo[u] /\ got'[u] = got[u]
  BY <1>1, LoadFrame
<1>3. t \in {"startup", "watcher"}
  BY <1>2 DEF Following, Tasks
<1>4. at'["sighup"] = "idle"
  BY <1>2, <1>3 DEF Following, Tasks
<1>5. ASSUME NEW u \in {"startup", "watcher"}, u # t PROVE UpToDate(u)' /\ at'[u] = at[u]
  <2>1. u \in Tasks /\ UpToDate(u)
    BY DEF Tasks, Following
  <2>2. \A f \in Files : Noticed(f)' = Noticed(f)
    BY <1>2 DEF Noticed
  <2>3. UpToDate(u)'
    BY <1>1, <1>2, <1>5, <2>1, <2>2, UpToDateKept
  <2> QED
    BY <1>2, <1>5, <2>1, <2>3
<1>6. (t = "startup" => phase = "load") /\ (t = "watcher" => phase = "serve")
  BY <1>2 DEF Following
<1> QED
  BY <1>3, <1>4, <1>5, <1>6

\* A step of a load that goes on keeps Following if the load stays up to date.
LEMMA LoadContinues ==
    ASSUME ReloadTypes, Following, ReloadTypes', NEW t \in Tasks, Load(t), UpToDate(t)',
           at'[t] # "idle", UNCHANGED <<phase, current>>
    PROVE  Following'
<1>1. UNCHANGED <<store, unseen, changed>>
  BY LoadFrame DEF Following
<1>2. /\ t \in {"startup", "watcher"} /\ at'["sighup"] = "idle"
      /\ \A u \in {"startup", "watcher"} : u # t => UpToDate(u)' /\ at'[u] = at[u]
      /\ t = "startup" => phase = "load"
      /\ t = "watcher" => phase = "serve"
  BY OtherLoad
<1>3. UpToDate("startup")' /\ UpToDate("watcher")'
  BY <1>2
<1>4. Remembered'
  BY <1>1, <1>2 DEF Following, Remembered, Valid, WithinLimit, Present
<1> QED
  BY <1>1, <1>2, <1>3, <1>4 DEF Following

\* A load that fails keeps Following if the store is invalid or a change is noticed.
LEMMA LoadFails ==
    ASSUME ReloadTypes, Following, ReloadTypes', NEW t \in Tasks, Load(t), Fail(t),
           Valid(store) => \E f \in Files : Noticed(f)
    PROVE  Following'
<1>1. UNCHANGED <<store, unseen, changed>>
  BY LoadFrame DEF Following
<1>2. /\ t \in {"startup", "watcher"} /\ at'["sighup"] = "idle"
      /\ \A u \in {"startup", "watcher"} : u # t => UpToDate(u)' /\ at'[u] = at[u]
      /\ t = "startup" => phase = "load"
      /\ t = "watcher" => phase = "serve"
  BY OtherLoad
<1>3. at'[t] = "idle"
  BY DEF Fail, Following, ReloadTypes
<1>4. UpToDate("startup")' /\ UpToDate("watcher")'
  BY <1>2, <1>3 DEF UpToDate
<1>5. Valid(store)' = Valid(store)
  BY <1>1 DEF Valid, WithinLimit, Present
<1>6. Remembered'
  BY <1>1, <1>2, <1>5 DEF Fail, Remembered, Noticed
<1>7. /\ phase' # "load" => at'["startup"] = "idle"
      /\ phase' # "serve" => unseen' = {} /\ ~changed' /\ at'["watcher"] = "idle"
      /\ phase' = "watch" => current' = store'
  BY <1>1, <1>2, <1>3 DEF Fail, Following
<1> QED
  BY <1>2, <1>4, <1>6, <1>7 DEF Following

\* Every step of a load keeps Following.
LEMMA LoadFollows ==
    ASSUME ReloadTypes, Undisturbed', Following, ReloadTypes', NEW t \in Tasks, Load(t)
    PROVE  Following'
<1>1. ReloadTypes /\ UpToDate(t)
  BY OtherLoad DEF Following
<1>8. ~Glitch
  BY <1>1 DEF Glitch, Undisturbed, ReloadTypes
<1>2. UNCHANGED <<store, unseen, changed>>
  BY <1>1, LoadFrame
<1>3. Policies \subseteq Files
  BY DEF Files
<1>4. CASE List(t)
  <2>1. CASE ~WithinLimit(store) /\ Fail(t)
    <3>1. ~Valid(store)
      BY <2>1 DEF Valid
    <3> QED
      BY <2>1, <3>1, LoadFails
  <2>2. CASE /\ at' = [at EXCEPT ![t] = "read"]
             /\ todo' = [todo EXCEPT ![t] = Present(store)]
             /\ got' = [got EXCEPT ![t] = Nothing]
             /\ UNCHANGED <<phase, current>>
    <3>1. at'[t] = "read" /\ todo'[t] = Present(store) /\ got'[t] = Nothing
      BY <1>1, <2>2 DEF ReloadTypes
    <3>2. UpToDate(t)'
      BY <1>2, <1>3, <3>1 DEF UpToDate, Current, Present, Nothing, Files
    <3> QED
      BY <2>2, <3>1, <3>2, LoadContinues
  <2> QED
    BY <1>4, <1>8, <2>1, <2>2 DEF List, Refused, Found
<1>5. CASE \E f \in Files : Read(t, f)
  <2>1. PICK f \in Files : Read(t, f)
    BY <1>5
  <2>2. Noticed(f) \/ Current(t, f)
    BY <1>1, <1>3, <2>1 DEF Read, UpToDate
  <2>3. CASE store[f] = Absent /\ Fail(t)
    <3>1. Noticed(f)
      BY <2>1, <2>2, <2>3 DEF Read, Current
    <3> QED
      BY <2>3, <3>1, LoadFails
  <2>4. CASE /\ store[f] # Absent
             /\ todo' = [todo EXCEPT ![t] = @ \ {f}]
             /\ got' = [got EXCEPT ![t][f] = store[f]]
             /\ UNCHANGED <<at, phase, current>>
    <3>1. todo'[t] = todo[t] \ {f} /\ got'[t] = [got[t] EXCEPT ![f] = store[f]]
      BY <1>1, <2>4 DEF ReloadTypes
    <3>2. got[t] \in [Files -> Content]
      BY <1>1 DEF ReloadTypes
    <3>3. ASSUME NEW g \in Files, Noticed(g) \/ Current(t, g)
          PROVE  (Noticed(g) \/ Current(t, g))'
      BY <1>2, <2>4, <3>1, <3>2, <3>3 DEF Noticed, Current
    <3>4. at[t] = "read" => f \in Policies
      BY <1>1, <2>1 DEF Read, UpToDate
    <3>5. at[t] = "read" => todo'[t] \subseteq Policies /\ got'[t][Schema] = Absent
      BY <1>1, <3>1, <3>2, <3>4, PolicyReloadAssumption DEF UpToDate, Files
    <3>6. UpToDate(t)'
      BY <1>1, <1>3, <2>4, <3>3, <3>5 DEF UpToDate
    <3>7. at'[t] # "idle"
      BY <2>1, <2>4 DEF Read
    <3> QED
      BY <2>4, <3>6, <3>7, LoadContinues
  <2> QED
    BY <1>8, <2>1, <2>3, <2>4 DEF Read, Refused
<1>6. CASE Parse(t)
  <2>1. CASE ~Parses(t) /\ Fail(t)
    <3>1. PICK f \in Files : got[t][f] = Bad
      BY <2>1 DEF Parses
    <3>2. f \in Policies
      BY <1>1, <1>6, <3>1, PolicyReloadAssumption DEF Parse, UpToDate, Files
    <3>3. Noticed(f) \/ store[f] = Bad
      BY <1>1, <1>6, <3>1, <3>2 DEF Parse, UpToDate, Current
    <3>4. Valid(store) => Noticed(f)
      BY <3>3 DEF Valid
    <3> QED
      BY <2>1, <3>4, LoadFails
  <2>2. CASE /\ at' = [at EXCEPT ![t] = "schema"]
             /\ todo' = [todo EXCEPT ![t] = {f \in {Schema} : store[f] # Absent}]
             /\ UNCHANGED <<got, phase, current>>
    <3>1. at'[t] = "schema" /\ todo'[t] = {f \in {Schema} : store[f] # Absent}
      BY <1>1, <2>2 DEF ReloadTypes
    <3>2. ASSUME NEW f \in Policies PROVE (Noticed(f) \/ Current(t, f))'
      <4>1. Noticed(f) \/ got[t][f] = store[f]
        BY <1>1, <1>6 DEF Parse, UpToDate, Current
      <4>2. f \notin todo'[t]
        BY <3>1, PolicyReloadAssumption
      <4> QED
        BY <1>2, <2>2, <4>1, <4>2 DEF Noticed, Current
    <3>3. Current(t, Schema)'
      BY <1>1, <1>2, <1>6, <2>2, <3>1 DEF Parse, UpToDate, Current
    <3>4. UpToDate(t)'
      BY <3>1, <3>2, <3>3 DEF UpToDate, Files
    <3> QED
      BY <2>2, <3>1, <3>4, LoadContinues
  <2> QED
    BY <1>6, <1>8, <2>1, <2>2 DEF Parse, Found
<1>7. CASE Install(t)
  <2>1. \A f \in Files : Noticed(f) \/ got[t][f] = store[f]
    BY <1>1, <1>7 DEF Install, UpToDate, Current
  <2>2. CASE ~Parses(t) /\ Fail(t)
    <3>1. PICK f \in Files : got[t][f] = Bad
      BY <2>2 DEF Parses
    <3>2. Valid(store) => Noticed(f)
      BY <2>1, <3>1 DEF Valid
    <3> QED
      BY <2>2, <3>2, LoadFails
  <2>3. CASE /\ current' = got[t]
             /\ at' = [at EXCEPT ![t] = "idle"]
             /\ phase' = IF t = "startup" THEN "watch" ELSE phase
    <3>1. /\ t \in {"startup", "watcher"} /\ at'["sighup"] = "idle"
          /\ \A u \in {"startup", "watcher"} : u # t => UpToDate(u)' /\ at'[u] = at[u]
          /\ t = "startup" => phase = "load"
          /\ t = "watcher" => phase = "serve"
      BY OtherLoad
    <3>2. at'[t] = "idle"
      BY <1>1, <2>3 DEF ReloadTypes
    <3>3. UpToDate("startup")' /\ UpToDate("watcher")'
      BY <3>1, <3>2 DEF UpToDate
    <3>4. (\A f \in Files : ~Noticed(f)) => current' = store'
      BY <1>1, <1>2, <2>1, <2>3 DEF ReloadTypes
    <3>5. Remembered'
      BY <1>2, <3>4 DEF Remembered, Noticed
    <3>6. phase' = "watch" => current' = store'
      BY <1>2, <2>3, <3>1, <3>4 DEF Following, Noticed
    <3>7. /\ phase' # "load" => at'["startup"] = "idle"
          /\ phase' # "serve" => unseen' = {} /\ ~changed' /\ at'["watcher"] = "idle"
      BY <1>2, <2>3, <3>1, <3>2 DEF Following
    <3> QED
      BY <3>1, <3>3, <3>5, <3>6, <3>7 DEF Following
  <2> QED
    BY <1>7, <2>2, <2>3 DEF Install
<1> QED
  BY <1>4, <1>5, <1>6, <1>7 DEF Load

\* What disturbs the server is never undone.
LEMMA DisturbedForGood == ReloadTypes /\ [ReloadNext]_reloadVars /\ Undisturbed' => Undisturbed
<1> SUFFICES ASSUME ReloadTypes, [ReloadNext]_reloadVars, Undisturbed' PROVE Undisturbed
  OBVIOUS
<1> USE DEF ReloadTypes, Undisturbed, env
<1>1. CASE \E f \in Files, c \in Content : Edit(f, c)
  BY <1>1 DEF Edit
<1>2. CASE \E f \in Files : Scan(f)
  BY <1>2 DEF Scan
<1>3. CASE \E t \in Tasks : Load(t)
  BY <1>3 DEF Load, List, Read, Parse, Install, Refused, Found, Glitch
<1>4. CASE Baseline
  BY <1>4 DEF Baseline, Glitch
<1>5. CASE Tick
  BY <1>5 DEF Tick
<1>6. CASE Sighup
  BY <1>6 DEF Sighup
<1>7. CASE UNCHANGED reloadVars
  BY <1>7 DEF reloadVars
<1> QED
  BY <1>1, <1>2, <1>3, <1>4, <1>5, <1>6, <1>7 DEF ReloadNext

\* Every step of a server that is not disturbed by then keeps Following.
LEMMA FollowNext == FollowInv /\ [ReloadNext]_reloadVars => FollowInv'
<1>10. SUFFICES ASSUME FollowInv, [ReloadNext]_reloadVars, Undisturbed' PROVE Following'
  BY TypeNext DEF FollowInv
<1>1. ReloadTypes /\ ReloadTypes'
  BY <1>10, TypeNext DEF FollowInv
<1>0. Undisturbed /\ Following
  BY <1>1, <1>10, DisturbedForGood DEF FollowInv
<1>2. ASSUME UNCHANGED <<at, todo, got>>,
             \A f \in Files : Noticed(f) => Noticed(f)',
             \A f \in Files : store'[f] = store[f] \/ Noticed(f)'
      PROVE  UpToDate("startup")' /\ UpToDate("watcher")'
  <2>1. UpToDate("startup") /\ UpToDate("watcher")
    BY <1>0 DEF Following
  <2>2. UpToDate("startup")'
    BY <1>1, <1>2, <2>1, UpToDateKept DEF Tasks
  <2>3. UpToDate("watcher")'
    BY <1>1, <1>2, <2>1, UpToDateKept DEF Tasks
  <2> QED
    BY <2>2, <2>3
<1>3. CASE \E f \in Files, c \in Content : Edit(f, c)
  <2>1. PICK f \in Files, c \in Content : Edit(f, c)
    BY <1>3
  <2>2. phase = "serve" /\ unseen' = unseen \cup {f}
    BY <1>0, <1>10, <2>1 DEF Edit, Undisturbed
  <2>3. UpToDate("startup")' /\ UpToDate("watcher")'
    BY <1>1, <1>2, <2>1, <2>2 DEF Edit, Noticed, ReloadTypes, loads
  <2> QED
    BY <1>0, <1>10, <1>1, <2>1, <2>2, <2>3 DEF Edit, Following, Remembered, loads
<1>4. CASE \E f \in Files : Scan(f)
  <2>1. PICK f \in Files : Scan(f)
    BY <1>4
  <2>2. phase = "serve"
    BY <1>0, <1>10, <2>1 DEF Scan, Following
  <2>3. UpToDate("startup")' /\ UpToDate("watcher")'
    BY <1>2, <2>1 DEF Scan, Noticed, loads
  <2> QED
    BY <1>0, <1>10, <1>1, <2>1, <2>2, <2>3 DEF Scan, Following, Remembered, loads
<1>5. CASE Baseline
  <2>2. phase' = "serve"
    BY <1>0, <1>10, <1>1, <1>5 DEF Baseline, Glitch, Undisturbed, ReloadTypes
  <2>1. UpToDate("startup")' /\ UpToDate("watcher")'
    BY <1>0, <1>10, <1>2, <1>5 DEF Baseline, Following, Noticed, loads
  <2> QED
    BY <1>0, <1>10, <1>1, <1>5, <2>1, <2>2 DEF Baseline, Following, Remembered, loads
<1>6. CASE Tick
  <2>1. at'["watcher"] = "list" /\ at'["startup"] = "idle" /\ at'["sighup"] = "idle"
    BY <1>0, <1>10, <1>1, <1>6 DEF Tick, Following, ReloadTypes, Tasks
  <2>2. UpToDate("startup")' /\ UpToDate("watcher")'
    BY <2>1 DEF UpToDate
  <2> QED
    BY <1>0, <1>10, <1>1, <1>6, <2>1, <2>2 DEF Tick, Following, Remembered, env
<1>7. CASE Sighup
  BY <1>0, <1>10, <1>1, <1>7 DEF Sighup, Undisturbed, ReloadTypes
<1>8. CASE \E t \in Tasks : Load(t)
  BY <1>0, <1>1, <1>8, <1>10, LoadFollows
<1>9. CASE UNCHANGED reloadVars
  <2>1. UpToDate("startup")' /\ UpToDate("watcher")'
    BY <1>2, <1>9 DEF reloadVars, Noticed
  <2> QED
    BY <1>0, <1>10, <1>1, <1>9, <2>1 DEF reloadVars, Following, Remembered, Valid, WithinLimit, Present
<1> QED
  BY <1>3, <1>4, <1>5, <1>6, <1>7, <1>8, <1>9, <1>10 DEF ReloadNext

\* Whatever was edited, and however the edit fell between the scans, the drains
\* of events and the reads, a server not yet disturbed by a signal, an I/O error
\* or an edit during startup has the edit served, being read, or known to the
\* watcher (PolicyWatcher::events, spawn_policy_watcher_task).
THEOREM NeverForgetsAnEdit == ReloadSpec => [](FollowInv /\ NoEditForgotten)
<1>1. ReloadInit => FollowInv
  BY TypeInit DEF ReloadInit, FollowInv, Following, UpToDate, Remembered, Tasks
<1>2. FollowInv => NoEditForgotten
  BY DEF FollowInv, Following, NoEditForgotten
<1> QED
  BY <1>1, <1>2, FollowNext, PTL DEF ReloadSpec
=============================================================================
