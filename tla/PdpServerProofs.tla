-------------------------- MODULE PdpServerProofs ---------------------------
(***************************************************************************)
(* Proofs about the decision service.                                      *)
(*                                                                         *)
(* PdpServer, for any number of requests, slots, evaluations in a batch    *)
(* and policy reloads: its types, the permits of its semaphores, and what  *)
(* each request is answered.                                               *)
(*                                                                         *)
(* Metrics, for any number of threads, decisions and series: the registry  *)
(* and the pages rendered from it.                                         *)
(***************************************************************************)
EXTENDS PdpServer, Metrics, FiniteSetTheorems, TLAPS

-----------------------------------------------------------------------------
(* Types. *)

\* A step of request r: the handler's, or its client's.
Acts(r) ==
    \/ \E n \in 0..(MaxBatch + 1), s \in Semantics : Arrive(r, n, s)
    \/ HandlerStep(r) \/ HangUp(r)

\* What an answer, an audit entry and a metric of the server look like.
Answer == [effect: Effects, gen: Nat]
EntryOf == [req: Requests, item: Nat, effect: Effects, gen: Nat]

\* The entry of a request has its type (authorize_and_persist_decision).
LEMMA EntryType ==
    ASSUME ServiceTypes, NEW r \in Requests
    PROVE  Entry(r) \in EntryOf
<1>1. answers[r] \in Seq(Answer)
  BY Zenon DEF ServiceTypes, Answer
<1>2. Item(r) \in Nat
  BY <1>1 DEF Item
<1> QED
  BY <1>2, Zenon DEF ServiceTypes, Entry, EntryOf, Snapshot

\* Responding keeps the types of where the requests are and of the replies.
LEMMA RespondType ==
    ASSUME ServiceTypes, NEW r \in Requests, NEW status \in Statuses, Respond(r, status)
    PROVE  place' \in [Requests -> Places] /\ reply' \in [Requests -> Statuses]
  BY Zenon DEF ServiceTypes, Respond, MoveTo, Places, Statuses

\* Counting keeps the type of the metrics.
LEMMA CountType ==
    ASSUME ServiceTypes, NEW r \in Requests, NEW k \in {"decision", "error"}, Count(r, k)
    PROVE  metrics' \subseteq Requests \X {"decision", "error"}
  BY DEF ServiceTypes, Count

\* Accepting a decision keeps the types of what it changes.
LEMMA AcceptType ==
    ASSUME ServiceTypes, NEW r \in Requests, NEW e \in Effects, Accept(r, e)
    PROVE  /\ answers' \in [Requests -> Seq(Answer)]
           /\ place' \in [Requests -> Places] /\ reply' \in [Requests -> Statuses]
           /\ metrics' \subseteq Requests \X {"decision", "error"}
<1>1. answers \in [Requests -> Seq(Answer)] /\ gen[r] \in Nat
  BY Zenon DEF ServiceTypes, Answer
<1>2. [effect |-> e, gen |-> gen[r]] \in Answer
  BY <1>1, Zenon DEF Answer
<1>3. Append(answers[r], [effect |-> e, gen |-> gen[r]]) \in Seq(Answer)
  BY <1>1, <1>2
<1>4. answers' \in [Requests -> Seq(Answer)]
  BY <1>1, <1>3, Zenon DEF Accept, Snapshot
<1>5. place' \in [Requests -> Places] /\ reply' \in [Requests -> Statuses]
  <2>1. CASE Respond(r, "200")
    BY <2>1, RespondType, Zenon DEF Statuses
  <2>2. CASE MoveTo(r, "handle") /\ UNCHANGED reply
    BY <2>2, Zenon DEF MoveTo, ServiceTypes, Places
  <2> QED
    BY <2>1, <2>2, Zenon DEF Accept
<1>6. metrics' \subseteq Requests \X {"decision", "error"}
  <2>1. CASE Count(r, "decision")
    BY <2>1, CountType, Zenon
  <2>2. CASE UNCHANGED metrics
    BY <2>2, Zenon DEF ServiceTypes
  <2> QED
    BY <2>1, <2>2, Zenon DEF Accept
<1> QED
  BY <1>4, <1>5, <1>6, Zenon

\* A permit given back or taken while there is one leaves a number of permits.
LEMMA PermitTypes ==
    ASSUME ServiceTypes
    PROVE  /\ authFree + 1 \in Nat /\ workFree + 1 \in Nat
           /\ authFree > 0 => authFree - 1 \in Nat
           /\ workFree > 0 => workFree - 1 \in Nat
  BY DEF ServiceTypes

\* Every step keeps the types.
LEMMA TypeNext == ServiceTypes /\ [ServiceNext]_serviceVars => ServiceTypes'
<1> SUFFICES ASSUME ServiceTypes, [ServiceNext]_serviceVars PROVE ServiceTypes'
  BY Zenon
<1>1. ASSUME NEW r \in Requests, NEW n \in 0..(MaxBatch + 1), NEW s \in Semantics,
             Arrive(r, n, s)
      PROVE  ServiceTypes'
  <2>1. n \in Nat
    BY PdpServerAssumption
  <2>2. /\ place' \in [Requests -> Places] /\ reply' \in [Requests -> Statuses]
        /\ authFree' \in Nat
    <3>1. CASE (Respond(r, "401") \/ Respond(r, "503")) /\ UNCHANGED authFree
      BY <3>1, RespondType, Zenon DEF Statuses, ServiceTypes
    <3>2. CASE MoveTo(r, "enter") /\ UNCHANGED <<authFree, reply>>
      BY <3>2, Zenon DEF MoveTo, ServiceTypes, Places
    <3>3. CASE /\ authFree > 0 /\ authFree' = authFree - 1
               /\ MoveTo(r, "verify") /\ UNCHANGED reply
      BY <3>3, PermitTypes, Zenon DEF MoveTo, ServiceTypes, Places
    <3> QED
      <4>1. Authenticate(r)
        BY <1>1, Zenon DEF Arrive
      <4> QED
        BY <3>1, <3>2, <3>3, <4>1, Zenon DEF Authenticate
  <2> QED
    BY <1>1, <2>1, <2>2, Zenon DEF Arrive, ServiceTypes
<1>2. ASSUME NEW r \in Requests, KeyVerified(r) PROVE ServiceTypes'
  <2>1. place' \in [Requests -> Places] /\ reply' \in [Requests -> Statuses]
    <3>1. CASE MoveTo(r, "enter") /\ UNCHANGED reply
      BY <3>1, Zenon DEF MoveTo, ServiceTypes, Places
    <3>2. CASE \E status \in {"401", "403", "503"} : Respond(r, status)
      BY <3>2, RespondType, Zenon DEF Statuses
    <3> QED
      BY <1>2, <3>1, <3>2, Zenon DEF KeyVerified
  <2> QED
    <3>1. authFree' \in Nat
      BY <1>2, PermitTypes, Zenon DEF KeyVerified
    <3>2. UNCHANGED <<fixed, workFree, gone, gen, effect, answers, trail, metrics>>
      BY <1>2, Zenon DEF KeyVerified
    <3> QED
      BY <2>1, <3>1, <3>2, Zenon DEF ServiceTypes, fixed
<1>3. ASSUME NEW r \in Requests, Enter(r) PROVE ServiceTypes'
  <2>1. place' \in [Requests -> Places] /\ reply' \in [Requests -> Statuses]
    <3>1. CASE MoveTo(r, "handle") /\ UNCHANGED reply
      BY <3>1, Zenon DEF MoveTo, ServiceTypes, Places
    <3>2. CASE Respond(r, "400") \/ Respond(r, "413")
      BY <3>2, RespondType, Zenon DEF Statuses
    <3> QED
      BY <1>3, <3>1, <3>2, Zenon DEF Enter
  <2>2. gen' \in [Requests -> Nat]
    BY <1>3, Zenon DEF Enter, ServiceTypes
  <2> QED
    BY <1>3, <2>1, <2>2, Zenon DEF Enter, ServiceTypes, fixed
<1>4. ASSUME NEW r \in Requests, Evaluate(r) PROVE ServiceTypes'
  <2>1. /\ place' \in [Requests -> Places] /\ reply' \in [Requests -> Statuses]
        /\ metrics' \subseteq Requests \X {"decision", "error"}
        /\ workFree' \in Nat
    <3>1. CASE /\ \E status \in {"200", "403", "400"} : Respond(r, status)
               /\ UNCHANGED <<workFree, metrics>>
      BY <3>1, RespondType, Zenon DEF Statuses, ServiceTypes
    <3>2. CASE Refuse(r, "503") /\ UNCHANGED workFree
      BY <3>2, RespondType, CountType, Zenon DEF Refuse, Statuses, ServiceTypes
    <3>3. CASE /\ workFree > 0 /\ workFree' = workFree - 1
               /\ MoveTo(r, "decide") /\ UNCHANGED <<reply, metrics>>
      BY <3>3 DEF MoveTo, ServiceTypes, Places
    <3> QED
      BY <1>4, <3>1, <3>2, <3>3, Zenon DEF Evaluate
  <2> QED
    BY <1>4, <2>1, Zenon DEF Evaluate, ServiceTypes, fixed
<1>5. ASSUME NEW r \in Requests, DecideFails(r) PROVE ServiceTypes'
  <2>1. /\ place' \in [Requests -> Places] /\ reply' \in [Requests -> Statuses]
        /\ metrics' \subseteq Requests \X {"decision", "error"}
    BY <1>5, RespondType, CountType, Zenon DEF DecideFails, Refuse, Statuses
  <2> QED
    <3>1. workFree' \in Nat
      BY <1>5, PermitTypes, Zenon DEF DecideFails
    <3>2. UNCHANGED <<fixed, authFree, gone, gen, effect, answers, trail>>
      BY <1>5, Zenon DEF DecideFails
    <3> QED
      BY <2>1, <3>1, <3>2, Zenon DEF ServiceTypes, fixed
<1>6. ASSUME NEW r \in Requests, NEW e \in Effects, Decide(r, e) PROVE ServiceTypes'
  <2>1. /\ place' \in [Requests -> Places] /\ reply' \in [Requests -> Statuses]
        /\ metrics' \subseteq Requests \X {"decision", "error"}
        /\ answers' \in [Requests -> Seq(Answer)]
    <3>1. CASE Respond(r, "gone") /\ UNCHANGED <<answers, metrics>>
      BY <3>1, RespondType, Zenon DEF Statuses, ServiceTypes, Answer
    <3>2. CASE Accept(r, e)
      BY <3>2, AcceptType, Zenon
    <3>3. CASE /\ MoveTo(r, IF config.audit = "sync" THEN "append" ELSE "await")
               /\ UNCHANGED <<answers, reply, metrics>>
      BY <3>3, Zenon DEF MoveTo, ServiceTypes, Places, Answer
    <3> QED
      BY <1>6, <3>1, <3>2, <3>3, Zenon DEF Decide
  <2>2. workFree' \in Nat
    BY <1>6 DEF Decide, ServiceTypes
  <2> QED
    BY <1>6, <2>1, <2>2, Zenon DEF Decide, ServiceTypes, fixed, Answer
<1>7. ASSUME NEW r \in Requests, Appended(r) PROVE ServiceTypes'
  <2>1. effect[r] \in Effects
    BY Zenon DEF ServiceTypes
  <2>2. /\ answers' \in [Requests -> Seq(Answer)]
        /\ place' \in [Requests -> Places] /\ reply' \in [Requests -> Statuses]
        /\ metrics' \subseteq Requests \X {"decision", "error"}
    BY <1>7, <2>1, AcceptType, Zenon DEF Appended
  <2>3. trail' \subseteq EntryOf
    BY <1>7, EntryType, Zenon DEF Appended, Persist, ServiceTypes, EntryOf
  <2> QED
    <3>1. workFree' \in Nat
      BY <1>7, PermitTypes, Zenon DEF Appended
    <3>2. UNCHANGED <<fixed, authFree, gone, gen, effect>>
      BY <1>7, Zenon DEF Appended
    <3> QED
      BY <2>2, <2>3, <3>1, <3>2, Zenon DEF ServiceTypes, fixed, Answer, EntryOf
<1>8. ASSUME NEW r \in Requests, AppendFailed(r) PROVE ServiceTypes'
  <2>1. /\ place' \in [Requests -> Places] /\ reply' \in [Requests -> Statuses]
        /\ metrics' \subseteq Requests \X {"decision", "error"}
    BY <1>8, RespondType, CountType, Zenon DEF AppendFailed, Refuse, Statuses
  <2>2. trail' \subseteq EntryOf
    BY <1>8, EntryType, Zenon DEF AppendFailed, ServiceTypes, EntryOf
  <2>3. workFree' \in Nat
    BY <1>8 DEF AppendFailed, PermitsAfterFailure, ServiceTypes
  <2> QED
    BY <1>8, <2>1, <2>2, <2>3, Zenon DEF AppendFailed, ServiceTypes, fixed, EntryOf
<1>9. ASSUME NEW r \in Requests, HangUp(r) PROVE ServiceTypes'
  <2>1. place' \in [Requests -> Places] /\ reply' \in [Requests -> Statuses]
    <3>1. CASE Respond(r, "gone")
      BY <3>1, RespondType, Zenon DEF Statuses
    <3>2. CASE UNCHANGED <<place, reply>>
      BY <3>2, Zenon DEF ServiceTypes
    <3> QED
      BY <1>9, <3>1, <3>2, Zenon DEF HangUp
  <2>2. trail' \subseteq EntryOf
    BY <1>9, EntryType, Zenon DEF HangUp, ServiceTypes, EntryOf
  <2>3. workFree' \in Nat /\ gone' \subseteq Requests
    BY <1>9 DEF HangUp, ServiceTypes
  <2> QED
    BY <1>9, <2>1, <2>2, <2>3, Zenon DEF HangUp, ServiceTypes, fixed, EntryOf
<1>10. CASE Reload
  <2>1. serving' \in Nat
    BY <1>10 DEF Reload, ServiceTypes
  <2> QED
    BY <1>10, <2>1, Zenon DEF Reload, ServiceTypes
<1>11. CASE UNCHANGED serviceVars
  BY <1>11, Zenon DEF serviceVars, ServiceTypes
<1> QED
  BY <1>1, <1>2, <1>3, <1>4, <1>5, <1>6, <1>7, <1>8, <1>9, <1>10, <1>11, Zenon DEF ServiceNext, HandlerStep

-----------------------------------------------------------------------------
(* Permits. *)

At(f, P) == {u \in Requests : f[u] \in P}

\* g is f with r at the place l.
Moved(f, g, r, l) == g = [f EXCEPT ![r] = l]

\* Moving one request moves it out of, or into, the requests at the places P.
LEMMA MoveCounts ==
    ASSUME NEW P, NEW f \in [Requests -> Places], NEW r \in Requests, NEW l,
           NEW g, Moved(f, g, r, l)
    PROVE  /\ Cardinality(At(f, P)) \in Nat /\ Cardinality(At(g, P)) \in Nat
           /\ (f[r] \in P <=> l \in P) => Cardinality(At(g, P)) = Cardinality(At(f, P))
           /\ f[r] \in P /\ l \notin P => Cardinality(At(g, P)) = Cardinality(At(f, P)) - 1
           /\ f[r] \notin P /\ l \in P => Cardinality(At(g, P)) = Cardinality(At(f, P)) + 1
<1>1. IsFiniteSet(At(f, P)) /\ IsFiniteSet(At(g, P))
  BY PdpServerAssumption, FS_Subset, Zenon DEF At
<1>2. Cardinality(At(f, P)) \in Nat /\ Cardinality(At(g, P)) \in Nat
  BY <1>1, FS_CardinalityType, Zenon
<1>3. (f[r] \in P <=> l \in P) => At(g, P) = At(f, P)
  BY Zenon DEF At, Moved
<1>4. f[r] \in P /\ l \notin P => At(g, P) = At(f, P) \ {r} /\ r \in At(f, P)
  BY Zenon DEF At, Moved
<1>5. f[r] \notin P /\ l \in P => At(g, P) = At(f, P) \cup {r} /\ r \notin At(f, P)
  BY Zenon DEF At, Moved
<1>6. f[r] \in P /\ l \notin P => Cardinality(At(g, P)) = Cardinality(At(f, P)) - 1
  BY <1>1, <1>4, FS_RemoveElement, Zenon
<1>7. f[r] \notin P /\ l \in P => Cardinality(At(g, P)) = Cardinality(At(f, P)) + 1
  <2>1. Cardinality(At(f, P) \cup {r}) =
            IF r \in At(f, P) THEN Cardinality(At(f, P)) ELSE Cardinality(At(f, P)) + 1
    BY <1>1, FS_AddElement, Zenon
  <2> QED
    BY <1>5, <2>1, Zenon
<1> QED
  BY <1>2, <1>3, <1>6, <1>7, Zenon

\* Where a request holds a permit of the semaphore for password hashes.
Verifying == {"verify"}

\* The permits of one semaphore, held at the places P, still add up after a
\* step that gives back what the request held and takes what it holds next.
LEMMA SemaphoreMoves ==
    ASSUME NEW P, NEW f \in [Requests -> Places], NEW r \in Requests, NEW l,
           NEW g, Moved(f, g, r, l), NEW m \in Nat, NEW n \in Nat,
           f[r] \in P /\ l \notin P => n = m + 1,
           f[r] \notin P /\ l \in P => n = m - 1,
           (f[r] \in P <=> l \in P) => n = m
    PROVE  n + Cardinality(At(g, P)) = m + Cardinality(At(f, P))
<1> DEFINE cf == Cardinality(At(f, P))
           cg == Cardinality(At(g, P))
<1>1. /\ cf \in Nat /\ cg \in Nat
      /\ (f[r] \in P <=> l \in P) => cg = cf
      /\ f[r] \in P /\ l \notin P => cg = cf - 1
      /\ f[r] \notin P /\ l \in P => cg = cf + 1
  BY MoveCounts
<1> HIDE DEF cf, cg
<1>2. n + cg = m + cf
  BY <1>1
<1> QED
  BY <1>2, Zenon DEF cf, cg

\* A step that moves a request gives back what it held where it was and takes
\* what it holds where it goes.
LEMMA PermitsMove ==
    ASSUME ServiceTypes, ServiceTypes', PermitsConserved, NEW r \in Requests, NEW l \in Places,
           place' = [place EXCEPT ![r] = l],
           place[r] = "verify" /\ l # "verify" => authFree' = authFree + 1,
           place[r] # "verify" /\ l = "verify" => authFree' = authFree - 1,
           (place[r] = "verify" <=> l = "verify") => authFree' = authFree,
           place[r] \in Holding /\ l \notin Holding => workFree' = workFree + 1,
           place[r] \notin Holding /\ l \in Holding => workFree' = workFree - 1,
           (place[r] \in Holding <=> l \in Holding) => workFree' = workFree
    PROVE  PermitsConserved'
<1>1. /\ place \in [Requests -> Places] /\ authFree \in Nat /\ workFree \in Nat
      /\ authFree' \in Nat /\ workFree' \in Nat
  BY Zenon DEF ServiceTypes
<1>6. Moved(place, place', r, l)
  BY Zenon DEF Moved
<1>2. (place[r] \in Verifying <=> place[r] = "verify") /\ (l \in Verifying <=> l = "verify")
  BY Zenon DEF Verifying
<1>3. authFree' + Cardinality(At(place', Verifying)) = authFree + Cardinality(At(place, Verifying))
  BY <1>1, <1>2, <1>6, SemaphoreMoves
<1>4. workFree' + Cardinality(At(place', Holding)) = workFree + Cardinality(At(place, Holding))
  BY <1>1, <1>6, SemaphoreMoves
<1>5. /\ {u \in Requests : place[u] = "verify"} = At(place, Verifying)
      /\ {u \in Requests : place'[u] = "verify"} = At(place', Verifying)
      /\ {u \in Requests : place[u] \in {"decide", "append", "await"}} = At(place, Holding)
      /\ {u \in Requests : place'[u] \in {"decide", "append", "await"}} = At(place', Holding)
  BY Zenon DEF At, Verifying, Holding
<1> QED
  BY <1>3, <1>4, <1>5, Zenon DEF PermitsConserved

\* A step that leaves the semaphores and the places of the requests alone.
LEMMA PermitsSame ==
    ASSUME PermitsConserved, UNCHANGED <<place, authFree, workFree>>
    PROVE  PermitsConserved'
  BY Zenon DEF PermitsConserved

\* Every step conserves the permits.
LEMMA PermitsNext == ServiceTypes /\ PermitsConserved /\ [ServiceNext]_serviceVars => PermitsConserved'
<1> SUFFICES ASSUME ServiceTypes, PermitsConserved, [ServiceNext]_serviceVars PROVE PermitsConserved'
  BY Zenon
<1>0. ServiceTypes'
  BY TypeNext, Zenon
<1>20. authFree \in Nat /\ workFree \in Nat
  BY Zenon DEF ServiceTypes
<1> USE DEF MoveTo, Respond, Refuse, Holding, Places
<1>1. ASSUME NEW r \in Requests, NEW n \in 0..(MaxBatch + 1), NEW s \in Semantics,
             Arrive(r, n, s)
      PROVE  PermitsConserved'
  <2>1. place[r] = "new" /\ Authenticate(r) /\ workFree' = workFree
    BY <1>1, Zenon DEF Arrive
  <2>2. CASE place' = [place EXCEPT ![r] = "verify"] /\ authFree' = authFree - 1
    BY <1>0, <1>20, <2>1, <2>2, PermitsMove, Zenon
  <2>3. CASE place' = [place EXCEPT ![r] = "enter"] /\ authFree' = authFree
    BY <1>0, <1>20, <2>1, <2>3, PermitsMove, Zenon
  <2>4. CASE place' = [place EXCEPT ![r] = "done"] /\ authFree' = authFree
    BY <1>0, <1>20, <2>1, <2>4, PermitsMove, Zenon
  <2> QED
    BY <2>1, <2>2, <2>3, <2>4, Zenon DEF Authenticate
<1>2. ASSUME NEW r \in Requests, KeyVerified(r) PROVE PermitsConserved'
  <2>1. PICK l \in {"enter", "done"} : place' = [place EXCEPT ![r] = l]
    BY <1>2, Zenon DEF KeyVerified
  <2>2. place[r] = "verify" /\ authFree' = authFree + 1 /\ workFree' = workFree
    BY <1>2, Zenon DEF KeyVerified
  <2> QED
    BY <1>0, <1>20, <2>1, <2>2, PermitsMove, Zenon
<1>3. ASSUME NEW r \in Requests, Enter(r) PROVE PermitsConserved'
  <2>1. PICK l \in {"handle", "done"} : place' = [place EXCEPT ![r] = l]
    BY <1>3, Zenon DEF Enter
  <2>2. place[r] = "enter" /\ authFree' = authFree /\ workFree' = workFree
    BY <1>3, Zenon DEF Enter
  <2> QED
    BY <1>0, <1>20, <2>1, <2>2, PermitsMove, Zenon
<1>4. ASSUME NEW r \in Requests, Evaluate(r) PROVE PermitsConserved'
  <2>1. place[r] = "handle" /\ authFree' = authFree
    BY <1>4, Zenon DEF Evaluate
  <2>2. CASE place' = [place EXCEPT ![r] = "decide"] /\ workFree' = workFree - 1
    BY <1>0, <1>20, <2>1, <2>2, PermitsMove, Zenon
  <2>3. CASE place' = [place EXCEPT ![r] = "done"] /\ workFree' = workFree
    BY <1>0, <1>20, <2>1, <2>3, PermitsMove, Zenon
  <2> QED
    BY <1>4, <2>2, <2>3, Zenon DEF Evaluate
<1>5. ASSUME NEW r \in Requests, DecideFails(r) PROVE PermitsConserved'
  <2>1. /\ place[r] = "decide" /\ place' = [place EXCEPT ![r] = "done"]
        /\ workFree' = workFree + 1 /\ authFree' = authFree
    BY <1>5, Zenon DEF DecideFails
  <2> QED
    BY <1>0, <1>20, <2>1, PermitsMove, Zenon
<1>6. ASSUME NEW r \in Requests, NEW e \in Effects, Decide(r, e) PROVE PermitsConserved'
  <2>1. place[r] = "decide" /\ authFree' = authFree
    BY <1>6, Zenon DEF Decide
  <2>2. ASSUME NEW l \in {"handle", "done"}, place' = [place EXCEPT ![r] = l],
               workFree' = workFree + 1
        PROVE  PermitsConserved'
    BY <1>0, <1>20, <2>1, <2>2, PermitsMove, Zenon
  <2>3. ASSUME NEW l \in {"append", "await"}, place' = [place EXCEPT ![r] = l],
               workFree' = workFree
        PROVE  PermitsConserved'
    BY <1>0, <1>20, <2>1, <2>3, PermitsMove, Zenon
  <2> QED
    BY <1>6, <2>2, <2>3, Zenon DEF Decide, Accept
<1>7. ASSUME NEW r \in Requests, Appended(r) \/ AppendFailed(r) PROVE PermitsConserved'
  <2>1. PICK l \in {"handle", "done"} : place' = [place EXCEPT ![r] = l]
    BY <1>7, Zenon DEF Appended, AppendFailed, Accept
  <2>2. place[r] \in {"append", "await"} /\ authFree' = authFree /\ workFree' = workFree + 1
    BY <1>7, Zenon DEF Appended, AppendFailed, PermitsAfterFailure
  <2> QED
    BY <1>0, <1>20, <2>1, <2>2, PermitsMove, Zenon
<1>8. ASSUME NEW r \in Requests, HangUp(r) PROVE PermitsConserved'
  <2>1. authFree' = authFree
    BY <1>8, Zenon DEF HangUp
  <2>2. CASE UNCHANGED <<place, workFree>>
    BY <2>1, <2>2, PermitsSame, Zenon
  <2>3. CASE /\ place[r] \in {"enter", "handle"} /\ place' = [place EXCEPT ![r] = "done"]
             /\ workFree' = workFree
    BY <1>0, <1>20, <2>1, <2>3, PermitsMove, Zenon
  <2>4. CASE /\ place[r] = "await" /\ place' = [place EXCEPT ![r] = "done"]
             /\ workFree' = workFree + 1
    BY <1>0, <1>20, <2>1, <2>4, PermitsMove, Zenon
  <2> QED
    BY <1>8, <2>2, <2>3, <2>4, Zenon DEF HangUp
<1>9. CASE Reload \/ UNCHANGED serviceVars
  BY <1>9, PermitsSame, Zenon DEF Reload, serviceVars
<1> QED
  BY <1>1, <1>2, <1>3, <1>4, <1>5, <1>6, <1>7, <1>8, <1>9, Zenon DEF ServiceNext, HandlerStep

-----------------------------------------------------------------------------
(* Each request. *)

\* What a step changes of no request it does not serve.
Same(u) ==
    /\ place'[u] = place[u] /\ size'[u] = size[u] /\ semantics'[u] = semantics[u]
    /\ since'[u] = since[u] /\ gen'[u] = gen[u] /\ answers'[u] = answers[u]
    /\ reply'[u] = reply[u]
    /\ u \in gone' <=> u \in gone
    /\ u \in batch' <=> u \in batch
    /\ <<u, "decision">> \in metrics' <=> <<u, "decision">> \in metrics
    /\ <<u, "error">> \in metrics' <=> <<u, "error">> \in metrics

\* What every step does to what the requests share.
Shared == config' = config /\ serving <= serving' /\ trail \subseteq trail'

\* A request keeps its invariant through the steps of the others.
LEMMA OthersKept ==
    ASSUME ServiceTypes, ServiceTypes', NEW u \in Requests, RequestInv(u), Same(u), Shared
    PROVE  RequestInv(u)'
<1>1. /\ since[u] \in Nat /\ gen[u] \in Nat /\ serving \in Nat /\ serving' \in Nat
  BY Zenon DEF ServiceTypes
<1>2. \A i : Ends(u, i)' <=> Ends(u, i)
  BY Zenon DEF Ends, Same
<1>3. Complete(u)' <=> Complete(u)
  BY <1>2, Zenon DEF Complete, Same
<1>4. Audited(u)'
  BY Zenon DEF Audited, RequestInv, Same, Shared
<1>5. Counted(u)'
  BY Zenon DEF Counted, RequestInv, Same
<1> QED
  BY <1>1, <1>2, <1>3, <1>4, <1>5 DEF RequestInv, Same, Shared

\* A step of request r leaves the others alone.
LEMMA ActsFrame ==
    ASSUME ServiceTypes, NEW r \in Requests, Acts(r), NEW u \in Requests, u # r
    PROVE  Same(u) /\ Shared
<1> USE DEF ServiceTypes, Same, Shared, fixed, MoveTo, Respond, Refuse, Count
<1>1. CASE \E n \in 0..(MaxBatch + 1), s \in Semantics : Arrive(r, n, s)
  <2>1. PICK n \in 0..(MaxBatch + 1), s \in Semantics : Arrive(r, n, s)
    BY <1>1, Zenon
  <2>2. place'[u] = place[u] /\ reply'[u] = reply[u]
    BY <2>1, Zenon DEF Arrive, Authenticate
  <2> QED
    BY <2>1, <2>2 DEF Arrive
<1>2. CASE KeyVerified(r)
  BY <1>2 DEF KeyVerified
<1>3. CASE Enter(r)
  BY <1>3 DEF Enter
<1>4. CASE Evaluate(r)
  BY <1>4 DEF Evaluate
<1>5. CASE DecideFails(r)
  BY <1>5 DEF DecideFails
<1>6. CASE \E e \in Effects : Decide(r, e)
  BY <1>6 DEF Decide, Accept
<1>7. CASE Appended(r)
  BY <1>7 DEF Appended, Accept, Persist
<1>8. CASE AppendFailed(r)
  BY <1>8 DEF AppendFailed
<1>9. CASE HangUp(r)
  BY <1>9 DEF HangUp
<1> QED
  BY <1>1, <1>2, <1>3, <1>4, <1>5, <1>6, <1>7, <1>8, <1>9, Zenon DEF Acts, HandlerStep

\* What no step after its arrival changes of a request.
Kept(r) ==
    /\ size'[r] = size[r] /\ semantics'[r] = semantics[r] /\ since'[r] = since[r]
    /\ r \in batch' <=> r \in batch

\* A request that ends without an answer: refused, or its client is gone.
LEMMA Unanswered ==
    ASSUME ServiceTypes, ServiceTypes', NEW r \in Requests, RequestInv(r), Shared, Kept(r),
           place[r] \notin {"new", "done"}, place'[r] = "done", reply'[r] # "200",
           gen'[r] = gen[r], answers'[r] = answers[r],
           <<r, "decision">> \in metrics' => <<r, "decision">> \in metrics
    PROVE  RequestInv(r)'
<1>1. since[r] \in Nat /\ gen[r] \in Nat /\ serving \in Nat /\ serving' \in Nat
  BY Zenon DEF ServiceTypes
<1>2. Audited(r)'
  BY Zenon DEF Audited, RequestInv, Shared
<1>3. r \notin batch => <<r, "decision">> \notin metrics
  BY Zenon DEF RequestInv, Counted
<1>4. Counted(r)'
  BY <1>3, Zenon DEF Counted, Kept
<1> QED
  BY <1>1, <1>2, <1>4 DEF RequestInv, Shared, Kept, Working, Holding

\* A decision that is accepted, and persisted where there is an audit writer,
\* keeps the invariant of its request.
LEMMA Accepted ==
    ASSUME ServiceTypes, ServiceTypes', NEW r \in Requests, NEW e \in Effects, RequestInv(r),
           Shared, Kept(r), place[r] \in Holding, gen'[r] = gen[r],
           r \in gone' <=> r \in gone, Accept(r, e),
           config.audit # "none" =>
             [req |-> r, item |-> Item(r), effect |-> e, gen |-> gen[r]] \in trail'
    PROVE  RequestInv(r)'
<1>20. answers[r] \in Seq(Answer)
  BY Zenon DEF ServiceTypes, Answer
<1>21. PICK a \in Seq(Answer), n \in Nat : a = answers[r] /\ n = Len(a)
  BY <1>20
<1>22. /\ since[r] \in Nat /\ gen[r] \in Nat /\ serving \in Nat /\ serving' \in Nat
       /\ size[r] \in Nat
  BY Zenon DEF ServiceTypes
<1>1. /\ a \in Seq(Answer) /\ n \in Nat /\ DOMAIN a = 1..n
      /\ since[r] \in Nat /\ gen[r] \in Nat /\ serving \in Nat /\ serving' \in Nat
      /\ size[r] \in Nat /\ a = answers[r] /\ n = Len(answers[r])
  BY <1>21, <1>22
<1>2. answers'[r] = Append(a, [effect |-> e, gen |-> gen[r]])
  BY <1>1, Zenon DEF Accept, Snapshot, ServiceTypes
<1>3. /\ Len(answers'[r]) = n + 1 /\ DOMAIN answers'[r] = 1..(n + 1)
      /\ \A i \in 1..n : answers'[r][i] = a[i]
      /\ answers'[r][n + 1] = [effect |-> e, gen |-> gen[r]]
  <2>1. [effect |-> e, gen |-> gen[r]] \in Answer
    BY <1>1, Zenon DEF Answer
  <2> QED
    BY <1>1, <1>2, <2>1
<1>4. /\ n < size[r] /\ since[r] <= gen[r] /\ gen[r] <= serving
      /\ r \notin batch => n = 0 /\ size[r] = 1
  BY <1>1, Zenon DEF RequestInv, Holding, Working
<1>11. /\ \A i \in 1..n : ~Ends(r, i)
       /\ r \notin batch => semantics[r] = "execute_all"
       /\ reply[r] = "none" /\ <<r, "error">> \notin metrics
       /\ r \notin batch => <<r, "decision">> \notin metrics
  BY <1>1, Zenon DEF RequestInv, Holding, Working, Counted
<1>12. /\ since'[r] <= gen'[r] /\ gen'[r] <= serving' /\ since'[r] <= serving'
       /\ n + 1 <= size'[r]
       /\ r \notin batch => n + 1 = size'[r]
  BY <1>22, <1>4 DEF Shared, Kept
<1>13. n \in Nat /\ \A i \in 1..(n + 1) : i \in 1..n \/ i = n + 1
  OBVIOUS
<1>5. \A i \in 1..n : ~Ends(r, i)'
  BY <1>1, <1>3, <1>11, Zenon DEF Ends, Kept
<1>6. Ends(r, n + 1)' <=> Stops(r, e)
  BY <1>3 DEF Ends, Stops, Kept
<1>7. Audited(r)'
  <2>1. SUFFICES ASSUME config.audit # "none", NEW i \in 1..(n + 1)
                 PROVE  [req |-> r, item |-> i, effect |-> answers'[r][i].effect,
                         gen |-> answers'[r][i].gen] \in trail'
    BY <1>3, Zenon DEF Audited, Shared
  <2>2. CASE i \in 1..n
    <3>1. [req |-> r, item |-> i, effect |-> a[i].effect, gen |-> a[i].gen] \in trail
      BY <1>1, <2>1, <2>2, Zenon DEF RequestInv, Audited
    <3> QED
      BY <1>3, <2>2, <3>1, Zenon DEF Shared
  <2>3. CASE i = n + 1
    BY <1>1, <1>3, <2>1, <2>3 DEF Item
  <2> QED
    BY <1>13, <2>2, <2>3, Zenon
<1>8. \A i \in DOMAIN answers'[r] :
        answers'[r][i].gen = gen'[r] /\ since'[r] <= gen'[r] /\ gen'[r] <= serving'
  <2>1. \A i \in 1..n : a[i].gen = gen[r]
    BY <1>1, Zenon DEF RequestInv
  <2>2. since'[r] <= gen'[r] /\ gen'[r] <= serving'
    BY <1>12, Zenon
  <2>3. \A i \in 1..(n + 1) : answers'[r][i].gen = gen'[r]
    <3>1. answers'[r][n + 1].gen = gen[r]
      BY ONLY <1>3
    <3> QED
      BY <1>3, <1>13, <2>1, <3>1, Zenon
  <2> QED
    BY <1>3, <2>2, <2>3, Zenon
<1>9. CASE r \in gone \/ r \notin batch \/ Stops(r, e)
  <2>1. /\ place'[r] = "done" /\ reply'[r] = IF r \in gone THEN "gone" ELSE "200"
    BY <1>9, Zenon DEF Accept, Respond, MoveTo, ServiceTypes
  <2>2. reply'[r] = "200" => r \notin gone
    BY <2>1, Zenon
  <2>3. Counted(r)'
    <3>1. /\ metrics' = IF r \in batch \/ r \in gone THEN metrics
                        ELSE metrics \cup {<<r, "decision">>}
          /\ r \in batch' <=> r \in batch
      BY Zenon DEF Accept, Count, Kept
    <3>2. /\ <<r, "error">> \notin metrics
          /\ r \notin batch => <<r, "decision">> \notin metrics
          /\ reply'[r] = IF r \in gone THEN "gone" ELSE "200"
      BY <1>11, <2>1, Zenon
    <3>3. /\ r \notin batch' => (<<r, "decision">> \in metrics' <=> reply'[r] = "200")
          /\ <<r, "error">> \notin metrics'
      BY ONLY <3>1, <3>2
    <3> QED
      BY <3>3, Zenon DEF Counted
  <2>4. reply'[r] = "200" => Complete(r)'
    <3>1. SUFFICES ASSUME reply'[r] = "200" PROVE Complete(r)'
      BY Zenon
    <3>2. \A i \in 1..(n + 1) : Ends(r, i)' => i = n + 1
      BY <1>5, <1>13, Zenon
    <3>3. r \notin batch => n + 1 = size'[r]
      BY <1>12, Zenon
    <3>4. r \in batch => Ends(r, n + 1)'
      BY <1>6, <1>9, <2>2, <3>1, Zenon
    <3>5. n + 1 = size'[r] \/ (n + 1 > 0 /\ n + 1 < size'[r] /\ Ends(r, n + 1)')
      <4>1. size'[r] \in Nat
        BY <1>22, Zenon DEF Kept
      <4> QED
        BY <1>12, <1>13, <3>3, <3>4, <4>1
    <3> QED
      BY <1>3, <3>2, <3>5, Zenon DEF Complete
  <2> QED
    <3>1. /\ r \notin batch' => size'[r] = 1 /\ semantics'[r] = "execute_all"
          /\ since'[r] <= serving'
      BY <1>4, <1>11, <1>12, Zenon DEF Kept
    <3> QED
      BY <1>7, <1>8, <2>1, <2>2, <2>3, <2>4, <3>1, Zenon DEF RequestInv, Working, Holding
<1>10. CASE ~(r \in gone \/ r \notin batch \/ Stops(r, e))
  <2>1. place'[r] = "handle" /\ reply'[r] = reply[r] /\ metrics' = metrics
    BY <1>10, Zenon DEF Accept, MoveTo, ServiceTypes
  <2>2. \A i \in 1..(n + 1) : ~Ends(r, i)'
    BY <1>5, <1>6, <1>10, <1>13, Zenon
  <2>3. Counted(r)'
    BY <1>10, Zenon DEF Counted, Kept
  <2>4. since'[r] <= gen'[r] /\ gen'[r] <= serving' /\ n + 1 <= size'[r]
    BY <1>12, Zenon
  <2>5. Len(answers'[r]) <= size'[r] /\ \A i \in 1..Len(answers'[r]) : ~Ends(r, i)'
    BY <1>3, <2>2, <2>4, Zenon
  <2>6. r \in batch' /\ r \notin gone' /\ reply'[r] = "none" /\ <<r, "error">> \notin metrics'
    BY <1>10, <1>11, <2>1, Zenon DEF Kept
  <2>7. since'[r] <= serving'
    BY <1>12, Zenon
  <2> QED
    BY <1>7, <1>8, <2>1, <2>3, <2>4, <2>5, <2>6, <2>7, Zenon DEF RequestInv, Working, Holding
<1> QED
  BY <1>9, <1>10, Zenon

\* A request keeps its invariant through its own steps.
LEMMA OwnSteps ==
    ASSUME ServiceTypes, ServiceTypes', NEW r \in Requests, RequestInv(r), Acts(r)
    PROVE  RequestInv(r)'
<1>0. /\ since[r] \in Nat /\ gen[r] \in Nat /\ serving \in Nat /\ serving' \in Nat
      /\ answers[r] \in Seq(Answer) /\ size[r] \in Nat /\ gone \subseteq Requests
  BY Zenon DEF ServiceTypes, Answer
<1>01. serving <= serving /\ \A m \in Nat : 0 <= m
  BY <1>0
<1>00. Len(<<>>) = 0 /\ DOMAIN <<>> = {} /\ 1..0 = {}
  OBVIOUS
<1>1. ASSUME NEW n \in 0..(MaxBatch + 1), NEW s \in Semantics, Arrive(r, n, s)
      PROVE  RequestInv(r)'
  <2>1. /\ place[r] = "new" /\ answers'[r] = <<>> /\ metrics' = metrics
        /\ size'[r] = n /\ semantics'[r] = s /\ since'[r] = serving /\ serving' = serving
    BY <1>1, Zenon DEF Arrive, RequestInv, ServiceTypes
  <2>5. /\ reply[r] = "none" /\ <<r, "error">> \notin metrics
        /\ <<r, "decision">> \notin metrics
    BY <2>1, Zenon DEF RequestInv, Counted
  <2>2. /\ place'[r] \in {"enter", "verify", "done"} /\ reply'[r] # "200"
        /\ place'[r] # "done" => reply'[r] = "none"
    <3>1. Authenticate(r)
      BY <1>1, Zenon DEF Arrive
    <3>2. CASE Respond(r, "401") \/ Respond(r, "503")
      BY <3>2, Zenon DEF Respond, MoveTo, ServiceTypes
    <3>3. CASE (MoveTo(r, "enter") \/ MoveTo(r, "verify")) /\ reply' = reply
      BY <2>5, <3>3, Zenon DEF MoveTo, ServiceTypes
    <3> QED
      BY <3>1, <3>2, <3>3, Zenon DEF Authenticate
  <2>3. Audited(r)'
    BY <1>00, <2>1, Zenon DEF Audited
  <2>4. Counted(r)'
    BY <2>1, <2>2, <2>5, Zenon DEF Counted
  <2>6. r \notin gone'
    BY <1>1, <2>1, Zenon DEF Arrive, RequestInv
  <2>7. r \notin batch' => size'[r] = 1 /\ semantics'[r] = "execute_all"
    BY <1>1, <2>1, Zenon DEF Arrive
  <2> QED
    <3>1. since'[r] <= serving' /\ metrics' = metrics
      BY <1>01, <2>1, Zenon
    <3> QED
      BY <1>00, <2>1, <2>2, <2>3, <2>4, <2>5, <2>6, <2>7, <3>1, Zenon
      DEF RequestInv, Working, Holding
<1>2. ASSUME fixed' = fixed PROVE Kept(r) /\ UNCHANGED <<config, serving>>
  BY <1>2, Zenon DEF Kept, fixed
<1>3. ASSUME Kept(r), UNCHANGED <<config, serving>>, trail \subseteq trail',
             place[r] \notin {"new", "done"}, gen' = gen, answers' = answers,
             NEW status \in Statuses \ {"200"}, Respond(r, status),
             metrics' = metrics \/ Count(r, "error")
      PROVE  RequestInv(r)'
  <2>1. place'[r] = "done" /\ reply'[r] # "200"
    BY <1>3, Zenon DEF Respond, MoveTo, ServiceTypes
  <2>2. <<r, "decision">> \in metrics' => <<r, "decision">> \in metrics
    BY <1>3 DEF Count
  <2>3. Shared
    BY <1>0, <1>3 DEF Shared
  <2> QED
    BY <1>3, <2>1, <2>2, <2>3, Unanswered, Zenon
<1>4. CASE KeyVerified(r)
  <2>1. Kept(r) /\ UNCHANGED <<config, serving, gone, gen, answers, trail, metrics>>
    BY <1>2, <1>4, Zenon DEF KeyVerified
  <2>2. CASE \E status \in {"401", "403", "503"} : Respond(r, status)
    BY <1>3, <1>4, <2>1, <2>2, Zenon DEF KeyVerified, Statuses
  <2>3. CASE r \notin gone /\ MoveTo(r, "enter") /\ UNCHANGED reply
    <3>1. place[r] = "verify" /\ place'[r] = "enter" /\ reply'[r] = reply[r]
      BY <1>4, <2>3, Zenon DEF KeyVerified, MoveTo, ServiceTypes
    <3>2. Audited(r)' /\ Counted(r)'
      BY <2>1, <3>1, Zenon DEF RequestInv, Audited, Counted, Kept
    <3> QED
      BY <1>0, <1>00, <2>1, <2>3, <3>1, <3>2, Zenon DEF RequestInv, Kept, Working, Holding
  <2> QED
    BY <1>4, <2>2, <2>3, Zenon DEF KeyVerified
<1>5. CASE Enter(r)
  <2>1. Kept(r) /\ UNCHANGED <<config, serving, gone, answers, trail, metrics>>
    BY <1>2, <1>5, Zenon DEF Enter
  <2>2. CASE (Respond(r, "400") \/ Respond(r, "413")) /\ UNCHANGED gen
    BY <1>3, <1>5, <2>1, <2>2, Zenon DEF Enter, Statuses
  <2>3. CASE /\ gen' = [gen EXCEPT ![r] = serving]
             /\ MoveTo(r, "handle") /\ UNCHANGED reply
    <3>1. /\ place[r] = "enter" /\ place'[r] = "handle" /\ reply'[r] = reply[r]
          /\ gen'[r] = serving /\ r \notin gone /\ answers[r] = <<>>
      BY <1>5, <2>3, Zenon DEF Enter, MoveTo, ServiceTypes, RequestInv
    <3>2. Audited(r)' /\ Counted(r)'
      BY <2>1, <3>1, Zenon DEF RequestInv, Audited, Counted, Kept
    <3> QED
      <4>1. /\ since'[r] <= gen'[r] /\ gen'[r] <= serving' /\ since'[r] <= serving'
            /\ 0 <= size'[r]
        BY <1>0, <1>01, <2>1, <3>1, Zenon DEF RequestInv, Kept
      <4> QED
        BY <1>00, <2>1, <3>1, <3>2, <4>1, Zenon DEF RequestInv, Kept, Working, Holding
  <2> QED
    BY <1>5, <2>2, <2>3, Zenon DEF Enter
<1>6. CASE Evaluate(r)
  <2>1. /\ Kept(r) /\ UNCHANGED <<config, serving, gone, gen, answers, trail>>
        /\ place[r] = "handle" /\ r \notin gone
    BY <1>2, <1>6, Zenon DEF Evaluate, RequestInv
  <2>2. CASE \/ Refuse(r, "503")
             \/ (\E status \in {"403", "400"} : Respond(r, status)) /\ UNCHANGED metrics
    BY <1>3, <2>1, <2>2, Zenon DEF Refuse, Statuses
  <2>3. CASE Item(r) > size[r] /\ Respond(r, "200") /\ UNCHANGED metrics
    <3>1. place'[r] = "done" /\ reply'[r] = "200"
      BY <2>1, <2>3, Zenon DEF Respond, MoveTo, ServiceTypes
    <3>2. Len(answers[r]) = size[r] /\ r \in batch /\ \A i \in 1..Len(answers[r]) : ~Ends(r, i)
      BY <1>0, <1>00, <2>1, <2>3 DEF RequestInv, Working, Item
    <3>3. \A i : Ends(r, i)' <=> Ends(r, i)
      BY <2>1, Zenon DEF Ends, Kept
    <3>4. Complete(r)'
      BY <2>1, <3>2, <3>3, Zenon DEF Complete, Kept
    <3>5. Audited(r)' /\ Counted(r)'
      BY <2>1, <2>3, <3>1, <3>2, Zenon DEF RequestInv, Audited, Counted, Kept
    <3> QED
      BY <1>0, <2>1, <3>1, <3>2, <3>4, <3>5, Zenon DEF RequestInv, Kept, Working, Holding
  <2>4. CASE Item(r) <= size[r] /\ MoveTo(r, "decide") /\ UNCHANGED <<reply, metrics>>
    <3>1. place'[r] = "decide" /\ reply'[r] = reply[r]
      BY <2>4, Zenon DEF MoveTo, ServiceTypes
    <3>2. Len(answers[r]) < size[r]
      BY <1>0, <2>4 DEF Item
    <3>3. \A i : Ends(r, i)' <=> Ends(r, i)
      BY <2>1, Zenon DEF Ends, Kept
    <3>5. Audited(r)' /\ Counted(r)'
      BY <2>1, <2>4, <3>1, Zenon DEF RequestInv, Audited, Counted, Kept
    <3> QED
      BY <1>0, <2>1, <2>4, <3>1, <3>2, <3>3, <3>5, Zenon DEF RequestInv, Kept, Working, Holding
  <2> QED
    BY <1>6, <2>2, <2>3, <2>4, Zenon DEF Evaluate
<1>7. CASE DecideFails(r)
  BY <1>2, <1>3, <1>7, Zenon DEF DecideFails, Refuse, Statuses
<1>8. ASSUME NEW e \in Effects, Decide(r, e) PROVE RequestInv(r)'
  <2>1. /\ Kept(r) /\ UNCHANGED <<config, serving, gone, gen, trail>>
        /\ place[r] = "decide"
    BY <1>2, <1>8, Zenon DEF Decide
  <2>2. CASE Respond(r, "gone") /\ UNCHANGED <<answers, metrics>>
    BY <1>3, <2>1, <2>2, Zenon DEF Statuses
  <2>3. CASE config.audit = "none" /\ Accept(r, e)
    <3>1. Shared /\ place[r] \in Holding
      BY <1>0, <2>1 DEF Shared, Holding
    <3> QED
      BY <2>1, <2>3, <3>1, Accepted, Zenon
  <2>4. CASE /\ r \notin gone
             /\ MoveTo(r, IF config.audit = "sync" THEN "append" ELSE "await")
             /\ UNCHANGED <<answers, reply, metrics>>
    <3>1. place'[r] \in {"append", "await"} /\ reply'[r] = reply[r]
      BY <2>4, Zenon DEF MoveTo, ServiceTypes
    <3>3. \A i : Ends(r, i)' <=> Ends(r, i)
      BY <2>1, <2>4, Zenon DEF Ends, Kept
    <3>5. Audited(r)' /\ Counted(r)'
      BY <2>1, <2>4, <3>1, Zenon DEF RequestInv, Audited, Counted, Kept
    <3> QED
      BY <1>0, <2>1, <2>4, <3>1, <3>3, <3>5, Zenon DEF RequestInv, Kept, Working, Holding
  <2> QED
    BY <1>8, <2>2, <2>3, <2>4, Zenon DEF Decide
<1>9. CASE Appended(r)
  <2>1. /\ Kept(r) /\ UNCHANGED <<config, serving, gone, gen>>
        /\ place[r] \in Holding /\ Accept(r, effect[r]) /\ effect[r] \in Effects
    BY <1>2, <1>9, Zenon DEF Appended, ServiceTypes, Holding
  <2>2. trail' = trail \cup {[req |-> r, item |-> Item(r), effect |-> effect[r], gen |-> gen[r]]}
    BY <1>9, Zenon DEF Appended, Persist, Entry, Snapshot
  <2>3. Shared
    BY <1>01, <2>1, <2>2, Zenon DEF Shared
  <2> QED
    BY <2>1, <2>2, <2>3, Accepted, Zenon
<1>10. CASE AppendFailed(r)
  BY <1>2, <1>3, <1>10, Zenon DEF AppendFailed, Refuse, Statuses
<1>11. CASE HangUp(r)
  <2>1. Kept(r) /\ UNCHANGED <<config, serving, gen, answers, metrics>> /\ trail \subseteq trail'
    BY <1>2, <1>11, Zenon DEF HangUp
  <2>2. CASE Respond(r, "gone") /\ place[r] \in {"enter", "handle", "await"}
    BY <1>3, <2>1, <2>2, Zenon DEF Statuses
  <2>3. CASE place[r] \in {"verify", "decide", "append"} /\ UNCHANGED <<place, reply, trail>>
    <3>1. reply[r] = "none"
      BY <2>3, Zenon DEF RequestInv
    <3>3. \A i : Ends(r, i)' <=> Ends(r, i)
      BY <2>1, <2>3, Zenon DEF Ends, Kept
    <3>5. Audited(r)' /\ Counted(r)'
      BY <2>1, <2>3, <3>1, Zenon DEF RequestInv, Audited, Counted, Kept
    <3> QED
      BY <1>0, <2>1, <2>3, <3>1, <3>3, <3>5, Zenon DEF RequestInv, Kept, Working, Holding
  <2> QED
    BY <1>11, <2>2, <2>3, Zenon DEF HangUp
<1> QED
  BY <1>1, <1>4, <1>5, <1>6, <1>7, <1>8, <1>9, <1>10, <1>11, Zenon DEF Acts, HandlerStep

\* Every step keeps the invariant of every request.
LEMMA RequestsNext ==
    ASSUME ServiceTypes, ServiceTypes', \A r \in Requests : RequestInv(r), [ServiceNext]_serviceVars
    PROVE  \A r \in Requests : RequestInv(r)'
<1>1. ASSUME NEW r \in Requests, Acts(r), NEW u \in Requests PROVE RequestInv(u)'
  <2>1. CASE u = r
    BY <1>1, <2>1, OwnSteps, Zenon
  <2>2. CASE u # r
    BY <1>1, <2>2, ActsFrame, OthersKept, Zenon
  <2> QED
    BY <2>1, <2>2, Zenon
<1>2. CASE Reload \/ UNCHANGED serviceVars
  <2>1. serving \in Nat
    BY Zenon DEF ServiceTypes
  <2>2. SUFFICES ASSUME NEW u \in Requests PROVE RequestInv(u)'
    BY Zenon
  <2>3. Same(u) /\ Shared
    BY <1>2, <2>1 DEF Reload, serviceVars, Same, Shared
  <2> QED
    BY <2>3, OthersKept, Zenon
<1> QED
  BY <1>1, <1>2, Zenon DEF ServiceNext, Acts

-----------------------------------------------------------------------------
(* The theorems. *)

\* Initially nothing has been asked, held or answered.
LEMMA PdpInit == ServiceInit => PdpInv
<1> SUFFICES ASSUME ServiceInit PROVE PdpInv
  BY Zenon
<1>1. <<>> \in Seq([effect: Effects, gen: Nat]) /\ Len(<<>>) = 0 /\ DOMAIN <<>> = {}
  OBVIOUS
<1>2. ServiceTypes
  BY <1>1, PdpServerAssumption, Zenon DEF ServiceInit, ServiceTypes, Places, Semantics, Effects, Statuses
<1>3. PermitsConserved
  <2>1. /\ {r \in Requests : place[r] = "verify"} = {}
        /\ {r \in Requests : place[r] \in {"decide", "append", "await"}} = {}
    BY Zenon DEF ServiceInit
  <2>2. Cardinality({}) = 0
    BY FS_EmptySet, Zenon
  <2>3. authFree = AuthSlots /\ workFree = WorkSlots
    BY Zenon DEF ServiceInit
  <2>4. authFree + 0 = AuthSlots /\ workFree + 0 = WorkSlots
    BY <2>3, PdpServerAssumption
  <2> QED
    BY <2>1, <2>2, <2>4, Zenon DEF PermitsConserved
<1>4. \A r \in Requests : RequestInv(r)
  BY <1>1 DEF ServiceInit, RequestInv, Audited, Counted, Working, Holding
<1> QED
  BY <1>2, <1>3, <1>4, Zenon DEF PdpInv

\* PdpInv is inductive.
LEMMA PdpNext == PdpInv /\ [ServiceNext]_serviceVars => PdpInv'
  BY TypeNext, PermitsNext, RequestsNext, Zenon DEF PdpInv

\* The permits of both semaphores are conserved, for every number of slots and
\* requests and wherever clients hang up (run_bounded_pdp_work,
\* authenticate_bearer_async_with_slots).
THEOREM AlwaysPermitsConserved == ServiceSpec => [](PdpInv /\ PermitsConserved)
<1>1. PdpInv => PermitsConserved
  BY Zenon DEF PdpInv
<1> QED
  BY <1>1, PdpInit, PdpNext, PTL DEF ServiceSpec

\* No caller ever receives a decision that is not in the audit log, when one is
\* configured (authorize_and_persist_decision).
THEOREM AlwaysAnswersAudited == ServiceSpec => []AnswersAudited
<1>1. PdpInv => AnswersAudited
  BY Zenon DEF PdpInv, RequestInv, AnswersAudited
<1> QED
  BY <1>1, PdpInit, PdpNext, PTL DEF ServiceSpec

\* All decisions of a response come from one generation of the policies that
\* served since its request arrived, through any number of reloads
\* (evaluations, AuthorizerHandle::reload).
THEOREM AlwaysOneGeneration == ServiceSpec => []OneGeneration
<1>1. PdpInv => OneGeneration
  <2> SUFFICES ASSUME PdpInv, NEW r \in Requests, NEW i \in DOMAIN answers[r]
               PROVE  /\ answers[r][i].gen = answers[r][1].gen
                      /\ since[r] <= answers[r][i].gen /\ answers[r][i].gen <= serving
    BY Zenon DEF OneGeneration
  <2>1. answers[r] \in Seq(Answer)
    BY Zenon DEF PdpInv, ServiceTypes, Answer
  <2>2. 1 \in DOMAIN answers[r]
    BY <2>1
  <2>3. \A j \in DOMAIN answers[r] :
          answers[r][j].gen = gen[r] /\ since[r] <= gen[r] /\ gen[r] <= serving
    BY Zenon DEF PdpInv, RequestInv
  <2> QED
    BY <2>2, <2>3, Zenon
<1> QED
  BY <1>1, PdpInit, PdpNext, PTL DEF ServiceSpec

\* A batch answered with 200 is complete under its semantics, for batches of
\* any size (evaluations).
THEOREM AlwaysBatchComplete == ServiceSpec => []BatchComplete
<1>1. PdpInv => BatchComplete
  BY Zenon DEF PdpInv, RequestInv, BatchComplete
<1> QED
  BY <1>1, PdpInit, PdpNext, PTL DEF ServiceSpec

\* A single evaluation is counted as a decision exactly when its caller got
\* one (record_decision, record_pdp_error).
THEOREM AlwaysDecisionsCounted == ServiceSpec => []DecisionsCounted
<1>1. PdpInv => DecisionsCounted
  BY Zenon DEF PdpInv, RequestInv, DecisionsCounted
<1> QED
  BY <1>1, PdpInit, PdpNext, PTL DEF ServiceSpec

-----------------------------------------------------------------------------
(* Metrics                                                                   *)

\* Metrics: what the variables hold.
Histogram == [count : Nat, sum : Int, buckets : [Bounds -> Nat], inf : Nat]
MetricsTypes ==
    /\ step \in [Recorders -> {"idle", "durations", "observe"}]
    /\ job \in [Recorders -> [of : Decisions \cup {<<>>}, took : Int]]
    /\ writer \in Recorders \cup {Nobody}
    /\ \A k \in DOMAIN totals : totals[k] \in Nat
    /\ \A k \in DOMAIN durations : durations[k] \in Histogram
    /\ decided \in [Decisions -> Nat] /\ failed \in [Fallbacks -> Nat]
    /\ \A k \in DOMAIN errors : errors[k] \in Nat
    /\ DOMAIN page = {"totals", "durations", "errors", "counters"}

\* Every key in the maps is of a decision counted, so there are no more series of
\* durations than of decisions.
KeysCounted ==
    /\ \A x \in DOMAIN totals : \E d \in Decisions : x = DecisionKey(d)
    /\ \A k \in DOMAIN durations :
           \E d \in Decisions : DecisionKey(d) \in DOMAIN totals /\ k = DurationKey(d)
    /\ \A t \in Recorders : step[t] # "idle" =>
           job[t].of \in Decisions /\ DecisionKey(job[t].of) \in DOMAIN totals
    /\ \A t \in Recorders : (step[t] = "observe") <=> (writer = t)
    /\ writer # Nobody => DurationKey(job[writer].of) \in DOMAIN durations

\* A histogram counts in +Inf what it counts, but for the call being observed.
Pending(k) == IF writer # Nobody /\ DurationKey(job[writer].of) = k THEN 1 ELSE 0
HistogramsInv ==
    \A k \in DOMAIN durations :
        /\ Cumulative(durations[k])
        /\ durations[k].count = durations[k].inf + Pending(k)

Within(map) == IsFiniteSet(DOMAIN map) /\ Cardinality(DOMAIN map) <= LabelCap

\* The calls counted are those observed and those between the two locks, for each
\* series of durations and for all of them.
Timed == [k \in DOMAIN durations |-> durations[k].count]
Underway == {t \in Recorders : step[t] = "durations"}
Balanced ==
    /\ \A k \in {DurationKey(d) : d \in Decisions} :
           /\ IsFiniteSet(Units(Tallied(k)))
           /\ Sum(Tallied(k)) = Observed(k) + Cardinality(Between(k))
    /\ IsFiniteSet(Units(totals)) /\ IsFiniteSet(Units(Timed))
    /\ Sum(totals) = Sum(Timed) + Cardinality(Underway)

\* A page that has its totals shows no more of them than the map has by now.
PageInv ==
    /\ reading = "durations" =>
           /\ Units([k \in DOMAIN page.totals |-> page.totals[k].value]) \subseteq Units(totals)
           /\ page.durations = <<>>
    /\ PageLagBounded /\ HistogramsWhole

MetricsIInv ==
    /\ MetricsTypes /\ KeysCounted /\ HistogramsInv
    /\ Within(totals) /\ Within(durations) /\ Within(errors)
    /\ Balanced /\ SeriesExact /\ PageInv

-----------------------------------------------------------------------------

\* A unit of a function.
LEMMA InUnits ==
    ASSUME NEW f, NEW x, NEW i
    PROVE  <<x, i>> \in Units(f) <=> x \in DOMAIN f /\ i \in 1 .. f[x]
  BY DEF Units

\* Everything in Units is a pair.
LEMMA UnitsPairs ==
    ASSUME NEW f, NEW u \in Units(f)
    PROVE  \E x \in DOMAIN f : \E i \in 1 .. f[x] : u = <<x, i>>
  BY DEF Units

\* One more for one of its arguments is one unit more.
LEMMA OneUnitMore ==
    ASSUME NEW f, NEW g, NEW k, NEW n \in Nat, IsFiniteSet(Units(f)),
           DOMAIN g = DOMAIN f \cup {k}, g[k] = n + 1,
           \A x \in DOMAIN f \ {k} : g[x] = f[x],
           k \in DOMAIN f => f[k] = n,
           k \notin DOMAIN f => n = 0
    PROVE  /\ IsFiniteSet(Units(g)) /\ Sum(g) = Sum(f) + 1 /\ Sum(f) \in Nat
           /\ Units(f) \subseteq Units(g)
<1>1. <<k, n + 1>> \notin Units(f)
  <2>1. CASE k \in DOMAIN f
    BY <2>1, InUnits
  <2>2. CASE k \notin DOMAIN f
    BY <2>2, InUnits
  <2> QED
    BY <2>1, <2>2, Zenon
<1>2. Units(f) \cup {<<k, n + 1>>} \subseteq Units(g)
  <2>1. <<k, n + 1>> \in Units(g)
    BY InUnits
  <2>2. ASSUME NEW u \in Units(f) PROVE u \in Units(g)
    <3>0. PICK x \in DOMAIN f : \E i \in 1 .. f[x] : u = <<x, i>>
      BY UnitsPairs, Zenon
    <3>1. PICK i \in 1 .. f[x] : u = <<x, i>>
      BY <3>0, Zenon
    <3>2. CASE x = k
      <4>1. i \in 1 .. g[k]
        BY <3>1, <3>2
      <4> QED
        BY <3>1, <3>2, <4>1, InUnits, Zenon
    <3>3. CASE x # k
      BY <3>1, <3>3, InUnits, Zenon
    <3> QED
      BY <3>2, <3>3, Zenon
  <2> QED
    BY <2>1, <2>2, Zenon
<1>3. Units(g) \subseteq Units(f) \cup {<<k, n + 1>>}
  <2> SUFFICES ASSUME NEW u \in Units(g), u # <<k, n + 1>> PROVE u \in Units(f)
    OBVIOUS
  <2>0. PICK x \in DOMAIN g : \E i \in 1 .. g[x] : u = <<x, i>>
    BY UnitsPairs
  <2>1. PICK i \in 1 .. g[x] : u = <<x, i>>
    BY <2>0, Zenon
  <2>2. CASE x = k
    <3>1. i \in 1 .. n
      BY <2>1, <2>2
    <3>2. k \in DOMAIN f
      BY <3>1
    <3> QED
      BY <2>1, <2>2, <3>1, <3>2, InUnits, Zenon
  <2>3. CASE x # k
    BY <2>1, <2>3, InUnits, Zenon
  <2> QED
    BY <2>2, <2>3, Zenon
<1>4. Units(g) = Units(f) \cup {<<k, n + 1>>}
  BY <1>2, <1>3, Zenon
<1> DEFINE U == Units(f)
           u == <<k, n + 1>>
<1> HIDE DEF U, u
<1>5. /\ IsFiniteSet(U \cup {u}) /\ Cardinality(U \cup {u}) = Cardinality(U) + 1
      /\ Cardinality(U) \in Nat
  BY <1>1, FS_AddElement, FS_CardinalityType DEF U, u
<1> QED
  BY <1>2, <1>4, <1>5, Zenon DEF U, u, Sum

\* What Inc does to a map with room, or with the key.
LEMMA IncAdds ==
    ASSUME NEW map, NEW k, k \in DOMAIN map \/ HasRoom(map),
           \A x \in DOMAIN map : map[x] \in Nat
    PROVE  \E n \in Nat :
             /\ DOMAIN Inc(map, k) = DOMAIN map \cup {k} /\ Inc(map, k)[k] = n + 1
             /\ \A x \in DOMAIN map \ {k} : Inc(map, k)[x] = map[x]
             /\ k \in DOMAIN map => map[k] = n
             /\ k \notin DOMAIN map => n = 0
<1>1. CASE k \in DOMAIN map
  <2>1. /\ DOMAIN Inc(map, k) = DOMAIN map /\ Inc(map, k)[k] = map[k] + 1
        /\ \A x \in DOMAIN map \ {k} : Inc(map, k)[x] = map[x]
    BY <1>1, Zenon DEF Inc
  <2>2. DOMAIN map = DOMAIN map \cup {k}
    BY <1>1, Zenon
  <2> QED
    BY <1>1, <2>1, <2>2, Zenon
<1>2. CASE k \notin DOMAIN map
  <2>1. /\ DOMAIN Inc(map, k) = DOMAIN map \cup {k} /\ Inc(map, k)[k] = 1
        /\ \A x \in DOMAIN map \ {k} : Inc(map, k)[x] = map[x]
    BY <1>2, Zenon DEF Inc, Put
  <2>2. 1 = 0 + 1 /\ 0 \in Nat
    OBVIOUS
  <2> QED
    BY <1>2, <2>1, <2>2, Zenon
<1> QED
  BY <1>1, <1>2, Zenon

\* A map takes a key it has, or one it has room for, and stays within the cap.
LEMMA WithinKey ==
    ASSUME NEW map, NEW new, NEW k, Within(map), k \in DOMAIN map \/ HasRoom(map),
           DOMAIN new = DOMAIN map \cup {k}
    PROVE  Within(new)
<1> DEFINE D == DOMAIN map
<1>1. IsFiniteSet(D) /\ Cardinality(D) <= LabelCap /\ LabelCap \in Nat
  BY MetricsAssumption, Zenon DEF Within
<1>2. k \in D \/ Cardinality(D) < LabelCap
  BY Zenon DEF HasRoom
<1> HIDE DEF D
<1>3. /\ IsFiniteSet(D \cup {k}) /\ Cardinality(D) \in Nat
      /\ Cardinality(D \cup {k}) = IF k \in D THEN Cardinality(D) ELSE Cardinality(D) + 1
  BY <1>1, FS_AddElement, FS_CardinalityType
<1>4. Cardinality(D \cup {k}) <= LabelCap
  BY <1>1, <1>2, <1>3
<1> QED
  BY <1>3, <1>4, Zenon DEF D, Within

\* There is room for the duration of every decision counted: there are no more
\* series of durations than of decisions, so record_decision never drops the
\* second half of a call.
LEMMA RoomForDurations ==
    ASSUME KeysCounted, Within(totals), Within(durations),
           NEW t \in Recorders, step[t] = "durations"
    PROVE  DurationKey(job[t].of) \in DOMAIN durations \/ HasRoom(durations)
<1> DEFINE k == DurationKey(job[t].of)
           D == DOMAIN durations
           of(x) == CHOOSE d \in Decisions : x = DecisionKey(d)
           J == {DurationKey(of(x)) : x \in DOMAIN totals}
<1> SUFFICES ASSUME k \notin D PROVE Cardinality(D) < LabelCap
  BY Zenon DEF HasRoom
<1>1. ASSUME NEW d \in Decisions, DecisionKey(d) \in DOMAIN totals
      PROVE  DurationKey(d) \in J
  <2>1. of(DecisionKey(d)) \in Decisions /\ DecisionKey(d) = DecisionKey(of(DecisionKey(d)))
    BY Zenon
  <2>2. of(DecisionKey(d)) = d
    BY <2>1, MetricsAssumption, Zenon DEF DecisionKey
  <2> QED
    BY <1>1, <2>2, Zenon
<1>2. D \subseteq J
  BY <1>1, Zenon DEF KeysCounted
<1>3. k \in J
  <2>1. job[t].of \in Decisions /\ DecisionKey(job[t].of) \in DOMAIN totals
    BY DEF KeysCounted
  <2> QED
    BY <1>1, <2>1, Zenon
<1>4. IsFiniteSet(DOMAIN totals) /\ Cardinality(DOMAIN totals) <= LabelCap /\ IsFiniteSet(D)
      /\ LabelCap \in Nat
  BY MetricsAssumption, Zenon DEF Within
<1>5. IsFiniteSet(J) /\ Cardinality(J) <= Cardinality(DOMAIN totals)
  <2> DEFINE at == [x \in DOMAIN totals |-> DurationKey(of(x))]
  <2>1. at \in Surjection(DOMAIN totals, J)
    BY Zenon DEF Surjection
  <2> HIDE DEF at, J
  <2> QED
    BY <1>4, <2>1, FS_Surjection, Zenon
<1> HIDE DEF J, D, k
<1>6. D \cup {k} \subseteq J
  BY <1>2, <1>3, Zenon
<1>7. Cardinality(D \cup {k}) <= Cardinality(J)
  BY <1>5, <1>6, FS_Subset
<1>8. Cardinality(D \cup {k}) = Cardinality(D) + 1
  BY <1>4, FS_AddElement, Zenon
<1>9. Cardinality(D) \in Nat /\ Cardinality(J) \in Nat /\ Cardinality(DOMAIN totals) \in Nat
  BY <1>4, <1>5, FS_CardinalityType, Zenon
<1> QED
  BY <1>4, <1>5, <1>7, <1>8, <1>9

\* The registers of record_decision.
recording == <<totals, durations, step, job, writer>>

LEMMA RecordingStays ==
    ASSUME MetricsIInv, UNCHANGED recording
    PROVE  /\ KeysCounted' /\ HistogramsInv' /\ Within(totals)' /\ Within(durations)'
           /\ Balanced'
<1> USE DEF recording
<1>1. KeysCounted'
  BY Zenon DEF MetricsIInv, KeysCounted
<1>2. HistogramsInv'
  BY Zenon DEF MetricsIInv, HistogramsInv, Pending, Cumulative
<1>3. Within(totals)' /\ Within(durations)'
  BY Zenon DEF MetricsIInv, Within
<1>4. /\ \A k : Tallied(k)' = Tallied(k) /\ Observed(k)' = Observed(k) /\ Between(k)' = Between(k)
      /\ Timed' = Timed /\ Underway' = Underway
  BY Zenon DEF Tallied, Total, Observed, Between, Timed, Underway
<1>5. Balanced'
  BY <1>4, Zenon DEF MetricsIInv, Balanced
<1> QED
  BY <1>1, <1>2, <1>3, <1>5, Zenon

\* A page that does not change, while the totals only grow.
LEMMA PageStays ==
    ASSUME PageInv, UNCHANGED <<page, reading>>, Units(totals) \subseteq Units(totals)'
    PROVE  PageInv'
<1>1. PageLagBounded' /\ HistogramsWhole'
  BY Zenon DEF PageInv, PageLagBounded, HistogramsWhole, Cumulative
<1> QED
  BY <1>1, Zenon DEF PageInv

\* Recorders are counted one by one.
LEMMA RecordersCounted ==
    ASSUME NEW S, S \subseteq Recorders, NEW t
    PROVE  /\ Cardinality(S) \in Nat
           /\ t \notin S => Cardinality(S \cup {t}) = Cardinality(S) + 1
           /\ t \in S => Cardinality(S \ {t}) = Cardinality(S) - 1
<1>1. IsFiniteSet(S)
  BY MetricsAssumption, FS_Subset, Zenon
<1>2. Cardinality(S) \in Nat
  BY <1>1, FS_CardinalityType, Zenon
<1>3. t \notin S => Cardinality(S \cup {t}) = Cardinality(S) + 1
  BY <1>1, FS_AddElement
<1>4. t \in S => Cardinality(S \ {t}) = Cardinality(S) - 1
  BY <1>1, FS_RemoveElement
<1> QED
  BY <1>2, <1>3, <1>4, Zenon

\* A decision whose series the totals have, or have room for.
Counts(t, d, took) ==
    /\ RecordTotal(t, d, took)
    /\ DecisionKey(d) \in DOMAIN totals \/ HasRoom(totals)

LEMMA CountedFacts ==
    ASSUME MetricsIInv, NEW t \in Recorders, NEW d \in Decisions, NEW took \in Times,
           Counts(t, d, took)
    PROVE  /\ DOMAIN totals' = DOMAIN totals \cup {DecisionKey(d)}
           /\ Total(d) \in Nat /\ Total(d)' = Total(d) + 1
           /\ totals'[DecisionKey(d)] = Total(d) + 1
           /\ \A x \in DOMAIN totals \ {DecisionKey(d)} : totals'[x] = totals[x]
           /\ \A e \in Decisions \ {d} : Total(e)' = Total(e)
           /\ IsFiniteSet(Units(totals')) /\ Sum(totals') = Sum(totals) + 1 /\ Sum(totals) \in Nat
           /\ Units(totals) \subseteq Units(totals')
<1> DEFINE x == DecisionKey(d)
<1>1. /\ totals' = Inc(totals, x) /\ (x \in DOMAIN totals \/ HasRoom(totals))
      /\ \A y \in DOMAIN totals : totals[y] \in Nat
      /\ IsFiniteSet(Units(totals))
  BY Zenon DEF Counts, RecordTotal, MetricsIInv, MetricsTypes, Balanced
<1> HIDE DEF x
<1>2. PICK n \in Nat :
             /\ DOMAIN totals' = DOMAIN totals \cup {x} /\ totals'[x] = n + 1
             /\ \A y \in DOMAIN totals \ {x} : totals'[y] = totals[y]
             /\ x \in DOMAIN totals => totals[x] = n
             /\ x \notin DOMAIN totals => n = 0
  <2>1. \E n \in Nat :
             /\ DOMAIN Inc(totals, x) = DOMAIN totals \cup {x} /\ Inc(totals, x)[x] = n + 1
             /\ \A y \in DOMAIN totals \ {x} : Inc(totals, x)[y] = totals[y]
             /\ x \in DOMAIN totals => totals[x] = n
             /\ x \notin DOMAIN totals => n = 0
    BY <1>1, IncAdds, Zenon
  <2> QED
    BY <1>1, <2>1, Zenon
<1>3. /\ IsFiniteSet(Units(totals')) /\ Sum(totals') = Sum(totals) + 1 /\ Sum(totals) \in Nat
      /\ Units(totals) \subseteq Units(totals')
  BY <1>1, <1>2, OneUnitMore
<1>4. Total(d) = n
  BY <1>2, Zenon DEF Total, x
<1>5. Total(d)' = n + 1
  BY <1>2, Zenon DEF Total, x
<1>6. ASSUME NEW e \in Decisions \ {d} PROVE Total(e)' = Total(e)
  <2>1. DecisionKey(e) # x
    BY MetricsAssumption, Zenon DEF DecisionKey, x
  <2> QED
    BY <1>2, <2>1, Zenon DEF Total
<1> QED
  BY <1>2, <1>3, <1>4, <1>5, <1>6, Zenon DEF x

LEMMA CountedBalance ==
    ASSUME MetricsIInv, NEW t \in Recorders, NEW d \in Decisions, NEW took \in Times,
           Counts(t, d, took)
    PROVE  Balanced'
<1>1. /\ step[t] = "idle" /\ UNCHANGED <<durations, writer>>
      /\ step \in [Recorders -> {"idle", "durations", "observe"}]
      /\ DecisionKey(d) \in DOMAIN totals'
  <2>1. DecisionKey(d) \in DOMAIN totals'
    BY CountedFacts, Zenon
  <2> QED
    BY <2>1, Zenon DEF Counts, RecordTotal, MetricsIInv, MetricsTypes
<1>2. /\ step' = [step EXCEPT ![t] = "durations"]
      /\ job' = [job EXCEPT ![t] = [of |-> d, took |-> took]]
      /\ DOMAIN job = Recorders
  BY <1>1, Zenon DEF Counts, RecordTotal, MetricsIInv, MetricsTypes
<1>3. /\ step'[t] = "durations" /\ job'[t].of = d
      /\ \A u \in Recorders \ {t} : step'[u] = step[u] /\ job'[u] = job[u]
  BY <1>1, <1>2
<1>4. ASSUME NEW k \in {DurationKey(e) : e \in Decisions}
      PROVE  /\ IsFiniteSet(Units(Tallied(k)'))
             /\ Sum(Tallied(k)') = Observed(k)' + Cardinality(Between(k)')
  <2>1. /\ IsFiniteSet(Units(Tallied(k)))
        /\ Sum(Tallied(k)) = Observed(k) + Cardinality(Between(k))
        /\ Observed(k)' = Observed(k)
    BY <1>1, Zenon DEF MetricsIInv, Balanced, Observed
  <2>2. CASE k # DurationKey(d)
    <3>1. Tallied(k)' = Tallied(k)
      BY <2>2, CountedFacts, Zenon DEF Tallied
    <3>2. Between(k)' = Between(k)
      BY <1>1, <1>3, <2>2 DEF Between
    <3> QED
      BY <2>1, <3>1, <3>2, Zenon
  <2>3. CASE k = DurationKey(d)
    <3>1. Between(k)' = Between(k) \cup {t} /\ t \notin Between(k) /\ Between(k) \subseteq Recorders
      BY <1>1, <1>3, <2>3 DEF Between
    <3>2. Cardinality(Between(k)') = Cardinality(Between(k)) + 1 /\ Cardinality(Between(k)) \in Nat
      BY <3>1, RecordersCounted, Zenon
    <3> DEFINE f == Tallied(k)
               g == Tallied(k)'
    <3>3. /\ DOMAIN g = DOMAIN f \cup {d} /\ g[d] = Total(d) + 1
          /\ \A e \in DOMAIN f \ {d} : g[e] = f[e]
          /\ d \in DOMAIN f /\ f[d] = Total(d) /\ Total(d) \in Nat
      BY <2>3, CountedFacts, Zenon DEF Tallied
    <3> HIDE DEF f, g
    <3>4. IsFiniteSet(Units(f))
      BY <2>1, Zenon DEF f
    <3>5. IsFiniteSet(Units(g)) /\ Sum(g) = Sum(f) + 1
      BY <3>3, <3>4, OneUnitMore
    <3>6. Observed(k) \in Nat
      BY Zenon DEF Observed, MetricsIInv, MetricsTypes, Histogram
    <3>7. Sum(g) = Observed(k)' + Cardinality(Between(k)')
      BY <2>1, <3>2, <3>5, <3>6 DEF f
    <3> QED
      BY <3>5, <3>7, Zenon DEF g
  <2> QED
    BY <2>2, <2>3, Zenon
<1>5. Underway' = Underway \cup {t} /\ t \notin Underway /\ Underway \subseteq Recorders
  BY <1>1, <1>3 DEF Underway
<1>6. Cardinality(Underway') = Cardinality(Underway) + 1 /\ Cardinality(Underway) \in Nat
  BY <1>5, RecordersCounted, Zenon
<1>7. Timed' = Timed /\ IsFiniteSet(Units(Timed)) /\ Sum(totals) = Sum(Timed) + Cardinality(Underway)
  BY <1>1, Zenon DEF Timed, MetricsIInv, Balanced
<1>8. Sum(Timed) \in Nat
  BY <1>7, FS_CardinalityType, Zenon DEF Sum
<1>a. Sum(totals') = Sum(totals) + 1 /\ Sum(totals) \in Nat
  BY CountedFacts, Zenon
<1>9. Sum(totals') = Sum(Timed) + Cardinality(Underway')
  BY <1>6, <1>7, <1>8, <1>a
<1> QED
  BY <1>4, <1>7, <1>9, CountedFacts, Zenon DEF Balanced

\* The rest of the invariant, when a decision is counted.
LEMMA CountedKeeps ==
    ASSUME MetricsIInv, NEW t \in Recorders, NEW d \in Decisions, NEW took \in Times,
           Counts(t, d, took)
    PROVE  MetricsIInv'
<1>1. /\ step[t] = "idle"
      /\ UNCHANGED <<durations, errors, counters, writer, page, reading, scrapes, failed>>
      /\ step \in [Recorders -> {"idle", "durations", "observe"}]
      /\ job \in [Recorders -> [of : Decisions \cup {<<>>}, took : Int]]
      /\ decided \in [Decisions -> Nat] /\ decided' = [decided EXCEPT ![d] = @ + 1]
      /\ DecisionKey(d) \in DOMAIN totals'
  <2>1. DecisionKey(d) \in DOMAIN totals'
    BY CountedFacts, Zenon
  <2> QED
    BY <2>1, Zenon DEF Counts, RecordTotal, MetricsIInv, MetricsTypes
<1>2. /\ step' = [step EXCEPT ![t] = "durations"]
      /\ job' = [job EXCEPT ![t] = [of |-> d, took |-> took]]
  BY <1>1, Zenon DEF Counts, RecordTotal
<1>3. /\ step'[t] = "durations" /\ job'[t].of = d
      /\ \A u \in Recorders \ {t} : step'[u] = step[u] /\ job'[u] = job[u]
  BY <1>1, <1>2, Zenon
<1>4. MetricsTypes'
  <2>1. step' \in [Recorders -> {"idle", "durations", "observe"}]
    BY <1>1, <1>2, Zenon
  <2>2. job' \in [Recorders -> [of : Decisions \cup {<<>>}, took : Int]]
    <3>1. [of |-> d, took |-> took] \in [of : Decisions \cup {<<>>}, took : Int]
      BY MetricsAssumption, Zenon
    <3> QED
      BY <1>1, <1>2, <3>1, Zenon
  <2>3. decided' \in [Decisions -> Nat]
    BY <1>1
  <2>a. Total(d) \in Nat
    BY CountedFacts, Zenon
  <2>4. Total(d) + 1 \in Nat
    BY <2>a
  <2>b. /\ DOMAIN totals' = DOMAIN totals \cup {DecisionKey(d)}
        /\ totals'[DecisionKey(d)] = Total(d) + 1
        /\ \A x \in DOMAIN totals \ {DecisionKey(d)} : totals'[x] = totals[x]
        /\ \A x \in DOMAIN totals : totals[x] \in Nat
    BY CountedFacts, Zenon DEF MetricsIInv, MetricsTypes
  <2>5. \A x \in DOMAIN totals' : totals'[x] \in Nat
    BY <2>4, <2>b, Zenon
  <2>6. /\ \A x \in DOMAIN durations' : durations'[x] \in Histogram
        /\ writer' \in Recorders \cup {Nobody} /\ failed' \in [Fallbacks -> Nat]
        /\ \A x \in DOMAIN errors' : errors'[x] \in Nat
        /\ DOMAIN page' = {"totals", "durations", "errors", "counters"}
    BY <1>1, Zenon DEF MetricsIInv, MetricsTypes
  <2>7. Histogram' = Histogram
    BY Zenon DEF Histogram
  <2> QED
    BY <2>1, <2>2, <2>3, <2>5, <2>6, <2>7, Zenon DEF MetricsTypes
<1>5. writer # t
  BY <1>1, Zenon DEF MetricsIInv, KeysCounted
<1>6. writer \in Recorders \cup {Nobody}
  BY Zenon DEF MetricsIInv, MetricsTypes
<1>7. KeysCounted'
  <2>0. DOMAIN totals' = DOMAIN totals \cup {DecisionKey(d)}
    BY CountedFacts, Zenon
  <2>1. \A x \in DOMAIN totals' : \E e \in Decisions : x = DecisionKey(e)
    BY <2>0, Zenon DEF MetricsIInv, KeysCounted
  <2>2. \A k \in DOMAIN durations' :
           \E e \in Decisions : DecisionKey(e) \in DOMAIN totals' /\ k = DurationKey(e)
    BY <1>1, CountedFacts, Zenon DEF MetricsIInv, KeysCounted
  <2>3. ASSUME NEW u \in Recorders, step'[u] # "idle"
        PROVE  job'[u].of \in Decisions /\ DecisionKey(job'[u].of) \in DOMAIN totals'
    <3>1. CASE u = t
      BY <1>1, <1>3, <3>1, Zenon
    <3>2. CASE u # t
      BY <1>3, <2>3, <3>2, CountedFacts, Zenon DEF MetricsIInv, KeysCounted
    <3> QED
      BY <3>1, <3>2, Zenon
  <2>4. \A u \in Recorders : (step'[u] = "observe") <=> (writer' = u)
    BY <1>1, <1>3, <1>5 DEF MetricsIInv, KeysCounted
  <2>5. writer' # Nobody => DurationKey(job'[writer'].of) \in DOMAIN durations'
    BY <1>1, <1>3, <1>5, <1>6, Zenon DEF MetricsIInv, KeysCounted
  <2> QED
    BY <2>1, <2>2, <2>3, <2>4, <2>5, Zenon DEF KeysCounted
<1>8. HistogramsInv'
  <2>1. \A k : Pending(k)' = Pending(k)
    BY <1>1, <1>3, <1>5, <1>6, Zenon DEF Pending
  <2> QED
    BY <1>1, <2>1, Zenon DEF MetricsIInv, HistogramsInv, Cumulative
<1>9. Within(totals)' /\ Within(durations)' /\ Within(errors)'
  <2>1. Within(totals')
    BY CountedFacts, WithinKey, Zenon DEF MetricsIInv, Counts
  <2> QED
    BY <1>1, <2>1, Zenon DEF MetricsIInv, Within
<1>10. SeriesExact'
  <2>1. Total(d) = decided[d] /\ decided'[d] = decided[d] + 1
    BY <1>1, Zenon DEF Counts, MetricsIInv, SeriesExact
  <2>2. ASSUME NEW e \in Decisions
        PROVE  \/ Total(e)' = decided'[e]
               \/ DecisionKey(e) \notin DOMAIN totals' /\ ~HasRoom(totals')
    <3>1. CASE e = d
      BY <2>1, <3>1, CountedFacts, Zenon
    <3>2. CASE e # d
      <4>1. Total(e)' = Total(e) /\ decided'[e] = decided[e]
        BY <1>1, <3>2, CountedFacts, Zenon
      <4>2. CASE Total(e) = decided[e]
        BY <4>1, <4>2, Zenon
      <4>3. CASE DecisionKey(e) \notin DOMAIN totals /\ ~HasRoom(totals)
        <5>1. DOMAIN totals' = DOMAIN totals
          BY <4>3, CountedFacts, Zenon DEF Counts
        <5> QED
          BY <4>3, <5>1, Zenon DEF HasRoom
      <4> QED
        BY <4>2, <4>3, Zenon DEF MetricsIInv, SeriesExact
    <3> QED
      BY <3>1, <3>2, Zenon
  <2> QED
    BY <1>1, <2>2, Zenon DEF MetricsIInv, SeriesExact, HasRoom
<1>11. PageInv'
  BY <1>1, CountedFacts, PageStays, Zenon DEF MetricsIInv
<1> QED
  BY <1>4, <1>7, <1>8, <1>9, <1>10, <1>11, CountedBalance, Zenon DEF MetricsIInv

\* A decision whose series is new, when the totals are full, is dropped.
LEMMA DroppedKeeps ==
    ASSUME MetricsIInv, NEW t \in Recorders, NEW d \in Decisions, NEW took \in Times,
           RecordTotal(t, d, took), DecisionKey(d) \notin DOMAIN totals, ~HasRoom(totals)
    PROVE  MetricsIInv'
<1>1. /\ totals' = totals /\ decided' = [decided EXCEPT ![d] = @ + 1]
      /\ UNCHANGED <<durations, errors, counters, writer, page, reading, scrapes, failed>>
      /\ decided \in [Decisions -> Nat]
  BY Zenon DEF RecordTotal, Inc, MetricsIInv, MetricsTypes
<1>2. UNCHANGED <<step, job>>
  BY <1>1, Zenon DEF RecordTotal
<1>3. UNCHANGED recording
  BY <1>1, <1>2, Zenon DEF recording
<1>4. decided' \in [Decisions -> Nat]
  BY <1>1
<1>5. MetricsTypes'
  BY <1>1, <1>2, <1>4, Zenon DEF MetricsIInv, MetricsTypes, Histogram
<1>6. \A e \in Decisions \ {d} : decided'[e] = decided[e]
  BY <1>1, Zenon
<1>7. SeriesExact'
  BY <1>1, <1>6, Zenon DEF MetricsIInv, SeriesExact, Total, HasRoom
<1>8. PageInv'
  BY <1>1, PageStays, Zenon DEF MetricsIInv
<1>9. Within(errors)'
  BY <1>1, Zenon DEF MetricsIInv, Within
<1> QED
  BY <1>3, <1>5, <1>7, <1>8, <1>9, RecordingStays, Zenon DEF MetricsIInv

\* The durations take the call: it is no longer between the locks.
LEMMA StartKeeps ==
    ASSUME MetricsIInv, NEW t \in Recorders, StartObserve(t)
    PROVE  MetricsIInv'
<1> DEFINE k == DurationKey(job[t].of)
           h == IF k \in DOMAIN durations THEN durations[k] ELSE NewHistogram
           new == [h EXCEPT !.count = @ + 1, !.sum = @ + job[t].took]
<1>1. /\ step[t] = "durations" /\ writer = Nobody
      /\ UNCHANGED <<totals, errors, counters, page, reading, scrapes, decided, failed>>
      /\ step \in [Recorders -> {"idle", "durations", "observe"}]
      /\ job \in [Recorders -> [of : Decisions \cup {<<>>}, took : Int]]
  BY Zenon DEF StartObserve, MetricsIInv, MetricsTypes
<1>2. k \in DOMAIN durations \/ HasRoom(durations)
  BY <1>1, RoomForDurations, Zenon DEF MetricsIInv
<1>3. /\ durations' = Put(durations, k, new) /\ writer' = t
      /\ step' = [step EXCEPT ![t] = "observe"] /\ UNCHANGED job
  BY <1>2, Zenon DEF StartObserve
<1>4. DOMAIN durations' = DOMAIN durations \cup {k} /\ durations'[k] = new
      /\ \A x \in DOMAIN durations \ {k} : durations'[x] = durations[x]
  BY <1>3, Zenon DEF Put
<1>5. h \in Histogram /\ h.count = h.inf /\ h.count = Observed(k) /\ Cumulative(h)
  <2>1. CASE k \in DOMAIN durations
    <3>1. durations[k] \in Histogram /\ durations[k].inf \in Nat /\ Cumulative(durations[k])
          /\ durations[k].count = durations[k].inf + Pending(k)
      BY <2>1, Zenon DEF MetricsIInv, MetricsTypes, HistogramsInv, Histogram
    <3>2. Pending(k) = 0
      BY <1>1, Zenon DEF Pending
    <3>3. durations[k].count = durations[k].inf
      BY <3>1, <3>2
    <3> QED
      BY <2>1, <3>1, <3>3, Zenon DEF Observed
  <2>2. CASE k \notin DOMAIN durations
    <3>1. h = NewHistogram /\ Observed(k) = 0
      BY <2>2, Zenon DEF Observed
    <3>2. /\ NewHistogram.count = 0 /\ NewHistogram.inf = 0
          /\ NewHistogram.buckets = [b \in Bounds |-> 0]
      BY ONLY DEF NewHistogram
    <3>3. NewHistogram \in Histogram
      BY ONLY DEF NewHistogram, Histogram
    <3>4. Cumulative(NewHistogram)
      BY ONLY <3>2 DEF Cumulative
    <3> QED
      BY <3>1, <3>2, <3>3, <3>4, Zenon
  <2> QED
    BY <2>1, <2>2, Zenon
<1> HIDE DEF h
<1>6. job[t].took \in Int /\ job[t].of \in Decisions /\ DecisionKey(job[t].of) \in DOMAIN totals
  BY <1>1 DEF MetricsIInv, KeysCounted
<1>7. /\ new \in Histogram /\ new.count = h.count + 1 /\ new.inf = h.inf
      /\ new.buckets = h.buckets /\ h.count \in Nat /\ h.inf \in Nat
  <2>1. h.count \in Nat /\ h.sum \in Int /\ h.inf \in Nat
    BY <1>5, Zenon DEF Histogram
  <2>2. h.count + 1 \in Nat /\ h.sum + job[t].took \in Int
    BY <1>6, <2>1
  <2> QED
    BY <1>5, <2>1, <2>2, Zenon DEF Histogram
<1> HIDE DEF new, k
<1>8. /\ step'[t] = "observe"
      /\ \A u \in Recorders \ {t} : step'[u] = step[u]
  BY <1>1, <1>3
<1>9. MetricsTypes'
  <2>1. step' \in [Recorders -> {"idle", "durations", "observe"}]
    BY <1>1, <1>3, Zenon
  <2>2. \A x \in DOMAIN durations' : durations'[x] \in Histogram
    BY <1>4, <1>7, Zenon DEF MetricsIInv, MetricsTypes
  <2> QED
    BY <1>1, <1>3, <2>1, <2>2, Zenon DEF MetricsIInv, MetricsTypes, Histogram
<1>10. \A u \in Recorders : step[u] # "observe"
  BY <1>1, MetricsAssumption, Zenon DEF MetricsIInv, KeysCounted
<1>11. KeysCounted'
  <2>1. \A x \in DOMAIN durations' :
           \E e \in Decisions : DecisionKey(e) \in DOMAIN totals /\ x = DurationKey(e)
    BY <1>4, <1>6, Zenon DEF MetricsIInv, KeysCounted, k
  <2>2. ASSUME NEW u \in Recorders, step'[u] # "idle"
        PROVE  job[u].of \in Decisions /\ DecisionKey(job[u].of) \in DOMAIN totals
    <3>1. CASE u = t
      BY <1>6, <3>1, Zenon
    <3>2. CASE u # t
      BY <1>8, <2>2, <3>2, Zenon DEF MetricsIInv, KeysCounted
    <3> QED
      BY <3>1, <3>2, Zenon
  <2>3. \A u \in Recorders : (step'[u] = "observe") <=> (writer' = u)
    BY <1>3, <1>8, <1>10, Zenon
  <2>4. DurationKey(job'[writer'].of) \in DOMAIN durations'
    BY <1>3, <1>4, Zenon DEF k
  <2>5. \A x \in DOMAIN totals : \E d \in Decisions : x = DecisionKey(d)
    BY Zenon DEF MetricsIInv, KeysCounted
  <2> QED
    BY <1>1, <1>3, <2>1, <2>2, <2>3, <2>4, <2>5, Zenon DEF KeysCounted
<1>12. HistogramsInv'
  <2>1. ASSUME NEW x \in DOMAIN durations'
        PROVE  Cumulative(durations'[x]) /\ durations'[x].count = durations'[x].inf + Pending(x)'
    <3>1. CASE x = k
      <4>1. Pending(x)' = 1
        BY <1>3, <3>1, MetricsAssumption, Zenon DEF Pending, k
      <4>2. Cumulative(new)
        BY <1>5, <1>7, Zenon DEF Cumulative
      <4>3. new.count = new.inf + 1
        BY <1>5, <1>7, Zenon
      <4> QED
        BY <1>4, <3>1, <4>1, <4>2, <4>3, Zenon
    <3>2. CASE x # k
      <4>1. Pending(x)' = 0 /\ Pending(x) = 0
        BY <1>1, <1>3, <3>2, Zenon DEF Pending, k
      <4>2. x \in DOMAIN durations /\ durations'[x] = durations[x]
        BY <1>4, <3>2, Zenon
      <4> QED
        BY <4>1, <4>2, Zenon DEF MetricsIInv, HistogramsInv
    <3> QED
      BY <3>1, <3>2, Zenon
  <2> QED
    BY <2>1, Zenon DEF HistogramsInv, Cumulative
<1>13. Within(totals)' /\ Within(durations)' /\ Within(errors)'
  <2>1. Within(durations')
    BY <1>2, <1>4, WithinKey, Zenon DEF MetricsIInv
  <2> QED
    BY <1>1, <2>1, Zenon DEF MetricsIInv, Within
<1>14. Balanced'
  <2>1. ASSUME NEW x \in {DurationKey(d) : d \in Decisions}
        PROVE  /\ IsFiniteSet(Units(Tallied(x)'))
               /\ Sum(Tallied(x)') = Observed(x)' + Cardinality(Between(x)')
    <3>1. /\ IsFiniteSet(Units(Tallied(x)))
          /\ Sum(Tallied(x)) = Observed(x) + Cardinality(Between(x))
      BY Zenon DEF MetricsIInv, Balanced
    <3>2. Tallied(x)' = Tallied(x)
      BY <1>1, Zenon DEF Tallied, Total
    <3>3. CASE x # k
      <4>1. Observed(x)' = Observed(x)
        BY <1>4, <3>3, Zenon DEF Observed
      <4>2. Between(x)' = Between(x)
        BY <1>3, <1>8, <3>3 DEF Between, k
      <4> QED
        BY <3>1, <3>2, <4>1, <4>2, Zenon
    <3>4. CASE x = k
      <4>1. Observed(x)' = Observed(x) + 1 /\ Observed(x) \in Nat
        BY <1>4, <1>5, <1>7, <3>4, Zenon DEF Observed
      <4>2. Between(x)' = Between(x) \ {t} /\ t \in Between(x) /\ Between(x) \subseteq Recorders
        BY <1>1, <1>3, <1>8, <3>4 DEF Between, k
      <4>3. Cardinality(Between(x)') = Cardinality(Between(x)) - 1 /\ Cardinality(Between(x)) \in Nat
        BY <4>2, RecordersCounted, Zenon
      <4>4. Observed(x)' + Cardinality(Between(x)') = Observed(x) + Cardinality(Between(x))
        BY <4>1, <4>3
      <4> QED
        BY <3>1, <3>2, <4>4, Zenon
    <3> QED
      BY <3>3, <3>4, Zenon
  <2>2. Underway' = Underway \ {t} /\ t \in Underway /\ Underway \subseteq Recorders
    BY <1>1, <1>8 DEF Underway
  <2>3. Cardinality(Underway') = Cardinality(Underway) - 1 /\ Cardinality(Underway) \in Nat
    BY <2>2, RecordersCounted, Zenon
  <2>4. IsFiniteSet(Units(Timed)) /\ Sum(totals) = Sum(Timed) + Cardinality(Underway)
        /\ IsFiniteSet(Units(totals))
    BY Zenon DEF MetricsIInv, Balanced
  <2> DEFINE f == Timed
             g == Timed'
  <2>5. /\ DOMAIN g = DOMAIN f \cup {k} /\ g[k] = Observed(k) + 1 /\ Observed(k) \in Nat
        /\ \A x \in DOMAIN f \ {k} : g[x] = f[x]
        /\ k \in DOMAIN f => f[k] = Observed(k)
        /\ k \notin DOMAIN f => Observed(k) = 0
    BY <1>4, <1>5, <1>7, Zenon DEF Timed, Observed
  <2> HIDE DEF f, g
  <2>6. IsFiniteSet(Units(f))
    BY <2>4, Zenon DEF f
  <2>7. IsFiniteSet(Units(g)) /\ Sum(g) = Sum(f) + 1 /\ Sum(f) \in Nat
    BY <2>5, <2>6, OneUnitMore
  <2>8. Sum(totals) = Sum(g) + Cardinality(Underway')
    BY <2>3, <2>4, <2>7 DEF f
  <2> QED
    BY <1>1, <2>1, <2>4, <2>7, <2>8, Zenon DEF Balanced, g
<1>15. SeriesExact'
  BY <1>1, Zenon DEF MetricsIInv, SeriesExact, Total, HasRoom
<1>16. PageInv'
  BY <1>1, PageStays, Zenon DEF MetricsIInv
<1> QED
  BY <1>9, <1>11, <1>12, <1>13, <1>14, <1>15, <1>16, Zenon DEF MetricsIInv

\* observe is done, and the histogram whole again.
LEMMA EndKeeps ==
    ASSUME MetricsIInv, NEW t \in Recorders, EndObserve(t)
    PROVE  MetricsIInv'
<1> DEFINE k == DurationKey(job[t].of)
           h == durations[k]
           counts == [b \in Bounds |-> IF job[t].took <= b THEN h.buckets[b] + 1 ELSE h.buckets[b]]
           new == [h EXCEPT !.inf = @ + 1, !.buckets = counts]
<1>1. /\ step[t] = "observe" /\ writer' = Nobody
      /\ UNCHANGED <<totals, errors, counters, page, reading, scrapes, decided, failed>>
      /\ step \in [Recorders -> {"idle", "durations", "observe"}]
      /\ job \in [Recorders -> [of : Decisions \cup {<<>>}, took : Int]]
      /\ step' = [step EXCEPT ![t] = "idle"] /\ job' = [job EXCEPT ![t] = NoJob]
      /\ durations' = [durations EXCEPT ![k] = new]
  BY Zenon DEF EndObserve, MetricsIInv, MetricsTypes
<1>2. writer = t /\ t # Nobody
  BY <1>1, MetricsAssumption, Zenon DEF MetricsIInv, KeysCounted
<1>3. k \in DOMAIN durations
  BY <1>2, Zenon DEF MetricsIInv, KeysCounted
<1>4. DOMAIN durations' = DOMAIN durations /\ durations'[k] = new
      /\ \A x \in DOMAIN durations \ {k} : durations'[x] = durations[x]
  BY <1>1, <1>3, Zenon
<1>5. h \in Histogram /\ h.count = h.inf + 1 /\ Cumulative(h)
  <2>1. Pending(k) = 1
    BY <1>2, Zenon DEF Pending
  <2> QED
    BY <1>3, <2>1, Zenon DEF MetricsIInv, MetricsTypes, HistogramsInv
<1>6. job[t].took \in Int
  BY <1>1
<1> HIDE DEF h
<1>7. /\ h.inf \in Nat /\ h.inf + 1 \in Nat /\ h.buckets \in [Bounds -> Nat] /\ counts \in [Bounds -> Nat]
  <2>1. h.inf \in Nat /\ h.buckets \in [Bounds -> Nat]
    BY <1>5, Zenon DEF Histogram
  <2> QED
    BY <2>1
<1>8. \A b \in Bounds : /\ counts[b] <= h.inf + 1
                        /\ \A c \in Bounds : b <= c => counts[b] <= counts[c]
  <2> SUFFICES ASSUME NEW b \in Bounds
               PROVE  /\ counts[b] <= h.inf + 1
                      /\ \A c \in Bounds : b <= c => counts[b] <= counts[c]
    OBVIOUS
  <2>1. h.buckets[b] \in Nat /\ h.buckets[b] <= h.inf /\ b \in Int
    BY <1>5, <1>7, MetricsAssumption, Zenon DEF Cumulative
  <2>2. counts[b] <= h.inf + 1
    BY <1>7, <2>1
  <2>3. ASSUME NEW c \in Bounds, b <= c PROVE counts[b] <= counts[c]
    <3>1. h.buckets[c] \in Nat /\ h.buckets[b] <= h.buckets[c] /\ c \in Int
      BY <1>5, <1>7, <2>3, MetricsAssumption, Zenon DEF Cumulative
    <3> QED
      BY <1>6, <2>1, <2>3, <3>1
  <2> QED
    BY <2>2, <2>3, Zenon
<1> HIDE DEF counts
<1>9. /\ new \in Histogram /\ new.count = h.count /\ new.inf = h.inf + 1 /\ new.buckets = counts
  BY <1>5, <1>7, Zenon DEF Histogram
<1> HIDE DEF new
<1>10. Cumulative(new) /\ new.count = new.inf
  BY <1>5, <1>8, <1>9, Zenon DEF Cumulative
<1> HIDE DEF k
<1>11. /\ step'[t] = "idle"
       /\ \A u \in Recorders \ {t} : step'[u] = step[u] /\ job'[u] = job[u]
  BY <1>1
<1>12. MetricsTypes'
  <2>1. step' \in [Recorders -> {"idle", "durations", "observe"}]
    BY <1>1, Zenon
  <2>2. job' \in [Recorders -> [of : Decisions \cup {<<>>}, took : Int]]
    <3>1. NoJob \in [of : Decisions \cup {<<>>}, took : Int]
      BY DEF NoJob
    <3> QED
      BY <1>1, <3>1, Zenon
  <2>3. \A x \in DOMAIN durations' : durations'[x] \in Histogram
    BY <1>4, <1>9, Zenon DEF MetricsIInv, MetricsTypes
  <2> QED
    BY <1>1, <2>1, <2>2, <2>3, Zenon DEF MetricsIInv, MetricsTypes, Histogram
<1>13. KeysCounted'
  <2>1. \A u \in Recorders : step'[u] # "observe"
    BY <1>2, <1>11 DEF MetricsIInv, KeysCounted
  <2>2. \A u \in Recorders : writer' # u
    BY <1>1, MetricsAssumption, Zenon
  <2>3. ASSUME NEW u \in Recorders, step'[u] # "idle"
        PROVE  job'[u].of \in Decisions /\ DecisionKey(job'[u].of) \in DOMAIN totals
    BY <1>11, <2>3, Zenon DEF MetricsIInv, KeysCounted
  <2>4. /\ \A x \in DOMAIN totals' : \E d \in Decisions : x = DecisionKey(d)
        /\ \A x \in DOMAIN durations' :
              \E d \in Decisions : DecisionKey(d) \in DOMAIN totals' /\ x = DurationKey(d)
    BY <1>1, <1>4, Zenon DEF MetricsIInv, KeysCounted
  <2>5. \A u \in Recorders : step'[u] # "idle" =>
           job'[u].of \in Decisions /\ DecisionKey(job'[u].of) \in DOMAIN totals'
    BY <1>1, <2>3, Zenon
  <2>6. writer' = Nobody
    BY <1>1, Zenon
  <2> QED
    BY <2>1, <2>2, <2>4, <2>5, <2>6, Zenon DEF KeysCounted
<1>14. HistogramsInv'
  <2>1. \A x : Pending(x)' = 0
    BY <1>1, Zenon DEF Pending
  <2>2. ASSUME NEW x \in DOMAIN durations'
        PROVE  Cumulative(durations'[x]) /\ durations'[x].count = durations'[x].inf
    <3>1. CASE x = k
      BY <1>4, <1>10, <3>1, Zenon
    <3>2. CASE x # k
      <4>1. Pending(x) = 0
        BY <1>2, <3>2, Zenon DEF Pending, k
      <4>2. /\ durations'[x] = durations[x] /\ Cumulative(durations[x])
            /\ durations[x].inf \in Nat /\ durations[x].count = durations[x].inf + Pending(x)
        BY <1>4, <3>2, Zenon DEF MetricsIInv, HistogramsInv, MetricsTypes, Histogram
      <4>3. durations[x].count = durations[x].inf
        BY <4>1, <4>2
      <4> QED
        BY <4>2, <4>3, Zenon
    <3> QED
      BY <3>1, <3>2, Zenon
  <2>3. \A x \in DOMAIN durations' : durations'[x].inf = durations'[x].inf + 0
    BY <1>12 DEF MetricsTypes, Histogram
  <2>4. ASSUME NEW x \in DOMAIN durations'
        PROVE  durations'[x].count = durations'[x].inf + Pending(x)'
    BY <2>1, <2>2, <2>3, Zenon
  <2> QED
    BY <2>2, <2>4, Zenon DEF HistogramsInv, Cumulative
<1>15. Within(totals)' /\ Within(durations)' /\ Within(errors)'
  BY <1>1, <1>4, Zenon DEF MetricsIInv, Within
<1>16. Balanced'
  <2>1. \A x : Tallied(x)' = Tallied(x)
    BY <1>1, Zenon DEF Tallied, Total
  <2>2. \A x : Observed(x)' = Observed(x)
    <3>1. durations'[k].count = durations[k].count
      BY <1>4, <1>9, Zenon DEF h
    <3> QED
      BY <1>4, <3>1, Zenon DEF Observed
  <2>3. \A x : Between(x)' = Between(x)
    BY <1>1, <1>11 DEF Between
  <2>4. Underway' = Underway
    BY <1>1, <1>11 DEF Underway
  <2>5. Timed' = Timed
    <3>1. \A x \in DOMAIN durations : durations'[x].count = durations[x].count
      BY <1>4, <1>9, Zenon DEF h
    <3> QED
      BY <1>4, <3>1, Zenon DEF Timed
  <2> QED
    BY <1>1, <2>1, <2>2, <2>3, <2>4, <2>5, Zenon DEF MetricsIInv, Balanced
<1>17. SeriesExact'
  BY <1>1, Zenon DEF MetricsIInv, SeriesExact, Total, HasRoom
<1>18. PageInv'
  BY <1>1, PageStays, Zenon DEF MetricsIInv
<1> QED
  BY <1>12, <1>13, <1>14, <1>15, <1>16, <1>17, <1>18, Zenon DEF MetricsIInv

\* An error counted, or dropped for want of room.
LEMMA ErrorCounted ==
    ASSUME MetricsIInv, NEW f \in Fallbacks, RecordPdpError(f)
    PROVE  MetricsIInv'
<1>1. /\ errors' = Inc(errors, f) /\ failed' = [failed EXCEPT ![f] = @ + 1]
      /\ UNCHANGED <<totals, durations, counters, step, job, writer, page, reading, scrapes, decided>>
      /\ failed \in [Fallbacks -> Nat] /\ \A x \in DOMAIN errors : errors[x] \in Nat
  BY Zenon DEF RecordPdpError, MetricsIInv, MetricsTypes
<1>2. failed' \in [Fallbacks -> Nat] /\ failed'[f] = failed[f] + 1
      /\ \A e \in Fallbacks \ {f} : failed'[e] = failed[e]
  BY <1>1
<1>3. UNCHANGED recording
  BY <1>1, Zenon DEF recording
<1>4. PageInv'
  BY <1>1, PageStays, Zenon DEF MetricsIInv
<1>5. \A d \in Decisions : \/ Total(d)' = decided'[d]
                           \/ DecisionKey(d) \notin DOMAIN totals' /\ ~HasRoom(totals')
  BY <1>1, Zenon DEF MetricsIInv, SeriesExact, Total, HasRoom
<1> DEFINE Exact(e) == IF e \in DOMAIN errors THEN errors[e] = failed[e]
                       ELSE failed[e] = 0 \/ ~HasRoom(errors)
<1>6. \A e \in Fallbacks : Exact(e)
  BY Zenon DEF MetricsIInv, SeriesExact
<1>7. /\ \A x \in DOMAIN errors' : errors'[x] \in Nat
      /\ Within(errors') /\ \A e \in Fallbacks : Exact(e)'
  <2>1. CASE f \in DOMAIN errors \/ HasRoom(errors)
    <3>1. PICK n \in Nat :
             /\ DOMAIN errors' = DOMAIN errors \cup {f} /\ errors'[f] = n + 1
             /\ \A x \in DOMAIN errors \ {f} : errors'[x] = errors[x]
             /\ f \in DOMAIN errors => errors[f] = n
             /\ f \notin DOMAIN errors => n = 0
      <4>1. \E n \in Nat :
             /\ DOMAIN Inc(errors, f) = DOMAIN errors \cup {f} /\ Inc(errors, f)[f] = n + 1
             /\ \A x \in DOMAIN errors \ {f} : Inc(errors, f)[x] = errors[x]
             /\ f \in DOMAIN errors => errors[f] = n
             /\ f \notin DOMAIN errors => n = 0
        BY <1>1, <2>1, IncAdds, Zenon
      <4> QED
        BY <1>1, <4>1, Zenon
    <3>2. n + 1 \in Nat
      OBVIOUS
    <3>3. \A x \in DOMAIN errors' : errors'[x] \in Nat
      BY <1>1, <3>1, <3>2, Zenon
    <3>4. Within(errors')
      BY <2>1, <3>1, WithinKey, Zenon DEF MetricsIInv
    <3>5. failed[f] = n
      BY <1>6, <2>1, <3>1, Zenon
    <3>6. ASSUME NEW e \in Fallbacks PROVE Exact(e)'
      <4>1. CASE e = f
        BY <1>2, <3>1, <3>5, <4>1, Zenon
      <4>2. CASE e # f /\ e \in DOMAIN errors
        BY <1>2, <1>6, <3>1, <4>2, Zenon
      <4>3. CASE e # f /\ e \notin DOMAIN errors
        <5>1. ~HasRoom(errors) => DOMAIN errors' = DOMAIN errors
          BY <2>1, <3>1, Zenon
        <5> QED
          BY <1>2, <1>6, <3>1, <4>3, <5>1, Zenon DEF HasRoom
      <4> QED
        BY <4>1, <4>2, <4>3, Zenon
    <3> QED
      BY <3>3, <3>4, <3>6, Zenon
  <2>2. CASE ~(f \in DOMAIN errors \/ HasRoom(errors))
    <3>1. errors' = errors
      BY <1>1, <2>2, Zenon DEF Inc
    <3>2. Within(errors')
      BY <3>1, Zenon DEF MetricsIInv
    <3>3. ASSUME NEW e \in Fallbacks PROVE Exact(e)'
      BY <1>2, <1>6, <2>2, <3>1, Zenon DEF HasRoom
    <3> QED
      BY <1>1, <3>1, <3>2, <3>3, Zenon
  <2> QED
    BY <2>1, <2>2, Zenon
<1>8. SeriesExact'
  BY <1>5, <1>7, Zenon DEF SeriesExact
<1>9. MetricsTypes'
  BY <1>1, <1>2, <1>7, Zenon DEF MetricsIInv, MetricsTypes, Histogram
<1> QED
  BY <1>3, <1>4, <1>7, <1>8, <1>9, RecordingStays, Zenon DEF MetricsIInv

\* What leaves the registry and the page alone.
LEMMA MetricsStay ==
    ASSUME MetricsIInv,
           UNCHANGED <<totals, durations, errors, step, job, writer, page, reading, decided, failed>>
    PROVE  MetricsIInv'
<1>1. UNCHANGED recording
  BY Zenon DEF recording
<1>2. MetricsTypes'
  BY Zenon DEF MetricsIInv, MetricsTypes, Histogram
<1>3. Within(errors)'
  BY Zenon DEF MetricsIInv, Within
<1>4. SeriesExact'
  BY Zenon DEF MetricsIInv, SeriesExact, Total, HasRoom
<1>5. PageInv'
  BY PageStays, Zenon DEF MetricsIInv
<1> QED
  BY <1>1, <1>2, <1>3, <1>4, <1>5, RecordingStays, Zenon DEF MetricsIInv

\* A step of a scrape, if its page is right.
LEMMA ReadingKeeps ==
    ASSUME MetricsIInv, NEW now, NEW next, Reading(now, next), PageInv',
           DOMAIN page' = {"totals", "durations", "errors", "counters"}
    PROVE  MetricsIInv'
<1>1. UNCHANGED <<totals, durations, errors, counters, step, job, writer, decided, failed>>
  BY Zenon DEF Reading
<1>2. UNCHANGED recording
  BY <1>1, Zenon DEF recording
<1>3. MetricsTypes'
  BY <1>1, Zenon DEF MetricsIInv, MetricsTypes, Histogram
<1>4. Within(errors)'
  BY <1>1, Zenon DEF MetricsIInv, Within
<1>5. SeriesExact'
  BY <1>1, Zenon DEF MetricsIInv, SeriesExact, Total, HasRoom
<1> QED
  BY <1>2, <1>3, <1>4, <1>5, RecordingStays, Zenon DEF MetricsIInv

\* A page has a line for each key of a map.
LEMMA ShownValues ==
    ASSUME NEW map, NEW n
    PROVE  DOMAIN Shown(map, n) = DOMAIN map /\ \A k \in DOMAIN map : Shown(map, n)[k].value = map[k]
  BY DEF Shown

LEMMA TotalsRead ==
    ASSUME MetricsIInv, ReadTotals
    PROVE  MetricsIInv'
<1>1. /\ Reading("idle", "durations") /\ reading' = "durations" /\ totals' = totals
      /\ page' = [Blank EXCEPT !.totals = Shown(totals, 4)]
  BY Zenon DEF ReadTotals, Reading
<1>2. /\ page'.totals = Shown(totals, 4) /\ page'.durations = <<>>
      /\ DOMAIN page' = {"totals", "durations", "errors", "counters"}
  BY <1>1 DEF Blank
<1> DEFINE shown == [k \in DOMAIN page.totals |-> page.totals[k].value]
<1>3. DOMAIN shown' = DOMAIN totals /\ \A k \in DOMAIN totals : shown'[k] = totals[k]
  <2>1. DOMAIN Shown(totals, 4) = DOMAIN totals
        /\ \A k \in DOMAIN totals : Shown(totals, 4)[k].value = totals[k]
    BY ShownValues
  <2>2. DOMAIN page'.totals = DOMAIN totals
        /\ \A k \in DOMAIN totals : page'.totals[k].value = totals[k]
    BY <1>2, <2>1, Zenon
  <2> QED
    BY <2>2, Zenon
<1> HIDE DEF shown
<1>4. ASSUME NEW u \in Units(shown') PROVE u \in Units(totals)
  <2>1. PICK x \in DOMAIN shown' : \E i \in 1 .. shown'[x] : u = <<x, i>>
    BY <1>4, UnitsPairs
  <2>2. PICK i \in 1 .. shown'[x] : u = <<x, i>>
    BY <2>1, Zenon
  <2>3. x \in DOMAIN totals /\ i \in 1 .. totals[x]
    BY <1>3, <2>1, <2>2, Zenon
  <2> QED
    BY <2>2, <2>3, InUnits
<1>5. PageLagBounded'
  BY <1>1 DEF PageLagBounded
<1>6. HistogramsWhole'
  <2>1. DOMAIN page'.durations = {}
    BY <1>2
  <2> QED
    BY <2>1, Zenon DEF HistogramsWhole
<1>7. Units(shown') \subseteq Units(totals')
  BY <1>1, <1>4, Zenon
<1>8. PageInv'
  BY <1>2, <1>5, <1>6, <1>7, Zenon DEF PageInv, shown
<1> QED
  BY <1>1, <1>2, <1>8, ReadingKeeps, Zenon

\* The durations, read after the totals and while nobody writes them, lack no
\* more calls than there are recorders.
LEMMA DurationsRead ==
    ASSUME MetricsIInv, ReadDurations
    PROVE  MetricsIInv'
<1>1. /\ Reading("durations", "rest") /\ reading = "durations" /\ reading' = "rest"
      /\ writer = Nobody
      /\ page' = [page EXCEPT !.durations = Shown(durations, 2)]
  BY Zenon DEF ReadDurations, Reading
<1>2. DOMAIN page = {"totals", "durations", "errors", "counters"}
  BY Zenon DEF MetricsIInv, MetricsTypes
<1>3. page'.totals = page.totals /\ page'.durations = Shown(durations, 2)
      /\ DOMAIN page' = {"totals", "durations", "errors", "counters"}
  BY <1>1, <1>2
<1> DEFINE decisions == [k \in DOMAIN page.totals |-> page.totals[k].value]
           timed == [k \in DOMAIN page.durations |-> page.durations[k].value.count]
<1>4. decisions' = decisions /\ Units(decisions) \subseteq Units(totals)
  BY <1>1, <1>3, Zenon DEF MetricsIInv, PageInv
<1>5. timed' = Timed
  <2>1. DOMAIN page'.durations = DOMAIN durations
        /\ \A k \in DOMAIN durations : page'.durations[k].value = durations[k]
    <3>1. DOMAIN Shown(durations, 2) = DOMAIN durations
          /\ \A k \in DOMAIN durations : Shown(durations, 2)[k].value = durations[k]
      BY ShownValues
    <3> QED
      BY <1>3, <3>1, Zenon
  <2> QED
    BY <2>1, Zenon DEF Timed
<1> HIDE DEF decisions, timed
<1>6. /\ IsFiniteSet(Units(totals)) /\ IsFiniteSet(Units(Timed))
      /\ Sum(totals) = Sum(Timed) + Cardinality(Underway)
  BY Zenon DEF MetricsIInv, Balanced
<1>7. Sum(decisions) <= Sum(totals)
  BY <1>4, <1>6, FS_Subset DEF Sum
<1>8. IsFiniteSet(Units(decisions))
  BY <1>4, <1>6, FS_Subset, Zenon
<1>9. Sum(decisions) \in Nat /\ Sum(Timed) \in Nat /\ Sum(totals) \in Nat
  BY <1>6, <1>8, FS_CardinalityType, Zenon DEF Sum
<1>10. /\ Cardinality(Underway) <= Cardinality(Recorders)
       /\ Cardinality(Underway) \in Nat /\ Cardinality(Recorders) \in Nat
  <2>1. Underway \subseteq Recorders /\ IsFiniteSet(Recorders)
    BY MetricsAssumption, Zenon DEF Underway
  <2> QED
    BY <2>1, FS_Subset, FS_CardinalityType, Zenon
<1>11. Sum(decisions) - Sum(Timed) <= Cardinality(Recorders)
  BY <1>6, <1>7, <1>9, <1>10
<1>12. Sum(decisions') - Sum(timed') <= Cardinality(Recorders)
  BY <1>4, <1>5, <1>11, Zenon
<1>13. PageLagBounded'
  BY <1>12, Zenon DEF PageLagBounded, decisions, timed
<1>14. HistogramsWhole'
  <2>1. ASSUME NEW k \in DOMAIN durations
        PROVE  Cumulative(durations[k]) /\ durations[k].inf = durations[k].count
    <3>1. /\ Cumulative(durations[k]) /\ durations[k].inf \in Nat
          /\ durations[k].count = durations[k].inf + Pending(k)
      BY Zenon DEF MetricsIInv, HistogramsInv, MetricsTypes, Histogram
    <3>2. Pending(k) = 0
      BY <1>1, Zenon DEF Pending
    <3>3. durations[k].inf = durations[k].count
      BY <3>1, <3>2
    <3> QED
      BY <3>1, <3>3, Zenon
  <2>2. DOMAIN page'.durations = DOMAIN durations
        /\ \A k \in DOMAIN durations : page'.durations[k].value = durations[k]
    <3>1. DOMAIN Shown(durations, 2) = DOMAIN durations
          /\ \A k \in DOMAIN durations : Shown(durations, 2)[k].value = durations[k]
      BY ShownValues
    <3> QED
      BY <1>3, <3>1, Zenon
  <2> QED
    BY <2>1, <2>2, Zenon DEF HistogramsWhole, Cumulative
<1>15. PageInv'
  BY <1>1, <1>13, <1>14 DEF PageInv
<1> QED
  BY <1>1, <1>3, <1>15, ReadingKeeps, Zenon

LEMMA RestRead ==
    ASSUME MetricsIInv, ReadRest
    PROVE  MetricsIInv'
<1>1. /\ Reading("rest", "idle") /\ reading = "rest" /\ reading' = "idle"
      /\ page' = [page EXCEPT !.errors = Shown(errors, 1), !.counters = counters]
  BY Zenon DEF ReadRest, Reading
<1>2. DOMAIN page = {"totals", "durations", "errors", "counters"}
  BY Zenon DEF MetricsIInv, MetricsTypes
<1>3. page'.totals = page.totals /\ page'.durations = page.durations
      /\ DOMAIN page' = {"totals", "durations", "errors", "counters"}
  BY <1>1, <1>2
<1>4. PageLagBounded'
  BY <1>1, <1>3, Zenon DEF MetricsIInv, PageInv, PageLagBounded
<1>5. HistogramsWhole'
  BY <1>3, Zenon DEF MetricsIInv, PageInv, HistogramsWhole, Cumulative
<1>6. PageInv'
  BY <1>1, <1>4, <1>5 DEF PageInv
<1> QED
  BY <1>1, <1>3, <1>6, ReadingKeeps, Zenon

LEMMA MetricsInitially == MetricsInit => MetricsIInv
<1> SUFFICES ASSUME MetricsInit PROVE MetricsIInv
  BY Zenon
<1>1. DOMAIN totals = {} /\ DOMAIN durations = {} /\ DOMAIN errors = {} /\ writer = Nobody
      /\ DOMAIN page.totals = {} /\ DOMAIN page.durations = {} /\ reading = "idle"
      /\ DOMAIN page = {"totals", "durations", "errors", "counters"}
  BY DEF MetricsInit, Blank
<1>2. step = [t \in Recorders |-> "idle"] /\ job = [t \in Recorders |-> NoJob]
      /\ decided = [d \in Decisions |-> 0] /\ failed = [f \in Fallbacks |-> 0]
  BY Zenon DEF MetricsInit
<1>3. MetricsTypes
  <2>1. step \in [Recorders -> {"idle", "durations", "observe"}]
    BY <1>2, Zenon
  <2>2. job \in [Recorders -> [of : Decisions \cup {<<>>}, took : Int]]
    BY <1>2 DEF NoJob
  <2>3. decided \in [Decisions -> Nat] /\ failed \in [Fallbacks -> Nat]
    BY <1>2
  <2> QED
    BY <1>1, <2>1, <2>2, <2>3, Zenon DEF MetricsTypes
<1>4. KeysCounted
  <2>1. \A t \in Recorders : step[t] = "idle" /\ writer # t
    BY <1>1, <1>2, MetricsAssumption, Zenon
  <2>2. \A t \in Recorders : step[t] # "observe"
    BY <2>1
  <2> QED
    BY <1>1, <2>1, <2>2, Zenon DEF KeysCounted
<1>5. HistogramsInv
  BY <1>1, Zenon DEF HistogramsInv
<1>6. IsFiniteSet({}) /\ Cardinality({}) = 0
  BY FS_EmptySet, Zenon
<1>7. 0 <= LabelCap
  BY MetricsAssumption
<1>8. Within(totals) /\ Within(durations) /\ Within(errors)
  BY <1>1, <1>6, <1>7, Zenon DEF Within
<1>9. ASSUME NEW f, \A x \in DOMAIN f : f[x] = 0 PROVE Units(f) = {} /\ Sum(f) = 0
  <2>1. Units(f) = {}
    BY <1>9 DEF Units
  <2> QED
    BY <1>6, <2>1, Zenon DEF Sum
<1>10. Balanced
  <2>1. ASSUME NEW k
        PROVE  Units(Tallied(k)) = {} /\ Sum(Tallied(k)) = 0 /\ Observed(k) = 0 /\ Between(k) = {}
    <3>1. \A d \in DOMAIN Tallied(k) : Tallied(k)[d] = 0
      BY <1>1, Zenon DEF Tallied, Total
    <3>2. Observed(k) = 0
      BY <1>1, Zenon DEF Observed
    <3>3. Between(k) = {}
      BY <1>2 DEF Between
    <3> QED
      BY <1>9, <3>1, <3>2, <3>3, Zenon
  <2>2. Units(totals) = {} /\ Sum(totals) = 0
    BY <1>1, <1>9, Zenon
  <2>3. Units(Timed) = {} /\ Sum(Timed) = 0
    <3>1. DOMAIN Timed = {}
      BY <1>1, Zenon DEF Timed
    <3> QED
      BY <1>9, <3>1, Zenon
  <2>4. Underway = {}
    BY <1>2 DEF Underway
  <2>5. 0 = 0 + 0
    OBVIOUS
  <2> QED
    BY <1>6, <2>1, <2>2, <2>3, <2>4, <2>5, Zenon DEF Balanced
<1>11. SeriesExact
  <2>1. \A d \in Decisions : Total(d) = decided[d]
    BY <1>1, <1>2, Zenon DEF Total
  <2> QED
    BY <1>1, <1>2, <2>1, Zenon DEF SeriesExact
<1>12. PageInv
  <2> DEFINE decisions == [k \in DOMAIN page.totals |-> page.totals[k].value]
             timed == [k \in DOMAIN page.durations |-> page.durations[k].value.count]
  <2>1. DOMAIN decisions = {} /\ DOMAIN timed = {}
    BY <1>1, Zenon
  <2> HIDE DEF decisions, timed
  <2>2. Sum(decisions) = 0 /\ Sum(timed) = 0
    BY <1>9, <2>1, Zenon
  <2>3. Cardinality(Recorders) \in Nat
    BY MetricsAssumption, FS_CardinalityType, Zenon
  <2>4. Sum(decisions) - Sum(timed) <= Cardinality(Recorders)
    BY <2>2, <2>3
  <2>5. PageLagBounded
    BY <2>4, Zenon DEF PageLagBounded, decisions, timed
  <2> QED
    BY <1>1, <2>5 DEF PageInv, HistogramsWhole
<1> QED
  BY <1>3, <1>4, <1>5, <1>8, <1>10, <1>11, <1>12, Zenon DEF MetricsIInv

LEMMA MetricsKept == MetricsIInv /\ [MetricsNext]_metricsVars => MetricsIInv'
<1> SUFFICES ASSUME MetricsIInv, [MetricsNext]_metricsVars PROVE MetricsIInv'
  BY Zenon
<1>1. ASSUME NEW t \in Recorders, NEW d \in Decisions, NEW took \in Times, RecordTotal(t, d, took)
      PROVE  MetricsIInv'
  <2>1. CASE DecisionKey(d) \in DOMAIN totals \/ HasRoom(totals)
    BY <1>1, <2>1, CountedKeeps, Zenon DEF Counts
  <2>2. CASE ~(DecisionKey(d) \in DOMAIN totals \/ HasRoom(totals))
    BY <1>1, <2>2, DroppedKeeps, Zenon
  <2> QED
    BY <2>1, <2>2, Zenon
<1>2. ASSUME NEW t \in Recorders, StartObserve(t) PROVE MetricsIInv'
  BY <1>2, StartKeeps, Zenon
<1>3. ASSUME NEW t \in Recorders, EndObserve(t) PROVE MetricsIInv'
  BY <1>3, EndKeeps, Zenon
<1>4. ASSUME NEW f \in Fallbacks, RecordPdpError(f) PROVE MetricsIInv'
  BY <1>4, ErrorCounted, Zenon
<1>5. ASSUME NEW n \in Names, RecordCounter(n) PROVE MetricsIInv'
  BY <1>5, MetricsStay, Zenon DEF RecordCounter
<1>6. CASE RenderPrometheus
  BY <1>6, TotalsRead, DurationsRead, RestRead, Zenon DEF RenderPrometheus
<1>7. CASE UNCHANGED metricsVars
  BY <1>7, MetricsStay, Zenon DEF metricsVars
<1> QED
  BY <1>1, <1>2, <1>3, <1>4, <1>5, <1>6, <1>7, Zenon DEF MetricsNext

\* For any number of request threads, any labels without the separator, any cap
\* and any bucket bounds: the registry's maps keep to the cap, its totals and its
\* histograms agree up to the calls between the two locks, the series on display
\* are exact, no page lacks more durations than there are recorders, and no page
\* shows a histogram half observed (metrics.rs: record_decision, observe,
\* record_pdp_error, render_prometheus).
THEOREM MetricsStayTrue == MetricsSpec => []MetricsTrue
<1>1. MetricsIInv => MetricsTrue
  <2> SUFFICES ASSUME MetricsIInv PROVE MetricsTrue
    BY Zenon
  <2>1. writer = Nobody => \A k \in DOMAIN durations : durations[k].inf = durations[k].count
    <3> SUFFICES ASSUME writer = Nobody, NEW k \in DOMAIN durations
                 PROVE  durations[k].inf = durations[k].count
      BY Zenon
    <3>1. durations[k].inf \in Nat /\ durations[k].count = durations[k].inf + Pending(k)
      BY Zenon DEF MetricsIInv, HistogramsInv, MetricsTypes, Histogram
    <3>2. Pending(k) = 0
      BY Zenon DEF Pending
    <3> QED
      BY <3>1, <3>2
  <2>2. MetricsInv
    BY <2>1, Zenon DEF MetricsIInv, MetricsInv, Within, KeysCounted, Balanced
  <2> QED
    BY <2>2, Zenon DEF MetricsIInv, MetricsTrue, PageInv
<1> QED
  BY <1>1, MetricsInitially, MetricsKept, PTL DEF MetricsSpec
=============================================================================
