----------------------------- MODULE PdpServer ------------------------------
(***************************************************************************)
(* Requests through the decision point: authentication on a bounded pool   *)
(* of password-hash jobs (auth_layer.rs), the evaluation handlers of       *)
(* AuthZEN over HTTP (authzen.rs) and of gRPC (grpc.rs), policy work and   *)
(* audit appends on a bounded pool of blocking jobs, with policy reloads   *)
(* and clients that hang up at any moment.                                 *)
(*                                                                         *)
(* An HTTP or gRPC evaluation goes the way of a batch of one, and is also  *)
(* counted.  A job that runs on a blocking thread is not cancelled when    *)
(* its client hangs up: it finishes, holding its permit.  What the         *)
(* policies decide is left open; a decision carries the generation of the  *)
(* policies it was made with.                                              *)
(***************************************************************************)
EXTENDS Integers, Sequences, FiniteSets

CONSTANTS
    Requests,
    AuthModes,   \* whether the AuthLayer may be Disabled (FALSE) or not (TRUE)
    AuditModes,  \* the kinds of AuditWriter: "sync", "async", "none"
    AuthSlots,   \* MAX_CONCURRENT_API_KEY_VERIFICATIONS
    WorkSlots,   \* MAX_CONCURRENT_PDP_WORK_ITEMS
    MaxBatch,    \* MAX_BATCH_EVALUATIONS
    MaxReloads   \* bound on the policy reloads

ASSUME PdpServerAssumption ==
    /\ IsFiniteSet(Requests)
    /\ AuthSlots \in Nat /\ WorkSlots \in Nat /\ MaxBatch \in Nat /\ MaxReloads \in Nat
    /\ AuditModes \subseteq {"sync", "async", "none"} /\ AuthModes \subseteq BOOLEAN

VARIABLES
    config,             \* the AuthLayer and the AuditWriter run was given
    serving,            \* the generation AuthorizerHandle.current holds
    authFree, workFree, \* free permits of the two semaphores
    place,                 \* where each request is
    gone,               \* requests whose client hung up on a running job
    batch,              \* requests to the batch endpoint
    size, semantics,    \* evaluations of the request, evaluation_semantics
    since,              \* the generation serving when the request arrived
    gen,                \* the generation its handler pinned
    effect,             \* the decision being appended
    answers,            \* the responses so far
    reply,              \* the status sent, "none" before that
    trail,              \* the decisions in the audit log
    metrics             \* requests that record_decision or record_pdp_error counted

serviceVars == <<config, serving, authFree, workFree, place, gone, batch, size, semantics,
          since, gen, effect, answers, reply, trail, metrics>>
fixed == <<config, serving, batch, size, semantics, since>>

Semantics == {"execute_all", "deny_on_first_deny", "permit_on_first_permit"}
Effects == {"allow", "deny"}

\* The evaluation a request is at.
Item(r) == Len(answers[r]) + 1

\* Mutant: each evaluation takes the snapshot that serves at that moment.
SnapshotNow(r) == serving

\* The snapshot a request is evaluated against.
Snapshot(r) == gen[r]

ServiceInit ==
    /\ config \in [auth: AuthModes, audit: AuditModes]
    /\ serving = 0 /\ authFree = AuthSlots /\ workFree = WorkSlots
    /\ place = [r \in Requests |-> "new"]
    /\ gone = {}
    /\ size = [r \in Requests |-> 0]
    /\ semantics = [r \in Requests |-> "execute_all"]
    /\ since = [r \in Requests |-> 0] /\ gen = [r \in Requests |-> 0]
    /\ effect = [r \in Requests |-> "deny"]
    /\ answers = [r \in Requests |-> <<>>]
    /\ reply = [r \in Requests |-> "none"]
    /\ trail = {} /\ metrics = {} /\ batch = {}

MoveTo(r, label) == place' = [place EXCEPT ![r] = label]

\* The handler returns; a response to a client that hung up is dropped.
Respond(r, status) ==
    /\ MoveTo(r, "done")
    /\ reply' = [reply EXCEPT ![r] = IF r \in gone THEN "gone" ELSE status]

\* Mutant: the metric is recorded by the job, which runs on without its handler.
CountInJob(r, kind) == metrics' = metrics \cup {<<r, kind>>}

\* A metric recorded by a handler that is still there.
Count(r, kind) == metrics' = IF r \in gone THEN metrics ELSE metrics \cup {<<r, kind>>}

\* report_pdp_work_failure.
Refuse(r, status) == Respond(r, status) /\ Count(r, "error")

-----------------------------------------------------------------------------
(* Authentication. *)

\* authenticate_bearer_async: a malformed token is refused at once, no free
\* slot is 503, otherwise the hash is verified on a blocking thread.
Authenticate(r) ==
    \/ ~config.auth /\ MoveTo(r, "enter") /\ UNCHANGED <<authFree, reply>>
    \/ config.auth /\ Respond(r, "401") /\ UNCHANGED authFree
    \/ config.auth /\ authFree = 0 /\ Respond(r, "503") /\ UNCHANGED authFree
    \/ /\ config.auth /\ authFree > 0
       /\ authFree' = authFree - 1
       /\ MoveTo(r, "verify") /\ UNCHANGED reply

\* A request arrives with one evaluation, or with a batch of n.
Arrive(r, n, s) ==
    /\ place[r] = "new"
    /\ \/ batch' = batch \cup {r}
       \/ n = 1 /\ s = "execute_all" /\ UNCHANGED batch
    /\ size' = [size EXCEPT ![r] = n]
    /\ semantics' = [semantics EXCEPT ![r] = s]
    /\ since' = [since EXCEPT ![r] = serving]
    /\ Authenticate(r)
    /\ UNCHANGED <<config, serving, workFree, gone, gen, effect, answers, trail, metrics>>

\* Mutant: the permit is returned by the handler, and not without it.
VerifiedByHandler(r) ==
    /\ place[r] = "verify" /\ r \notin gone
    /\ authFree' = authFree + 1
    /\ \/ MoveTo(r, "enter") /\ UNCHANGED reply
       \/ \E status \in {"401", "403", "503"} : Respond(r, status)
    /\ UNCHANGED <<fixed, workFree, gone, gen, effect, answers, trail, metrics>>

\* The job ends: the key is good, unknown, lacks the scope, or it panicked.
KeyVerified(r) ==
    /\ place[r] = "verify"
    /\ authFree' = authFree + 1
    /\ \/ r \notin gone /\ MoveTo(r, "enter") /\ UNCHANGED reply
       \/ \E status \in {"401", "403", "503"} : Respond(r, status)
    /\ UNCHANGED <<fixed, workFree, gone, gen, effect, answers, trail, metrics>>

-----------------------------------------------------------------------------
(* The handlers. *)

\* The body is parsed and the batch's size checked, then one snapshot pinned.
Enter(r) ==
    /\ place[r] = "enter"
    /\ \/ Respond(r, "400") /\ UNCHANGED gen
       \/ size[r] > MaxBatch /\ Respond(r, "413") /\ UNCHANGED gen
       \/ /\ size[r] <= MaxBatch
          /\ gen' = [gen EXCEPT ![r] = serving]
          /\ MoveTo(r, "handle") /\ UNCHANGED reply
    /\ UNCHANGED <<fixed, authFree, workFree, gone, effect, answers, trail, metrics>>

\* The next evaluation is mapped and checked against the caller's identity,
\* and a permit taken for its work; after the last one the batch is answered.
Evaluate(r) ==
    /\ place[r] = "handle"
    /\ \/ /\ Item(r) > size[r] /\ Respond(r, "200")
          /\ UNCHANGED <<workFree, metrics>>
       \/ /\ Item(r) <= size[r]
          /\ \E status \in {"403", "400"} : Respond(r, status)
          /\ UNCHANGED <<workFree, metrics>>
       \/ /\ Item(r) <= size[r] /\ workFree = 0
          /\ Refuse(r, "503") /\ UNCHANGED workFree
       \/ /\ Item(r) <= size[r] /\ workFree > 0
          /\ workFree' = workFree - 1
          /\ MoveTo(r, "decide") /\ UNCHANGED <<reply, metrics>>
    /\ UNCHANGED <<fixed, authFree, gone, gen, effect, answers, trail>>

\* Mutant: deny_on_first_deny goes on after a deny.
StopsOnPermitOnly(r, e) == semantics[r] = "permit_on_first_permit" /\ e = "allow"

\* Whether the batch ends with the effect e.
Stops(r, e) ==
    \/ semantics[r] = "deny_on_first_deny" /\ e = "deny"
    \/ semantics[r] = "permit_on_first_permit" /\ e = "allow"

\* A decision made, and persisted where an audit writer is configured,
\* becomes a response.
Accept(r, e) ==
    /\ answers' = [answers EXCEPT ![r] = Append(@, [effect |-> e, gen |-> Snapshot(r)])]
    /\ IF r \in gone \/ r \notin batch \/ Stops(r, e)
       THEN Respond(r, "200")
       ELSE MoveTo(r, "handle") /\ UNCHANGED reply
    /\ IF r \in batch THEN UNCHANGED metrics ELSE Count(r, "decision")

\* The evaluation fails: in the entities, in the engine, or in a panic.
DecideFails(r) ==
    /\ place[r] = "decide"
    /\ workFree' = workFree + 1
    /\ \E status \in {"400", "500"} : Refuse(r, status)
    /\ UNCHANGED <<fixed, authFree, gone, gen, effect, answers, trail>>

\* The evaluation ends with a decision.  The permit stays with a decision to
\* be appended; nobody appends it when the client has hung up.
Decide(r, e) ==
    /\ place[r] = "decide"
    /\ effect' = [effect EXCEPT ![r] = e]
    /\ \/ /\ r \in gone /\ Respond(r, "gone")
          /\ workFree' = workFree + 1 /\ UNCHANGED <<answers, metrics>>
       \/ /\ r \notin gone /\ config.audit = "none"
          /\ workFree' = workFree + 1 /\ Accept(r, e)
       \/ /\ r \notin gone /\ config.audit # "none"
          /\ MoveTo(r, IF config.audit = "sync" THEN "append" ELSE "await")
          /\ UNCHANGED <<workFree, answers, reply, metrics>>
    /\ UNCHANGED <<fixed, authFree, gone, gen, trail>>

Entry(r) == [req |-> r, item |-> Item(r), effect |-> effect[r], gen |-> Snapshot(r)]

\* Mutant: a failed append is answered like one that succeeded.
AppendIgnored(r) == trail' \in {trail, trail \cup {Entry(r)}}

\* append_decision returns Ok.
Persist(r) == trail' = trail \cup {Entry(r)}

\* The append, on its blocking thread or awaited, succeeds.
Appended(r) ==
    /\ place[r] \in {"append", "await"}
    /\ Persist(r)
    /\ workFree' = workFree + 1
    /\ Accept(r, effect[r])
    /\ UNCHANGED <<fixed, authFree, gone, gen, effect>>

\* Mutant: the permit of a failed append is lost.
PermitsAfterFailureLost == workFree

PermitsAfterFailure == workFree + 1

\* The append fails or panics, or an awaited one runs into
\* AUDIT_APPEND_TIMEOUT: the record may have been written.
AppendFailed(r) ==
    /\ place[r] \in {"append", "await"}
    /\ trail' \in {trail, trail \cup {Entry(r)}}
    /\ workFree' = PermitsAfterFailure
    /\ Refuse(r, "500")
    /\ UNCHANGED <<fixed, authFree, gone, gen, effect, answers>>

-----------------------------------------------------------------------------
(* The environment. *)

\* The client hangs up and the handler's future is dropped.  A blocking job
\* runs on; an awaited append is cancelled, whatever has become of it.
HangUp(r) ==
    /\ r \notin gone
    /\ \/ /\ place[r] \in {"verify", "decide", "append"}
          /\ gone' = gone \cup {r}
          /\ UNCHANGED <<place, reply, workFree, trail>>
       \/ /\ place[r] \in {"enter", "handle"}
          /\ Respond(r, "gone") /\ UNCHANGED <<gone, workFree, trail>>
       \/ /\ place[r] = "await"
          /\ Respond(r, "gone")
          /\ workFree' = workFree + 1
          /\ trail' \in {trail, trail \cup {Entry(r)}}
          /\ UNCHANGED gone
    /\ UNCHANGED <<fixed, authFree, gen, effect, answers, metrics>>

\* AuthorizerHandle::reload swaps in the next generation.
Reload ==
    /\ serving < MaxReloads
    /\ serving' = serving + 1
    /\ UNCHANGED <<config, authFree, workFree, place, gone, batch, size, semantics,
                   since, gen, effect, answers, reply, trail, metrics>>

HandlerStep(r) ==
    \/ KeyVerified(r) \/ Enter(r) \/ Evaluate(r)
    \/ DecideFails(r) \/ (\E e \in Effects : Decide(r, e))
    \/ Appended(r) \/ AppendFailed(r)

ServiceNext ==
    \/ \E r \in Requests, n \in 0..(MaxBatch + 1), s \in Semantics : Arrive(r, n, s)
    \/ \E r \in Requests : HandlerStep(r) \/ HangUp(r)
    \/ Reload

ServiceSpec == ServiceInit /\ [][ServiceNext]_serviceVars

\* A handler that can go on does, and a job on a blocking thread ends.
ServiceFairSpec == ServiceSpec /\ \A r \in Requests : WF_serviceVars(HandlerStep(r))

-----------------------------------------------------------------------------
(* Correctness. *)

Places == {"new", "verify", "enter", "handle", "decide", "append", "await", "done"}
Statuses == {"none", "gone", "200", "400", "401", "403", "413", "500", "503"}

\* The values of the variables: no semaphore is ever below zero permits
\* (try_acquire_owned in run_bounded_pdp_work), each request is at a step of
\* its handler.
ServiceTypes ==
    /\ config \in [auth: AuthModes, audit: AuditModes]
    /\ serving \in Nat /\ authFree \in Nat /\ workFree \in Nat
    /\ place \in [Requests -> Places] /\ gone \subseteq Requests
    /\ size \in [Requests -> Nat] /\ semantics \in [Requests -> Semantics]
    /\ since \in [Requests -> Nat] /\ gen \in [Requests -> Nat]
    /\ effect \in [Requests -> Effects]
    /\ answers \in [Requests -> Seq([effect: Effects, gen: Nat])]
    /\ reply \in [Requests -> Statuses]
    /\ trail \subseteq [req: Requests, item: Nat, effect: Effects, gen: Nat]
    /\ metrics \subseteq Requests \X {"decision", "error"} /\ batch \subseteq Requests

\* No permit is lost or made up, whichever way a request ends: those not free
\* are held by jobs that still run, also for clients long gone, so that the
\* jobs never exceed the slots (run_bounded_pdp_work,
\* authenticate_bearer_async_with_slots).
PermitsConserved ==
    /\ authFree + Cardinality({r \in Requests : place[r] = "verify"}) = AuthSlots
    /\ workFree + Cardinality({r \in Requests : place[r] \in {"decide", "append", "await"}})
         = WorkSlots

\* The decisions of r are in the audit log, as made and under the generation
\* that made them.
Audited(r) ==
    config.audit # "none" =>
        \A i \in DOMAIN answers[r] :
            [req |-> r, item |-> i, effect |-> answers[r][i].effect,
             gen |-> answers[r][i].gen] \in trail

\* Every decision a caller receives is in the audit log, as it was made and
\* under the generation that made it (authorize_and_persist_decision).
AnswersAudited == \A r \in Requests : reply[r] = "200" => Audited(r)

\* All decisions of one response are made with one policy generation, which
\* was serving at some moment since the request arrived (evaluations).
OneGeneration ==
    \A r \in Requests : \A i \in DOMAIN answers[r] :
        /\ answers[r][i].gen = answers[r][1].gen
        /\ since[r] <= answers[r][i].gen /\ answers[r][i].gen <= serving

\* The semantics of r stop at its response i.
Ends(r, i) ==
    \/ semantics[r] = "deny_on_first_deny" /\ answers[r][i].effect = "deny"
    \/ semantics[r] = "permit_on_first_permit" /\ answers[r][i].effect = "allow"

Complete(r) ==
    LET n == Len(answers[r])
    IN  /\ n = size[r] \/ (n > 0 /\ n < size[r] /\ Ends(r, n))
        /\ \A i \in 1..n : Ends(r, i) => i = n

\* A batch answered with 200 has a response for every evaluation, or stops at
\* the first one its semantics stop at (evaluations).
BatchComplete == \A r \in Requests : reply[r] = "200" => Complete(r)

Counted(r) ==
    r \notin batch =>
        /\ <<r, "decision">> \in metrics <=> reply[r] = "200"
        /\ ~(<<r, "decision">> \in metrics /\ <<r, "error">> \in metrics)

\* A single evaluation is counted as a decision exactly when its caller
\* receives one, and never as an error as well, though the decision may be in
\* the audit log in either case (record_decision and record_pdp_error, called
\* by evaluation).
DecisionsCounted == \A r \in Requests : Counted(r)

\* "Total authorization decisions" (metrics.rs:325): whoever receives a
\* decision, alone or in a batch, receives one that was counted.  evaluations
\* calls record_decision for none of its batch.
EveryDecisionCounted ==
    \A r \in Requests :
        reply[r] = "200" /\ answers[r] # <<>> => <<r, "decision">> \in metrics

\* Every request that arrives is answered or abandoned, and its permits come
\* back: no permit is held for ever.
RequestsEnd ==
    \A r \in Requests : place[r] # "new" ~> place[r] = "done"

-----------------------------------------------------------------------------
(* Why: the inductive strengthening of the safety invariants. *)

Holding == {"decide", "append", "await"}
Working == {"handle"} \cup Holding

\* What is known of request r between two of its steps.
RequestInv(r) ==
    /\ since[r] <= serving
    /\ place[r] \in {"new", "verify", "enter"} => answers[r] = <<>>
    /\ place[r] = "new" => r \notin batch
    /\ place[r] # "new" /\ r \notin batch => size[r] = 1 /\ semantics[r] = "execute_all"
    /\ r \in gone =>
        place[r] \in {"verify", "decide", "append", "done"} /\ reply[r] # "200"
    /\ place[r] # "done" => reply[r] = "none" /\ <<r, "error">> \notin metrics
    /\ place[r] \in Working =>
        /\ since[r] <= gen[r] /\ gen[r] <= serving
        /\ Len(answers[r]) <= size[r]
        /\ \A i \in 1..Len(answers[r]) : ~Ends(r, i)
        /\ r \notin batch => answers[r] = <<>>
    /\ place[r] \in Holding => Len(answers[r]) < size[r]
    /\ \A i \in DOMAIN answers[r] :
        answers[r][i].gen = gen[r] /\ since[r] <= gen[r] /\ gen[r] <= serving
    /\ Audited(r)
    /\ reply[r] = "200" => Complete(r)
    /\ Counted(r)

\* Each request is where its responses, its permit, its audit entries and its
\* metrics say (run_bounded_pdp_work, authorize_and_persist_decision,
\* evaluation and evaluations together).
PdpInv == ServiceTypes /\ PermitsConserved /\ \A r \in Requests : RequestInv(r)
=============================================================================
