------------------------------ MODULE MCService ------------------------------
(* Instances of the audit log, of the decision point that appends to it and of *)
(* the policy reload it evaluates with, one beside the other: they share no    *)
(* state here, and a behavior is of one of them.  The decision point has       *)
(* authentication with either kind of audit log, or neither.                   *)
EXTENDS AuditLog, PdpServer, PolicyReload, TLC

CONSTANT Parts   \* which of them

VARIABLE part    \* what this behavior is of

MCInit ==
    /\ part \in Parts /\ Init /\ ServiceInit /\ ReloadInit
    /\ config.auth <=> config.audit # "none"
    /\ part # "service" => ~config.auth
    /\ part # "reload" => store = Nothing

\* Records differ only in when they are appended: they are numbered in that order.
InOrder(S) == \A n \in S : n > 1 => n - 1 \in S

\* The semantics of a batch tell apart only batches of two evaluations and more
\* that are not too large: the others have the default.
Plain(r) == size[r] \notin 2..MaxBatch => semantics[r] = "execute_all"

LogStep ==
    /\ part = "log" /\ Next /\ InOrder(used' \ Rotations)
    /\ UNCHANGED <<serviceVars, reloadVars>>
ServiceStep ==
    /\ part = "service" /\ ServiceNext /\ \A r \in Requests : Plain(r)'
    /\ UNCHANGED <<vars, reloadVars>>
ReloadStep ==
    /\ part = "reload" /\ ReloadNext
    /\ UNCHANGED <<vars, serviceVars>>

MCNext == (LogStep \/ ServiceStep \/ ReloadStep) /\ UNCHANGED part

MCSpec == MCInit /\ [][MCNext]_<<part, vars, serviceVars, reloadVars>>

\* The fairness of each specification, in its own behaviors.
MCFairSpec ==
    /\ MCSpec
    /\ \A t \in Threads : WF_vars(part = "log" /\ Step(t))
    /\ \A r \in Requests : WF_serviceVars(part = "service" /\ HandlerStep(r))
    /\ \A f \in Files : WF_reloadVars(part = "reload" /\ Scan(f))
    /\ \A t \in Tasks : WF_reloadVars(part = "reload" /\ Load(t))
    /\ WF_reloadVars(part = "reload" /\ Baseline) /\ WF_reloadVars(part = "reload" /\ Tick)

Symmetry == Permutations(Threads) \cup Permutations(Requests)
==============================================================================
