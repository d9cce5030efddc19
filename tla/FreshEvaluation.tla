-------------------------- MODULE FreshEvaluation ---------------------------
(***************************************************************************)
(* What AuthorizerHandle::authorize promises its callers, with or without  *)
(* a decision cache: a call is answered by Cedar, from the policies that   *)
(* were serving when it began.                                             *)
(***************************************************************************)
EXTENDS Naturals

CONSTANTS Threads, Questions, Cedar, MaxReloads, NoQuestion

VARIABLES
    serving,  \* the generation of policies that AuthorizerHandle holds
    pending,  \* of each thread inside authorize, its question and the
              \* generation serving when it began; NoCall of the others
    outcome   \* the last answer, with the call it is the answer to

fvars == <<serving, pending, outcome>>

NoCall == [ask |-> NoQuestion, gen |-> 0]

Init ==
    /\ serving = 0
    /\ pending = [t \in Threads |-> NoCall]
    /\ outcome = [call |-> NoCall, effect |-> "none"]

Begin(t, q) ==
    /\ pending[t] = NoCall
    /\ pending' = [pending EXCEPT ![t] = [ask |-> q, gen |-> serving]]
    /\ UNCHANGED <<serving, outcome>>

Answer(t) ==
    /\ pending[t] # NoCall
    /\ pending' = [pending EXCEPT ![t] = NoCall]
    /\ outcome' = [call |-> pending[t],
                   effect |-> Cedar[pending[t].gen][pending[t].ask]]
    /\ UNCHANGED serving

Reload ==
    /\ serving < MaxReloads
    /\ serving' = serving + 1
    /\ UNCHANGED <<pending, outcome>>

Next ==
    \/ \E t \in Threads : Answer(t) \/ \E q \in Questions : Begin(t, q)
    \/ Reload

EvaluationSpec == Init /\ [][Next]_fvars
=============================================================================
