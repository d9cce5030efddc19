----------------------------- MODULE PolicyWatch -----------------------------
(***************************************************************************)
(* The signals between the file system watcher and the reload task         *)
(* (agentguard-policy/src/watcher.rs, server.rs): the callback of the      *)
(* notify thread records changes and errors, bounded and coalesced, and    *)
(* the task drains them, at most one batch per debounce window.            *)
(* PolicyReload models what the reload itself does.                        *)
(*                                                                         *)
(* The task polls every 500 ms and the window is 250 ms, but tokio makes   *)
(* up for late ticks in a burst, so a poll may come at any moment.         *)
(***************************************************************************)
EXTENDS Naturals, Sequences, FiniteSets, FiniteSetsExt

CONSTANTS
    Events,        \* sets of paths that notify reports as one event
    Errors,        \* errors of notify, sequences of symbols
    Debounce,      \* the debounce window
    PathCap,       \* MAX_PENDING_WATCH_PATHS
    ErrorCap,      \* MAX_PENDING_WATCH_ERRORS
    ErrorLength,   \* MAX_WATCH_ERROR_BYTES
    MaxSignals     \* bound on what notify reports

ASSUME WatchAssumption ==
    /\ \A e \in Errors : e \in Seq(STRING)
    /\ PathCap \in Nat \ {0} /\ ErrorCap \in Nat /\ ErrorLength \in Nat

VARIABLES
    pending,    \* PendingSignals
    sinceEmit,  \* time since last_emit, no more than Debounce (also at first)
    signals,    \* what notify has reported so far
    kinds,      \* the kinds recorded since the last batch
    reloads,    \* batches the task has reloaded for
    reported,   \* history: the errors queued since the last relevant event,
    repeated    \* and whether one of them was queued again

watchVars == <<pending, sinceEmit, signals, kinds, reloads, reported, repeated>>

NoError == <<>>

WatchInit ==
    /\ pending = [changed |-> FALSE, paths |-> {}, kind |-> "Other", errors |-> <<>>,
                  lastError |-> NoError]
    /\ sinceEmit = Debounce
    /\ signals = 0 /\ kinds = {} /\ reloads = 0 /\ reported = {} /\ repeated = FALSE

-----------------------------------------------------------------------------
(* The callback of the notify thread.                                      *)

\* WatchEventKind::from.
KindOf(k) ==
    CASE k = "Modify" -> "Write" [] k \in {"Create", "Remove"} -> k [] OTHER -> "Other"

PromoteKind(current, incoming) ==
    LET both == {current, incoming}
    IN  CASE "Create" \in both -> "Create"
          [] "Write" \in both -> "Write"
          [] "Remove" \in both -> "Remove"
          [] OTHER -> "Other"

\* The schema, and the .cedar files below policies/.
Relevant(paths) == paths \intersect {"schema", "policy", "nested policy"}

\* As many of the paths as there is room for; one that is there takes room again.
Sampled(old, new) ==
    {s \in SUBSET (old \union new) :
        old \subseteq s /\ s # {} /\ Cardinality(s) <= PathCap}

RecordEvent(paths, k) ==
    /\ signals < MaxSignals
    /\ signals' = signals + 1
    /\ IF Relevant(paths) = {}
       THEN UNCHANGED <<pending, kinds, reported>>
       ELSE /\ \E sample \in Sampled(pending.paths, Relevant(paths)) :
                 pending' = [pending EXCEPT !.changed = TRUE, !.lastError = NoError,
                                !.kind = PromoteKind(@, KindOf(k)), !.paths = sample]
            /\ kinds' = kinds \union {KindOf(k)}
            /\ reported' = {}
    /\ UNCHANGED <<sinceEmit, reloads, repeated>>

Truncated(error) == SubSeq(error, 1, Min({Len(error), ErrorLength}))

\* record_error, queue_new_error.
RecordError(e) ==
    LET error == Truncated(e)
        new == pending.lastError # error
        queued == new /\ Len(pending.errors) < ErrorCap
    IN  /\ signals < MaxSignals
        /\ signals' = signals + 1
        /\ pending' = [pending EXCEPT !.lastError = error,
                          !.errors = IF queued THEN Append(@, error) ELSE @]
        /\ reported' = IF queued THEN reported \union {error} ELSE reported
        /\ repeated' = (repeated \/ (queued /\ error \in reported))
        /\ UNCHANGED <<sinceEmit, kinds, reloads>>

-----------------------------------------------------------------------------
(* The reload task.                                                        *)

Elapse ==
    /\ sinceEmit < Debounce
    /\ sinceEmit' = sinceEmit + 1
    /\ UNCHANGED <<pending, signals, kinds, reloads, reported, repeated>>

\* Every call that is ready begins a window.
WindowAtEveryCall(emits) == 0
WindowAfter(emits) == IF emits THEN 0 ELSE sinceEmit

Taken(p) == [p EXCEPT !.errors = <<>>]

\* events leaves the kind of the batch behind.
DrainedKeepingKind(p) == [p EXCEPT !.changed = FALSE, !.paths = {}]
Drained(p) == [p EXCEPT !.changed = FALSE, !.paths = {}, !.kind = "Other"]

\* A round of spawn_policy_watcher_task: events, take_errors, and a reload for a
\* batch.  What the callback records between the first two is as if it came just
\* before the round (an error) or just after it (a change).
Poll ==
    LET emits == sinceEmit = Debounce /\ pending.changed
    IN  /\ sinceEmit' = WindowAfter(emits)
        /\ pending' = Taken(IF emits THEN Drained(pending) ELSE pending)
        /\ kinds' = IF emits THEN {} ELSE kinds
        /\ reloads' = IF emits THEN reloads + 1 ELSE reloads
        /\ UNCHANGED <<signals, reported, repeated>>

WatchNext ==
    \/ \E paths \in Events, k \in {"Create", "Modify", "Remove", "Access"} : RecordEvent(paths, k)
    \/ \E e \in Errors : RecordError(e)
    \/ Elapse \/ Poll

\* Time passes, and the task's interval goes on ticking.
WatchFairness == WF_watchVars(Elapse) /\ WF_watchVars(Poll)

WatchSpec == WatchInit /\ [][WatchNext]_watchVars /\ WatchFairness

-----------------------------------------------------------------------------
\* record_event and events: what waits to be drained is the dominant kind and a
\* sample of the paths of exactly the changes since the last batch, so a batch
\* reports no change of an earlier one and is there whenever there was a change.
BatchExact ==
    /\ pending.changed <=> kinds # {}
    /\ pending.kind = (CASE "Create" \in kinds -> "Create" [] "Write" \in kinds -> "Write"
                         [] "Remove" \in kinds -> "Remove" [] OTHER -> "Other")
    /\ pending.changed <=> pending.paths # {}
    /\ Cardinality(pending.paths) <= PathCap

\* "Identical errors are reported once until a successful filesystem event is
\* observed" (watcher.rs:170): no error is queued for the task twice with no
\* relevant event in between.  queue_new_error remembers the last error only, so
\* two that alternate are reported every time.
ErrorsOnce == ~repeated

\* A relevant change is followed by a reload, however often the task polls within
\* the window and whatever errors come (events, spawn_policy_watcher_task).
ChangesReload == pending.changed ~> ~pending.changed
=============================================================================
