----------------------------- MODULE EventSinks -----------------------------
(* The sinks of agentguard-telemetry: JsonlSink and StdoutSink write an event *)
(* as a line under a mutex (sinks/jsonl.rs, sinks/stdout.rs); OtlpSink hands  *)
(* it to the SDK's batch exporter behind a circuit breaker that failed        *)
(* flushes open (sinks/otlp.rs).  The breaker is read when an event comes and *)
(* the event handed over later, and flushes of two threads may overlap.       *)
EXTENDS Integers, FiniteSets, Sequences

CONSTANTS
    Tasks,           \* the callers of the sinks
    BreakAfter,      \* BREAK_AFTER
    QueueCap,        \* the queue of the batch exporter
    MaxEmits, MaxCrashes

ASSUME SinksAssumption ==
    /\ IsFiniteSet(Tasks) /\ Tasks # {}
    /\ BreakAfter \in Nat /\ QueueCap \in Nat /\ MaxEmits \in Nat

VARIABLES
    \* JSONL
    file,            \* the lines; each the sequence of what was written of events
    open,            \* inner is Some(file)
    acked, bad,      \* history: events with Ok, events with an error;
    dropped,         \* and those of the first that came after shutdown
    next, crashes,
    \* OTLP
    failures,        \* failure_count
    up,              \* the collector answers
    at,              \* where a task is
    result,          \* what its force_flush returned
    queue,           \* events with the exporter
    recent           \* history: flushes that failed since one was begun that did not

jsonlVars == <<file, open, acked, bad, dropped, next, crashes>>
otlpVars == <<failures, up, at, result, queue, recent>>
sinkVars == <<jsonlVars, otlpVars>>

JsonlInit ==
    /\ file = <<<<>>>> /\ open = TRUE
    /\ acked = {} /\ bad = {} /\ dropped = {} /\ next = 1 /\ crashes = 0
OtlpInit ==
    /\ failures = 0 /\ up = TRUE
    /\ at = [t \in Tasks |-> "idle"]
    /\ result = [t \in Tasks |-> TRUE]
    /\ queue = 0 /\ recent = 0
SinksInit == JsonlInit /\ OtlpInit

---------------------------------------------------------------------------
(* JSONL: writeln! makes two writes, the text and the line end *)

Text(e) == [event |-> e, whole |-> TRUE]
Torn(e) == [event |-> e, whole |-> FALSE]
Written(lines, piece) == [lines EXCEPT ![Len(lines)] = Append(@, piece)]

Line(lines, e) == Append(Written(lines, Text(e)), <<>>)

\* Ok: a line is written, or the sink was shut down and the event is dropped.
JsonlEmit ==
    /\ next <= MaxEmits /\ next' = next + 1
    /\ acked' = acked \cup {next}
    /\ IF open THEN file' = Line(file, next) /\ UNCHANGED dropped
               ELSE dropped' = dropped \cup {next} /\ UNCHANGED file
    /\ UNCHANGED <<open, bad, crashes, otlpVars>>

\* An I/O error: nothing, a part of the text or the text without its line end was
\* written; or all of it, and the flush failed.
JsonlEmitFails ==
    /\ next <= MaxEmits /\ next' = next + 1 /\ open
    /\ file' \in {file, Written(file, Torn(next)), Written(file, Text(next)), Line(file, next)}
    /\ bad' = bad \cup {next}
    /\ UNCHANGED <<open, acked, dropped, crashes, otlpVars>>

JsonlShutdown ==
    /\ open /\ open' = FALSE
    /\ UNCHANGED <<file, acked, bad, dropped, next, crashes, otlpVars>>

\* The process dies, in emit or out of it, and another opens the file to append.
JsonlCrash ==
    /\ crashes < MaxCrashes /\ crashes' = crashes + 1
    /\ \/ UNCHANGED <<file, bad, next>>
       \/ /\ next <= MaxEmits /\ next' = next + 1 /\ open
          /\ file' \in {Written(file, Torn(next)), Written(file, Text(next)), Line(file, next)}
          /\ bad' = bad \cup {next}
    /\ open' = TRUE
    /\ UNCHANGED <<acked, dropped, otlpVars>>

---------------------------------------------------------------------------
(* OTLP *)

Broken == failures >= BreakAfter

\* emit: the event is dropped, with Ok, while the breaker is open.
EmitSuspended ==
    /\ Broken /\ UNCHANGED sinkVars

StartEmit(t) ==
    /\ at[t] = "idle" /\ ~Broken
    /\ at' = [at EXCEPT ![t] = "emit"]
    /\ UNCHANGED <<jsonlVars, failures, up, result, queue, recent>>

\* logger.emit: the exporter queues the record, or drops it when it is full.
EndEmit(t) ==
    /\ at[t] = "emit"
    /\ at' = [at EXCEPT ![t] = "idle"]
    /\ queue' = IF queue < QueueCap THEN queue + 1 ELSE queue
    /\ UNCHANGED <<jsonlVars, failures, up, result, recent>>

\* Counts from BreakAfter on are one to emit.
Failed(n) == IF n < BreakAfter THEN n + 1 ELSE n

\* force_flush: what is queued is sent, or lost with an error.
StartFlush(t) ==
    /\ at[t] = "idle"
    /\ at' = [at EXCEPT ![t] = "flush"]
    /\ result' = [result EXCEPT ![t] = up]
    /\ queue' = 0
    /\ recent' = IF up THEN 0 ELSE Failed(recent)
    /\ UNCHANGED <<jsonlVars, failures, up>>

\* Mutant: a healthy flush leaves the count of failures alone.
AfterFlushKeeping(ok) == IF ok THEN failures ELSE Failed(failures)

\* Mutant: a breaker once open stays open.
AfterFlushLatched(ok) ==
    IF ok THEN IF Broken THEN failures ELSE 0 ELSE Failed(failures)

AfterFlush(ok) == IF ok THEN 0 ELSE Failed(failures)

EndFlush(t) ==
    /\ at[t] = "flush"
    /\ at' = [at EXCEPT ![t] = "idle"]
    /\ failures' = AfterFlush(result[t])
    /\ UNCHANGED <<jsonlVars, up, result, queue, recent>>

\* The collector goes down, or comes back (external).
CollectorFails == up /\ up' = FALSE
                  /\ UNCHANGED <<jsonlVars, failures, at, result, queue, recent>>
CollectorReturns == ~up /\ up' = TRUE
                  /\ UNCHANGED <<jsonlVars, failures, at, result, queue, recent>>

JsonlNext == JsonlEmit \/ JsonlEmitFails \/ JsonlShutdown \/ JsonlCrash
OtlpNext ==
    \/ EmitSuspended
    \/ \E t \in Tasks : StartEmit(t) \/ EndEmit(t) \/ StartFlush(t) \/ EndFlush(t)
    \/ CollectorFails \/ CollectorReturns
SinksNext == JsonlNext \/ OtlpNext

\* A call that was begun ends, and the program goes on flushing from every task.
SinksFairness ==
    \A t \in Tasks : /\ WF_sinkVars(EndEmit(t)) /\ WF_sinkVars(EndFlush(t))
                     /\ SF_sinkVars(StartFlush(t))
SinksSpec == SinksInit /\ [][SinksNext]_sinkVars /\ SinksFairness

---------------------------------------------------------------------------
(* Properties *)

\* The text of e ends a line on which nothing acknowledged comes before it.
EndsLine(e, line) ==
    /\ line # <<>> /\ line[Len(line)] = Text(e)
    /\ \A k \in 1 .. Len(line) - 1 : line[k].event \in bad

\* An event the JSONL sink answered Ok for ends a line of its own, unless it came
\* after shutdown, when emit answers Ok and drops it; and only events that the sink
\* failed to write, or that a crash cut off, come before it on that line: each of
\* those spoils at most one event that was acknowledged.
AcknowledgedLines ==
    \A e \in acked \ dropped : \E i \in 1 .. Len(file) - 1 : EndsLine(e, file[i])

\* The types, and that the OTLP breaker is earned: once every healthy flush is
\* recorded, the breaker has counted no more failed flushes than there were since
\* the last healthy one was begun, but for those of the other tasks that were
\* under way at that moment.
BreakerEarned ==
    /\ acked \cup bad \subseteq 1 .. MaxEmits /\ acked \cap bad = {}
    /\ failures \in 0 .. BreakAfter /\ queue \in 0 .. QueueCap
    /\ at \in [Tasks -> {"idle", "emit", "flush"}] /\ result \in [Tasks -> BOOLEAN]
    /\ \/ \E t \in Tasks : at[t] = "flush" /\ result[t]
       \/ failures <= recent + Cardinality(Tasks) - 1

\* What the two sinks keep true.
SinksSound == AcknowledgedLines /\ BreakerEarned

\* Emits resume: if the collector comes back for good and the program goes on
\* flushing, the breaker closes for good (otlp.rs: "until the next successful
\* flush").
EmitsResume == <>[]up => <>[]~Broken
=============================================================================
