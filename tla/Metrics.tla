------------------------------ MODULE Metrics ------------------------------
(* The metrics registry of agentguard-telemetry (metrics.rs): maps from label *)
(* tuples to counters and histograms, filled by the request threads and read  *)
(* by GET /metrics.  record_decision takes the lock of the totals and then,   *)
(* after releasing it, that of the durations; a scrape does the same, so it   *)
(* falls between the two halves of a decision.  How labels make a key, and a  *)
(* key the labels of a page, is MetricLabels.                                 *)
EXTENDS Integers, FiniteSets

CONSTANTS
    Recorders,       \* the request threads
    Decisions,       \* tuples <<effect, policy_id, action, tenant_id>>
    Fallbacks,       \* the labels of pdp_error_total
    Times,           \* durations of decisions
    KeyOf(_),        \* label_key of some labels
    ShownAs(_, _),   \* a key and a number: so many labels as a page shows them
    Bounds,          \* the bucket bounds, which Histogram::new sorts without repeats
    LabelCap,        \* cardinality_cap
    MaxDecisions, MaxEvents, MaxScrapes,
    Nobody

\* Two tuples of labels have one key only if a label holds the separator.
ASSUME MetricsAssumption ==
    /\ IsFiniteSet(Recorders) /\ Nobody \notin Recorders
    /\ LabelCap \in Nat /\ Times \subseteq Int /\ Bounds \subseteq Int
    /\ \A d, e \in Decisions : KeyOf(d) = KeyOf(e) => d = e

VARIABLES
    totals,          \* decision_total: label key -> count
    durations,       \* decision_duration: label key -> histogram
    errors,          \* pdp_error_total
    counters,        \* the counters without labels, and verify by outcome
    step, job,       \* where a recorder is in record_decision, and for what
    writer,          \* the holder of the write lock of the durations
    page, reading,   \* the page being rendered, and the part to come
    scrapes,
    decided, failed  \* history: calls per decision and per fallback so far

metricsVars == <<totals, durations, errors, counters, step, job, writer, page,
                 reading, scrapes, decided, failed>>

Names == {"mint", "verified", "refused", "hit", "miss", "reload"}
NewHistogram == [count |-> 0, sum |-> 0, buckets |-> [b \in Bounds |-> 0], inf |-> 0]
NoJob == [of |-> <<>>, took |-> 0]
Blank == [totals |-> <<>>, durations |-> <<>>, errors |-> <<>>, counters |-> <<>>]

MetricsInit ==
    /\ totals = <<>> /\ durations = <<>> /\ errors = <<>>
    /\ counters = [n \in Names |-> 0]
    /\ step = [t \in Recorders |-> "idle"]
    /\ job = [t \in Recorders |-> NoJob]
    /\ writer = Nobody
    /\ page = Blank /\ reading = "idle" /\ scrapes = 0
    /\ decided = [d \in Decisions |-> 0]
    /\ failed = [f \in Fallbacks |-> 0]

---------------------------------------------------------------------------
(* Recording *)

HasRoom(map) == Cardinality(DOMAIN map) < LabelCap
Put(map, k, v) == [x \in DOMAIN map \cup {k} |-> IF x = k THEN v ELSE map[x]]

\* A label-keyed counter: a tuple beyond the cap is dropped.
Inc(map, k) ==
    IF k \in DOMAIN map THEN [map EXCEPT ![k] = @ + 1]
    ELSE IF HasRoom(map) THEN Put(map, k, 1) ELSE map

DecisionKey(d) == KeyOf(d)
DurationKey(d) == KeyOf(<<d[3], d[4]>>)

\* The units a function to numbers counts, one for each: as many as its sum.
Units(f) == UNION {{x} \X (1 .. f[x]) : x \in DOMAIN f}
Sum(f) == Cardinality(Units(f))

Asked == Sum(decided)
Reported == Sum(failed) + Sum(counters)

\* record_decision under the lock of the totals; it returns here when the map is
\* full and the tuple is new.
RecordTotal(t, d, took) ==
    /\ step[t] = "idle" /\ Asked < MaxDecisions
    /\ decided' = [decided EXCEPT ![d] = @ + 1]
    /\ totals' = Inc(totals, DecisionKey(d))
    /\ IF DecisionKey(d) \in DOMAIN totals'
       THEN /\ step' = [step EXCEPT ![t] = "durations"]
            /\ job' = [job EXCEPT ![t] = [of |-> d, took |-> took]]
       ELSE UNCHANGED <<step, job>>
    /\ UNCHANGED <<durations, errors, counters, writer, page, reading, scrapes, failed>>

\* The durations are locked, and observe has counted the call and its time; a
\* tuple the map has no room for is dropped.
StartObserve(t) ==
    LET k == DurationKey(job[t].of)
        h == IF k \in DOMAIN durations THEN durations[k] ELSE NewHistogram
    IN  /\ step[t] = "durations" /\ writer = Nobody
        /\ IF k \in DOMAIN durations \/ HasRoom(durations)
           THEN /\ durations' = Put(durations, k,
                        [h EXCEPT !.count = @ + 1, !.sum = @ + job[t].took])
                /\ step' = [step EXCEPT ![t] = "observe"] /\ writer' = t
                /\ UNCHANGED job
           ELSE /\ step' = [step EXCEPT ![t] = "idle"]
                /\ job' = [job EXCEPT ![t] = NoJob]
                /\ UNCHANGED <<durations, writer>>
        /\ UNCHANGED <<totals, errors, counters, page, reading, scrapes, decided, failed>>

\* observe counts the call in every bucket it fits and in +Inf; the lock goes.
EndObserve(t) ==
    LET k == DurationKey(job[t].of)
        h == durations[k]
    IN  /\ step[t] = "observe"
        /\ durations' = [durations EXCEPT ![k] =
                [h EXCEPT !.inf = @ + 1,
                          !.buckets = [b \in Bounds |-> IF job[t].took <= b THEN h.buckets[b] + 1
                                                        ELSE h.buckets[b]]]]
        /\ writer' = Nobody
        /\ step' = [step EXCEPT ![t] = "idle"]
        /\ job' = [job EXCEPT ![t] = NoJob]
        /\ UNCHANGED <<totals, errors, counters, page, reading, scrapes, decided, failed>>

RecordPdpError(f) ==
    /\ Reported < MaxEvents
    /\ errors' = Inc(errors, f)
    /\ failed' = [failed EXCEPT ![f] = @ + 1]
    /\ UNCHANGED <<totals, durations, counters, step, job, writer, page, reading,
                   scrapes, decided>>

\* record_delegation_mint, record_delegation_verify, record_cache_hit and _miss,
\* record_policy_reload
RecordCounter(n) ==
    /\ Reported < MaxEvents
    /\ counters' = [counters EXCEPT ![n] = @ + 1]
    /\ UNCHANGED <<totals, durations, errors, step, job, writer, page, reading,
                   scrapes, decided, failed>>

---------------------------------------------------------------------------
(* Rendering: one read lock after the other *)

Reading(now, next) ==
    /\ reading = now /\ reading' = next
    /\ UNCHANGED <<totals, durations, errors, counters, step, job, writer, decided, failed>>

\* A map as the page shows it: a line, or the lines of a histogram, for each key.
Shown(map, n) == [k \in DOMAIN map |-> [labels |-> ShownAs(k, n), value |-> map[k]]]

ReadTotals ==
    /\ Reading("idle", "durations")
    /\ scrapes < MaxScrapes /\ scrapes' = scrapes + 1
    /\ page' = [Blank EXCEPT !.totals = Shown(totals, 4)]

ReadDurations ==
    /\ Reading("durations", "rest")
    /\ writer = Nobody
    /\ page' = [page EXCEPT !.durations = Shown(durations, 2)]
    /\ UNCHANGED scrapes

ReadRest ==
    /\ Reading("rest", "idle")
    /\ page' = [page EXCEPT !.errors = Shown(errors, 1), !.counters = counters]
    /\ UNCHANGED scrapes

\* Mutant: the durations are read before the totals.
RenderReversed ==
    \/ /\ Reading("idle", "totals")
       /\ scrapes < MaxScrapes /\ scrapes' = scrapes + 1
       /\ writer = Nobody
       /\ page' = [Blank EXCEPT !.durations = Shown(durations, 2)]
    \/ /\ Reading("totals", "rest")
       /\ page' = [page EXCEPT !.totals = Shown(totals, 4)]
       /\ UNCHANGED scrapes
    \/ ReadRest

RenderPrometheus == ReadTotals \/ ReadDurations \/ ReadRest

MetricsNext ==
    \/ \E t \in Recorders :
           \/ \E d \in Decisions, took \in Times : RecordTotal(t, d, took)
           \/ StartObserve(t)
           \/ EndObserve(t)
    \/ \E f \in Fallbacks : RecordPdpError(f)
    \/ \E n \in Names : RecordCounter(n)
    \/ RenderPrometheus

MetricsSpec == MetricsInit /\ [][MetricsNext]_metricsVars
---------------------------------------------------------------------------
(* Properties *)

Total(d) == IF DecisionKey(d) \in DOMAIN totals THEN totals[DecisionKey(d)] ELSE 0
Tallied(k) == [d \in {e \in Decisions : DurationKey(e) = k} |-> Total(d)]
Observed(k) == IF k \in DOMAIN durations THEN durations[k].count ELSE 0
Between(k) == {t \in Recorders : step[t] = "durations" /\ DurationKey(job[t].of) = k}

\* The invariant of record_decision: the maps stay within the cap; for every
\* action and tenant the decisions counted are the durations observed and the
\* calls between the two locks, so the cap never parts the two metrics; and a
\* histogram is whole whenever nobody writes it.
MetricsInv ==
    /\ \A map \in {totals, durations, errors} : Cardinality(DOMAIN map) <= LabelCap
    /\ \A t \in Recorders : (step[t] = "observe") <=> (writer = t)
    /\ \A k \in {DurationKey(d) : d \in Decisions} :
           Sum(Tallied(k)) = Observed(k) + Cardinality(Between(k))
    /\ writer = Nobody => \A k \in DOMAIN durations : durations[k].inf = durations[k].count

\* A series on display is exact: it has every call made for its tuple since the
\* first one; a tuple is missing only if it never occurred or the map is full.
SeriesExact ==
    /\ \A d \in Decisions :
           \/ Total(d) = decided[d]
           \/ DecisionKey(d) \notin DOMAIN totals /\ ~HasRoom(totals)
    /\ \A f \in Fallbacks :
           IF f \in DOMAIN errors THEN errors[f] = failed[f]
           ELSE failed[f] = 0 \/ ~HasRoom(errors)

\* A page never shows more decisions without their duration than there are
\* threads recording: render_prometheus reads the two maps in the order in which
\* record_decision writes them.
PageLagBounded ==
    LET decisions == [k \in DOMAIN page.totals |-> page.totals[k].value]
        timed == [k \in DOMAIN page.durations |-> page.durations[k].value.count]
    IN  reading \in {"rest", "idle"} => Sum(decisions) - Sum(timed) <= Cardinality(Recorders)

\* A page never shows a histogram half observed: its buckets are cumulative and
\* +Inf is its count.
Cumulative(h) ==
    \A b \in Bounds : /\ h.buckets[b] <= h.inf
                      /\ \A c \in Bounds : b <= c => h.buckets[b] <= h.buckets[c]
HistogramsWhole ==
    \A k \in DOMAIN page.durations :
        LET h == page.durations[k].value IN Cumulative(h) /\ h.inf = h.count

\* The registry and the pages rendered from it tell what was recorded.
MetricsTrue == MetricsInv /\ SeriesExact /\ PageLagBounded /\ HistogramsWhole
=============================================================================
