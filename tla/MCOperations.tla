---------------------------- MODULE MCOperations ----------------------------
(* Instances of parts that share no state with one another: metrics, event   *)
(* sinks, the server's life, a request's path, the audit commands and the    *)
(* policy watcher.  A behavior is of one of them.                            *)
EXTENDS Metrics, MetricLabels, EventSinks, ServerLifecycle, DecisionRequests, AuditCommands,
        ExportFormats, PolicyWatch

CONSTANTS r1, r2, t1, t2, q1, q2

VARIABLE part   \* what this behavior is of

-----------------------------------------------------------------------------
(* Metrics: three tuples over two series of durations, and room for two.      *)

MCDecisions == { <<<<"a">>, <<>>, <<"x">>, <<"t">>>>,
                 <<<<"d">>, <<"p">>, <<"x">>, <<"t">>>>,
                 <<<<"a">>, <<"p">>, <<"y">>, <<>>>> }
MCFallbacks == { <<"o">>, <<"w">>, <<"b">> }
Labels == SeqOf({"\\", "\"", "\n", "\r", "n"}, 2)

-----------------------------------------------------------------------------
(* ServerLifecycle                                                           *)

Plain == [entry |-> "run", scheme |-> "tcp", query |-> <<>>, addr |-> "loopback",
          mode |-> "disabled", keyFile |-> FALSE, grpc |-> "loopback", bypass |-> FALSE,
          secret |-> "text", audit |-> TRUE, async |-> FALSE, fault |-> "none"]
Tls == [Plain EXCEPT !.scheme = "tls", !.query = <<"key", "cert">>]
Alone == [Plain EXCEPT !.grpc = ""]
Embedded == [Alone EXCEPT !.entry = "build_router", !.addr = "public"]
EnvironmentFaults ==
    {"none", "cache settings", "rotation", "certificates", "key store", "policies",
     "audit log", "watch", "pem", "bind", "grpc bind", "ctrl_c"}

\* What the environment may break; who may reach the sockets; the listener's
\* query; the chain secret; and what an embedder may set.
MCLaunches ==
    {[l EXCEPT !.fault = f] : l \in {Plain, Tls}, f \in EnvironmentFaults}
    \union {[Alone EXCEPT !.addr = addr, !.mode = mode, !.keyFile = keyFile, !.grpc = g,
                          !.bypass = bypass, !.fault = "key store"] :
               addr \in {"loopback", "public", "bad"}, keyFile \in BOOLEAN, bypass \in BOOLEAN,
               mode \in {"disabled", "apikey", "apikey:path", "apikey:"},
               g \in {"", "loopback", "public", "bad"}}
    \union {[Plain EXCEPT !.scheme = s, !.query = q] : s \in {"tls", "unix"},
               q \in {<<>>, <<"cert">>, <<"cert", "cert", "key">>, <<"key", "other", "cert">>,
                      <<"cert", "key", "malformed">>}}
    \union {[Alone EXCEPT !.secret = secret] :
               secret \in {"unset", "missing", "empty", "blank"}}
    \union {[Embedded EXCEPT !.mode = mode, !.secret = secret, !.audit = kept, !.async = async] :
               mode \in {"", "apikey:path", "apikey"}, kept \in BOOLEAN, async \in BOOLEAN,
               secret \in {"unset", "missing", "empty", "text"}}

\* Requests and stop signals, or else probes, reloads and a failing disk.
LifecycleBehavior ==
    /\ LifecycleNext
    /\ \/ policies' /\ audit' # "poisoned" /\ probes' = 0
       \/ sent' = {} /\ \A r \in Requests : req'[r] = "none"

-----------------------------------------------------------------------------
(* DecisionRequests                                                          *)

Entity(type, id) == [type |-> type, id |-> id]
Contexts ==
    UNION {[keys -> {"acme", "object"}] : keys \in SUBSET {"tenant_id", "session", "amount"}}
FirstBody ==
    [via |-> "server", subject |-> Entity("User", "u"), action |-> <<"ToolCall", "t">>,
     resource |-> Entity("Doc", "d"), context |-> <<>>, tenant |-> NoValue,
     trace |-> NoValue, traceparent |-> NoValue, noAudit |-> FALSE]
MCBodies ==
    {[FirstBody EXCEPT !.subject = s, !.context = x] :
        s \in {Entity("User", "u"), Entity("Agent", "u"), Entity("Team", "u")}, x \in Contexts}
    \union {[FirstBody EXCEPT !.via = via, !.action = act, !.resource = res] :
        via \in {"server", "command"}, res \in {Entity("Doc", "d"), Entity("not a name", "d")},
        act \in {<<"t">>, <<"ToolCall">>, <<"t", "o">>, <<"ToolCall", "t", "o", "p">>}}
    \union {[FirstBody EXCEPT !.via = "command", !.traceparent = header, !.trace = trace,
                              !.tenant = tenant, !.noAudit = no, !.subject = s] :
        no \in BOOLEAN, s \in {Entity("Agent", "u"), Entity("Team", "u")},
        tenant \in {NoValue, "acme"},
        trace \in {NoValue, <<"00", "other", "span", "01">>, <<"00", "bad", "span", "01">>},
        header \in {NoValue, <<"00", "trace", "span", "01">>, <<"00", "bad", "span", "01">>,
                    <<"00", "trace", "span">>}}
MCCallers ==
    [subject : {Entity("User", "u"), Entity("Agent", "u")},
     tenant : {NoValue, "acme", " acme ", " "}, canActAs : BOOLEAN]

-----------------------------------------------------------------------------
(* AuditCommands                                                             *)

FieldTexts ==
    {<<>>} \union {<<x, y>> : x \in {"a", "=", "\\", "\n", "\r"},
                               y \in {"a", "=", "\\", "\n", "\r", " "}}
ExportRecords ==
    [principal : FieldTexts, action : {<<"x", "=">>}, resource : {<<>>, <<"\\">>, <<"a", " ", "=">>},
     effect : {<<"allow">>, <<"deny">>}, policies : {<<>>, <<"p", ",", "=">>},
     trace : {<<>>}, actor : {<<>>, <<<<"u">>, <<"\\">>, <<"true">>>>}]

-----------------------------------------------------------------------------
(* PolicyWatch                                                               *)

MCEvents == {{"policy"}, {"policy", "schema"}, {"nested policy"}, {"other"},
             {"other", "schema"}}
MCErrors == {<<"x">>, <<"y">>, <<"x", "y">>}

-----------------------------------------------------------------------------
Parts == {"decisions", "counters", "jsonl", "otlp", "life", "request",
          "commands", "watch"}

MCInit ==
    /\ part \in Parts
    /\ MetricsInit /\ SinksInit /\ CommandsInit /\ WatchInit
    /\ launch \in (IF part = "life" THEN MCLaunches ELSE {Plain}) /\ LifecycleInit
    /\ body \in (IF part = "request" THEN MCBodies ELSE {FirstBody})
    /\ caller \in (IF part = "request" THEN MCCallers \union {NoValue} ELSE {NoValue})
    /\ RequestsInit

DecisionsStep == part = "decisions" /\ MetricsNext /\ Reported' = 0
                 /\ UNCHANGED <<sinkVars, lifecycleVars, requestVars, commandVars, watchVars>>
CountersStep  == part = "counters" /\ MetricsNext /\ Asked' = 0
                 /\ UNCHANGED <<sinkVars, lifecycleVars, requestVars, commandVars, watchVars>>
JsonlStep     == part = "jsonl" /\ JsonlNext
                 /\ UNCHANGED <<metricsVars, lifecycleVars, requestVars, commandVars, watchVars>>
OtlpStep      == part = "otlp" /\ OtlpNext
                 /\ UNCHANGED <<metricsVars, lifecycleVars, requestVars, commandVars, watchVars>>
LifeStep      == part = "life" /\ LifecycleBehavior
                 /\ UNCHANGED <<metricsVars, sinkVars, requestVars, commandVars, watchVars>>
RequestStep   == part = "request" /\ RequestsNext
                 /\ UNCHANGED <<metricsVars, sinkVars, lifecycleVars, commandVars, watchVars>>
CommandsStep  == part = "commands" /\ CommandsNext
                 /\ UNCHANGED <<metricsVars, sinkVars, lifecycleVars, requestVars, watchVars>>
WatchStep     == part = "watch" /\ WatchNext
                 /\ UNCHANGED <<metricsVars, sinkVars, lifecycleVars, requestVars, commandVars>>

MCNext ==
    /\ \/ DecisionsStep \/ CountersStep \/ JsonlStep
       \/ OtlpStep \/ LifeStep \/ RequestStep \/ CommandsStep \/ WatchStep
    /\ UNCHANGED part

\* The fairness of each specification, in its own behaviors.
MCFairness ==
    /\ \A t \in Tasks : /\ WF_sinkVars(part = "otlp" /\ EndEmit(t))
                        /\ WF_sinkVars(part = "otlp" /\ EndFlush(t))
                        /\ SF_sinkVars(part = "otlp" /\ StartFlush(t))
    /\ WF_lifecycleVars(part = "life" /\ ProcessStep)
    /\ \A r \in Requests : WF_lifecycleVars(part = "life" /\ Answer(r))
    /\ WF_watchVars(part = "watch" /\ Elapse) /\ WF_watchVars(part = "watch" /\ Poll)

MCSpec ==
    /\ MCInit
    /\ [][MCNext]_<<part, metricsVars, sinkVars, lifecycleVars, requestVars,
                    commandVars, watchVars>>
    /\ MCFairness

-----------------------------------------------------------------------------
\* A label (label_key, split, escape_label) never ends its line or its quotes early,
\* whatever it holds, and a reader of the page gets back what was recorded, whatever
\* quotes, backslashes and line feeds it holds, unless it holds a carriage return:
\* the format has no escape for one.  None of these labels holds the separator of
\* label_key.
LabelsRecovered ==
    part = "counters" /\ MetricsInit =>
        \A x, y \in Labels :
            LET pair == <<x, y>>
                encoded == Rendered(LabelKey(pair), 2)
            IN  \A i \in 1 .. 2 :
                    /\ ToSet(encoded[i]) \intersect {"\n", "\r"} = {}
                    /\ ~Decoded(encoded[i]).escape /\ ~Decoded(encoded[i]).ended
                    /\ "\r" \notin ToSet(pair[i]) => Decoded(encoded[i]).text = pair[i]

\* audit export: the fields of a CEF or LEEF line read back to the record's
\* values, whatever equals signs and backslashes they hold, with a space for a line
\* feed; a carriage return stays what it is (escape).
ExportReadsBack == part = "commands" /\ CommandsInit => FieldsReadBack(ExportRecords)

\* What is written for another program to read is read back as it was.
EncodingsReadBack == LabelsRecovered /\ ExportReadsBack
=============================================================================
