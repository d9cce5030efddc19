-------------------------- MODULE DecisionRequests ---------------------------
(****************************************************************************)
(* What a request says on its way in and out: from the AuthZEN body, or the  *)
(* file of the authorize command, to the Cedar request that is evaluated and *)
(* from there to the audit record and the answer.                            *)
(*                                                                           *)
(* An action id is the sequence of its parts between "::"; a context is a    *)
(* function on its keys (a body that is not an object has none); NoValue is  *)
(* an absent optional.                                                       *)
(****************************************************************************)
EXTENDS Naturals, Sequences, Functions

CONSTANTS Bodies,      \* requests as they arrive
          Callers,     \* identities that credentials are bound to
          NoValue

\* A subject or a resource.
EntityRef == [type : STRING, id : STRING]

VARIABLES body, caller,  \* the request, and who sent it
          agentReq,      \* the AgentRequest
          cedarReq,      \* what Cedar evaluated
          record,        \* the audit record
          progress,         \* how far the request is
          shown          \* the decision as given to the caller

requestVars == <<body, caller, agentReq, cedarReq, record, progress, shown>>

-----------------------------------------------------------------------------
(* TraceContext                                                              *)

\* FromStr: four parts, a version that starts with 00, ids and flags in hex of the
\* right length. A part is what it is or "bad".
ParseTrace(header) ==
    IF /\ header # NoValue /\ Len(header) = 4
       /\ header[1] = "00" /\ "bad" \notin Range(header)
    THEN [trace |-> header[2], span |-> header[3]]
    ELSE NoValue

-----------------------------------------------------------------------------
(* evaluation_request_to_agent and evaluation_request_for_caller             *)

\* strip_prefix("ToolCall::") and split_once("::")
ToolCall(id) ==
    LET parts == IF Len(id) > 1 /\ Head(id) = "ToolCall" THEN Tail(id) ELSE id
    IN  [tool |-> Head(parts), operation |-> Tail(parts)]

Trimmed(tenant) ==
    CASE tenant = " acme " -> "acme" [] tenant = " " -> NoValue [] OTHER -> tenant

\* AgentContext: the session is an object or is dropped, the rest are arguments
ToContext(context) ==
    [args |-> Restrict(context, DOMAIN context \ {"session"}),
     session |-> IF "session" \in DOMAIN context /\ context["session"] = "object"
                 THEN "object" ELSE NoValue]

ToAgent(b, context, tenant) ==
    [principal |-> b.subject, action |-> ToolCall(b.action), resource |-> b.resource,
     context |-> ToContext(context), trace |-> NoValue, tenant |-> Trimmed(tenant)]

\* the caller's own subject, unless the key may act as others
OwnSubject(b, c) == c.canActAs \/ b.subject = c.subject

\* a tenant the body names is the credential's
TenantAgreesOrUntold(b, c) ==
    "tenant_id" \in DOMAIN b.context /\ c.tenant # NoValue =>
        b.context["tenant_id"] = c.tenant
TenantAgrees(b, c) ==
    "tenant_id" \in DOMAIN b.context => b.context["tenant_id"] = c.tenant

MapForCaller ==
    LET identified == caller # NoValue
        context == IF identified
                   THEN Restrict(body.context, DOMAIN body.context \ {"tenant_id"})
                   ELSE body.context
    IN  /\ progress = "received" /\ body.via = "server"
        /\ \/ /\ identified
              /\ ~(OwnSubject(body, caller) /\ TenantAgrees(body, caller))
              /\ progress' = "forbidden" /\ UNCHANGED agentReq
           \/ /\ identified => OwnSubject(body, caller) /\ TenantAgrees(body, caller)
              /\ IF body.subject.type \notin {"User", "Agent"}
                 THEN progress' = "bad request" /\ UNCHANGED agentReq
                 ELSE /\ progress' = "mapped"
                      /\ agentReq' = ToAgent(body, context,
                                             IF identified THEN caller.tenant ELSE NoValue)
        /\ UNCHANGED <<body, caller, cedarReq, record, shown>>

\* The authorize command reads an AgentRequest, whose tool and operation are already
\* apart, with its tenant and its trace; a trace of the environment that parses takes
\* the place of the latter. (evaluation of the server does not take the trace that
\* trace_context_layer left for it.)
ReadRequest ==
    /\ progress = "received" /\ body.via = "command"
    /\ IF \/ body.subject.type \notin {"User", "Agent"}
          \/ body.trace # NoValue /\ ParseTrace(body.trace) = NoValue
       THEN progress' = "bad request" /\ UNCHANGED agentReq
       ELSE /\ progress' = "mapped"
            /\ agentReq' = [principal |-> body.subject,
                            action |-> [tool |-> Head(body.action),
                                        operation |-> Tail(body.action)],
                            resource |-> body.resource, context |-> ToContext(body.context),
                            trace |-> IF ParseTrace(body.traceparent) # NoValue
                                      THEN ParseTrace(body.traceparent)
                                      ELSE ParseTrace(body.trace),
                            tenant |-> body.tenant]
    /\ UNCHANGED <<body, caller, cedarReq, record, shown>>

-----------------------------------------------------------------------------
(* Evaluation                                                                *)

ActionId(action) == <<"ToolCall", action.tool>> \o action.operation

\* to_json_object: arguments at the top, the session, if any, under its own key
CedarContext(context) ==
    [k \in DOMAIN context.args \union (IF context.session = NoValue THEN {} ELSE {"session"})
       |-> IF k = "session" THEN context.session ELSE context.args[k]]

\* to_cedar_request; a type that is no Cedar name, a context the schema refuses and an
\* error of the evaluator end the request.
Evaluate ==
    /\ progress = "mapped"
    /\ \/ progress' = "error" /\ UNCHANGED cedarReq
       \/ /\ agentReq.resource.type # "not a name"
          /\ progress' = "decided"
          /\ cedarReq' = [principal |-> agentReq.principal, resource |-> agentReq.resource,
                          action |-> ActionId(agentReq.action),
                          context |-> CedarContext(agentReq.context)]
    /\ UNCHANGED <<body, caller, agentReq, record, shown>>

-----------------------------------------------------------------------------
(* DecisionRecord::from_decision, from the decision's request as JSON        *)

JsonText(s) == [kind |-> "text", text |-> s]

\* serde: a TraceContext is its traceparent, one string
TraceJson(trace) == JsonText(<<"00", trace.trace, trace.span>>)

\* Value::get(key) is None on anything but an object
FieldOf(json, key) ==
    IF json # NoValue /\ json.kind = "object" /\ key \in DOMAIN json.fields
    THEN json.fields[key] ELSE NoValue

AuditRecord ==
    [principal : STRING, resource : STRING, action : Seq(STRING),
     tenant : {Trimmed(c.tenant) : c \in Callers} \union {b.tenant : b \in Bodies}
                  \union {NoValue, Trimmed(NoValue)},
     actor : Callers \union {NoValue},
     traceId : STRING \union {NoValue}, spanId : STRING \union {NoValue}]

FromDecision(r, actor) ==
    LET trace == IF r.trace = NoValue THEN NoValue ELSE TraceJson(r.trace)
    IN  [principal |-> r.principal.id, resource |-> r.resource.id,
         action |-> <<r.action.tool>> \o r.action.operation,
         tenant |-> r.tenant, actor |-> actor,
         traceId |-> FieldOf(trace, "trace_id"), spanId |-> FieldOf(trace, "span_id")]

\* The actor is the credential's identity, put into the decision's request by the
\* server, for act-as keys as for the others.
AppendDecision ==
    /\ progress = "decided" /\ ~body.noAudit
    /\ \/ progress' = "error" /\ UNCHANGED record
       \/ progress' = "recorded" /\ record' = FromDecision(agentReq, caller)
    /\ UNCHANGED <<body, caller, agentReq, cedarReq, shown>>

\* Nothing is answered or printed until the append has succeeded.
Show ==
    /\ progress = "recorded" \/ (progress = "decided" /\ body.noAudit)
    /\ ~shown /\ shown' = TRUE
    /\ UNCHANGED <<body, caller, agentReq, cedarReq, record, progress>>

\* An action id has a part at least; no record is no value.
ASSUME RequestsAssumption ==
    /\ \A b \in Bodies : /\ b.subject \in EntityRef /\ b.resource \in EntityRef
                         /\ b.action \in Seq(STRING) /\ b.action # <<>>
    /\ NoValue \notin AuditRecord

RequestsInit ==
    /\ body \in Bodies
    /\ caller \in Callers \union {NoValue} /\ (body.via = "command" => caller = NoValue)
    /\ agentReq = NoValue /\ cedarReq = NoValue /\ record = NoValue
    /\ progress = "received" /\ shown = FALSE

RequestsNext == MapForCaller \/ ReadRequest \/ Evaluate \/ AppendDecision \/ Show

RequestsSpec == RequestsInit /\ [][RequestsNext]_requestVars

-----------------------------------------------------------------------------
\* evaluation_request_for_caller: what is evaluated for an identified caller is about
\* the caller's own subject unless the key may act as others; the tenant on record is
\* the credential's, and the body's own claim of a tenant never reaches the policies.
IdentityBound ==
    progress \in {"decided", "recorded"} /\ caller # NoValue =>
        /\ caller.canActAs \/ cedarReq.principal = caller.subject
        /\ "tenant_id" \notin DOMAIN cedarReq.context
        /\ agentReq.tenant = Trimmed(caller.tenant)
        /\ "tenant_id" \in DOMAIN body.context => body.context["tenant_id"] = caller.tenant

\* The record of a decision is about the very request that Cedar evaluated, which is
\* the one that was asked: an action id is the same after it was split into tool and
\* operation, put together for Cedar and again for the record; the credential on
\* record is the caller's, and the tenant of a request file the one it names.
RecordFaithful ==
    progress = "recorded" =>
        /\ cedarReq.principal = body.subject /\ cedarReq.resource = body.resource
        /\ cedarReq.action \in {body.action, <<"ToolCall">> \o body.action}
        /\ record.principal = cedarReq.principal.id
        /\ record.resource = cedarReq.resource.id
        /\ <<"ToolCall">> \o record.action = cedarReq.action
        /\ record.actor = caller
        /\ body.via = "command" => record.tenant = body.tenant

\* A decision is shown only when it is on record, also when the append fails (unless
\* the command was told not to keep one).
ShownOnRecord == shown => body.noAudit \/ record # NoValue

\* A request is about the same thing, and the same caller, all the way.
RequestFaithful == IdentityBound /\ RecordFaithful /\ ShownOnRecord
=============================================================================
