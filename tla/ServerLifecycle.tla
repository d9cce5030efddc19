--------------------------- MODULE ServerLifecycle ---------------------------
(****************************************************************************)
(* A PDP process from its command line to its exit: the checks run makes     *)
(* before it opens a socket, the gRPC sidecar, the signal loop, the readiness *)
(* probe and the shutdown that drains the two servers.                       *)
(*                                                                           *)
(* A launch is a command line with the state of the files and sockets it     *)
(* names; launch.fault is the one thing of the environment that fails.       *)
(****************************************************************************)
EXTENDS Naturals, Sequences

CONSTANTS Launches,   \* the launches considered
          Requests,   \* the requests clients send
          MaxHups,    \* bound on the SIGHUPs sent
          MaxProbes   \* bound on the readiness probes

\* A launch: who starts the server, what its command line says, what its files
\* hold, and the one thing of its environment that fails.
Launch ==
    [entry : {"run", "build_router"}, scheme : {"tcp", "tls", "unix"},
     query : Seq(STRING), addr : {"loopback", "public", "bad"}, mode : STRING,
     keyFile : BOOLEAN, grpc : {"", "loopback", "public", "bad"}, bypass : BOOLEAN,
     secret : {"unset", "missing", "empty", "blank", "text"}, audit : BOOLEAN,
     async : BOOLEAN, fault : STRING]

ASSUME LaunchAssumption == \A l \in Launches : l \in Launch

VARIABLES
    launch,     \* the launch of this process
    stage,      \* how many startup steps have passed
    chainKey,   \* the HMAC key of the audit log
    http, grpc, \* the two servers
    watching,   \* are the policy and key watchers running?
    loop,       \* shutdown_signal_with_sighup
    sent,       \* the stop signals sent to the process
    term, int, hup,  \* signals the loop will find when it next selects
    hups,       \* SIGHUPs sent
    told,       \* the value of the shutdown channel
    req,        \* the requests
    exit,       \* how the process ended
    policies,   \* is policy_count() above 0?
    audit,      \* the audit writer
    probe, ready, probes   \* the probe under way, the last answer, their number

serverVars == <<launch, stage, chainKey, http, grpc, watching, loop, told, req, exit>>
signalVars == <<sent, term, int, hup, hups>>
probeVars == <<policies, audit, probe, ready, probes>>
lifecycleVars == <<serverVars, signalVars, probeVars>>

-----------------------------------------------------------------------------
(* The command line                                                          *)

Count(key, l) == Len(SelectSeq(l.query, LAMBDA k : k = key))

\* Listener::parse: tls:// wants a cert and a key, and no key twice
ParseListener(l) ==
    \/ l.scheme = "tcp" /\ l.addr # "bad"
    \/ /\ l.scheme = "tls" /\ l.addr # "bad"
       /\ Count("malformed", l) = 0
       /\ \A i, j \in 1..Len(l.query) : l.query[i] = l.query[j] => i = j
       /\ Count("cert", l) = 1 /\ Count("key", l) = 1

\* auth_config of the binary, and AuthConfig::from_env for an embedder
AuthConfig(l) ==
    IF l.entry = "run"
    THEN CASE l.mode = "disabled" -> "disabled"
           [] l.mode = "apikey" /\ l.keyFile -> "apikey"
           [] l.mode = "apikey:path" /\ ~l.keyFile -> "apikey"
           [] OTHER -> "refused"
    ELSE CASE l.mode \in {"unset", "", "disabled"} -> "disabled"
           [] l.mode = "apikey:path" -> "apikey"
           [] OTHER -> "refused"

Parsed(l) == ParseListener(l) /\ AuthConfig(l) # "refused" /\ l.grpc # "bad"

\* is_public, validate_grpc_listener and validate_listener_security
IsPublic(l) == l.addr = "public"
ListenerSecurityHttpOnly(l) == AuthConfig(l) = "apikey" \/ ~IsPublic(l) \/ l.bypass
ListenerSecurity(l) ==
    /\ l.grpc \in {"", "loopback"}
    /\ AuthConfig(l) = "apikey" \/ ~IsPublic(l) \/ l.bypass

\* decode of the chain secret file: a blank file is base64 of nothing, which is a
\* key, only not one of any length
ChainKey(l) ==
    CASE l.secret \in {"unset", "empty"} -> "none"
      [] l.secret = "blank" -> "zero bytes"
      [] OTHER -> "key"

-----------------------------------------------------------------------------
(* Startup                                                                   *)

RunSteps == <<"command line", "cache settings", "rotation", "certificates",
              "security", "key store", "chain secret", "policies", "audit log",
              "watch", "grpc", "pem", "bind">>
EmbedSteps == <<"command line", "key store", "chain secret", "policies",
                "audit log", "embed">>
Steps(l) == IF l.entry = "run" THEN RunSteps ELSE EmbedSteps

RefusedSecret(l) ==
    l.secret = "missing" \/ (l.entry = "run" /\ l.secret = "empty")

Refused(step, l) ==
    \/ step = "command line" /\ ~Parsed(l)
    \/ step = "security" /\ ~ListenerSecurity(l)
    \/ step = "chain secret" /\ RefusedSecret(l)
    \/ /\ l.fault = step
       /\ step \in {"certificates", "pem"} => l.scheme = "tls"
       /\ step = "key store" => AuthConfig(l) = "apikey"
       /\ step = "audit log" => l.audit

Idle == [at |-> "idle", late |-> FALSE]

LifecycleInit ==
    /\ launch \in Launches
    /\ stage = 0 /\ chainKey = "none" /\ watching = FALSE
    /\ http = "unbound" /\ grpc = "off" /\ loop = "absent" /\ told = FALSE
    /\ req = [r \in Requests |-> "none"] /\ exit = "running"
    /\ sent = {} /\ term = FALSE /\ int = FALSE /\ hup = FALSE /\ hups = 0
    /\ policies = TRUE /\ audit = "none"
    /\ probe = Idle /\ ready = "none" /\ probes = 0

Running == exit = "running"
Started == stage = Len(Steps(launch))
InFlight(via) == {r \in Requests : req[r] = via}

Lost(at) == CASE at = "http" -> "http lost" [] at = "grpc" -> "grpc lost" [] OTHER -> at

\* The process ends: its sockets close, whatever is in flight is lost.
Halt(how) ==
    /\ exit' = how /\ loop' = "gone" /\ watching' = FALSE
    /\ http' = "closed" /\ grpc' = "stopped"
    /\ req' = [r \in Requests |-> Lost(req[r])]
    /\ UNCHANGED <<launch, stage, chainKey, told>>

Passes(step) ==
    /\ Running /\ ~Started /\ Steps(launch)[stage + 1] = step
    /\ ~Refused(step, launch)
    /\ stage' = stage + 1
    /\ UNCHANGED <<launch, told, req, exit, signalVars>>

Refuse ==
    /\ Running /\ ~Started /\ Refused(Steps(launch)[stage + 1], launch)
    /\ Halt("error") /\ UNCHANGED <<signalVars, probeVars>>

Check ==
    /\ \E step \in {"command line", "cache settings", "rotation", "certificates",
                    "security", "key store", "policies"} : Passes(step)
    /\ UNCHANGED <<chainKey, http, grpc, watching, loop, probeVars>>

LoadSecret ==
    /\ Passes("chain secret") /\ chainKey' = ChainKey(launch)
    /\ UNCHANGED <<http, grpc, watching, loop, probeVars>>

\* build_state_with_options, with no audit log when none is configured
OpenAuditLog ==
    /\ Passes("audit log") /\ audit' = IF launch.audit THEN "healthy" ELSE "none"
    /\ UNCHANGED <<chainKey, http, grpc, watching, loop, policies, probe, ready, probes>>

StartWatchers ==
    /\ Passes("watch") /\ watching' = TRUE
    /\ UNCHANGED <<chainKey, http, grpc, loop, probeVars>>

SpawnGrpc ==
    /\ Passes("grpc") /\ grpc' = IF launch.grpc = "" THEN "off" ELSE "spawned"
    /\ UNCHANGED <<chainKey, http, watching, loop, probeVars>>

\* the TLS listener has its signal task before it is bound
LoadPem ==
    /\ Passes("pem") /\ loop' = IF launch.scheme = "tls" THEN "spawned" ELSE loop
    /\ UNCHANGED <<chainKey, http, grpc, watching, probeVars>>

Bind ==
    /\ Passes("bind") /\ http' = "open"
    /\ loop' = IF launch.scheme = "tcp" THEN "spawned" ELSE loop
    /\ UNCHANGED <<chainKey, grpc, watching, probeVars>>

\* build_router: the embedder serves the router, under its own signal handling
Embed ==
    /\ Passes("embed") /\ http' = "open"
    /\ UNCHANGED <<chainKey, grpc, watching, loop, probeVars>>

-----------------------------------------------------------------------------
(* The servers                                                               *)

\* The sidecar's bind error is logged and ends only the sidecar's task.
BindGrpc ==
    /\ Running /\ grpc = "spawned"
    /\ grpc' = IF launch.fault = "grpc bind" THEN "failed" ELSE "open"
    /\ UNCHANGED <<launch, stage, chainKey, http, watching, loop, told, req, exit,
                   signalVars, probeVars>>

AcceptRequest(r) ==
    /\ Running /\ req[r] = "none"
    /\ \/ http = "open" /\ req' = [req EXCEPT ![r] = "http"]
       \/ grpc = "open" /\ req' = [req EXCEPT ![r] = "grpc"]
    /\ UNCHANGED <<launch, stage, chainKey, http, grpc, watching, loop, told, exit,
                   signalVars, probeVars>>

Answer(r) ==
    /\ Running /\ req[r] \in {"http", "grpc"}
    /\ req' = [req EXCEPT ![r] = "answered"]
    /\ UNCHANGED <<launch, stage, chainKey, http, grpc, watching, loop, told, exit,
                   signalVars, probeVars>>

\* axum's graceful shutdown waits for what it accepted; axum_server's shutdown
\* does not.
CloseHttp ==
    /\ Running /\ loop = "done" /\ http = "open"
    /\ IF launch.scheme = "tcp"
       THEN http' = "draining" /\ req' = req
       ELSE /\ http' = "closed"
            /\ req' = [r \in Requests |-> IF req[r] = "http" THEN Lost("http") ELSE req[r]]
    /\ UNCHANGED <<launch, stage, chainKey, grpc, watching, loop, told, exit,
                   signalVars, probeVars>>

EndHttp ==
    /\ Running /\ http = "draining" /\ InFlight("http") = {}
    /\ http' = "closed"
    /\ UNCHANGED <<launch, stage, chainKey, grpc, watching, loop, told, req, exit,
                   signalVars, probeVars>>

DrainGrpc ==
    /\ Running /\ grpc = "open" /\ told
    /\ grpc' = "draining"
    /\ UNCHANGED <<launch, stage, chainKey, http, watching, loop, told, req, exit,
                   signalVars, probeVars>>

EndGrpc ==
    /\ Running /\ grpc = "draining" /\ InFlight("grpc") = {}
    /\ grpc' = "stopped"
    /\ UNCHANGED <<launch, stage, chainKey, http, watching, loop, told, req, exit,
                   signalVars, probeVars>>

\* the end of run: the watchers are aborted, then the sidecar is awaited
AbortWatchers ==
    /\ Running /\ Started /\ http = "closed" /\ watching
    /\ watching' = FALSE
    /\ UNCHANGED <<launch, stage, chainKey, http, grpc, loop, told, req, exit,
                   signalVars, probeVars>>

\* run returns without the sidecar's handle
ExitUnjoined ==
    /\ Running /\ Started /\ http = "closed" /\ ~watching
    /\ Halt("clean") /\ UNCHANGED <<signalVars, probeVars>>
Exit ==
    /\ Running /\ Started /\ http = "closed" /\ ~watching
    /\ grpc \in {"off", "failed", "stopped"}
    /\ Halt("clean") /\ UNCHANGED <<signalVars, probeVars>>

-----------------------------------------------------------------------------
(* Signals                                                                   *)

\* Handlers are installed by the loop; until then, and where the installation
\* failed, a signal has its default disposition.
Handled(signal) ==
    loop \in {"waiting", "reloading", "parked", "done"} /\ launch.fault # signal

\* SIGTERM and SIGHUP are kept for the next select; SIGINT is seen only by the
\* ctrl_c future that is being awaited when it arrives.
Signal(signal) ==
    /\ Running /\ launch.entry = "run" /\ signal \notin sent
    /\ sent' = sent \union {signal}
    /\ IF Handled(signal)
       THEN /\ term' = (term \/ signal = "terminate")
            /\ int' = (int \/ (signal = "ctrl_c" /\ loop = "waiting"))
            /\ UNCHANGED serverVars
       ELSE Halt("killed") /\ UNCHANGED <<term, int>>
    /\ UNCHANGED <<hup, hups, probeVars>>

Hangup ==
    /\ Running /\ launch.entry = "run" /\ hups < MaxHups
    /\ hups' = hups + 1
    /\ IF Handled("hangup")
       THEN hup' = TRUE /\ UNCHANGED serverVars
       ELSE Halt("killed") /\ UNCHANGED hup
    /\ UNCHANGED <<sent, term, int, probeVars>>

InstallHandlers ==
    /\ Running /\ loop = "spawned" /\ loop' = "waiting"
    /\ UNCHANGED <<launch, stage, chainKey, http, grpc, watching, told, req, exit,
                   signalVars, probeVars>>

\* ctrl_c() reports that its handler cannot be installed: the arm that awaits
\* forever is the body of the select, so the loop goes no further.
Park ==
    /\ Running /\ loop = "waiting" /\ launch.fault = "ctrl_c"
    /\ loop' = "parked"
    /\ UNCHANGED <<launch, stage, chainKey, http, grpc, watching, told, req, exit,
                   signalVars, probeVars>>

\* the loop ends without a word to the sidecar
TakeStopUntold ==
    /\ Running /\ loop = "waiting" /\ (int \/ term)
    /\ loop' = "done" /\ UNCHANGED told
    /\ UNCHANGED <<launch, stage, chainKey, http, grpc, watching, req, exit,
                   signalVars, probeVars>>
TakeStop ==
    /\ Running /\ loop = "waiting" /\ (int \/ term)
    /\ loop' = "done" /\ told' = TRUE
    /\ UNCHANGED <<launch, stage, chainKey, http, grpc, watching, req, exit,
                   signalVars, probeVars>>

\* the other futures of the select are dropped, the ctrl_c one with what it saw
TakeHangup ==
    /\ Running /\ loop = "waiting" /\ hup
    /\ loop' = "reloading" /\ hup' = FALSE /\ int' = FALSE
    /\ UNCHANGED <<launch, stage, chainKey, http, grpc, watching, told, req, exit,
                   sent, term, hups, probeVars>>

\* A reload, by the loop or by the watcher, installs the policies it finds or
\* keeps the ones there are.
ReloadByLoop ==
    /\ Running /\ loop = "reloading" /\ loop' = "waiting"
    /\ policies' \in BOOLEAN
    /\ UNCHANGED <<launch, stage, chainKey, http, grpc, watching, told, req, exit,
                   signalVars, audit, probe, ready, probes>>
ReloadByWatcher ==
    /\ Running /\ watching
    /\ policies' = ~policies
    /\ UNCHANGED <<serverVars, signalVars, audit, probe, ready, probes>>

-----------------------------------------------------------------------------
(* Readiness. The binary's writer is synchronous; an embedder may inject an  *)
(* asynchronous one, whose answers the probe waits for with a timeout.       *)

Poison ==
    /\ Running /\ audit = "healthy" /\ audit' = "poisoned"
    /\ UNCHANGED <<serverVars, signalVars, policies, probe, ready, probes>>

\* readyz reads the policy count; the answer remembers if the writer was already
\* poisoned then.
StartProbe ==
    /\ Running /\ http = "open" /\ probe = Idle /\ probes < MaxProbes
    /\ probes' = probes + 1
    /\ IF policies THEN probe' = [at |-> "writer", late |-> audit = "poisoned"] /\ ready' = "none"
                   ELSE probe' = Idle /\ ready' = "unavailable"
    /\ UNCHANGED <<serverVars, signalVars, policies, audit>>

AnswerProbe(ok) ==
    /\ ready' = IF ok THEN IF probe.late THEN "ready late" ELSE "ready" ELSE "unavailable"
    /\ probe' = Idle
    /\ UNCHANGED <<serverVars, signalVars, policies, audit, probes>>

Chained == launch.audit /\ chainKey # "none"

ReadWriter ==
    /\ Running /\ probe.at = "writer" /\ ~launch.async
    /\ AnswerProbe(audit = "healthy" /\ Chained)

AwaitHealthy ==
    /\ Running /\ probe.at = "writer" /\ launch.async
    /\ \/ AnswerProbe(FALSE)
       \/ /\ audit = "healthy" /\ probe' = [probe EXCEPT !.at = "chained"]
          /\ UNCHANGED <<serverVars, signalVars, policies, audit, ready, probes>>

AwaitChained ==
    /\ Running /\ probe.at = "chained"
    /\ \E inTime \in BOOLEAN : AnswerProbe(inTime /\ Chained)

-----------------------------------------------------------------------------

ProcessStep ==
    \/ Refuse \/ Check \/ LoadSecret \/ OpenAuditLog \/ StartWatchers \/ SpawnGrpc
    \/ LoadPem \/ Bind \/ Embed
    \/ BindGrpc \/ CloseHttp \/ EndHttp \/ DrainGrpc \/ EndGrpc
    \/ AbortWatchers \/ Exit
    \/ InstallHandlers \/ Park \/ TakeStop \/ TakeHangup \/ ReloadByLoop
LifecycleNext ==
    \/ ProcessStep \/ ReloadByWatcher
    \/ \E r \in Requests : AcceptRequest(r) \/ Answer(r)
    \/ \E s \in {"terminate", "ctrl_c"} : Signal(s)
    \/ Hangup
    \/ Poison \/ StartProbe \/ ReadWriter \/ AwaitHealthy \/ AwaitChained

\* The runtime polls every task that can go on, and a request ends (its work is
\* bounded: see PdpServer); clients, signals and the disk owe nothing.
LifecycleFairness ==
    /\ WF_lifecycleVars(ProcessStep)
    /\ \A r \in Requests : WF_lifecycleVars(Answer(r))

LifecycleSpec ==
    LifecycleInit /\ [][LifecycleNext]_lifecycleVars /\ LifecycleFairness

Serving == {s \in {"http", "grpc"} : IF s = "http" THEN http = "open" ELSE grpc = "open"}

\* Of the process run starts, no socket answers decisions without a credential to
\* other machines unless the operator asked for it, nor before the policies and the
\* audit log are open; a chain secret that was configured chains the log.
SocketsGuarded ==
    Running /\ launch.entry = "run" /\ Serving # {} =>
        /\ launch.audit => audit # "none"
        /\ "http" \in Serving /\ launch.mode = "disabled" =>
               launch.addr = "loopback" \/ launch.bypass
        /\ "grpc" \in Serving => launch.grpc = "loopback"
        /\ (launch.secret = "unset") <=> (chainKey = "none")

\* When run returns because of a signal, every request accepted by the gRPC server,
\* and by the HTTP server of a tcp:// listener, has been answered: these servers
\* drain, and run waits for both (that of a tls:// listener does not drain: see
\* AcceptedComplete).
DrainedBeforeExit ==
    exit \in {"running", "clean"} =>
        \A r \in Requests :
            /\ req[r] # "grpc lost"
            /\ req[r] = "http lost" => launch.scheme = "tls" /\ told
            /\ exit = "clean" => req[r] \notin {"http", "grpc"}

\* "In-flight requests are allowed to complete before the process exits"
\* (server.rs:97): none that was accepted is lost before run has returned.  The
\* shutdown of a tls:// listener drops those in flight.
AcceptedComplete ==
    exit \in {"running", "clean"} =>
        \A r \in Requests : req[r] \notin {"http lost", "grpc lost"}

\* readyz: a probe that begins after the audit writer was poisoned is not answered
\* 200, whatever the reloads and the timeouts in between; so a poisoned instance is
\* taken out of rotation by its next probe.
NotReadyOncePoisoned == ready # "ready late"

\* Nobody is let in, and no instance offered, that should not be.
ServiceGuarded == SocketsGuarded /\ NotReadyOncePoisoned

\* A SIGTERM ends the process, whatever SIGHUPs come first and whatever the sidecar
\* does (unless ctrl_c() cannot install its handler, which parks the loop).
ShutdownEnds ==
    "terminate" \in sent /\ launch.fault # "ctrl_c" ~> exit # "running"
=============================================================================
