-------------------------- MODULE OperationsProofs ---------------------------
(****************************************************************************)
(* Proofs about the parts the Operations run checks one by one: the process  *)
(* that serves (ServerLifecycle), the event sinks (EventSinks), a request on *)
(* its way to the record (DecisionRequests) and the policy watcher           *)
(* (PolicyWatch), each with an inductive invariant of its own.               *)
(****************************************************************************)
EXTENDS ServerLifecycle, EventSinks, DecisionRequests, PolicyWatch,
        FiniteSetTheorems, TLAPS

-----------------------------------------------------------------------------
(* ServerLifecycle                                                           *)

\* ServerLifecycle: what the variables hold.
LifecycleTypes ==
    /\ launch \in Launch
    /\ stage \in Nat
    /\ req \in [Requests -> {"none", "http", "grpc", "answered", "http lost", "grpc lost"}]
    /\ exit \in {"running", "clean", "error", "killed"}
    /\ audit \in {"none", "healthy", "poisoned"}
    /\ probe \in [at : {"idle", "writer", "chained"}, late : BOOLEAN]

\* What the steps behind a process of run have made sure of and set up: a socket is
\* open only after all of them.
BehindRun ==
    /\ stage <= 13
    /\ stage >= 1 => Parsed(launch)
    /\ stage >= 5 => ListenerSecurity(launch)
    /\ stage >= 7 => ~RefusedSecret(launch) /\ chainKey = ChainKey(launch)
    /\ stage >= 9 => (launch.audit => audit # "none")
    /\ audit # "none" => stage >= 9
    /\ http \in {"open", "draining"} => stage = 13
    /\ Running /\ grpc # "off" => stage >= 11 /\ launch.grpc # ""

\* The same for a router that an embedder serves.
BehindEmbed ==
    /\ stage <= 6
    /\ audit # "none" => stage >= 5
    /\ http \in {"open", "draining"} => stage = 6
    /\ Running => grpc = "off" /\ loop = "absent"

StepsBehind ==
    /\ launch.entry = "run" => BehindRun
    /\ launch.entry = "build_router" => BehindEmbed

\* A probe that began on a poisoned writer has yet to ask it.
LateProbesAsk == probe.late => audit = "poisoned" /\ probe.at = "writer"

\* A request in flight is with a server that will answer it.
InFlightServed ==
    /\ loop = "done" => told
    /\ Running => \A r \in Requests :
         /\ req[r] = "http" => http \in {"open", "draining"}
         /\ req[r] = "grpc" => grpc \in {"open", "draining"}

LifecycleInv ==
    /\ LifecycleTypes /\ StepsBehind /\ LateProbesAsk /\ NotReadyOncePoisoned
    /\ InFlightServed /\ DrainedBeforeExit

\* The number of steps of the two entries.
LEMMA StepCount ==
    ASSUME NEW l \in Launch
    PROVE  /\ l.entry = "run" => Len(Steps(l)) = 13 /\ Steps(l) = RunSteps
           /\ l.entry = "build_router" => Len(Steps(l)) = 6 /\ Steps(l) = EmbedSteps
           /\ l.entry \in {"run", "build_router"}
<1>1. l.entry \in {"run", "build_router"}
  BY Zenon DEF Launch
<1>2. Len(RunSteps) = 13 /\ Len(EmbedSteps) = 6
  BY Zenon DEF RunSteps, EmbedSteps
<1>3. QED
  BY <1>1, <1>2, Zenon DEF Steps

\* Where the steps are that the invariant is about.
LEMMA RunPlaces ==
    ASSUME NEW i \in 1..13, NEW step, step = RunSteps[i]
    PROVE  /\ step # "embed"
           /\ step = "command line" => i = 1
           /\ i = 1 => step = "command line"
           /\ step = "security" => i = 5
           /\ i = 5 => step = "security"
           /\ step = "chain secret" => i = 7
           /\ i = 7 => step = "chain secret"
           /\ step = "audit log" => i = 9
           /\ i = 9 => step = "audit log"
           /\ step = "grpc" => i = 11
           /\ i = 11 => step = "grpc"
           /\ step = "bind" => i = 13
           /\ i = 13 => step = "bind"
<1>1. /\ RunSteps[1] = "command line" /\ RunSteps[2] = "cache settings"
      /\ RunSteps[3] = "rotation" /\ RunSteps[4] = "certificates"
      /\ RunSteps[5] = "security" /\ RunSteps[6] = "key store"
      /\ RunSteps[7] = "chain secret" /\ RunSteps[8] = "policies"
      /\ RunSteps[9] = "audit log" /\ RunSteps[10] = "watch"
      /\ RunSteps[11] = "grpc" /\ RunSteps[12] = "pem"
      /\ RunSteps[13] = "bind"
  BY Zenon DEF RunSteps
<1>2. \/ i = 1 \/ i = 2 \/ i = 3 \/ i = 4 \/ i = 5 \/ i = 6 \/ i = 7 \/ i = 8
      \/ i = 9 \/ i = 10 \/ i = 11 \/ i = 12 \/ i = 13
  OBVIOUS
<1>3. step # "embed"
  BY <1>1, <1>2, Zenon
<1>4. (step = "command line" => i = 1) /\ (i = 1 => step = "command line")
  BY <1>1, <1>2, Zenon
<1>5. (step = "security" => i = 5) /\ (i = 5 => step = "security")
  BY <1>1, <1>2, Zenon
<1>6. (step = "chain secret" => i = 7) /\ (i = 7 => step = "chain secret")
  BY <1>1, <1>2, Zenon
<1>7. (step = "audit log" => i = 9) /\ (i = 9 => step = "audit log")
  BY <1>1, <1>2, Zenon
<1>8. (step = "grpc" => i = 11) /\ (i = 11 => step = "grpc")
  BY <1>1, <1>2, Zenon
<1>9. (step = "bind" => i = 13) /\ (i = 13 => step = "bind")
  BY <1>1, <1>2, Zenon
<1>10. QED
  BY <1>3, <1>4, <1>5, <1>6, <1>7, <1>8, <1>9, Zenon

\* The same for the steps of a router.
LEMMA EmbedPlaces ==
    ASSUME NEW i \in 1..6, NEW step, step = EmbedSteps[i]
    PROVE  /\ step = "audit log" => i = 5
           /\ i = 5 => step = "audit log"
           /\ step = "embed" => i = 6
           /\ i = 6 => step = "embed"
           /\ step \notin {"watch", "grpc", "pem", "bind"}
<1>1. /\ EmbedSteps[1] = "command line" /\ EmbedSteps[2] = "key store"
      /\ EmbedSteps[3] = "chain secret" /\ EmbedSteps[4] = "policies"
      /\ EmbedSteps[5] = "audit log" /\ EmbedSteps[6] = "embed"
  BY Zenon DEF EmbedSteps
<1>2. i = 1 \/ i = 2 \/ i = 3 \/ i = 4 \/ i = 5 \/ i = 6
  OBVIOUS
<1>3. QED
  BY <1>1, <1>2, Zenon

\* A fresh process satisfies the invariant.
LEMMA LifecycleInitially ==
    LifecycleInit => LifecycleInv
<1> SUFFICES ASSUME LifecycleInit PROVE LifecycleInv
  BY Zenon
<1>1. launch \in Launch
  BY LaunchAssumption, Zenon DEF LifecycleInit
<1>2. LifecycleTypes
  BY <1>1, StepCount, Zenon DEF LifecycleInit, LifecycleTypes, Idle
<1>3. StepsBehind
  BY DEF LifecycleInit, StepsBehind, BehindRun, BehindEmbed
<1>4. LateProbesAsk /\ NotReadyOncePoisoned
  BY Zenon DEF LifecycleInit, LateProbesAsk, NotReadyOncePoisoned, Idle
<1>5. InFlightServed /\ DrainedBeforeExit
  BY Zenon DEF LifecycleInit, InFlightServed, DrainedBeforeExit
<1>6. QED
  BY <1>2, <1>3, <1>4, <1>5, Zenon DEF LifecycleInv

\* Halt, by a refused step, a signal or a clean end that drained the servers, keeps
\* the invariant.
LEMMA HaltKeeps ==
    ASSUME LifecycleInv, Running, NEW how \in {"clean", "error", "killed"}, Halt(how),
           UNCHANGED probeVars,
           how = "clean" => http = "closed" /\ grpc \in {"off", "failed", "stopped"}
    PROVE  LifecycleInv'
<1>1. LifecycleTypes'
  BY Zenon DEF LifecycleInv, LifecycleTypes, Halt, probeVars, Lost
<1>2. StepsBehind'
  <2>1. stage \in Nat /\ launch' = launch
    BY Zenon DEF LifecycleInv, LifecycleTypes, Halt
  <2>2. BehindRun => BehindRun'
    BY <2>1, Zenon DEF BehindRun, Halt, probeVars, Running
  <2>3. BehindEmbed => BehindEmbed'
    BY <2>1, Zenon DEF BehindEmbed, Halt, probeVars, Running
  <2>4. QED
    BY <2>1, <2>2, <2>3, Zenon DEF LifecycleInv, StepsBehind
<1>3. LateProbesAsk' /\ NotReadyOncePoisoned'
  BY Zenon DEF LifecycleInv, LateProbesAsk, NotReadyOncePoisoned, probeVars
<1>4. InFlightServed'
  BY Zenon DEF InFlightServed, Halt, Running
<1>5. DrainedBeforeExit'
  BY Zenon
  DEF LifecycleInv, LifecycleTypes, InFlightServed, DrainedBeforeExit, Halt, Running, Lost
<1>6. QED
  BY <1>1, <1>2, <1>3, <1>4, <1>5, Zenon DEF LifecycleInv

\* Where run is when one of its startup steps passes, and which lie behind it.
LEMMA RunPasses ==
    ASSUME NEW step, stage \in Nat, Passes(step), launch \in Launch,
           launch.entry = "run", stage <= 13
    PROVE  /\ stage' \in Nat /\ stage' = stage + 1 /\ stage' <= 13
           /\ step = "command line" => stage' = 1
           /\ step = "security" => stage' = 5
           /\ step = "chain secret" => stage' = 7
           /\ step = "audit log" => stage' = 9
           /\ step = "grpc" => stage' = 11
           /\ step = "bind" => stage' = 13
           /\ stage' = 1 => step = "command line"
           /\ stage' = 5 => step = "security"
           /\ stage' = 7 => step = "chain secret"
           /\ stage' = 9 => step = "audit log"
           /\ stage' = 11 => step = "grpc"
           /\ stage' = 13 => step = "bind"
           /\ stage' >= 1 => stage >= 1 \/ stage' = 1
           /\ stage' >= 5 => stage >= 5 \/ stage' = 5
           /\ stage' >= 7 => stage >= 7 \/ stage' = 7
           /\ stage' >= 9 => stage >= 9 \/ stage' = 9
           /\ stage' >= 11 => stage >= 11 \/ stage' = 11
           /\ stage >= 1 => stage' >= 1
           /\ stage >= 5 => stage' >= 5
           /\ stage >= 7 => stage' >= 7
           /\ stage >= 9 => stage' >= 9
           /\ stage >= 11 => stage' >= 11
           /\ stage # 13
           /\ step # "embed"
<1>1. Len(Steps(launch)) = 13 /\ Steps(launch) = RunSteps
  BY StepCount, Zenon
<1>2. stage' = stage + 1 /\ stage # 13 /\ Steps(launch)[stage + 1] = step
  BY <1>1, Zenon DEF Passes, Started
<1>3. stage + 1 \in 1..13
  BY <1>2
<1>4. step = RunSteps[stage + 1]
  BY <1>1, <1>2, Zenon
<1>5. /\ step # "embed"
      /\ step = "command line" => stage + 1 = 1
      /\ step = "security" => stage + 1 = 5
      /\ step = "chain secret" => stage + 1 = 7
      /\ step = "audit log" => stage + 1 = 9
      /\ step = "grpc" => stage + 1 = 11
      /\ step = "bind" => stage + 1 = 13
      /\ stage + 1 = 1 => step = "command line"
      /\ stage + 1 = 5 => step = "security"
      /\ stage + 1 = 7 => step = "chain secret"
      /\ stage + 1 = 9 => step = "audit log"
      /\ stage + 1 = 11 => step = "grpc"
      /\ stage + 1 = 13 => step = "bind"
  BY <1>3, <1>4, RunPlaces, Zenon
<1>6. /\ stage' \in Nat /\ stage' <= 13
      /\ stage' >= 1 => stage >= 1 \/ stage' = 1
      /\ stage' >= 5 => stage >= 5 \/ stage' = 5
      /\ stage' >= 7 => stage >= 7 \/ stage' = 7
      /\ stage' >= 9 => stage >= 9 \/ stage' = 9
      /\ stage' >= 11 => stage >= 11 \/ stage' = 11
      /\ stage >= 1 => stage' >= 1
      /\ stage >= 5 => stage' >= 5
      /\ stage >= 7 => stage' >= 7
      /\ stage >= 9 => stage' >= 9
      /\ stage >= 11 => stage' >= 11
      /\ stage # 13
  BY <1>2, <1>3
<1>7. QED
  BY <1>2, <1>5, <1>6, Zenon

\* The same for an embedder.
LEMMA EmbedPasses ==
    ASSUME NEW step, stage \in Nat, Passes(step), launch \in Launch,
           launch.entry = "build_router", stage <= 6
    PROVE  /\ stage' \in Nat /\ stage' = stage + 1 /\ stage' <= 6
           /\ step = "audit log" => stage' = 5
           /\ step = "embed" => stage' = 6
           /\ stage' = 5 => step = "audit log"
           /\ stage' = 6 => step = "embed"
           /\ stage' >= 5 => stage >= 5 \/ stage' = 5
           /\ stage >= 5 => stage' >= 5
           /\ stage # 6
           /\ step \notin {"watch", "grpc", "pem", "bind"}
<1>1. Len(Steps(launch)) = 6 /\ Steps(launch) = EmbedSteps
  BY StepCount, Zenon
<1>2. stage' = stage + 1 /\ stage # 6 /\ Steps(launch)[stage + 1] = step
  BY <1>1, Zenon DEF Passes, Started
<1>3. stage + 1 \in 1..6
  BY <1>2
<1>4. step = EmbedSteps[stage + 1]
  BY <1>1, <1>2, Zenon
<1>5. /\ step \notin {"watch", "grpc", "pem", "bind"}
      /\ step = "audit log" => stage + 1 = 5
      /\ step = "embed" => stage + 1 = 6
      /\ stage + 1 = 5 => step = "audit log"
      /\ stage + 1 = 6 => step = "embed"
  BY <1>3, <1>4, EmbedPlaces, Zenon
<1>6. /\ stage' \in Nat /\ stage' <= 6
      /\ stage' >= 5 => stage >= 5 \/ stage' = 5
      /\ stage >= 5 => stage' >= 5
      /\ stage # 6
  BY <1>2, <1>3
<1>7. QED
  BY <1>2, <1>5, <1>6, Zenon

\* What every startup step leaves alone, and that the launch does not refuse it.
LEMMA PassesLeaves ==
    ASSUME NEW step, Passes(step)
    PROVE  /\ launch' = launch /\ req' = req /\ told' = told /\ exit' = exit
           /\ Running /\ Running' /\ ~Refused(step, launch)
BY Zenon DEF Passes, Running

\* A startup step of run keeps what is behind it.
LEMMA RunStartup ==
    ASSUME LifecycleInv, launch.entry = "run",
           \/ Check \/ LoadSecret \/ OpenAuditLog \/ StartWatchers \/ SpawnGrpc
           \/ LoadPem \/ Bind \/ Embed
    PROVE  LifecycleInv'
<1>1. stage \in Nat /\ launch \in Launch
  BY Zenon DEF LifecycleInv, LifecycleTypes
<1>2. BehindRun
  BY Zenon DEF LifecycleInv, StepsBehind
<1>3. stage <= 13
  BY <1>2, Zenon DEF BehindRun
<1>4. CASE Check
  <2>1. PICK step \in {"command line", "cache settings", "rotation", "certificates",
                       "security", "key store", "policies"} : Passes(step)
    BY <1>4, Zenon DEF Check
  <2>2. /\ launch' = launch /\ req' = req /\ told' = told /\ exit' = exit
        /\ Running /\ Running' /\ ~Refused(step, launch)
    BY <2>1, PassesLeaves, Zenon
  <2>3. /\ stage' \in Nat /\ stage' = stage + 1 /\ stage' <= 13
        /\ stage' # 7 /\ stage' # 9
        /\ stage' = 1 => step = "command line"
        /\ stage' = 5 => step = "security"
        /\ stage' >= 1 => stage >= 1 \/ stage' = 1
        /\ stage' >= 5 => stage >= 5 \/ stage' = 5
        /\ stage' >= 7 => stage >= 7 \/ stage' = 7
        /\ stage' >= 9 => stage >= 9 \/ stage' = 9
        /\ stage >= 9 => stage' >= 9
        /\ stage >= 11 => stage' >= 11 
        /\ stage # 13
    BY <1>1, <1>3, <2>1, RunPasses, Zenon
  <2>4. (stage' = 1 => Parsed(launch)) /\ (stage' = 5 => ListenerSecurity(launch))
    BY <2>2, <2>3, Zenon DEF Refused
  <2>5. BehindRun'
    BY <1>2, <1>4, <2>2, <2>3, <2>4, Zenon DEF Check, BehindRun, probeVars
  <2>6. LifecycleTypes'
    BY <1>4, <2>2, <2>3, Zenon DEF Check, LifecycleInv, LifecycleTypes, probeVars
  <2>7. LateProbesAsk' /\ NotReadyOncePoisoned'
    BY <1>1, <1>2, <1>4, <2>3, Zenon DEF Check, BehindRun, LifecycleInv, LateProbesAsk,
         NotReadyOncePoisoned, probeVars
  <2>8. InFlightServed' /\ DrainedBeforeExit'
    BY <1>1, <1>2, <1>4, <2>2, <2>3, Zenon DEF Check, BehindRun, LifecycleInv, InFlightServed,
         DrainedBeforeExit
  <2>9. QED
    BY <2>2, <2>5, <2>6, <2>7, <2>8, Zenon DEF LifecycleInv, StepsBehind
<1>5. CASE LoadSecret
  <2>1. Passes("chain secret")
    BY <1>5, Zenon DEF LoadSecret
  <2>2. /\ launch' = launch /\ req' = req /\ told' = told /\ exit' = exit
        /\ Running /\ Running' /\ ~Refused("chain secret", launch)
    BY <2>1, PassesLeaves, Zenon
  <2>3. /\ stage' \in Nat /\ stage' = stage + 1 /\ stage' <= 13 /\ stage' = 7
        /\ stage' >= 1 => stage >= 1 \/ stage' = 1
        /\ stage' >= 5 => stage >= 5 \/ stage' = 5
        /\ stage' >= 7 => stage >= 7 \/ stage' = 7
        /\ stage' >= 9 => stage >= 9 \/ stage' = 9
        /\ stage >= 9 => stage' >= 9
        /\ stage >= 11 => stage' >= 11 
        /\ stage # 13
    BY <1>1, <1>3, <2>1, RunPasses, Zenon
  <2>4. ~RefusedSecret(launch)
    BY <2>2, Zenon DEF Refused
  <2>10. stage' # 1 /\ stage' # 5 /\ stage' # 9
    BY <1>1, <2>3
  <2>5. BehindRun'
    BY <1>2, <1>5, <2>2, <2>3, <2>4, <2>10, Zenon DEF LoadSecret, BehindRun, probeVars
  <2>6. LifecycleTypes'
    BY <1>5, <2>2, <2>3, Zenon DEF LoadSecret, LifecycleInv, LifecycleTypes, probeVars
  <2>7. LateProbesAsk' /\ NotReadyOncePoisoned'
    BY <1>1, <1>2, <1>5, <2>3, Zenon DEF LoadSecret, BehindRun, LifecycleInv, LateProbesAsk,
         NotReadyOncePoisoned, probeVars
  <2>8. InFlightServed' /\ DrainedBeforeExit'
    BY <1>1, <1>2, <1>5, <2>2, <2>3, Zenon
    DEF LoadSecret, BehindRun, LifecycleInv, InFlightServed,
         DrainedBeforeExit
  <2>9. QED
    BY <2>2, <2>5, <2>6, <2>7, <2>8, Zenon DEF LifecycleInv, StepsBehind
<1>6. CASE OpenAuditLog
  <2>1. Passes("audit log")
    BY <1>6, Zenon DEF OpenAuditLog
  <2>2. /\ launch' = launch /\ req' = req /\ told' = told /\ exit' = exit
        /\ Running /\ Running' /\ ~Refused("audit log", launch)
    BY <2>1, PassesLeaves, Zenon
  <2>3. /\ stage' \in Nat /\ stage' = stage + 1 /\ stage' <= 13 /\ stage' = 9
        /\ stage' >= 1 => stage >= 1 \/ stage' = 1
        /\ stage' >= 5 => stage >= 5 \/ stage' = 5
        /\ stage' >= 7 => stage >= 7 \/ stage' = 7
        /\ stage' >= 9 => stage >= 9 \/ stage' = 9
        /\ stage >= 9 => stage' >= 9
        /\ stage >= 11 => stage' >= 11 
        /\ stage # 13
    BY <1>1, <1>3, <2>1, RunPasses, Zenon
  <2>10. stage' # 1 /\ stage' # 5 /\ stage' # 7 /\ stage' >= 9 /\ ~(stage >= 9)
    BY <1>1, <2>3
  <2>5. BehindRun'
    BY <1>2, <1>6, <2>2, <2>3, <2>10, Zenon DEF OpenAuditLog, BehindRun, probeVars
  <2>6. LifecycleTypes'
    BY <1>6, <2>2, <2>3, Zenon DEF OpenAuditLog, LifecycleInv, LifecycleTypes, probeVars
  <2>7. LateProbesAsk' /\ NotReadyOncePoisoned'
    BY <1>1, <1>2, <1>6, <2>3, <2>10, Zenon
    DEF OpenAuditLog, BehindRun, LifecycleInv, LateProbesAsk,
         NotReadyOncePoisoned, probeVars
  <2>8. InFlightServed' /\ DrainedBeforeExit'
    BY <1>1, <1>2, <1>6, <2>2, <2>3, <2>10, Zenon
    DEF OpenAuditLog, BehindRun, LifecycleInv, InFlightServed,
         DrainedBeforeExit
  <2>9. QED
    BY <2>2, <2>5, <2>6, <2>7, <2>8, Zenon DEF LifecycleInv, StepsBehind
<1>7. CASE StartWatchers
  <2>1. Passes("watch")
    BY <1>7, Zenon DEF StartWatchers
  <2>2. /\ launch' = launch /\ req' = req /\ told' = told /\ exit' = exit
        /\ Running /\ Running' /\ ~Refused("watch", launch)
    BY <2>1, PassesLeaves, Zenon
  <2>3. /\ stage' \in Nat /\ stage' = stage + 1 /\ stage' <= 13
        /\ stage' >= 1 => stage >= 1 \/ stage' = 1
        /\ stage' >= 5 => stage >= 5 \/ stage' = 5
        /\ stage' >= 7 => stage >= 7 \/ stage' = 7
        /\ stage' >= 9 => stage >= 9 \/ stage' = 9
        /\ stage >= 9 => stage' >= 9
        /\ stage >= 11 => stage' >= 11 
        /\ stage # 13
    BY <1>1, <1>3, <2>1, RunPasses, Zenon
  <2>4. stage' # 1 /\ stage' # 5 /\ stage' # 7 /\ stage' # 9
    <3>1. /\ stage' = 1 => "watch" = "command line"
          /\ stage' = 5 => "watch" = "security"
          /\ stage' = 7 => "watch" = "chain secret"
          /\ stage' = 9 => "watch" = "audit log"
      BY <1>1, <1>3, <2>1, RunPasses, Zenon
    <3>2. QED
      BY <3>1, Zenon
  <2>5. BehindRun'
    BY <1>2, <1>7, <2>2, <2>3, <2>4, Zenon DEF StartWatchers, BehindRun, probeVars
  <2>6. LifecycleTypes'
    BY <1>7, <2>2, <2>3, Zenon DEF StartWatchers, LifecycleInv, LifecycleTypes, probeVars
  <2>7. LateProbesAsk' /\ NotReadyOncePoisoned'
    BY <1>1, <1>2, <1>7, <2>3, Zenon DEF StartWatchers, BehindRun, LifecycleInv, LateProbesAsk,
         NotReadyOncePoisoned, probeVars
  <2>8. InFlightServed' /\ DrainedBeforeExit'
    BY <1>1, <1>2, <1>7, <2>2, <2>3, Zenon
    DEF StartWatchers, BehindRun, LifecycleInv, InFlightServed,
         DrainedBeforeExit
  <2>9. QED
    BY <2>2, <2>5, <2>6, <2>7, <2>8, Zenon DEF LifecycleInv, StepsBehind
<1>8. CASE SpawnGrpc
  <2>1. Passes("grpc")
    BY <1>8, Zenon DEF SpawnGrpc
  <2>2. /\ launch' = launch /\ req' = req /\ told' = told /\ exit' = exit
        /\ Running /\ Running' /\ ~Refused("grpc", launch)
    BY <2>1, PassesLeaves, Zenon
  <2>3. /\ stage' \in Nat /\ stage' = stage + 1 /\ stage' <= 13 /\ stage' = 11
        /\ stage' >= 1 => stage >= 1 \/ stage' = 1
        /\ stage' >= 5 => stage >= 5 \/ stage' = 5
        /\ stage' >= 7 => stage >= 7 \/ stage' = 7
        /\ stage' >= 9 => stage >= 9 \/ stage' = 9
        /\ stage >= 9 => stage' >= 9
        /\ stage >= 11 => stage' >= 11 
        /\ stage # 13
    BY <1>1, <1>3, <2>1, RunPasses, Zenon
  <2>10. stage' # 1 /\ stage' # 5 /\ stage' # 7 /\ stage' # 9 /\ stage' >= 11 /\ ~(stage >= 11)
    BY <1>1, <2>3
  <2>5. BehindRun'
    BY <1>2, <1>8, <2>2, <2>3, <2>10, Zenon DEF SpawnGrpc, BehindRun, probeVars
  <2>6. LifecycleTypes'
    BY <1>8, <2>2, <2>3, Zenon DEF SpawnGrpc, LifecycleInv, LifecycleTypes, probeVars
  <2>7. LateProbesAsk' /\ NotReadyOncePoisoned'
    BY <1>1, <1>2, <1>8, <2>3, <2>10, Zenon
    DEF SpawnGrpc, BehindRun, LifecycleInv, LateProbesAsk,
         NotReadyOncePoisoned, probeVars
  <2>8. InFlightServed' /\ DrainedBeforeExit'
    BY <1>1, <1>2, <1>8, <2>2, <2>3, <2>10, Zenon
    DEF SpawnGrpc, BehindRun, LifecycleInv, InFlightServed,
         DrainedBeforeExit
  <2>9. QED
    BY <2>2, <2>5, <2>6, <2>7, <2>8, Zenon DEF LifecycleInv, StepsBehind
<1>9. CASE LoadPem
  <2>1. Passes("pem")
    BY <1>9, Zenon DEF LoadPem
  <2>2. /\ launch' = launch /\ req' = req /\ told' = told /\ exit' = exit
        /\ Running /\ Running' /\ ~Refused("pem", launch)
    BY <2>1, PassesLeaves, Zenon
  <2>3. /\ stage' \in Nat /\ stage' = stage + 1 /\ stage' <= 13
        /\ stage' >= 1 => stage >= 1 \/ stage' = 1
        /\ stage' >= 5 => stage >= 5 \/ stage' = 5
        /\ stage' >= 7 => stage >= 7 \/ stage' = 7
        /\ stage' >= 9 => stage >= 9 \/ stage' = 9
        /\ stage >= 9 => stage' >= 9
        /\ stage >= 11 => stage' >= 11 
        /\ stage # 13
    BY <1>1, <1>3, <2>1, RunPasses, Zenon
  <2>4. stage' # 1 /\ stage' # 5 /\ stage' # 7 /\ stage' # 9
    <3>1. /\ stage' = 1 => "pem" = "command line"
          /\ stage' = 5 => "pem" = "security"
          /\ stage' = 7 => "pem" = "chain secret"
          /\ stage' = 9 => "pem" = "audit log"
      BY <1>1, <1>3, <2>1, RunPasses, Zenon
    <3>2. QED
      BY <3>1, Zenon
  <2>5. BehindRun'
    BY <1>2, <1>9, <2>2, <2>3, <2>4, Zenon DEF LoadPem, BehindRun, probeVars
  <2>6. LifecycleTypes'
    BY <1>9, <2>2, <2>3, Zenon DEF LoadPem, LifecycleInv, LifecycleTypes, probeVars
  <2>7. LateProbesAsk' /\ NotReadyOncePoisoned'
    BY <1>1, <1>2, <1>9, <2>3, Zenon DEF LoadPem, BehindRun, LifecycleInv, LateProbesAsk,
         NotReadyOncePoisoned, probeVars
  <2>8. InFlightServed' /\ DrainedBeforeExit'
    BY <1>1, <1>2, <1>9, <2>2, <2>3, Zenon
    DEF LoadPem, BehindRun, LifecycleInv, InFlightServed,
         DrainedBeforeExit
  <2>9. QED
    BY <2>2, <2>5, <2>6, <2>7, <2>8, Zenon DEF LifecycleInv, StepsBehind
<1>10. CASE Bind
  <2>1. Passes("bind")
    BY <1>10, Zenon DEF Bind
  <2>2. /\ launch' = launch /\ req' = req /\ told' = told /\ exit' = exit
        /\ Running /\ Running' /\ ~Refused("bind", launch)
    BY <2>1, PassesLeaves, Zenon
  <2>3. /\ stage' \in Nat /\ stage' = stage + 1 /\ stage' <= 13 /\ stage' = 13
        /\ stage' >= 1 => stage >= 1 \/ stage' = 1
        /\ stage' >= 5 => stage >= 5 \/ stage' = 5
        /\ stage' >= 7 => stage >= 7 \/ stage' = 7
        /\ stage' >= 9 => stage >= 9 \/ stage' = 9
        /\ stage >= 9 => stage' >= 9
        /\ stage >= 11 => stage' >= 11 
        /\ stage # 13
    BY <1>1, <1>3, <2>1, RunPasses, Zenon
  <2>10. stage' # 1 /\ stage' # 5 /\ stage' # 7 /\ stage' # 9
    BY <1>1, <2>3
  <2>5. BehindRun'
    BY <1>2, <1>10, <2>2, <2>3, <2>10, Zenon DEF Bind, BehindRun, probeVars
  <2>6. LifecycleTypes'
    BY <1>10, <2>2, <2>3, Zenon DEF Bind, LifecycleInv, LifecycleTypes, probeVars
  <2>7. LateProbesAsk' /\ NotReadyOncePoisoned'
    BY <1>1, <1>2, <1>10, <2>3, Zenon DEF Bind, BehindRun, LifecycleInv, LateProbesAsk,
         NotReadyOncePoisoned, probeVars
  <2>8. InFlightServed' /\ DrainedBeforeExit'
    BY <1>1, <1>2, <1>10, <2>2, <2>3, Zenon DEF Bind, BehindRun, LifecycleInv, InFlightServed,
         DrainedBeforeExit
  <2>9. QED
    BY <2>2, <2>5, <2>6, <2>7, <2>8, Zenon DEF LifecycleInv, StepsBehind
<1>11. ~Embed
  BY <1>1, <1>3, RunPasses, Zenon DEF Embed
<1>12. QED
  BY <1>4, <1>5, <1>6, <1>7, <1>8, <1>9, <1>10, <1>11, Zenon
\* A startup step of an embedder keeps what is behind it.
LEMMA EmbedStartup ==
    ASSUME LifecycleInv, launch.entry = "build_router",
           \/ Check \/ LoadSecret \/ OpenAuditLog \/ StartWatchers \/ SpawnGrpc
           \/ LoadPem \/ Bind \/ Embed
    PROVE  LifecycleInv'
<1>1. stage \in Nat /\ launch \in Launch
  BY Zenon DEF LifecycleInv, LifecycleTypes
<1>2. BehindEmbed
  BY Zenon DEF LifecycleInv, StepsBehind
<1>3. stage <= 6
  BY <1>2, Zenon DEF BehindEmbed
<1>4. CASE Check
  <2>1. PICK step \in {"command line", "cache settings", "rotation", "certificates",
                       "security", "key store", "policies"} : Passes(step)
    BY <1>4, Zenon DEF Check
  <2>2. /\ launch' = launch /\ req' = req /\ told' = told /\ exit' = exit
        /\ Running /\ Running'
    BY <2>1, PassesLeaves, Zenon
  <2>3. /\ stage' \in Nat /\ stage' = stage + 1 /\ stage' <= 6
        /\ stage >= 5 => stage' >= 5
        /\ stage # 6
    BY <1>1, <1>3, <2>1, EmbedPasses, Zenon
  <2>5. BehindEmbed'
    BY <1>2, <1>4, <2>2, <2>3, Zenon DEF Check, BehindEmbed, probeVars
  <2>6. LifecycleTypes'
    BY <1>4, <2>2, <2>3, Zenon DEF Check, LifecycleInv, LifecycleTypes, probeVars
  <2>7. LateProbesAsk' /\ NotReadyOncePoisoned'
    BY <1>2, <1>4, <2>3, Zenon DEF Check, BehindEmbed, LifecycleInv, LateProbesAsk,
         NotReadyOncePoisoned, probeVars
  <2>8. InFlightServed' /\ DrainedBeforeExit'
    BY <1>2, <1>4, <2>2, Zenon DEF Check, BehindEmbed, LifecycleInv, InFlightServed,
         DrainedBeforeExit
  <2>9. QED
    BY <2>2, <2>5, <2>6, <2>7, <2>8, Zenon DEF LifecycleInv, StepsBehind
<1>5. CASE LoadSecret
  <2>1. Passes("chain secret")
    BY <1>5, Zenon DEF LoadSecret
  <2>2. /\ launch' = launch /\ req' = req /\ told' = told /\ exit' = exit
        /\ Running /\ Running'
    BY <2>1, PassesLeaves, Zenon
  <2>3. /\ stage' \in Nat /\ stage' = stage + 1 /\ stage' <= 6
        /\ stage >= 5 => stage' >= 5
        /\ stage # 6
    BY <1>1, <1>3, <2>1, EmbedPasses, Zenon
  <2>5. BehindEmbed'
    BY <1>2, <1>5, <2>2, <2>3, Zenon DEF LoadSecret, BehindEmbed, probeVars
  <2>6. LifecycleTypes'
    BY <1>5, <2>2, <2>3, Zenon DEF LoadSecret, LifecycleInv, LifecycleTypes, probeVars
  <2>7. LateProbesAsk' /\ NotReadyOncePoisoned'
    BY <1>2, <1>5, <2>3, Zenon DEF LoadSecret, BehindEmbed, LifecycleInv, LateProbesAsk,
         NotReadyOncePoisoned, probeVars
  <2>8. InFlightServed' /\ DrainedBeforeExit'
    BY <1>2, <1>5, <2>2, Zenon DEF LoadSecret, BehindEmbed, LifecycleInv, InFlightServed,
         DrainedBeforeExit
  <2>9. QED
    BY <2>2, <2>5, <2>6, <2>7, <2>8, Zenon DEF LifecycleInv, StepsBehind
<1>6. CASE OpenAuditLog
  <2>1. Passes("audit log")
    BY <1>6, Zenon DEF OpenAuditLog
  <2>2. /\ launch' = launch /\ req' = req /\ told' = told /\ exit' = exit
        /\ Running /\ Running'
    BY <2>1, PassesLeaves, Zenon
  <2>3. /\ stage' \in Nat /\ stage' = stage + 1 /\ stage' <= 6 /\ stage' = 5
        /\ stage >= 5 => stage' >= 5
        /\ stage # 6
    BY <1>1, <1>3, <2>1, EmbedPasses, Zenon
  <2>4. stage' >= 5 /\ ~(stage >= 5)
    BY <1>1, <2>3
  <2>5. BehindEmbed'
    BY <1>2, <1>6, <2>2, <2>3, <2>4, Zenon DEF OpenAuditLog, BehindEmbed, probeVars
  <2>6. LifecycleTypes'
    BY <1>6, <2>2, <2>3, Zenon DEF OpenAuditLog, LifecycleInv, LifecycleTypes, probeVars
  <2>7. LateProbesAsk' /\ NotReadyOncePoisoned'
    BY <1>2, <1>6, <2>3, <2>4, Zenon
    DEF OpenAuditLog, BehindEmbed, LifecycleInv, LateProbesAsk,
         NotReadyOncePoisoned, probeVars
  <2>8. InFlightServed' /\ DrainedBeforeExit'
    BY <1>2, <1>6, <2>2, Zenon DEF OpenAuditLog, BehindEmbed, LifecycleInv, InFlightServed,
         DrainedBeforeExit
  <2>9. QED
    BY <2>2, <2>5, <2>6, <2>7, <2>8, Zenon DEF LifecycleInv, StepsBehind
<1>7. CASE Embed
  <2>1. Passes("embed")
    BY <1>7, Zenon DEF Embed
  <2>2. /\ launch' = launch /\ req' = req /\ told' = told /\ exit' = exit
        /\ Running /\ Running'
    BY <2>1, PassesLeaves, Zenon
  <2>3. /\ stage' \in Nat /\ stage' = stage + 1 /\ stage' <= 6 /\ stage' = 6
        /\ stage >= 5 => stage' >= 5
        /\ stage # 6
    BY <1>1, <1>3, <2>1, EmbedPasses, Zenon
  <2>5. BehindEmbed'
    BY <1>2, <1>7, <2>2, <2>3, Zenon DEF Embed, BehindEmbed, probeVars
  <2>6. LifecycleTypes'
    BY <1>7, <2>2, <2>3, Zenon DEF Embed, LifecycleInv, LifecycleTypes, probeVars
  <2>7. LateProbesAsk' /\ NotReadyOncePoisoned'
    BY <1>2, <1>7, <2>3, Zenon DEF Embed, BehindEmbed, LifecycleInv, LateProbesAsk,
         NotReadyOncePoisoned, probeVars
  <2>8. InFlightServed' /\ DrainedBeforeExit'
    BY <1>2, <1>7, <2>2, Zenon DEF Embed, BehindEmbed, LifecycleInv, InFlightServed,
         DrainedBeforeExit
  <2>9. QED
    BY <2>2, <2>5, <2>6, <2>7, <2>8, Zenon DEF LifecycleInv, StepsBehind
<1>8. ~(StartWatchers \/ SpawnGrpc \/ LoadPem \/ Bind)
  BY <1>1, <1>3, EmbedPasses, Zenon DEF StartWatchers, SpawnGrpc, LoadPem, Bind
<1>9. QED
  BY <1>4, <1>5, <1>6, <1>7, <1>8, Zenon

\* Past startup, what is behind the process stays so.
LEMMA BehindStays ==
    ASSUME StepsBehind, Running, launch' = launch, stage' = stage, chainKey' = chainKey,
           audit' = "none" => audit = "none", audit' # "none" => audit # "none",
           http' \in {"open", "draining"} => http \in {"open", "draining"},
           grpc = "off" => grpc' = "off", loop = "absent" => loop' = "absent"
    PROVE  StepsBehind'
<1>1. BehindRun => BehindRun'
  BY Zenon DEF BehindRun
<1>2. BehindEmbed => BehindEmbed'
  BY Zenon DEF BehindEmbed
<1>3. QED
  BY <1>1, <1>2, Zenon DEF StepsBehind

\* The two servers, accepting, answering and draining, keep the invariant.
LEMMA ServersKeep ==
    ASSUME LifecycleInv,
           \/ BindGrpc \/ CloseHttp \/ EndHttp \/ DrainGrpc \/ EndGrpc \/ AbortWatchers
           \/ \E r \in Requests : AcceptRequest(r) \/ Answer(r)
    PROVE  LifecycleInv'
<1>1. LifecycleTypes /\ StepsBehind /\ InFlightServed /\ DrainedBeforeExit
  BY Zenon DEF LifecycleInv
<1>2. /\ Running /\ Running' /\ exit' = exit /\ exit = "running"
      /\ launch' = launch /\ stage' = stage /\ chainKey' = chainKey /\ told' = told
      /\ audit' = audit /\ probe' = probe /\ ready' = ready /\ loop' = loop
  BY Zenon DEF BindGrpc, CloseHttp, EndHttp, DrainGrpc, EndGrpc, AbortWatchers, AcceptRequest,
       Answer, Running, probeVars
<1>3. LateProbesAsk' /\ NotReadyOncePoisoned'
  BY <1>2, Zenon DEF LifecycleInv, LateProbesAsk, NotReadyOncePoisoned
<1>4. StepsBehind'
  <2>1. /\ http' \in {"open", "draining"} => http \in {"open", "draining"}
        /\ grpc = "off" => grpc' = "off"
    BY Zenon
    DEF BindGrpc, CloseHttp, EndHttp, DrainGrpc, EndGrpc, AbortWatchers, AcceptRequest,
         Answer
  <2>2. QED
    BY <1>1, <1>2, <2>1, BehindStays, Zenon
<1>5. LifecycleTypes'
  <2>1. req' \in [Requests -> {"none", "http", "grpc", "answered", "http lost", "grpc lost"}]
    BY <1>1, Zenon DEF LifecycleTypes, BindGrpc, CloseHttp, EndHttp, DrainGrpc, EndGrpc,
         AbortWatchers, AcceptRequest, Answer, Lost
  <2>2. QED
    BY <1>1, <1>2, <2>1, Zenon DEF LifecycleTypes
<1>6. InFlightServed' /\ DrainedBeforeExit'
  <2>0. DEFINE Reqs == [Requests -> {"none", "http", "grpc", "answered", "http lost",
                                     "grpc lost"}]
  <2>1. req \in Reqs
    BY <1>1, Zenon DEF LifecycleTypes
  <2>2. /\ loop' = "done" => told'
        /\ \A r \in Requests : /\ req[r] = "http" => http \in {"open", "draining"}
                               /\ req[r] = "grpc" => grpc \in {"open", "draining"}
                               /\ req[r] # "grpc lost"
                               /\ req[r] = "http lost" => launch.scheme = "tls" /\ told
    BY <1>1, <1>2, Zenon DEF InFlightServed, DrainedBeforeExit
  <2>3. SUFFICES ASSUME NEW q \in Requests
                 PROVE  /\ req'[q] = "http" => http' \in {"open", "draining"}
                        /\ req'[q] = "grpc" => grpc' \in {"open", "draining"}
                        /\ req'[q] # "grpc lost"
                        /\ req'[q] = "http lost" => launch.scheme = "tls" /\ told
    BY <1>2, <2>2, Zenon DEF InFlightServed, DrainedBeforeExit
  <2>4. CASE BindGrpc \/ DrainGrpc \/ AbortWatchers
    BY <2>2, <2>4, Zenon DEF BindGrpc, DrainGrpc, AbortWatchers
  <2>5. CASE EndHttp \/ EndGrpc
    BY <2>2, <2>5, Zenon DEF EndHttp, EndGrpc, InFlight
  <2>6. CASE \E r \in Requests : AcceptRequest(r) \/ Answer(r)
    BY <2>1, <2>2, <2>6, Zenon DEF AcceptRequest, Answer
  <2>7. CASE CloseHttp
    <3>1. launch.scheme \in {"tcp", "tls"} /\ told
      <4>1. http = "open" /\ loop = "done"
        BY <2>7, Zenon DEF CloseHttp
      <4>2. launch.entry = "run"
        BY <1>1, <1>2, <4>1, Zenon DEF LifecycleTypes, Launch, StepsBehind, BehindEmbed
      <4>3. stage = 13 /\ (stage >= 1 => Parsed(launch))
        BY <1>1, <4>1, <4>2, Zenon DEF StepsBehind, BehindRun
      <4>4. Parsed(launch)
        BY <4>3
      <4>5. QED
        BY <1>2, <2>2, <4>1, <4>4, Zenon DEF Parsed, ParseListener
    <3>2. QED
      BY <2>1, <2>2, <2>7, <3>1, Zenon DEF CloseHttp, Lost
  <2>8. QED
    BY <2>4, <2>5, <2>6, <2>7, Zenon
<1>7. QED
  BY <1>3, <1>4, <1>5, <1>6, Zenon DEF LifecycleInv

\* The signals that reach the process, and the loop that takes them, keep it.
LEMMA SignalsKeep ==
    ASSUME LifecycleInv,
           \/ \E s \in {"terminate", "ctrl_c"} : Signal(s)
           \/ Hangup \/ InstallHandlers \/ Park \/ TakeStop \/ TakeHangup \/ ReloadByLoop
           \/ ReloadByWatcher
    PROVE  LifecycleInv'
<1>1. LifecycleTypes /\ StepsBehind /\ InFlightServed /\ DrainedBeforeExit
  BY Zenon DEF LifecycleInv
<1>2. CASE UNCHANGED serverVars
  <2>1. /\ launch' = launch /\ stage' = stage /\ chainKey' = chainKey /\ http' = http
        /\ grpc' = grpc /\ loop' = loop /\ told' = told /\ req' = req /\ exit' = exit
    BY <1>2, Zenon DEF serverVars
  <2>2. audit' = audit /\ probe' = probe /\ ready' = ready
    BY Zenon DEF Signal, Hangup, InstallHandlers, Park, TakeStop, TakeHangup, ReloadByLoop,
         ReloadByWatcher, probeVars
  <2>3. Running /\ Running'
    BY <2>1, Zenon
    DEF Signal, Hangup, InstallHandlers, Park, TakeStop, TakeHangup, ReloadByLoop,
         ReloadByWatcher, Running
  <2>4. LifecycleTypes'
    BY <1>1, <2>1, <2>2, Zenon DEF LifecycleTypes
  <2>5. StepsBehind'
    BY <1>1, <2>1, <2>2, <2>3, BehindStays, Zenon
  <2>6. LateProbesAsk' /\ NotReadyOncePoisoned'
    BY <2>2, Zenon DEF LifecycleInv, LateProbesAsk, NotReadyOncePoisoned
  <2>7. InFlightServed' /\ DrainedBeforeExit'
    BY <1>1, <2>1, <2>3, Zenon DEF InFlightServed, DrainedBeforeExit
  <2>8. QED
    BY <2>4, <2>5, <2>6, <2>7, Zenon DEF LifecycleInv
<1>3. CASE Running /\ Halt("killed") /\ UNCHANGED probeVars
  BY <1>3, HaltKeeps, Zenon
<1>4. CASE InstallHandlers \/ Park \/ TakeStop \/ TakeHangup \/ ReloadByLoop
  <2>1. /\ launch' = launch /\ stage' = stage /\ chainKey' = chainKey /\ http' = http
        /\ grpc' = grpc /\ req' = req /\ exit' = exit /\ Running /\ Running'
        /\ audit' = audit /\ probe' = probe /\ ready' = ready
    BY <1>4, Zenon
    DEF InstallHandlers, Park, TakeStop, TakeHangup, ReloadByLoop, probeVars, Running
  <2>2. /\ loop = "absent" => loop' = "absent"
        /\ loop' = "done" => told'
        /\ told => told'
    <3>1. CASE InstallHandlers
      BY <3>1, Zenon DEF InstallHandlers
    <3>2. CASE Park
      BY <3>2, Zenon DEF Park
    <3>3. CASE TakeStop
      BY <3>3, Zenon DEF TakeStop
    <3>4. CASE TakeHangup
      BY <3>4, Zenon DEF TakeHangup
    <3>5. CASE ReloadByLoop
      BY <3>5, Zenon DEF ReloadByLoop
    <3>6. QED
      BY <1>4, <3>1, <3>2, <3>3, <3>4, <3>5, Zenon
  <2>3. LifecycleTypes'
    BY <1>1, <2>1, Zenon DEF LifecycleTypes
  <2>4. StepsBehind'
    BY <1>1, <2>1, <2>2, BehindStays, Zenon
  <2>5. LateProbesAsk' /\ NotReadyOncePoisoned'
    BY <2>1, Zenon DEF LifecycleInv, LateProbesAsk, NotReadyOncePoisoned
  <2>6. InFlightServed' /\ DrainedBeforeExit'
    BY <1>1, <2>1, <2>2, Zenon DEF InFlightServed, DrainedBeforeExit
  <2>7. QED
    BY <2>3, <2>4, <2>5, <2>6, Zenon DEF LifecycleInv
<1>5. QED
  <2>1. CASE \E s \in {"terminate", "ctrl_c"} : Signal(s)
    BY <1>2, <1>3, <2>1, Zenon DEF Signal, Running
  <2>2. CASE Hangup
    BY <1>2, <1>3, <2>2, Zenon DEF Hangup, Running
  <2>3. CASE ReloadByWatcher
    BY <1>2, <2>3, Zenon DEF ReloadByWatcher
  <2>4. QED
    BY <1>4, <2>1, <2>2, <2>3, Zenon

\* A probe, whatever the disk does meanwhile, keeps it: the writer of a probe that
\* began late is poisoned for good, so it is never found healthy.
LEMMA ProbesKeep ==
    ASSUME LifecycleInv, Poison \/ StartProbe \/ ReadWriter \/ AwaitHealthy \/ AwaitChained
    PROVE  LifecycleInv'
<1>1. LifecycleTypes /\ StepsBehind /\ InFlightServed /\ DrainedBeforeExit /\ LateProbesAsk
      /\ NotReadyOncePoisoned
  BY Zenon DEF LifecycleInv
<1>2. /\ launch' = launch /\ stage' = stage /\ chainKey' = chainKey /\ http' = http
      /\ grpc' = grpc /\ loop' = loop /\ told' = told /\ req' = req /\ exit' = exit
      /\ Running /\ Running'
  BY Zenon
  DEF Poison, StartProbe, ReadWriter, AwaitHealthy, AwaitChained, AnswerProbe, serverVars,
       Running
<1>3. InFlightServed' /\ DrainedBeforeExit'
  BY <1>1, <1>2, Zenon DEF InFlightServed, DrainedBeforeExit
<1>4. audit \in {"none", "healthy", "poisoned"}
      /\ probe \in [at : {"idle", "writer", "chained"}, late : BOOLEAN]
  BY <1>1, Zenon DEF LifecycleTypes
<1>5. CASE Poison
  <2>1. audit = "healthy" /\ audit' = "poisoned" /\ probe' = probe /\ ready' = ready
    BY <1>5, Zenon DEF Poison
  <2>2. StepsBehind'
    BY <1>1, <1>2, <2>1, BehindStays, Zenon
  <2>3. LifecycleTypes'
    BY <1>1, <1>2, <2>1, Zenon DEF LifecycleTypes
  <2>4. LateProbesAsk' /\ NotReadyOncePoisoned'
    BY <1>1, <2>1, Zenon DEF LateProbesAsk, NotReadyOncePoisoned
  <2>5. QED
    BY <1>3, <2>2, <2>3, <2>4, Zenon DEF LifecycleInv
<1>6. CASE ~Poison
  <2>1. audit' = audit
    BY <1>6, Zenon DEF StartProbe, ReadWriter, AwaitHealthy, AwaitChained, AnswerProbe
  <2>2. StepsBehind'
    BY <1>1, <1>2, <2>1, BehindStays, Zenon
  <2>3. probe' \in [at : {"idle", "writer", "chained"}, late : BOOLEAN] /\ LateProbesAsk'
        /\ NotReadyOncePoisoned'
    <3>1. CASE StartProbe
      <4>1. CASE policies
        <5>1. probe' = [at |-> "writer", late |-> audit = "poisoned"] /\ ready' = "none"
          BY <3>1, <4>1, Zenon DEF StartProbe
        <5>2. probe'.at = "writer" /\ (probe'.late => audit = "poisoned")
          BY <5>1, Zenon
        <5>3. probe' \in [at : {"idle", "writer", "chained"}, late : BOOLEAN]
          BY <5>1, Zenon
        <5>4. QED
          BY <2>1, <5>1, <5>2, <5>3, Zenon DEF LateProbesAsk, NotReadyOncePoisoned
      <4>2. CASE ~policies
        <5>1. probe' = Idle /\ ready' = "unavailable"
          BY <3>1, <4>2, Zenon DEF StartProbe
        <5>2. QED
          BY <5>1, Zenon DEF Idle, LateProbesAsk, NotReadyOncePoisoned
      <4>3. QED
        BY <4>1, <4>2, Zenon
    <3>2. CASE ReadWriter
      BY <1>1, <1>4, <2>1, <3>2, Zenon DEF ReadWriter, AnswerProbe, Idle, LateProbesAsk,
           NotReadyOncePoisoned
    <3>3. CASE AwaitHealthy
      <4>1. CASE AnswerProbe(FALSE)
        BY <2>1, <4>1, Zenon DEF AnswerProbe, Idle, LateProbesAsk, NotReadyOncePoisoned
      <4>2. CASE /\ audit = "healthy" /\ ready' = ready
                 /\ probe' = [probe EXCEPT !.at = "chained"]
        <5>1. ~probe.late
          BY <1>1, <4>2, Zenon DEF LateProbesAsk
        <5>2. probe' \in [at : {"idle", "writer", "chained"}, late : BOOLEAN] /\ ~probe'.late
          BY <1>4, <4>2, <5>1, Zenon
        <5>3. QED
          BY <1>1, <4>2, <5>2, Zenon DEF LateProbesAsk, NotReadyOncePoisoned
      <4>3. QED
        BY <3>3, <4>1, <4>2, Zenon DEF AwaitHealthy
    <3>4. CASE AwaitChained
      <4>1. ~probe.late
        BY <1>1, <3>4, Zenon DEF AwaitChained, LateProbesAsk
      <4>2. probe' = Idle /\ ready' \in {"ready", "unavailable"}
        BY <3>4, <4>1, Zenon DEF AwaitChained, AnswerProbe
      <4>3. QED
        BY <4>2, Zenon DEF Idle, LateProbesAsk, NotReadyOncePoisoned
    <3>5. QED
      BY <1>6, <3>1, <3>2, <3>3, <3>4, Zenon
  <2>4. LifecycleTypes'
    BY <1>1, <1>2, <2>1, <2>3, Zenon DEF LifecycleTypes
  <2>5. QED
    BY <1>3, <2>2, <2>3, <2>4, Zenon DEF LifecycleInv
<1>7. QED
  BY <1>5, <1>6, Zenon

\* Every step keeps the invariant.
LEMMA LifecycleKept ==
    ASSUME LifecycleInv, [LifecycleNext]_lifecycleVars
    PROVE  LifecycleInv'
<1>1. CASE \/ Check \/ LoadSecret \/ OpenAuditLog \/ StartWatchers \/ SpawnGrpc
           \/ LoadPem \/ Bind \/ Embed
  <2>1. launch.entry \in {"run", "build_router"}
    BY Zenon DEF LifecycleInv, LifecycleTypes, Launch
  <2>2. QED
    BY <1>1, <2>1, RunStartup, EmbedStartup, Zenon
<1>2. CASE Refuse
  BY <1>2, HaltKeeps, Zenon DEF Refuse
<1>3. CASE Exit
  BY <1>3, HaltKeeps, Zenon DEF Exit
<1>4. CASE \/ BindGrpc \/ CloseHttp \/ EndHttp \/ DrainGrpc \/ EndGrpc \/ AbortWatchers
           \/ \E r \in Requests : AcceptRequest(r) \/ Answer(r)
  BY <1>4, ServersKeep, Zenon
<1>5. CASE \/ \E s \in {"terminate", "ctrl_c"} : Signal(s)
           \/ Hangup \/ InstallHandlers \/ Park \/ TakeStop \/ TakeHangup \/ ReloadByLoop
           \/ ReloadByWatcher
  BY <1>5, SignalsKeep, Zenon
<1>6. CASE Poison \/ StartProbe \/ ReadWriter \/ AwaitHealthy \/ AwaitChained
  BY <1>6, ProbesKeep, Zenon
<1>7. CASE UNCHANGED lifecycleVars
  <2>1. UNCHANGED <<launch, stage, chainKey, http, grpc, loop, told, req, exit, audit, probe,
                    ready>>
    BY <1>7, Zenon DEF lifecycleVars, serverVars, probeVars
  <2>2. LifecycleTypes'
    BY <2>1, Zenon DEF LifecycleInv, LifecycleTypes
  <2>3. BehindRun => BehindRun'
    BY <2>1, Zenon DEF BehindRun, Running
  <2>4. BehindEmbed => BehindEmbed'
    BY <2>1, Zenon DEF BehindEmbed, Running
  <2>5. StepsBehind'
    BY <2>1, <2>3, <2>4, Zenon DEF LifecycleInv, StepsBehind
  <2>6. InFlightServed' /\ DrainedBeforeExit'
    BY <2>1, Zenon DEF LifecycleInv, InFlightServed, DrainedBeforeExit, Running
  <2>7. LateProbesAsk' /\ NotReadyOncePoisoned'
    BY <2>1, Zenon DEF LifecycleInv, LateProbesAsk, NotReadyOncePoisoned
  <2>8. QED
    BY <2>2, <2>5, <2>6, <2>7, Zenon DEF LifecycleInv
<1>8. QED
  BY <1>1, <1>2, <1>3, <1>4, <1>5, <1>6, <1>7, Zenon DEF LifecycleNext, ProcessStep

\* Before a socket of run is open every step has passed that guards it.
LEMMA InvGuardsSockets ==
    LifecycleInv => SocketsGuarded
<1> SUFFICES ASSUME LifecycleInv, Running, launch.entry = "run", Serving # {}
             PROVE  /\ launch.audit => audit # "none"
                    /\ "http" \in Serving /\ launch.mode = "disabled" =>
                           launch.addr = "loopback" \/ launch.bypass
                    /\ "grpc" \in Serving => launch.grpc = "loopback"
                    /\ (launch.secret = "unset") <=> (chainKey = "none")
  BY Zenon DEF SocketsGuarded
<1>1. stage \in Nat /\ launch \in Launch
  BY Zenon DEF LifecycleInv, LifecycleTypes
<1>2. BehindRun
  BY Zenon DEF LifecycleInv, StepsBehind
<1>3. /\ "http" \in Serving => http = "open"
      /\ "grpc" \in Serving => grpc = "open"
      /\ http = "open" \/ grpc = "open"
  BY Zenon DEF Serving
<1>4. stage >= 11
  <2>1. stage = 13 \/ stage >= 11
    BY <1>2, <1>3, Zenon DEF BehindRun
  <2>2. QED
    BY <1>1, <2>1
<1>5. stage >= 1 /\ stage >= 5 /\ stage >= 7 /\ stage >= 9
  BY <1>1, <1>4
<1>6. /\ Parsed(launch) /\ ListenerSecurity(launch) /\ ~RefusedSecret(launch)
      /\ chainKey = ChainKey(launch) /\ (launch.audit => audit # "none")
      /\ grpc # "off" => launch.grpc # ""
  BY <1>2, <1>5, Zenon DEF BehindRun
<1>7. ASSUME launch.mode = "disabled", launch.addr # "loopback" PROVE launch.bypass
  <2>1. AuthConfig(launch) = "disabled"
    BY <1>7, Zenon DEF AuthConfig
  <2>2. launch.addr = "public"
    BY <1>1, <1>6, <1>7, Zenon DEF Launch, Parsed, ParseListener
  <2>3. QED
    BY <1>6, <2>1, <2>2, Zenon DEF ListenerSecurity, IsPublic
<1>8. grpc = "open" => launch.grpc = "loopback"
  BY <1>6, Zenon DEF ListenerSecurity
<1>9. (launch.secret = "unset") <=> (chainKey = "none")
  BY <1>1, <1>6, Zenon DEF ChainKey, RefusedSecret, Launch
<1>10. QED
  BY <1>3, <1>6, <1>7, <1>8, <1>9, Zenon

\* The invariant holds of every process.
LEMMA LifecycleAlways ==
    LifecycleSpec => []LifecycleInv
<1>1. LifecycleInv /\ [LifecycleNext]_lifecycleVars => LifecycleInv'
  BY LifecycleKept, Zenon
<1>2. QED
  BY <1>1, LifecycleInitially, PTL DEF LifecycleSpec

\* run opens a socket only after the policies, the audit log and the checks on who may
\* reach it, and readyz never offers an instance whose writer was poisoned before the
\* probe (validate_listener_security, build_state_with_options, readyz): for every
\* launch, whatever fails and whenever signals, reloads and timeouts come.
THEOREM SocketsOpenGuarded == LifecycleSpec => []ServiceGuarded
<1>1. LifecycleInv => ServiceGuarded
  BY InvGuardsSockets, Zenon DEF LifecycleInv, ServiceGuarded
<1>2. QED
  BY <1>1, LifecycleAlways, PTL

\* A clean end leaves no request unanswered that the gRPC server, or the HTTP server of
\* a tcp:// listener, accepted (run, serve_grpc, shutdown_signal_with_sighup).
THEOREM ExitsDrained == LifecycleSpec => []DrainedBeforeExit
<1>1. LifecycleInv => DrainedBeforeExit
  BY Zenon DEF LifecycleInv
<1>2. QED
  BY <1>1, LifecycleAlways, PTL

-----------------------------------------------------------------------------
(* EventSinks                                                                *)

\* What was written of an event.
Piece == [event : Nat, whole : BOOLEAN]

\* EventSinks, JSONL: the line that is open holds only what was not acknowledged.
FileInv ==
    /\ file \in Seq(Seq(Piece)) /\ Len(file) >= 1
    /\ \A k \in 1 .. Len(file[Len(file)]) : file[Len(file)][k].event \in bad
    /\ AcknowledgedLines

\* The events are numbered as they come, and each has one outcome.
NumbersInv ==
    /\ next \in Nat /\ 1 <= next /\ next <= MaxEmits + 1
    /\ acked \subseteq 1 .. next - 1 /\ bad \subseteq 1 .. next - 1 /\ acked \cap bad = {}
    /\ dropped \subseteq acked

\* The flushes under way that failed, and those that did not.
Failing == {t \in Tasks : at[t] = "flush" /\ ~result[t]}
Healthy == {t \in Tasks : at[t] = "flush" /\ result[t]}

\* EventSinks, OTLP: without a healthy flush under way, the failures counted and those
\* about to be are the recent ones and at most one more for each other task.
OtlpInv ==
    /\ failures \in 0 .. BreakAfter /\ recent \in 0 .. BreakAfter
    /\ queue \in 0 .. QueueCap
    /\ at \in [Tasks -> {"idle", "emit", "flush"}] /\ result \in [Tasks -> BOOLEAN]
    /\ up \in BOOLEAN
    /\ \/ Healthy # {}
       \/ recent = BreakAfter
       \/ failures + Cardinality(Failing) <= recent + Cardinality(Tasks) - 1

\* A piece at the end of a line.
LEMMA PieceAppended ==
    ASSUME NEW l \in Seq(Piece), NEW p \in Piece
    PROVE  /\ Append(l, p) \in Seq(Piece) /\ Append(l, p) # <<>> /\ Len(l) \in Nat
           /\ Len(Append(l, p)) = Len(l) + 1 /\ Append(l, p)[Len(l) + 1] = p
           /\ \A k \in 1 .. Len(l) : Append(l, p)[k] = l[k]
<1>1. Append(l, p) \in Seq(Piece) /\ Len(Append(l, p)) = Len(l) + 1 /\ Len(l) \in Nat
  OBVIOUS
<1>2. Append(l, p)[Len(l) + 1] = p /\ \A k \in 1 .. Len(l) : Append(l, p)[k] = l[k]
  OBVIOUS
<1>3. QED
  BY <1>1, <1>2

\* What writeln! does to the file: the text goes to the open line, and the line end
\* opens another.
LEMMA FileWritten ==
    ASSUME NEW f \in Seq(Seq(Piece)), Len(f) >= 1, NEW p \in Piece
    PROVE  /\ Written(f, p) \in Seq(Seq(Piece)) /\ Len(Written(f, p)) = Len(f)
           /\ Written(f, p)[Len(f)] = Append(f[Len(f)], p)
           /\ \A i \in 1 .. Len(f) - 1 : Written(f, p)[i] = f[i]
<1>1. Len(f) \in Nat /\ DOMAIN f = 1 .. Len(f) /\ Len(f) \in DOMAIN f
  OBVIOUS
<1>2. f[Len(f)] \in Seq(Piece)
  BY <1>1
<1>3. Append(f[Len(f)], p) \in Seq(Piece)
  BY <1>2
<1>5. Written(f, p) \in Seq(Seq(Piece)) /\ Len(Written(f, p)) = Len(f)
  BY <1>1, <1>3 DEF Written
<1>6. Written(f, p)[Len(f)] = Append(f[Len(f)], p)
  BY <1>1, Zenon DEF Written
<1>7. ASSUME NEW i \in 1 .. Len(f) - 1 PROVE Written(f, p)[i] = f[i]
  <2>1. Len(f) \in Nat
    OBVIOUS
  <2>2. i \in 1 .. Len(f) /\ i # Len(f)
    BY <2>1
  <2>3. QED
    BY <1>1, <2>2, Zenon DEF Written
<1>8. QED
  BY <1>5, <1>6, <1>7, Zenon

\* A whole line ends the open one and begins another.
LEMMA LineWritten ==
    ASSUME NEW f \in Seq(Seq(Piece)), Len(f) >= 1, NEW e \in Nat
    PROVE  /\ Line(f, e) \in Seq(Seq(Piece)) /\ Len(Line(f, e)) = Len(f) + 1
           /\ Line(f, e)[Len(f) + 1] = <<>>
           /\ Line(f, e)[Len(f)] = Append(f[Len(f)], Text(e))
           /\ \A i \in 1 .. Len(f) - 1 : Line(f, e)[i] = f[i]
<1>1. Text(e) \in Piece /\ Len(f) \in Nat
  BY DEF Text, Piece
<1>2. PICK w : w = Written(f, Text(e))
  BY Zenon
<1>3. /\ w \in Seq(Seq(Piece)) /\ Len(w) = Len(f)
      /\ w[Len(f)] = Append(f[Len(f)], Text(e))
      /\ \A i \in 1 .. Len(f) - 1 : w[i] = f[i]
  BY <1>1, <1>2, FileWritten, Zenon
<1>4. <<>> \in Seq(Piece)
  OBVIOUS
<1>5. /\ Append(w, <<>>) \in Seq(Seq(Piece)) /\ Len(Append(w, <<>>)) = Len(f) + 1
      /\ Append(w, <<>>)[Len(f) + 1] = <<>>
      /\ \A i \in 1 .. Len(f) : Append(w, <<>>)[i] = w[i]
  BY <1>1, <1>3, <1>4
<1>6. Line(f, e) = Append(w, <<>>)
  BY <1>2, Zenon DEF Line
<1>7. QED
  BY <1>1, <1>3, <1>5, <1>6

\* A line that is closed stays as it is, so what was acknowledged stays readable.
LEMMA AckedStay ==
    ASSUME AcknowledgedLines, Len(file) \in Nat, Len(file') \in Nat, Len(file') >= Len(file),
           \A i \in 1 .. Len(file) - 1 : file'[i] = file[i],
           bad \subseteq bad', NEW e \in acked \ dropped
    PROVE  \E i \in 1 .. Len(file') - 1 : EndsLine(e, file[i])' /\ i \in 1 .. Len(file) - 1
<1>1. PICK i \in 1 .. Len(file) - 1 : EndsLine(e, file[i])
  BY Zenon DEF AcknowledgedLines
<1>2. i \in 1 .. Len(file') - 1 /\ file'[i] = file[i]
  BY <1>1
<1>3. /\ file'[i] # <<>> /\ file'[i][Len(file'[i])] = Text(e)
      /\ \A k \in 1 .. Len(file'[i]) - 1 : file'[i][k].event \in bad'
  BY <1>1, <1>2, Zenon DEF EndsLine
<1>4. QED
  BY <1>1, <1>2, <1>3, Zenon DEF EndsLine

\* A line that is left open, after an error or a crash, spoils nothing.
LEMMA SpoiledKeeps ==
    ASSUME FileInv, NEW p \in Piece, file' = Written(file, p), p.event \in bad',
           bad \subseteq bad', acked' = acked, dropped' = dropped
    PROVE  FileInv'
<1>1. file \in Seq(Seq(Piece)) /\ Len(file) >= 1 /\ AcknowledgedLines
  BY Zenon DEF FileInv
<1>2. Len(file) \in Nat /\ file[Len(file)] \in Seq(Piece)
  BY <1>1
<1>3. /\ file' \in Seq(Seq(Piece)) /\ Len(file') = Len(file)
      /\ file'[Len(file)] = Append(file[Len(file)], p)
      /\ \A i \in 1 .. Len(file) - 1 : file'[i] = file[i]
  BY <1>1, FileWritten, Zenon
<1>4. AcknowledgedLines'
  <2>1. Len(file') \in Nat /\ Len(file') >= Len(file)
    BY <1>2, <1>3
  <2>2. \A e \in acked \ dropped : \E i \in 1 .. Len(file') - 1 : EndsLine(e, file[i])'
    BY <1>1, <1>2, <1>3, <2>1, AckedStay, Zenon
  <2>3. QED
    BY <2>2, Zenon DEF AcknowledgedLines
<1>5. \A k \in 1 .. Len(file'[Len(file')]) : file'[Len(file')][k].event \in bad'
  <2>1. PICK l \in Seq(Piece) : l = file[Len(file)]
    BY <1>2, Zenon
  <2>2. \A k \in 1 .. Len(l) : l[k].event \in bad
    BY <2>1, Zenon DEF FileInv
  <2>3. /\ Len(l) \in Nat /\ Len(Append(l, p)) = Len(l) + 1 /\ Append(l, p)[Len(l) + 1] = p
        /\ \A k \in 1 .. Len(l) : Append(l, p)[k] = l[k]
    BY PieceAppended, Zenon
  <2>4. \A k \in 1 .. Len(Append(l, p)) : Append(l, p)[k].event \in bad'
    BY <2>2, <2>3
  <2>5. QED
    BY <1>3, <2>1, <2>4, Zenon
<1>6. QED
  BY <1>1, <1>3, <1>4, <1>5, Zenon DEF FileInv

\* A whole line, with or without Ok.
LEMMA LineKeeps ==
    ASSUME FileInv, NEW e \in Nat, file' = Line(file, e), bad \subseteq bad',
           acked' \subseteq acked \cup {e}, dropped' = dropped
    PROVE  FileInv'
<1>1. file \in Seq(Seq(Piece)) /\ Len(file) >= 1 /\ AcknowledgedLines
  BY Zenon DEF FileInv
<1>2. Len(file) \in Nat /\ file[Len(file)] \in Seq(Piece)
  BY <1>1
<1>3. /\ file' \in Seq(Seq(Piece)) /\ Len(file') = Len(file) + 1
      /\ file'[Len(file) + 1] = <<>>
      /\ file'[Len(file)] = Append(file[Len(file)], Text(e))
      /\ \A i \in 1 .. Len(file) - 1 : file'[i] = file[i]
  BY <1>1, LineWritten, Zenon
<1>4. Len(file') \in Nat /\ Len(file') >= Len(file) /\ Len(file') >= 1
  BY <1>2, <1>3
<1>5. \E i \in 1 .. Len(file') - 1 : EndsLine(e, file[i])'
  <2>1. PICK l \in Seq(Piece) : l = file[Len(file)]
    BY <1>2, Zenon
  <2>2. /\ Text(e) \in Piece
        /\ \A k \in 1 .. Len(l) : l[k].event \in bad
    BY <2>1, Zenon DEF FileInv, Text, Piece
  <2>3. /\ Append(l, Text(e)) # <<>> /\ Len(l) \in Nat
        /\ Len(Append(l, Text(e))) = Len(l) + 1 /\ Append(l, Text(e))[Len(l) + 1] = Text(e)
        /\ \A k \in 1 .. Len(l) : Append(l, Text(e))[k] = l[k]
    BY <2>2, PieceAppended, Zenon
  <2>4. \A k \in 1 .. Len(Append(l, Text(e))) - 1 : Append(l, Text(e))[k].event \in bad'
    BY <2>2, <2>3
  <2>5. PICK n : n = Len(file)
    BY Zenon
  <2>6. n \in 1 .. Len(file') - 1
    BY <1>1, <1>2, <1>3, <2>5
  <2>7. file'[n] = Append(l, Text(e))
    BY <1>3, <2>1, <2>5, Zenon
  <2>8. EndsLine(e, file[n])'
    BY <2>3, <2>4, <2>7, Zenon DEF EndsLine
  <2>9. QED
    BY <2>6, <2>8, Zenon
<1>6. AcknowledgedLines'
  <2>1. \A x \in acked \ dropped : \E i \in 1 .. Len(file') - 1 : EndsLine(x, file[i])'
    BY <1>1, <1>2, <1>3, <1>4, AckedStay, Zenon
  <2>2. ASSUME NEW x \in acked' \ dropped' PROVE x \in acked \ dropped \/ x = e
    BY <2>2, Zenon
  <2>3. QED
    BY <1>5, <2>1, <2>2, Zenon DEF AcknowledgedLines
<1>7. \A k \in 1 .. Len(file'[Len(file')]) : file'[Len(file')][k].event \in bad'
  <2>1. Len(<<>>) = 0
    BY Zenon
  <2>2. QED
    BY <1>3, <2>1
<1>8. QED
  BY <1>3, <1>4, <1>6, <1>7, Zenon DEF FileInv

\* A call or a crash of the JSONL sink keeps both.
LEMMA JsonlKeeps ==
    ASSUME FileInv, NumbersInv, JsonlNext
    PROVE  FileInv' /\ NumbersInv'
<1>1. /\ next \in Nat /\ 1 <= next /\ next <= MaxEmits + 1 /\ MaxEmits \in Nat
      /\ acked \subseteq 1 .. next - 1 /\ bad \subseteq 1 .. next - 1 /\ acked \cap bad = {}
      /\ dropped \subseteq acked
  BY SinksAssumption, Zenon DEF NumbersInv
<1>2. next \notin acked /\ next \notin bad
  BY <1>1
<1>3. ASSUME next' = next, acked' = acked, bad' = bad, dropped' = dropped PROVE NumbersInv'
  BY <1>3, Zenon DEF NumbersInv
<1>5. ASSUME next <= MaxEmits, next' = next + 1, acked' = acked \cup {next}, bad' = bad,
             dropped' \subseteq dropped \cup {next}
      PROVE  NumbersInv'
  BY <1>1, <1>2, <1>5 DEF NumbersInv
<1>6. ASSUME next <= MaxEmits, next' = next + 1, acked' = acked, bad' = bad \cup {next},
             dropped' = dropped
      PROVE  NumbersInv'
  BY <1>1, <1>2, <1>6 DEF NumbersInv
<1>7. ASSUME file' = file, acked' \ dropped' \subseteq acked \ dropped, bad \subseteq bad'
      PROVE  FileInv'
  <2>1. /\ file \in Seq(Seq(Piece)) /\ Len(file) >= 1 /\ AcknowledgedLines
        /\ \A k \in 1 .. Len(file[Len(file)]) : file[Len(file)][k].event \in bad
    BY Zenon DEF FileInv
  <2>2. /\ file' \in Seq(Seq(Piece)) /\ Len(file') >= 1 /\ Len(file) \in Nat
        /\ \A k \in 1 .. Len(file'[Len(file')]) : file'[Len(file')][k].event \in bad'
    BY <1>7, <2>1
  <2>3. \A e \in acked \ dropped : \E i \in 1 .. Len(file') - 1 : EndsLine(e, file[i])'
    BY <1>7, <2>1, <2>2, AckedStay
  <2>4. QED
    BY <1>7, <2>2, <2>3, Zenon DEF FileInv, AcknowledgedLines
<1>8. ASSUME file' \in {Written(file, Torn(next)), Written(file, Text(next)),
                       Line(file, next)},
             bad' = bad \cup {next}, acked' = acked, dropped' = dropped
      PROVE  FileInv'
  <2>1. /\ Torn(next) \in Piece /\ Torn(next).event = next
        /\ Text(next) \in Piece /\ Text(next).event = next
    BY <1>1, Zenon DEF Torn, Text, Piece
  <2>2. bad \subseteq bad' /\ next \in bad'
    BY <1>8, Zenon
  <2>3. CASE file' = Written(file, Torn(next)) \/ file' = Written(file, Text(next))
    BY <1>8, <2>1, <2>2, <2>3, SpoiledKeeps, Zenon
  <2>4. CASE file' = Line(file, next)
    BY <1>1, <1>8, <2>2, <2>4, LineKeeps, Zenon
  <2>5. QED
    BY <1>8, <2>3, <2>4, Zenon
<1>9. CASE JsonlEmit
  <2>1. CASE open
    BY <1>1, <1>5, <1>9, <2>1, LineKeeps, Zenon DEF JsonlEmit
  <2>2. CASE ~open
    <3>1. /\ next <= MaxEmits /\ next' = next + 1 /\ acked' = acked \cup {next}
          /\ dropped' = dropped \cup {next} /\ file' = file /\ bad' = bad
      BY <1>9, <2>2, Zenon DEF JsonlEmit
    <3>2. acked' \ dropped' \subseteq acked \ dropped
      BY <3>1, Zenon
    <3>3. QED
      BY <1>5, <1>7, <3>1, <3>2, Zenon
  <2>3. QED
    BY <2>1, <2>2, Zenon
<1>10. CASE JsonlEmitFails
  BY <1>6, <1>7, <1>8, <1>10, Zenon DEF JsonlEmitFails
<1>11. CASE JsonlShutdown
  BY <1>3, <1>7, <1>11, Zenon DEF JsonlShutdown
<1>12. CASE JsonlCrash
  BY <1>3, <1>6, <1>7, <1>8, <1>12, Zenon DEF JsonlCrash
<1>13. QED
  BY <1>9, <1>10, <1>11, <1>12, Zenon DEF JsonlNext

\* The flushes that are failing are finitely many, and leave out the one that is not.
LEMMA FailingCount ==
    /\ Cardinality(Failing) \in Nat /\ Cardinality(Tasks) \in Nat /\ Cardinality(Tasks) >= 1
    /\ IsFiniteSet(Failing)
    /\ \A t \in Tasks : t \notin Failing => Cardinality(Failing) <= Cardinality(Tasks) - 1
<1>1. IsFiniteSet(Tasks) /\ Tasks # {}
  BY SinksAssumption, Zenon
<1>2. Failing \subseteq Tasks
  BY Zenon DEF Failing
<1>3. IsFiniteSet(Failing) /\ Cardinality(Failing) \in Nat /\ Cardinality(Tasks) \in Nat
  BY <1>1, <1>2, FS_Subset, FS_CardinalityType, Zenon
<1>4. Cardinality(Tasks) >= 1
  BY <1>1, <1>3, FS_EmptySet
<1>5. ASSUME NEW t \in Tasks, t \notin Failing
      PROVE  Cardinality(Failing) <= Cardinality(Tasks) - 1
  <2>1. IsFiniteSet(Tasks \ {t}) /\ Cardinality(Tasks \ {t}) = Cardinality(Tasks) - 1
    BY <1>1, FS_RemoveElement, Zenon
  <2>2. Failing \subseteq Tasks \ {t}
    BY <1>2, <1>5, Zenon
  <2>3. Cardinality(Failing) <= Cardinality(Tasks \ {t})
    BY <2>1, <2>2, FS_Subset, Zenon
  <2>4. QED
    BY <2>1, <2>3, Zenon
<1>6. QED
  BY <1>3, <1>4, <1>5, Zenon

\* What the counts are after a flush that failed.
LEMMA FailedCount ==
    ASSUME NEW n \in 0 .. BreakAfter
    PROVE  /\ Failed(n) \in 0 .. BreakAfter /\ Failed(n) <= n + 1
           /\ Failed(n) = n + 1 \/ Failed(n) = BreakAfter
<1>1. BreakAfter \in Nat
  BY SinksAssumption, Zenon
<1>2. QED
  BY <1>1 DEF Failed

\* A step that begins or ends no flush leaves the breaker's balance alone.
LEMMA BalanceStays ==
    ASSUME OtlpInv, failures' = failures, recent' = recent, queue' \in 0 .. QueueCap,
           at' \in [Tasks -> {"idle", "emit", "flush"}], result' = result, up' \in BOOLEAN,
           Failing' = Failing, Healthy' = Healthy
    PROVE  OtlpInv'
BY Zenon DEF OtlpInv

\* Every step of the OTLP sink and of the collector keeps the balance.
LEMMA OtlpKeeps ==
    ASSUME OtlpInv, OtlpNext
    PROVE  OtlpInv'
<1>1. /\ failures \in 0 .. BreakAfter /\ recent \in 0 .. BreakAfter
      /\ queue \in 0 .. QueueCap /\ QueueCap \in Nat /\ BreakAfter \in Nat
      /\ at \in [Tasks -> {"idle", "emit", "flush"}] /\ result \in [Tasks -> BOOLEAN]
      /\ up \in BOOLEAN
  BY SinksAssumption, Zenon DEF OtlpInv
<1>2. CASE EmitSuspended
  <2>1. Failing' = Failing /\ Healthy' = Healthy
    BY <1>2, Zenon DEF EmitSuspended, sinkVars, otlpVars, Failing, Healthy
  <2>2. QED
    BY <1>1, <1>2, <2>1, BalanceStays, Zenon DEF EmitSuspended, sinkVars, otlpVars
<1>3. ASSUME NEW t \in Tasks, StartEmit(t) PROVE OtlpInv'
  <2>1. Failing' = Failing /\ Healthy' = Healthy
    BY <1>1, <1>3, Zenon DEF StartEmit, Failing, Healthy
  <2>2. QED
    BY <1>1, <1>3, <2>1, BalanceStays, Zenon DEF StartEmit
<1>4. ASSUME NEW t \in Tasks, EndEmit(t) PROVE OtlpInv'
  <2>1. Failing' = Failing /\ Healthy' = Healthy
    BY <1>1, <1>4, Zenon DEF EndEmit, Failing, Healthy
  <2>2. QED
    BY <1>1, <1>4, <2>1, BalanceStays DEF EndEmit
<1>5. ASSUME NEW t \in Tasks, StartFlush(t) PROVE OtlpInv'
  <2>1. /\ at' \in [Tasks -> {"idle", "emit", "flush"}] /\ result' \in [Tasks -> BOOLEAN]
        /\ queue' \in 0 .. QueueCap /\ failures' = failures /\ up' = up
    BY <1>1, <1>5 DEF StartFlush
  <2>2. recent' \in 0 .. BreakAfter
    BY <1>1, <1>5, FailedCount DEF StartFlush
  <2>3. CASE up
    <3>1. t \in Healthy'
      BY <1>1, <1>5, <2>3, Zenon DEF StartFlush, Healthy
    <3>2. QED
      BY <1>1, <2>1, <2>2, <3>1, Zenon DEF OtlpInv
  <2>4. CASE ~up
    <3>1. Failing' = Failing \cup {t} /\ t \notin Failing /\ Healthy' = Healthy
      BY <1>1, <1>5, <2>4, Zenon DEF StartFlush, Failing, Healthy
    <3>2. Cardinality(Failing') = Cardinality(Failing) + 1
      BY <3>1, FailingCount, FS_AddElement, Zenon
    <3>3. recent' = recent + 1 \/ recent' = BreakAfter
      BY <1>1, <1>5, <2>4, FailedCount, Zenon DEF StartFlush
    <3>4. recent = BreakAfter => recent' = BreakAfter
      BY <1>1, <1>5, <2>4 DEF StartFlush, Failed
    <3>5. QED
      BY <1>1, <2>1, <2>2, <3>1, <3>2, <3>3, <3>4, FailingCount DEF OtlpInv
  <2>5. QED
    BY <2>3, <2>4, Zenon
<1>6. ASSUME NEW t \in Tasks, EndFlush(t) PROVE OtlpInv'
  <2>1. /\ at' \in [Tasks -> {"idle", "emit", "flush"}] /\ result' = result
        /\ queue' = queue /\ recent' = recent /\ up' = up
    BY <1>1, <1>6, Zenon DEF EndFlush
  <2>2. CASE result[t]
    <3>1. failures' = 0
      BY <1>6, <2>2, Zenon DEF EndFlush, AfterFlush
    <3>2. Failing' = Failing /\ t \notin Failing
      BY <1>1, <1>6, <2>2, Zenon DEF EndFlush, Failing
    <3>3. Cardinality(Failing') <= Cardinality(Tasks) - 1
      BY <3>2, FailingCount, Zenon
    <3>4. failures' + Cardinality(Failing') <= recent' + Cardinality(Tasks) - 1
      BY <1>1, <2>1, <3>1, <3>2, <3>3, FailingCount
    <3>5. QED
      BY <1>1, <2>1, <3>1, <3>4 DEF OtlpInv
  <2>3. CASE ~result[t]
    <3>1. failures' \in 0 .. BreakAfter /\ failures' <= failures + 1
      BY <1>1, <1>6, <2>3, FailedCount, Zenon DEF EndFlush, AfterFlush
    <3>2. Failing' = Failing \ {t} /\ t \in Failing /\ Healthy' = Healthy
      BY <1>1, <1>6, <2>3, Zenon DEF EndFlush, Failing, Healthy
    <3>3. Cardinality(Failing') = Cardinality(Failing) - 1
      BY <3>2, FailingCount, FS_RemoveElement, Zenon
    <3>4. QED
      BY <1>1, <2>1, <3>1, <3>2, <3>3, FailingCount DEF OtlpInv
  <2>4. QED
    BY <2>2, <2>3, Zenon
<1>7. CASE CollectorFails \/ CollectorReturns
  <2>1. Failing' = Failing /\ Healthy' = Healthy
    BY <1>7, Zenon DEF CollectorFails, CollectorReturns, Failing, Healthy
  <2>2. QED
    BY <1>1, <1>7, <2>1, BalanceStays, Zenon DEF CollectorFails, CollectorReturns
<1>8. QED
  BY <1>2, <1>3, <1>4, <1>5, <1>6, <1>7, Zenon DEF OtlpNext

\* The inductive invariant of the two sinks.
SinksInv == FileInv /\ NumbersInv /\ OtlpInv

\* It gives the property.
LEMMA SinksInvSound ==
    ASSUME SinksInv
    PROVE  SinksSound
<1>1. AcknowledgedLines
  BY Zenon DEF SinksInv, FileInv
<1>2. acked \cup bad \subseteq 1 .. MaxEmits /\ acked \cap bad = {}
  BY SinksAssumption DEF SinksInv, NumbersInv
<1>3. \/ \E t \in Tasks : at[t] = "flush" /\ result[t]
      \/ failures <= recent + Cardinality(Tasks) - 1
  <2>1. CASE Healthy # {}
    BY <2>1, Zenon DEF Healthy
  <2>2. CASE Healthy = {}
    BY <2>2, FailingCount, SinksAssumption DEF SinksInv, OtlpInv
  <2>3. QED
    BY <2>1, <2>2, Zenon
<1>4. /\ failures \in 0 .. BreakAfter /\ queue \in 0 .. QueueCap
      /\ at \in [Tasks -> {"idle", "emit", "flush"}] /\ result \in [Tasks -> BOOLEAN]
  BY Zenon DEF SinksInv, OtlpInv
<1>5. QED
  BY <1>1, <1>2, <1>3, <1>4, Zenon DEF SinksSound, BreakerEarned

\* EventSinks: what SinksSound says holds for every number of tasks, every queue and
\* breaker threshold: an event acknowledged by an open sink ends a line that only
\* unacknowledged pieces precede, and an open breaker was earned by failed flushes.
THEOREM SinksKeepFaith == SinksSpec => []SinksSound
<1>1. SinksInit => SinksInv
  <2>1. SUFFICES ASSUME SinksInit PROVE SinksInv
    BY Zenon
  <2>2. file = << <<>> >> /\ acked = {} /\ bad = {} /\ dropped = {} /\ next = 1
    BY <2>1, Zenon DEF SinksInit, JsonlInit
  <2>3. Len(<<>>) = 0
    BY Zenon
  <2>4. file \in Seq(Seq(Piece)) /\ Len(file) = 1 /\ file[Len(file)] = <<>>
    BY <2>2
  <2>5. FileInv
    BY <2>2, <2>3, <2>4 DEF FileInv, AcknowledgedLines
  <2>6. NumbersInv
    BY <2>2, SinksAssumption DEF NumbersInv
  <2>7. Failing = {}
    BY <2>1, Zenon DEF SinksInit, OtlpInit, Failing
  <2>8. OtlpInv
    BY <2>1, <2>7, FS_EmptySet, FailingCount, SinksAssumption DEF SinksInit, OtlpInit, OtlpInv
  <2>9. QED
    BY <2>5, <2>6, <2>8, Zenon DEF SinksInv
<1>2. SinksInv /\ [SinksNext]_sinkVars => SinksInv'
  <2>1. SUFFICES ASSUME SinksInv, [SinksNext]_sinkVars PROVE SinksInv'
    BY Zenon
  <2>2. FileInv /\ NumbersInv /\ OtlpInv
    BY <2>1, Zenon DEF SinksInv
  <2>3. UNCHANGED jsonlVars => FileInv' /\ NumbersInv'
    BY <2>2, Zenon DEF jsonlVars, FileInv, NumbersInv, AcknowledgedLines, EndsLine
  <2>4. UNCHANGED otlpVars => OtlpInv'
    BY <2>2, Zenon DEF otlpVars, OtlpInv, Failing, Healthy
  <2>5. CASE JsonlNext
    <3>1. UNCHANGED otlpVars
      BY <2>5, Zenon DEF JsonlNext, JsonlEmit, JsonlEmitFails, JsonlShutdown, JsonlCrash
    <3>2. QED
      BY <2>2, <2>4, <2>5, <3>1, JsonlKeeps, Zenon DEF SinksInv
  <2>6. CASE OtlpNext
    <3>1. UNCHANGED jsonlVars
      BY <2>6, Zenon
      DEF OtlpNext, EmitSuspended, sinkVars, StartEmit, EndEmit, StartFlush, EndFlush,
                  CollectorFails, CollectorReturns
    <3>2. QED
      BY <2>2, <2>3, <2>6, <3>1, OtlpKeeps, Zenon DEF SinksInv
  <2>7. CASE UNCHANGED sinkVars
    BY <2>2, <2>3, <2>4, <2>7, Zenon DEF sinkVars, jsonlVars, otlpVars, SinksInv
  <2>8. QED
    BY <2>1, <2>5, <2>6, <2>7, Zenon DEF SinksNext
<1>3. SinksInv => SinksSound
  BY SinksInvSound, Zenon
<1>4. QED
  BY <1>1, <1>2, <1>3, PTL DEF SinksSpec

-----------------------------------------------------------------------------
(* DecisionRequests                                                          *)

\* The tenants that a record may name.
Tenants == {Trimmed(c.tenant) : c \in Callers} \union {b.tenant : b \in Bodies}
               \union {NoValue, Trimmed(NoValue)}

\* DecisionRequests: the AgentRequest is about what the body asks for, and bound to
\* the identity of the caller.
AgentFaithful ==
    /\ agentReq.principal = body.subject /\ agentReq.resource = body.resource
    /\ agentReq.action \in [tool : STRING, operation : Seq(STRING)]
    /\ ActionId(agentReq.action) \in {body.action, <<"ToolCall">> \o body.action}
    /\ agentReq.tenant \in Tenants
    /\ body.via = "command" => agentReq.tenant = body.tenant

CallerBound ==
    caller # NoValue =>
        /\ caller.canActAs \/ body.subject = caller.subject
        /\ agentReq.tenant = Trimmed(caller.tenant) /\ TenantAgrees(body, caller)
        /\ "tenant_id" \notin DOMAIN agentReq.context.args

\* The inductive invariant: each stage has the one before it as its source.
RequestsInv ==
    /\ body \in Bodies /\ caller \in Callers \union {NoValue}
    /\ body.via = "command" => caller = NoValue
    /\ progress \in {"mapped", "decided", "recorded"} => AgentFaithful /\ CallerBound
    /\ progress \in {"decided", "recorded"} =>
           cedarReq = [principal |-> agentReq.principal, resource |-> agentReq.resource,
                       action |-> ActionId(agentReq.action),
                       context |-> CedarContext(agentReq.context)]
    /\ progress = "recorded" => record = FromDecision(agentReq, caller)
    /\ shown => body.noAudit \/ progress = "recorded"

\* One or two strings make a sequence, which can be taken apart again.
LEMMA ShortSeq ==
    ASSUME NEW S
    PROVE  /\ \A x, y \in S : <<x, y>> \in Seq(S) /\ <<x>> \in Seq(S)
           /\ \A x \in S, q \in Seq(S) :
                 /\ <<x>> \o q \in Seq(S) /\ <<x>> \o q # <<>>
                 /\ Head(<<x>> \o q) = x /\ Tail(<<x>> \o q) = q
<1>1. \A x, y \in S : <<x, y>> \in Seq(S) /\ <<x>> \in Seq(S)
  OBVIOUS
<1>2. ASSUME NEW x \in S, NEW q \in Seq(S)
      PROVE  /\ <<x>> \o q \in Seq(S) /\ <<x>> \o q # <<>>
             /\ Head(<<x>> \o q) = x /\ Tail(<<x>> \o q) = q
  <2>1. PICK l : l = <<x>> \o q
    BY Zenon
  <2>2. l \in Seq(S) /\ Len(l) = Len(q) + 1 /\ Len(q) \in Nat
    BY <2>1
  <2>3. l[1] = x /\ \A i \in 1 .. Len(q) : l[i + 1] = q[i]
    BY <2>1, <2>2
  <2>4. Len(l) # 0 /\ Len(<<>>) = 0
    BY <2>2
  <2>5. l # <<>>
    BY <2>4, Zenon
  <2>6. Head(l) = x
    BY <2>2, <2>3, <2>5
  <2>7. Tail(l) \in Seq(S) /\ Len(Tail(l)) = Len(q) /\ \A i \in 1 .. Len(q) : Tail(l)[i] = q[i]
    BY <2>2, <2>3, <2>5
  <2>8. Tail(l) = q
    BY <2>2, <2>7
  <2>9. QED
    BY <2>1, <2>2, <2>5, <2>6, <2>8, Zenon
<1>3. QED
  BY <1>1, <1>2, Zenon

\* A nonempty sequence is its head before its tail, also behind the prefix.
LEMMA HeadBeforeTail ==
    ASSUME NEW p \in Seq(STRING), p # <<>>
    PROVE  /\ Head(p) \in STRING /\ Tail(p) \in Seq(STRING)
           /\ <<"ToolCall", Head(p)>> \o Tail(p) = <<"ToolCall">> \o p
<1>1. Head(p) \in STRING /\ Tail(p) \in Seq(STRING) /\ Len(p) \in Nat /\ Len(p) >= 1
  OBVIOUS
<1>2. PICK S : S = STRING \union {"ToolCall"}
  BY Zenon
<1>3. Len(Tail(p)) = Len(p) - 1 /\ \A i \in 1 .. Len(p) - 1 : Tail(p)[i] = p[i + 1]
  BY <1>1
<1>4. Head(p) = p[1]
  BY <1>1
<1>5. DEFINE l == <<"ToolCall", Head(p)>> \o Tail(p)
             r == <<"ToolCall">> \o p
<1>6. l \in Seq(S) /\ r \in Seq(S) /\ Len(l) = Len(p) + 1 /\ Len(r) = Len(p) + 1
  <2>1. <<"ToolCall", Head(p)>> \in Seq(S) /\ <<"ToolCall">> \in Seq(S)
    BY <1>1, <1>2, ShortSeq, Zenon
  <2>2. Len(<<"ToolCall", Head(p)>>) = 2 /\ Len(<<"ToolCall">>) = 1
    BY Zenon
  <2>3. l \in Seq(S) /\ r \in Seq(S)
    <3>1. p \in Seq(S) /\ Tail(p) \in Seq(S)
      BY <1>1, <1>2
    <3>2. QED
      BY <2>1, <3>1
  <2>4. Len(l) = 2 + Len(Tail(p)) /\ Len(r) = 1 + Len(p)
    BY <1>1, <1>2, <2>1, <2>2
  <2>5. QED
    BY <1>1, <1>3, <2>3, <2>4
<1>7. ASSUME NEW i \in 1 .. Len(p) + 1 PROVE l[i] = r[i]
  <2>1. CASE i = 1
    BY <1>1, <2>1
  <2>2. CASE i = 2
    BY <1>1, <1>4, <2>2
  <2>3. CASE i > 2
    <3>1. l[i] = Tail(p)[i - 2] /\ r[i] = p[i - 1]
      BY <1>1, <1>3, <1>7, <2>3
    <3>2. i - 2 \in 1 .. Len(p) - 1 /\ (i - 2) + 1 = i - 1
      BY <1>1, <1>7, <2>3
    <3>3. QED
      BY <1>3, <3>1, <3>2, Zenon
  <2>4. QED
    BY <1>1, <1>7, <2>1, <2>2, <2>3
<1>8. l = r
  BY <1>1, <1>6, <1>7
<1>9. QED
  BY <1>1, <1>8, Zenon

\* The prefix that was stripped is the one that is put back.
LEMMA ToolCallBack ==
    ASSUME NEW id \in Seq(STRING), id # <<>>
    PROVE  /\ ToolCall(id) \in [tool : STRING, operation : Seq(STRING)]
           /\ ActionId(ToolCall(id)) \in {id, <<"ToolCall">> \o id}
<1>1. CASE Len(id) > 1 /\ Head(id) = "ToolCall"
  <2>1. Tail(id) \in Seq(STRING) /\ Tail(id) # <<>>
    <3>1. Len(id) \in Nat /\ Len(Tail(id)) = Len(id) - 1 /\ Tail(id) \in Seq(STRING)
      BY <1>1
    <3>2. Len(Tail(id)) # 0
      BY <1>1, <3>1
    <3>3. Len(<<>>) = 0
      BY Zenon
    <3>4. QED
      BY <3>1, <3>2, <3>3, Zenon
  <2>2. ToolCall(id) = [tool |-> Head(Tail(id)), operation |-> Tail(Tail(id))]
    BY <1>1, Zenon DEF ToolCall
  <2>3. ActionId(ToolCall(id)) = <<"ToolCall", Head(Tail(id))>> \o Tail(Tail(id))
    <3>1. /\ ToolCall(id).tool = Head(Tail(id)) /\ ToolCall(id).operation = Tail(Tail(id))
      BY <2>2
    <3>2. QED
      BY <3>1, Zenon DEF ActionId
  <2>4. ActionId(ToolCall(id)) = <<"ToolCall">> \o Tail(id)
    BY <2>1, <2>3, HeadBeforeTail, Zenon
  <2>5. <<"ToolCall">> \o Tail(id) = id
    <3>1. /\ Len(id) \in Nat /\ Len(Tail(id)) = Len(id) - 1 /\ id[1] = "ToolCall"
          /\ \A i \in 1 .. Len(id) - 1 : Tail(id)[i] = id[i + 1]
      BY <1>1
    <3>2. DEFINE l == <<"ToolCall">> \o Tail(id)
    <3>3. l \in Seq(STRING) /\ Len(l) = Len(id)
      BY <2>1, <3>1
    <3>4. ASSUME NEW i \in 1 .. Len(id) PROVE l[i] = id[i]
      <4>1. CASE i = 1
        BY <2>1, <3>1, <4>1
      <4>2. CASE i > 1
        <5>1. l[i] = Tail(id)[i - 1]
          BY <2>1, <3>1, <3>4, <4>2
        <5>2. i - 1 \in 1 .. Len(id) - 1 /\ (i - 1) + 1 = i
          BY <3>1, <3>4, <4>2
        <5>3. QED
          BY <3>1, <5>1, <5>2, Zenon
      <4>3. QED
        BY <3>1, <3>4, <4>1, <4>2
    <3>5. QED
      BY <3>1, <3>3, <3>4
  <2>6. Head(Tail(id)) \in STRING /\ Tail(Tail(id)) \in Seq(STRING)
    BY <2>1, HeadBeforeTail, Zenon
  <2>7. ToolCall(id) \in [tool : STRING, operation : Seq(STRING)]
    BY <2>2, <2>6
  <2>8. QED
    BY <2>4, <2>5, <2>7, Zenon
<1>2. CASE ~(Len(id) > 1 /\ Head(id) = "ToolCall")
  <2>1. ToolCall(id) = [tool |-> Head(id), operation |-> Tail(id)]
    BY <1>2, Zenon DEF ToolCall
  <2>2. ActionId(ToolCall(id)) = <<"ToolCall", Head(id)>> \o Tail(id)
    <3>1. ToolCall(id).tool = Head(id) /\ ToolCall(id).operation = Tail(id)
      BY <2>1
    <3>2. QED
      BY <3>1, Zenon DEF ActionId
  <2>3. /\ Head(id) \in STRING /\ Tail(id) \in Seq(STRING)
        /\ <<"ToolCall", Head(id)>> \o Tail(id) = <<"ToolCall">> \o id
    BY HeadBeforeTail, Zenon
  <2>4. ToolCall(id) \in [tool : STRING, operation : Seq(STRING)]
    BY <2>1, <2>3
  <2>5. QED
    BY <2>2, <2>3, <2>4, Zenon
<1>3. QED
  BY <1>1, <1>2, Zenon

\* The record of a decision is one, and its trace is never found (the trace of the
\* decision's request is a text, which has no fields).
LEMMA RecordMade ==
    ASSUME AgentFaithful, body \in Bodies, caller \in Callers \union {NoValue}
    PROVE  FromDecision(agentReq, caller) \in AuditRecord
<1>1. ASSUME NEW t, NEW k PROVE FieldOf(TraceJson(t), k) = NoValue
  BY Zenon DEF FieldOf, TraceJson, JsonText
<1>2. ASSUME NEW k PROVE FieldOf(NoValue, k) = NoValue
  BY Zenon DEF FieldOf
<1>3. DEFINE trace == IF agentReq.trace = NoValue THEN NoValue ELSE TraceJson(agentReq.trace)
<1>4. FieldOf(trace, "trace_id") = NoValue /\ FieldOf(trace, "span_id") = NoValue
  BY <1>1, <1>2, Zenon
<1>5. agentReq.principal.id \in STRING /\ agentReq.resource.id \in STRING
  BY RequestsAssumption, Zenon DEF AgentFaithful, EntityRef
<1>6. PICK tool \in STRING, operation \in Seq(STRING) :
        agentReq.action = [tool |-> tool, operation |-> operation]
  BY Zenon DEF AgentFaithful
<1>7. <<agentReq.action.tool>> \o agentReq.action.operation \in Seq(STRING)
  BY <1>6
<1>8. agentReq.tenant \in Tenants
  BY Zenon DEF AgentFaithful
<1>9. FromDecision(agentReq, caller) =
        [principal |-> agentReq.principal.id, resource |-> agentReq.resource.id,
         action |-> <<agentReq.action.tool>> \o agentReq.action.operation,
         tenant |-> agentReq.tenant, actor |-> caller,
         traceId |-> NoValue, spanId |-> NoValue]
  BY <1>4, Zenon DEF FromDecision
<1>10. QED
  BY <1>5, <1>7, <1>8, <1>9 DEF AuditRecord, Tenants

\* Mapping a body for a caller keeps the invariant.
LEMMA MapKeeps ==
    ASSUME RequestsInv, MapForCaller
    PROVE  RequestsInv'
<1>1. /\ body \in Bodies /\ caller \in Callers \union {NoValue}
      /\ body.via = "command" => caller = NoValue
      /\ body.via # "command"
      /\ progress = "received" /\ (shown => body.noAudit \/ progress = "recorded")
      /\ body' = body /\ caller' = caller /\ shown' = shown
  BY Zenon DEF RequestsInv, MapForCaller
<1>2. CASE progress' \in {"forbidden", "bad request"}
  BY <1>1, <1>2, Zenon DEF RequestsInv
<1>3. CASE progress' = "mapped"
  <2>1. DEFINE context == IF caller # NoValue
                          THEN Restrict(body.context, DOMAIN body.context \ {"tenant_id"})
                          ELSE body.context
               tenant == IF caller # NoValue THEN caller.tenant ELSE NoValue
  <2>2. /\ caller # NoValue => OwnSubject(body, caller) /\ TenantAgrees(body, caller)
        /\ agentReq' = ToAgent(body, context, tenant)
    BY <1>3, Zenon DEF MapForCaller
  <2>3. Trimmed(tenant) \in Tenants
    BY <1>1, Zenon DEF Tenants
  <2>4. body.action \in Seq(STRING) /\ body.action # <<>>
    BY <1>1, RequestsAssumption, Zenon
  <2>5. /\ agentReq'.principal = body.subject /\ agentReq'.resource = body.resource
        /\ agentReq'.action = ToolCall(body.action) /\ agentReq'.tenant = Trimmed(tenant)
        /\ agentReq'.context = ToContext(context)
    BY <2>2, Zenon DEF ToAgent
  <2>6. AgentFaithful'
    BY <1>1, <2>3, <2>4, <2>5, ToolCallBack, Zenon DEF AgentFaithful
  <2>7. CallerBound'
    <3>1. SUFFICES ASSUME caller # NoValue PROVE CallerBound'
      BY <1>1, Zenon DEF CallerBound
    <3>2. agentReq'.context.args = Restrict(context, DOMAIN context \ {"session"})
      BY <2>5 DEF ToContext
    <3>3. DOMAIN agentReq'.context.args \subseteq DOMAIN context
      BY <3>2, Zenon DEF Restrict
    <3>4. "tenant_id" \notin DOMAIN context
      BY <3>1, Zenon DEF Restrict
    <3>5. agentReq'.tenant = Trimmed(caller.tenant)
      BY <2>5, <3>1, Zenon
    <3>6. caller.canActAs \/ body.subject = caller.subject
      BY <2>2, <3>1, Zenon DEF OwnSubject
    <3>7. "tenant_id" \notin DOMAIN agentReq'.context.args
      BY <3>3, <3>4, Zenon
    <3>8. TenantAgrees(body', caller')
      BY <1>1, <2>2, <3>1, Zenon
    <3>9. QED
      BY <1>1, <3>5, <3>6, <3>7, <3>8, Zenon DEF CallerBound
  <2>8. QED
    BY <1>1, <1>3, <2>6, <2>7, Zenon DEF RequestsInv
<1>4. progress' \in {"forbidden", "bad request", "mapped"}
  BY Zenon DEF MapForCaller
<1>5. QED
  BY <1>2, <1>3, <1>4, Zenon

\* Reading the request of the authorize command keeps it.
LEMMA ReadKeeps ==
    ASSUME RequestsInv, ReadRequest
    PROVE  RequestsInv'
<1>1. /\ body \in Bodies /\ caller = NoValue
      /\ progress = "received" /\ (shown => body.noAudit \/ progress = "recorded")
      /\ body' = body /\ caller' = caller /\ shown' = shown
  BY Zenon DEF RequestsInv, ReadRequest
<1>2. CASE progress' = "bad request"
  BY <1>1, <1>2, Zenon DEF RequestsInv
<1>3. CASE progress' = "mapped"
  <2>1. /\ agentReq'.principal = body.subject /\ agentReq'.resource = body.resource
        /\ agentReq'.action = [tool |-> Head(body.action), operation |-> Tail(body.action)]
        /\ agentReq'.tenant = body.tenant
    <3>1. agentReq' = [principal |-> body.subject,
                       action |-> [tool |-> Head(body.action),
                                   operation |-> Tail(body.action)],
                       resource |-> body.resource, context |-> ToContext(body.context),
                       trace |-> IF ParseTrace(body.traceparent) # NoValue
                                 THEN ParseTrace(body.traceparent)
                                 ELSE ParseTrace(body.trace),
                       tenant |-> body.tenant]
      BY <1>3, Zenon DEF ReadRequest
    <3>2. QED
      BY <3>1, Zenon
  <2>2. body.action \in Seq(STRING) /\ body.action # <<>>
    BY <1>1, RequestsAssumption, Zenon
  <2>3. /\ Head(body.action) \in STRING /\ Tail(body.action) \in Seq(STRING)
        /\ <<"ToolCall", Head(body.action)>> \o Tail(body.action)
               = <<"ToolCall">> \o body.action
    BY <2>2, HeadBeforeTail, Zenon
  <2>4. agentReq'.action \in [tool : STRING, operation : Seq(STRING)]
    BY <2>1, <2>3
  <2>5. /\ agentReq'.action.tool = Head(body.action)
        /\ agentReq'.action.operation = Tail(body.action)
    BY <2>1
  <2>6. ActionId(agentReq'.action) = <<"ToolCall">> \o body.action
    BY <2>3, <2>5, Zenon DEF ActionId
  <2>7. AgentFaithful'
    BY <1>1, <2>1, <2>4, <2>6, Zenon DEF AgentFaithful, Tenants
  <2>8. CallerBound'
    BY <1>1, Zenon DEF CallerBound
  <2>9. QED
    BY <1>1, <1>3, <2>7, <2>8, Zenon DEF RequestsInv
<1>4. progress' \in {"bad request", "mapped"}
  BY Zenon DEF ReadRequest
<1>5. QED
  BY <1>2, <1>3, <1>4, Zenon

\* So do the evaluation, the append and the answer.
LEMMA LaterKeeps ==
    ASSUME RequestsInv, Evaluate \/ AppendDecision \/ Show
    PROVE  RequestsInv'
<1>1. /\ body' = body /\ caller' = caller /\ agentReq' = agentReq
      /\ body \in Bodies /\ caller \in Callers \union {NoValue}
      /\ body.via = "command" => caller = NoValue
      /\ progress \in {"mapped", "decided", "recorded"}
      /\ AgentFaithful /\ CallerBound
  BY Zenon DEF RequestsInv, Evaluate, AppendDecision, Show
<1>2. AgentFaithful' /\ CallerBound'
  BY <1>1, Zenon DEF AgentFaithful, CallerBound
<1>3. CASE Evaluate
  <2>1. shown' = shown /\ (shown => body.noAudit) /\ progress' \in {"error", "decided"}
    BY <1>3, Zenon DEF RequestsInv, Evaluate
  <2>2. CASE progress' = "error"
    BY <1>1, <2>1, <2>2, Zenon DEF RequestsInv
  <2>3. CASE progress' = "decided"
    <3>1. cedarReq' = [principal |-> agentReq'.principal, resource |-> agentReq'.resource,
                       action |-> ActionId(agentReq'.action),
                       context |-> CedarContext(agentReq'.context)]
      BY <1>1, <1>3, <2>3, Zenon DEF Evaluate
    <3>2. QED
      BY <1>1, <1>2, <2>1, <2>3, <3>1, Zenon DEF RequestsInv
  <2>4. QED
    BY <2>1, <2>2, <2>3, Zenon
<1>4. CASE AppendDecision
  <2>1. shown' = shown /\ cedarReq' = cedarReq /\ ~body.noAudit /\ progress = "decided"
    BY <1>4, Zenon DEF AppendDecision
  <2>2. ~shown /\ cedarReq = [principal |-> agentReq.principal, resource |-> agentReq.resource,
                              action |-> ActionId(agentReq.action),
                              context |-> CedarContext(agentReq.context)]
    BY <2>1, Zenon DEF RequestsInv
  <2>3. \/ progress' = "error"
        \/ progress' = "recorded" /\ record' = FromDecision(agentReq, caller)
    BY <1>4, Zenon DEF AppendDecision
  <2>4. QED
    BY <1>1, <1>2, <2>1, <2>2, <2>3, Zenon DEF RequestsInv
<1>5. CASE Show
  <2>1. /\ cedarReq' = cedarReq /\ record' = record /\ progress' = progress
        /\ progress = "recorded" \/ body.noAudit
    BY <1>5, Zenon DEF Show
  <2>2. QED
    BY <1>1, <1>2, <2>1, Zenon DEF RequestsInv
<1>6. QED
  BY <1>3, <1>4, <1>5, Zenon

\* The invariant gives the property.
LEMMA RequestsInvFaithful ==
    ASSUME RequestsInv
    PROVE  RequestFaithful
<1>1. CASE progress \notin {"decided", "recorded"}
  BY <1>1, Zenon DEF RequestsInv, RequestFaithful, IdentityBound, RecordFaithful, ShownOnRecord
<1>2. CASE progress \in {"decided", "recorded"}
  <2>1. /\ body \in Bodies /\ caller \in Callers \union {NoValue}
        /\ AgentFaithful /\ CallerBound
    BY <1>2, Zenon DEF RequestsInv
  <2>2. /\ cedarReq.principal = agentReq.principal /\ cedarReq.resource = agentReq.resource
        /\ cedarReq.action = ActionId(agentReq.action)
        /\ cedarReq.context = CedarContext(agentReq.context)
    BY <1>2 DEF RequestsInv
  <2>3. IdentityBound
    <3>1. SUFFICES ASSUME caller # NoValue PROVE IdentityBound
      BY Zenon DEF IdentityBound
    <3>2. "tenant_id" \notin DOMAIN agentReq.context.args
      BY <2>1, <3>1, Zenon DEF CallerBound
    <3>3. "tenant_id" \notin DOMAIN cedarReq.context
      BY <2>2, <3>2, Zenon DEF CedarContext
    <3>4. QED
      BY <2>1, <2>2, <3>1, <3>3, Zenon
      DEF IdentityBound, CallerBound, AgentFaithful, TenantAgrees
  <2>4. ASSUME progress = "recorded"
        PROVE  RecordFaithful /\ record # NoValue
    <3>1. record = FromDecision(agentReq, caller)
      BY <2>4, Zenon DEF RequestsInv
    <3>2. record # NoValue
      BY <2>1, <3>1, RecordMade, RequestsAssumption, Zenon
    <3>3. /\ record.principal = agentReq.principal.id /\ record.resource = agentReq.resource.id
          /\ record.action = <<agentReq.action.tool>> \o agentReq.action.operation
          /\ record.actor = caller /\ record.tenant = agentReq.tenant
      BY <3>1, Zenon DEF FromDecision
    <3>4. PICK tool \in STRING, operation \in Seq(STRING) :
            agentReq.action = [tool |-> tool, operation |-> operation]
      BY <2>1, Zenon DEF AgentFaithful
    <3>5. record.action = <<tool>> \o operation /\
          cedarReq.action = <<"ToolCall", tool>> \o operation
      BY <2>2, <3>3, <3>4 DEF ActionId
    <3>6. <<"ToolCall">> \o (<<tool>> \o operation) = <<"ToolCall", tool>> \o operation
      <4>1. DEFINE p == <<tool>> \o operation
      <4>2. p \in Seq(STRING) /\ p # <<>> /\ Head(p) = tool /\ Tail(p) = operation
        BY ShortSeq, Zenon
      <4>3. QED
        BY <4>2, HeadBeforeTail, Zenon
    <3>7. <<"ToolCall">> \o record.action = cedarReq.action
      BY <3>5, <3>6, Zenon
    <3>8. QED
      BY <2>1, <2>2, <3>2, <3>3, <3>7, Zenon DEF RecordFaithful, AgentFaithful
  <2>5. CASE progress = "recorded"
    BY <2>3, <2>4, <2>5, Zenon DEF RequestFaithful, ShownOnRecord
  <2>6. CASE progress # "recorded"
    BY <2>3, <2>6, Zenon DEF RequestsInv, RequestFaithful, RecordFaithful, ShownOnRecord
  <2>7. QED
    BY <2>5, <2>6, Zenon
<1>3. QED
  BY <1>1, <1>2, Zenon

\* DecisionRequests: whatever the bodies and the identities, what Cedar evaluates, what
\* is on record and what is answered are about the request that was made and the caller
\* who made it (evaluation_request_for_caller, to_cedar_request, from_decision).
THEOREM RequestsStayFaithful == RequestsSpec => []RequestFaithful
<1>1. RequestsInit => RequestsInv
  BY Zenon DEF RequestsInit, RequestsInv
<1>2. RequestsInv /\ [RequestsNext]_requestVars => RequestsInv'
  <2>1. ASSUME RequestsInv, UNCHANGED requestVars PROVE RequestsInv'
    BY <2>1, Zenon DEF requestVars, RequestsInv, AgentFaithful, CallerBound
  <2>2. QED
    BY <2>1, MapKeeps, ReadKeeps, LaterKeeps, Zenon DEF RequestsNext
<1>3. QED
  BY <1>1, <1>2, RequestsInvFaithful, PTL DEF RequestsSpec

-----------------------------------------------------------------------------
(* PolicyWatch                                                               *)

\* The kinds of an event, and what the callback keeps until it signals.
Kinds == {"Create", "Write", "Remove", "Other"}
Pending == [changed : BOOLEAN, paths : SUBSET {"schema", "policy", "nested policy"},
            kind : Kinds, errors : Seq(Seq(STRING)), lastError : Seq(STRING)]

\* PolicyWatch: what the variables hold, and the property itself.
WatchInv == pending \in Pending /\ kinds \subseteq Kinds /\ BatchExact

\* The error kept of a report is a text.
LEMMA TruncatedText ==
    ASSUME NEW e \in Errors
    PROVE  Truncated(e) \in Seq(STRING)
<1>1. e \in Seq(STRING) /\ ErrorLength \in Nat /\ Len(e) \in Nat
  BY WatchAssumption
<1>2. \E x \in {Len(e), ErrorLength} : \A y \in {Len(e), ErrorLength} : x <= y
  BY <1>1
<1>3. PICK x : x = Min({Len(e), ErrorLength})
  BY Zenon
<1>4. x \in {Len(e), ErrorLength} /\ x <= Len(e)
  BY <1>2, <1>3, Zenon DEF Min
<1>5. SubSeq(e, 1, x) \in Seq(STRING)
  BY <1>1, <1>4
<1>6. QED
  BY <1>3, <1>5, Zenon DEF Truncated

\* The kind of a batch is the dominant one of the kinds recorded, also with one more.
LEMMA DominantKind ==
    ASSUME NEW K \in SUBSET Kinds, NEW k \in Kinds
    PROVE  PromoteKind(CASE "Create" \in K -> "Create" [] "Write" \in K -> "Write"
                         [] "Remove" \in K -> "Remove" [] OTHER -> "Other", k)
             = (CASE "Create" \in K \union {k} -> "Create" [] "Write" \in K \union {k} -> "Write"
                  [] "Remove" \in K \union {k} -> "Remove" [] OTHER -> "Other")
BY DEF PromoteKind, Kinds

\* The callback of a change keeps the invariant.
LEMMA EventKeeps ==
    ASSUME WatchInv, NEW paths \in Events, NEW k, RecordEvent(paths, k)
    PROVE  WatchInv'
<1>1. pending \in Pending /\ kinds \subseteq Kinds /\ BatchExact
  BY Zenon DEF WatchInv
<1>2. CASE Relevant(paths) = {}
  BY <1>1, <1>2, Zenon DEF RecordEvent, WatchInv, BatchExact
<1>3. CASE Relevant(paths) # {}
  <2>1. PICK sample \in Sampled(pending.paths, Relevant(paths)) :
           pending' = [pending EXCEPT !.changed = TRUE, !.lastError = NoError,
                          !.kind = PromoteKind(@, KindOf(k)), !.paths = sample]
    BY <1>3, Zenon DEF RecordEvent
  <2>2. KindOf(k) \in Kinds
    BY Zenon DEF KindOf, Kinds
  <2>3. PromoteKind(pending.kind, KindOf(k)) \in Kinds
    BY Zenon DEF PromoteKind, Kinds
  <2>4. sample \in SUBSET {"schema", "policy", "nested policy"} /\ sample # {}
        /\ Cardinality(sample) <= PathCap
    BY <1>1, Zenon DEF Sampled, Relevant, Pending
  <2>5. NoError \in Seq(STRING)
    BY DEF NoError
  <2>6. pending' \in Pending
    BY <1>1, <2>1, <2>3, <2>4, <2>5, Zenon DEF Pending
  <2>7. /\ pending'.changed /\ pending'.paths = sample
        /\ pending'.kind = PromoteKind(pending.kind, KindOf(k))
    BY <1>1, <2>1, Zenon DEF Pending
  <2>8. kinds' = kinds \union {KindOf(k)}
    BY <1>3, Zenon DEF RecordEvent
  <2>9. pending'.kind = (CASE "Create" \in kinds' -> "Create" [] "Write" \in kinds' -> "Write"
                           [] "Remove" \in kinds' -> "Remove" [] OTHER -> "Other")
    BY <1>1, <2>2, <2>7, <2>8, DominantKind DEF BatchExact
  <2>10. BatchExact'
    BY <2>4, <2>7, <2>8, <2>9, Zenon DEF BatchExact
  <2>11. QED
    BY <1>1, <2>2, <2>6, <2>8, <2>10, Zenon DEF WatchInv
<1>4. QED
  BY <1>2, <1>3, Zenon

\* The callback of an error keeps the invariant.
LEMMA ErrorKeeps ==
    ASSUME WatchInv, NEW e \in Errors, RecordError(e)
    PROVE  WatchInv'
<1>1. pending \in Pending /\ kinds \subseteq Kinds /\ BatchExact
  BY Zenon DEF WatchInv
<1>2. Truncated(e) \in Seq(STRING)
  BY TruncatedText, Zenon
<1>3. /\ pending' = [pending EXCEPT !.lastError = Truncated(e),
                        !.errors = IF /\ pending.lastError # Truncated(e)
                                      /\ Len(pending.errors) < ErrorCap
                                   THEN Append(@, Truncated(e)) ELSE @]
      /\ kinds' = kinds
  BY Zenon DEF RecordError
<1>4. /\ pending' \in Pending
      /\ pending'.changed = pending.changed
      /\ pending'.kind = pending.kind /\ pending'.paths = pending.paths
  <2>1. pending.errors \in Seq(Seq(STRING))
    BY <1>1, Zenon DEF Pending
  <2>2. PICK q \in Seq(Seq(STRING)) :
           pending' = [pending EXCEPT !.lastError = Truncated(e), !.errors = q]
    <3>1. Append(pending.errors, Truncated(e)) \in Seq(Seq(STRING))
      BY <1>2, <2>1
    <3>2. QED
      BY <1>3, <2>1, <3>1, Zenon
  <2>3. QED
    BY <1>1, <1>2, <1>3, <2>2, Zenon DEF Pending
<1>6. BatchExact'
  BY <1>1, <1>3, <1>4, Zenon DEF BatchExact
<1>7. QED
  BY <1>1, <1>3, <1>4, <1>6, Zenon DEF WatchInv

\* A round of the task keeps the invariant.
LEMMA PollKeeps ==
    ASSUME WatchInv, Poll
    PROVE  WatchInv'
<1>1. pending \in Pending /\ kinds \subseteq Kinds /\ BatchExact
  BY Zenon DEF WatchInv
<1>3. <<>> \in Seq(Seq(STRING))
  OBVIOUS
<1>4. CASE sinceEmit = Debounce /\ pending.changed
  <2>1. pending' = [[pending EXCEPT !.changed = FALSE, !.paths = {}, !.kind = "Other"]
                       EXCEPT !.errors = <<>>]
        /\ kinds' = {}
    BY <1>4, Zenon DEF Poll, Taken, Drained
  <2>2. pending' \in Pending /\ pending'.changed = FALSE /\ pending'.paths = {} /\ pending'.kind = "Other"
    BY <1>1, <1>3, <2>1, Zenon DEF Pending, Kinds
  <2>3. Cardinality({}) <= PathCap
    BY WatchAssumption, FS_EmptySet
  <2>4. BatchExact'
    BY <2>1, <2>2, <2>3, Zenon DEF BatchExact
  <2>5. QED
    BY <1>1, <2>1, <2>2, <2>4, Zenon DEF WatchInv
<1>5. CASE ~(sinceEmit = Debounce /\ pending.changed)
  <2>1. pending' = [pending EXCEPT !.errors = <<>>] /\ kinds' = kinds
    BY <1>5, Zenon DEF Poll, Taken
  <2>2. pending' \in Pending /\ pending'.changed = pending.changed /\ pending'.paths = pending.paths
        /\ pending'.kind = pending.kind
    BY <1>1, <1>3, <2>1, Zenon DEF Pending
  <2>3. BatchExact'
    BY <1>1, <2>1, <2>2, Zenon DEF BatchExact
  <2>4. QED
    BY <1>1, <2>1, <2>2, <2>3, Zenon DEF WatchInv
<1>6. QED
  BY <1>4, <1>5, Zenon

\* What the callback of the notify thread leaves for the reload task is right
\* (record_event, events, take_errors): for every event and error it may report, every
\* cap and every interleaving with the task's rounds, a batch is of exactly the changes
\* since the one before.
THEOREM BatchesExact == WatchSpec => []BatchExact
<1>1. WatchInit => WatchInv
  <2> SUFFICES ASSUME WatchInit PROVE WatchInv
    BY Zenon
  <2>1. pending \in Pending /\ pending.changed = FALSE
        /\ pending.paths = {} /\ pending.kind = "Other"
    BY DEF WatchInit, Pending, Kinds, NoError
  <2>2. Cardinality({}) <= PathCap
    BY WatchAssumption, FS_EmptySet
  <2>3. BatchExact
    BY <2>1, <2>2, Zenon DEF WatchInit, BatchExact
  <2>4. QED
    BY <2>1, <2>3, Zenon DEF WatchInit, WatchInv
<1>2. WatchInv /\ [WatchNext]_watchVars => WatchInv'
  <2> SUFFICES ASSUME WatchInv, [WatchNext]_watchVars PROVE WatchInv'
    BY Zenon
  <2>1. CASE Elapse
    BY <2>1, Zenon DEF Elapse, WatchInv, BatchExact
  <2>2. CASE UNCHANGED watchVars
    BY <2>2, Zenon DEF watchVars, WatchInv, BatchExact
  <2>3. QED
    BY <2>1, <2>2, EventKeeps, ErrorKeeps, PollKeeps, Zenon DEF WatchNext
<1>3. WatchInv => BatchExact
  BY Zenon DEF WatchInv
<1>4. QED
  BY <1>1, <1>2, <1>3, PTL DEF WatchSpec
=============================================================================
