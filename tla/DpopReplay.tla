----------------------------- MODULE DpopReplay -----------------------------
(***************************************************************************)
(* DPoP proofs and the tracker of their identifiers                        *)
(* (agentguard-auth/src/dpop.rs, jti.rs).  A proof that passes every check *)
(* has its jti recorded; a jti recorded less than a TTL ago is a replay.   *)
(*                                                                         *)
(* check_and_record reads the clock before it takes the lock, so the time  *)
(* a thread works with is up to MaxPause old when it is used, and threads  *)
(* may use their times in another order than they read them.               *)
(***************************************************************************)
EXTENDS Integers, FiniteSets

CONSTANTS
    Verifiers,
    Jtis,           \* replay keys of the proofs
    Defects,        \* the ways a proof fails verify_proof
    Ttl,            \* how long an identifier is remembered
    SweepInterval,  \* ttl / SWEEP_DIVISOR
    MaxEntries,     \* max_entries
    MaxPause,       \* bound on the time between reading the clock and the lock
    MaxReplayTime,  \* bound on the clock
    None

ASSUME DpopAssumption ==
    /\ Ttl \in Nat \ {0} /\ SweepInterval \in Nat \ {0} /\ MaxEntries \in Nat \ {0}
    /\ MaxPause \in Nat /\ MaxReplayTime \in Nat
    /\ None \notin Defects /\ None \notin Jtis

VARIABLES
    time,
    pc, jti, now,   \* of each thread: its step, the jti it checks, its time
    seen,           \* JtiState.seen: when each jti was recorded, -1 if not
    lastSweep,      \* JtiState.last_sweep
    acceptedAt,     \* when each jti was last accepted, -1 before
    verdict         \* the last answer of check_and_record, and how old at that
                    \* time the last acceptance and the records were

dpopVars == <<time, pc, jti, now, seen, lastSweep, acceptedAt, verdict>>

Never == -1
NoVerdict == [result |-> "none", gap |-> Never, ages |-> {}]

DpopInit ==
    /\ time = 0 /\ lastSweep = 0
    /\ pc = [t \in Verifiers |-> "idle"] /\ jti = [t \in Verifiers |-> None]
    /\ now = [t \in Verifiers |-> 0]
    /\ seen = [j \in Jtis |-> Never] /\ acceptedAt = [j \in Jtis |-> Never]
    /\ verdict = NoVerdict

\* The checks of verify_proof, in its order.  The first that a proof fails is its
\* defect; the proof of no defect is signed by the key the access token is bound
\* to, for this method, URI and token.
ParseProof(d) == d \notin {"segments", "header", "claims", "encoding"}
CheckHeader(d) == d \notin {"typ", "alg", "no jwk"}
ParseJwk(d) == d \notin {"kty", "crv", "x"}
ThumbprintMatches(d) == d # "thumbprint"
VerifySignature(d) == d \notin {"key", "signature"}
CheckHtmHtuAth(d) == d \notin {"htm", "htu", "ath"}
ReplayKeyed(d) == d # "no jti"

VerifyProof(d) ==
    /\ ParseProof(d) /\ CheckHeader(d) /\ ParseJwk(d) /\ ThumbprintMatches(d)
    /\ VerifySignature(d) /\ CheckHtmHtuAth(d) /\ ReplayKeyed(d)

\* verify or verify_async of a proof, up to the read of the clock; a defect
\* ends the call.
Verify(t, j, defect) ==
    /\ pc[t] = "idle" /\ VerifyProof(defect)
    /\ pc' = [pc EXCEPT ![t] = "lock"]
    /\ jti' = [jti EXCEPT ![t] = j]
    /\ now' = [now EXCEPT ![t] = time]
    /\ UNCHANGED <<time, seen, lastSweep, acceptedAt, verdict>>

\* Instant::duration_since, which is zero for a later instant.
Since(later, earlier) == IF later < earlier THEN 0 ELSE later - earlier

\* Mutant: a record expires with the sweep interval.
StaleEarly(t, j) == seen[j] # Never /\ Since(now[t], seen[j]) >= SweepInterval

Stale(t, j) == seen[j] # Never /\ Since(now[t], seen[j]) >= Ttl

Replay(t) == seen[jti[t]] # Never /\ ~Stale(t, jti[t])

SweepDue(t) == Since(now[t], lastSweep) >= SweepInterval

\* The records without the thread's jti, and without the expired ones when a
\* sweep is due.
Unexpired(t) ==
    [j \in Jtis |-> IF j = jti[t] \/ (SweepDue(t) /\ Stale(t, j)) THEN Never ELSE seen[j]]

Recorded(s) == {j \in Jtis : s[j] # Never}

\* Ages of the last acceptance of the jti and of the records s.
Verdict(t, result, s) ==
    [result |-> result,
     gap |-> IF acceptedAt[jti[t]] = Never THEN Never ELSE time - acceptedAt[jti[t]],
     ages |-> {time - s[j] : j \in Recorded(s)}]

Return(t) ==
    /\ pc' = [pc EXCEPT ![t] = "idle"] /\ jti' = [jti EXCEPT ![t] = None]
    /\ now' = [now EXCEPT ![t] = 0]

\* DpopReplay.
RefuseReplay(t) ==
    /\ pc[t] = "lock" /\ Replay(t)
    /\ verdict' = Verdict(t, "replay", seen)
    /\ Return(t)
    /\ UNCHANGED <<time, seen, lastSweep, acceptedAt>>

Full(t) == Cardinality(Recorded(Unexpired(t))) >= MaxEntries

Swept(t) == lastSweep' = IF SweepDue(t) THEN now[t] ELSE lastSweep

\* DpopCapacityExceeded, after the sweep.
Exhausted(t) ==
    /\ pc[t] = "lock" /\ ~Replay(t) /\ Full(t)
    /\ seen' = Unexpired(t) /\ Swept(t)
    /\ verdict' = Verdict(t, "full", Unexpired(t))
    /\ Return(t)
    /\ UNCHANGED <<time, acceptedAt>>

\* The jti is recorded.
Accept(t) ==
    /\ pc[t] = "lock" /\ ~Replay(t) /\ ~Full(t)
    /\ seen' = [Unexpired(t) EXCEPT ![jti[t]] = now[t]] /\ Swept(t)
    /\ acceptedAt' = [acceptedAt EXCEPT ![jti[t]] = time]
    /\ verdict' = Verdict(t, "ok", Unexpired(t))
    /\ Return(t)
    /\ UNCHANGED time

Pass ==
    /\ time < MaxReplayTime
    /\ \A t \in Verifiers : pc[t] = "lock" => time < now[t] + MaxPause
    /\ time' = time + 1
    /\ UNCHANGED <<pc, jti, now, seen, lastSweep, acceptedAt, verdict>>

DpopNext ==
    \/ \E t \in Verifiers :
        \/ \E j \in Jtis, d \in Defects \cup {None} : Verify(t, j, d)
        \/ RefuseReplay(t) \/ Exhausted(t) \/ Accept(t)
    \/ Pass

DpopSpec == DpopInit /\ [][DpopNext]_dpopVars

-----------------------------------------------------------------------------
DpopTypeOK ==
    /\ time \in Nat /\ lastSweep \in Nat
    /\ pc \in [Verifiers -> {"idle", "lock"}] /\ jti \in [Verifiers -> Jtis \cup {None}]
    /\ now \in [Verifiers -> Nat]
    /\ seen \in [Jtis -> Nat \cup {Never}] /\ acceptedAt \in [Jtis -> Nat \cup {Never}]

\* The same proof is accepted again no sooner than a TTL after it was, less the
\* pause between a thread's clock read and its lock (jti.rs:64), although every
\* thread sweeps and records with a time of its own.
NoEarlyReplay ==
    verdict.result = "ok" => verdict.gap = Never \/ verdict.gap >= Ttl - MaxPause

\* A proof is refused as a replay only when one with its jti was accepted, less
\* than a TTL and a pause ago: a defective proof uses up no jti, and a refused
\* one does not prolong its record (jti.rs:67).
NoFalseReplay ==
    verdict.result = "replay" => verdict.gap # Never /\ verdict.gap < Ttl + MaxPause

\* A proof is refused for capacity only when no record is much older than the
\* TTL: "Expired entries are periodically reaped" (jti.rs:3), and the records
\* never exceed the limit.
NoFalseExhaustion ==
    /\ Cardinality(Recorded(seen)) <= MaxEntries
    /\ verdict.result = "full" =>
            \A age \in verdict.ages : age < Ttl + SweepInterval + 2 * MaxPause

\* Every answer of check_and_record is the right one, whatever the threads do
\* between reading the clock and taking the lock.
ReplayVerdicts == DpopTypeOK /\ NoEarlyReplay /\ NoFalseReplay /\ NoFalseExhaustion
=============================================================================
