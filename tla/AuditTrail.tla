----------------------------- MODULE AuditTrail -----------------------------
(***************************************************************************)
(* What a decision log promises its callers, whatever its files look like: *)
(* one trail of records that only grows.  An append that returns Ok has    *)
(* its record in the trail.  An append that fails, or whose process stops, *)
(* leaves its record in the trail or not; no record is there twice.        *)
(***************************************************************************)
EXTENDS Integers, Sequences

CONSTANT Records

VARIABLES trail, acked

TrailInit == trail = <<>> /\ acked = {}

\* r is added at the end of the trail.
Extend(r) ==
    /\ \A i \in DOMAIN trail : trail[i] # r
    /\ trail' = Append(trail, r)

\* append(r) returns Ok.
Acknowledge(r) == Extend(r) /\ acked' = acked \cup {r}

\* append(r) fails although its record was written.
Linger(r) == Extend(r) /\ UNCHANGED acked

TrailNext == \E r \in Records : Acknowledge(r) \/ Linger(r)

TrailSpec == TrailInit /\ [][TrailNext]_<<trail, acked>>
=============================================================================
