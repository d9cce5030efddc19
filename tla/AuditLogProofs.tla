--------------------------- MODULE AuditLogProofs ---------------------------
(***************************************************************************)
(* Proofs about AuditLog, for every set of threads and records and every   *)
(* threshold.  First the line a head is loaded from, and the types after a *)
(* step.  Then DurableInv: under WholeLines alone, whatever rotates and    *)
(* however the clock moves, what append acknowledged stays on disk.  Then  *)
(* ChainInv, under SafeUse: every action preserves what is in the files,   *)
(* what the handle knows of them, and where each call is; the other safety *)
(* properties of the log follow from it.                                   *)
(***************************************************************************)
EXTENDS AuditLog, TLAPS, WellFoundedInduction

-----------------------------------------------------------------------------
(* Lines, types and chains. *)

\* The fields of a line have their types (ChainedRecord).
LEMMA LineFields ==
    ASSUME NEW f \in Seq(Line), NEW i \in DOMAIN f
    PROVE  /\ i \in Nat /\ 1 <= i /\ i <= Len(f) /\ Len(f) \in Nat
           /\ f[i] \in Line /\ f[i].seg \in Nat /\ f[i].cid \in Nat
           /\ f[i].rec \in Records /\ f[i].hash \in Seq(Records)
  <1>1. f[i] \in Line
    OBVIOUS
  <1>2. /\ f[i].seg \in Nat /\ f[i].cid \in Nat
        /\ f[i].rec \in Records /\ f[i].hash \in Seq(Records)
    BY <1>1, Zenon DEF Line
  <1>3. i \in Nat /\ 1 <= i /\ i <= Len(f) /\ Len(f) \in Nat
    OBVIOUS
  <1> QED
    BY <1>1, <1>2, <1>3, Zenon

\* The fields of a rotated segment have their types.
LEMMA SegFields ==
    ASSUME NEW f \in Seq(Segment), NEW s \in 1..Len(f)
    PROVE  /\ s \in DOMAIN f /\ s \in Nat /\ 1 <= s /\ s <= Len(f)
           /\ Len(f) \in Nat /\ f[s] \in Segment
           /\ f[s].ts \in Nat /\ f[s].cid \in Nat
  <1>1. f[s] \in Segment
    OBVIOUS
  <1> QED
    BY <1>1 DEF Segment

\* A step outside the write of a line leaves the settled lines as they are.
LEMMA StoredSame ==
    ASSUME TypeOK, NEW t \in Threads, NEW x, pc[t] # "write", x # "write",
           pc' = [pc EXCEPT ![t] = x], lines' = lines, orig' = orig
    PROVE  Stored' = Stored /\ InFlight' = InFlight
  <1>1. InFlight' = InFlight
    BY Zenon DEF InFlight, TypeOK
  <1> QED
    BY <1>1, Zenon DEF Stored

\* Only the holder of the file lock writes.
LEMMA OneWriter ==
    ASSUME TypeOK, NEW t \in Threads, pc[t] = "write"
    PROVE  Stored = orig /\ \A u \in Threads \ {t} : pc[u] # "write"
  BY Zenon DEF TypeOK, Stored, InFlight

\* A line that follows a whole one, or begins a segment, is joined to none.
LEMMA PutAppends ==
    ASSUME NEW f \in Seq(Line), NEW L \in Line, NEW k \in Landings,
           \A i \in DOMAIN f : f[i].seg = Active => f[i].form = "whole"
    PROVE  /\ k = "none" => Put(f, L, k) = f
           /\ k # "none" => Put(f, L, k) = Append(f, [L EXCEPT !.form = k])
           /\ k # "none" => [L EXCEPT !.form = k] \in Line
  <1>1. k # "none" => [L EXCEPT !.form = k] \in Line
    BY AuditLogAssumption, Zenon DEF Line, Landings, Forms
  <1>2. f # <<>> => Len(f) \in DOMAIN f
    OBVIOUS
  <1>3. f # <<>> /\ f[Len(f)].seg = Active => Terminated(f[Len(f)])
    BY <1>2, Zenon DEF Terminated
  <1> QED
    BY <1>1, <1>3, Zenon DEF Put

\* The line that append writes is a well-formed line.
LEMMA NewLineType ==
    ASSUME TypeOK, NEW t \in Threads, rec[t] # NoRecord
    PROVE  NewLine(t) \in Line
  BY DEF TypeOK, NewLine, Line, Forms, compute, Active

-----------------------------------------------------------------------------
(* Which line a head is loaded from. *)

\* A non-empty set of naturals has a least element.
LEMMA Least ==
    ASSUME NEW T, T \subseteq Nat, T # {}
    PROVE \E x \in T : \A y \in T : x <= y
  <1> DEFINE R == {ss \in Nat \X Nat : ss[1] < ss[2]}
  <1>1. R = OpToRel(<, Nat)
    BY DEF OpToRel
  <1>2. IsWellFoundedOn(R, Nat)
    BY <1>1, NatLessThanWellFounded, Zenon
  <1> HIDE DEF R
  <1>3. \E x \in T : \A y \in T : ~ (<<y, x>> \in R)
    BY <1>2, WFMin, Zenon
  <1>4. \A x, y \in Nat : <<y, x>> \notin R => x <= y
    BY DEF R
  <1> QED BY <1>3, <1>4, Zenon

\* The last line of a segment that holds one.
LEMMA LastOfExists ==
    ASSUME lines \in Seq(Line), NEW s, SegLines(lines, s) # {}
    PROVE  LastOf(s) \in DOMAIN lines
  <1> DEFINE T == {Len(lines) - i : i \in SegLines(lines, s)}
  <1>1. T \subseteq Nat /\ T # {}
    BY DEF SegLines
  <1>2. PICK x \in T : \A y \in T : x <= y
    BY <1>1, Least, Zenon
  <1>3. PICK i \in SegLines(lines, s) : x = Len(lines) - i
    OBVIOUS
  <1>4. \A j \in SegLines(lines, s) : j <= i
    <2> SUFFICES ASSUME NEW j \in SegLines(lines, s) PROVE j <= i
      OBVIOUS
    <2>1. Len(lines) - i <= Len(lines) - j
      BY <1>2, <1>3
    <2> QED
      BY <2>1 DEF SegLines
  <1>5. LastOf(s) \in SegLines(lines, s)
    BY <1>3, <1>4, Zenon DEF LastOf
  <1> QED
    BY <1>5 DEF SegLines

\* Among finitely many rotated segments one is the newest.
LEMMA LatestExists ==
    ASSUME segs \in Seq(Segment), segs # <<>>
    PROVE  LatestRotated \in 1..Len(segs)
  <1> DEFINE N == Len(segs)
             Newest(n, s) == \A u \in 1..n \ {s} : SegBefore(u, s)
             T == {n \in 1..N : \A s \in 1..n : ~Newest(n, s)}
  <1>1. N \in Nat /\ N \in 1..N /\ \A s \in 1..N : segs[s].ts \in Nat
    <2>1. \A s \in 1..N : segs[s] \in Segment
      OBVIOUS
    <2> QED
      BY <2>1 DEF Segment
  <1>2. ASSUME T # {} PROVE FALSE
    <2>1. T \subseteq Nat
      BY <1>1
    <2>2. PICK n \in T : \A y \in T : n <= y
      BY <1>2, <2>1, Least, Zenon
    <2>3. n \in 1..N /\ \A s \in 1..n : ~Newest(n, s)
      OBVIOUS
    <2>4. \A m \in 1..N : m \notin T => \E s \in 1..m : Newest(m, s)
      BY Zenon
    <2> HIDE DEF N, T, Newest
    <2>5. n # 1
      <3> SUFFICES ASSUME n = 1 PROVE FALSE
        OBVIOUS
      <3>1. 1 \in 1..n /\ 1..n \ {1} = {}
        OBVIOUS
      <3> QED
        BY <2>3, <3>1 DEF Newest
    <2>6. /\ n \in Nat /\ n \in 1..n /\ n - 1 \in 1..N /\ n <= N
          /\ \A s \in 1..(n - 1) : s \in Nat /\ s < n /\ s \in 1..n /\ s \in 1..N
          /\ \A s \in 1..n \ {n} : s \in 1..(n - 1)
      BY <1>1, <2>3, <2>5
    <2>7. n - 1 \notin T
      BY <2>2, <2>6
    <2>8. PICK s \in 1..(n - 1) : Newest(n - 1, s)
      BY <2>4, <2>6, <2>7, Zenon
    <2>9. Active = N + 1
      BY DEF Active, N
    <2>10. \A u \in 1..N : u < Active /\ u # Active
      BY <1>1, <2>9
    <2>11. segs[s].ts \in Nat /\ segs[n].ts \in Nat /\ s < Active /\ n < Active
           /\ s # Active /\ n # Active /\ s \in Nat /\ s < n
      BY <1>1, <2>3, <2>6, <2>10, Zenon
    <2>12. CASE segs[n].ts < segs[s].ts
      <3>1. SegBefore(n, s)
        BY <2>11, <2>12, Zenon DEF SegBefore
      <3>2. ASSUME NEW u \in 1..n \ {s} PROVE SegBefore(u, s)
        BY <2>6, <2>8, <3>1, Zenon DEF Newest
      <3> QED
        BY <2>3, <2>6, <3>2, Zenon DEF Newest
    <2>13. CASE segs[s].ts <= segs[n].ts
      <3>1. ASSUME NEW u \in 1..n \ {n} PROVE SegBefore(u, n)
        <4>1. u \in 1..(n - 1)
          BY <2>6, Zenon
        <4>2. u = s \/ SegBefore(u, s)
          BY <2>8, <4>1, Zenon DEF Newest
        <4>3. u \in Nat /\ u < n /\ u < Active /\ u # Active /\ segs[u].ts \in Nat
          BY <1>1, <2>6, <2>10, <4>1, Zenon
        <4>4. segs[u].ts <= segs[s].ts
          BY <2>11, <4>2, <4>3 DEF SegBefore
        <4> QED
          BY <2>6, <2>11, <2>13, <4>3, <4>4 DEF SegBefore
      <3> QED
        BY <2>3, <2>6, <3>1, Zenon DEF Newest
    <2> QED
      BY <2>11, <2>12, <2>13
  <1>3. \E s \in 1..N : Newest(N, s)
    BY <1>1, <1>2, Zenon
  <1> QED
    BY <1>3, Zenon DEF LatestRotated

\* The last line of the newest segment that has one is the last line written.
LEMMA LastOfNewest ==
    ASSUME lines \in Seq(Line), segs \in Seq(Segment),
           Ordered(lines), NEW s \in Nat, SegLines(lines, s) # {},
           \A i \in DOMAIN lines : lines[i].seg <= s
    PROVE  /\ lines # <<>>
           /\ LastOf(s) = Len(lines)
           /\ lines[Len(lines)] \in Line
  <1>1. PICK i \in DOMAIN lines : lines[i].seg = s
    BY Zenon DEF SegLines
  <1>2. Len(lines) \in DOMAIN lines /\ i <= Len(lines)
    BY <1>1
  <1>3. lines[Len(lines)].seg = s
    BY <1>1, <1>2, LineFields DEF Ordered
  <1>4. Len(lines) \in SegLines(lines, s)
    BY <1>2, <1>3, Zenon DEF SegLines
  <1>5. \A j \in SegLines(lines, s) : j <= Len(lines)
    BY DEF SegLines
  <1>6. \A k \in SegLines(lines, s) :
            (\A j \in SegLines(lines, s) : j <= k) => k = Len(lines)
    BY <1>4, <1>5 DEF SegLines
  <1>7. LastOf(s) = Len(lines)
    BY <1>4, <1>5, <1>6, Zenon DEF LastOf
  <1> QED
    BY <1>1, <1>2, <1>7

\* With timestamps in order the newest name is the last rotation's.
LEMMA LatestIsLast ==
    ASSUME segs \in Seq(Segment), segs # <<>>,
           \A s, u \in 1..Len(segs) : s <= u => segs[s].ts <= segs[u].ts
    PROVE  LatestRotated = Len(segs)
  <1> DEFINE N == Len(segs)
  <1>1. N \in 1..N /\ N \in Nat
    OBVIOUS
  <1>2. \A s \in 1..N : segs[s].ts \in Nat
    BY SegFields, Zenon
  <1>3. \A u \in 1..N \ {N} : SegBefore(u, N)
    BY <1>1, <1>2 DEF SegBefore, Active
  <1>4. \A s \in 1..N : (\A u \in 1..N \ {s} : SegBefore(u, s)) => s = N
    <2> SUFFICES ASSUME NEW s \in 1..N, s # N, SegBefore(N, s) PROVE FALSE
      BY <1>1, Zenon
    <2> QED
      BY <1>1, <1>2 DEF SegBefore, Active
  <1> QED
    BY <1>1, <1>3, <1>4, Zenon DEF LatestRotated

\* The head that open resumes from is that of the last line on disk.
LEMMA HeadSegLast ==
    ASSUME TypeOK, FilesInv, ~InFlight
    PROVE  /\ HeadSeg \in 1..Active
           /\ HeadSeg # Active => segs[HeadSeg] \in Segment
           /\ lines = <<>> => SegLines(lines, HeadSeg) = {}
           /\ lines # <<>> => /\ SegLines(lines, HeadSeg) # {}
                              /\ LastOf(HeadSeg) = Len(lines)
                              /\ lines[Len(lines)] \in Line
  <1> USE DEF TypeOK
  <1>0. Stored = lines /\ Ordered(lines) /\ Active \in Nat
    BY DEF Stored, FilesInv, Active
  <1>1. CASE SegLines(lines, Active) = {} /\ segs # <<>>
    <2>1. HeadSeg = Len(segs)
      BY <1>1, LatestIsLast, Zenon DEF HeadSeg, FilesInv
    <2>2. Len(segs) \in 1..Len(segs) /\ Len(segs) \in Nat
      BY <1>1
    <2>3. SegLines(lines, Len(segs)) # {}
      BY <1>0, <2>2, Zenon DEF FilesInv
    <2>4. \A i \in DOMAIN lines : lines[i].seg <= Len(segs)
      <3> SUFFICES ASSUME NEW i \in DOMAIN lines PROVE lines[i].seg <= Len(segs)
        BY Zenon
      <3>1. lines[i].seg \in Nat /\ lines[i].seg <= Active /\ i <= i
        BY <1>0, LineFields DEF Ordered
      <3>2. lines[i].seg # Active
        BY <1>1, Zenon DEF SegLines
      <3> QED
        BY <3>1, <3>2 DEF Active
    <2>5. lines # <<>>
      BY <2>3 DEF SegLines
    <2>6. LastOf(Len(segs)) = Len(lines) /\ lines[Len(lines)] \in Line
      BY <1>0, <2>2, <2>3, <2>4, LastOfNewest, Zenon
    <2> QED
      BY <2>1, <2>2, <2>3, <2>5, <2>6, SegFields DEF Active
  <1>2. CASE SegLines(lines, Active) # {}
    <2>1. HeadSeg = Active
      BY <1>2, Zenon DEF HeadSeg
    <2>2. \A i \in DOMAIN lines : lines[i].seg <= Active
      BY <1>0 DEF Ordered
    <2>3. lines # <<>>
      BY <1>2 DEF SegLines
    <2>4. LastOf(Active) = Len(lines) /\ lines[Len(lines)] \in Line
      BY <1>0, <1>2, <2>2, LastOfNewest, Zenon
    <2> QED
      BY <1>0, <1>2, <2>1, <2>3, <2>4 DEF Active
  <1>3. CASE SegLines(lines, Active) = {} /\ segs = <<>>
    <2>1. HeadSeg = Active /\ Active = 1
      BY <1>3 DEF HeadSeg, Active
    <2>2. lines = <<>>
      <3> SUFFICES ASSUME lines # <<>> PROVE FALSE
        BY Zenon
      <3>1. 1 \in DOMAIN lines /\ lines[1] \in Line
        OBVIOUS
      <3>2. lines[1].seg = 1
        BY <1>0, <2>1, <3>1, LineFields DEF Ordered
      <3> QED
        BY <1>3, <2>1, <3>1, <3>2, Zenon DEF SegLines
    <2> QED
      BY <1>3, <2>1, <2>2
  <1> QED
    BY <1>1, <1>2, <1>3, Zenon

\* The head that a rotation reloads is that of the last line on disk.
LEMMA ReopenFacts ==
    ASSUME ChainInv, NEW t \in Threads, pc[t] = "reopen"
    PROVE  /\ Stored = lines /\ ~InFlight
           /\ Len(segs) \in 1..Len(segs)
           /\ SegLines(lines, Len(segs)) # {}
           /\ lines # <<>> /\ LastOf(Len(segs)) = Len(lines)
           /\ lines[Len(lines)] \in Line
  <1> USE DEF ChainInv, TypeOK
  <1>1. Stored = lines /\ ~InFlight
    BY Zenon DEF Stored, InFlight
  <1>2. segs # <<>> /\ SegLines(lines, Active) = {}
    BY <1>1, Zenon DEF CallInv
  <1>3. Len(segs) \in 1..Len(segs) /\ Len(segs) \in Nat
    BY <1>2
  <1>4. SegLines(lines, Len(segs)) # {}
    BY <1>1, <1>3, Zenon DEF FilesInv
  <1>5. \A i \in DOMAIN lines : lines[i].seg <= Len(segs)
    <2> SUFFICES ASSUME NEW i \in DOMAIN lines PROVE lines[i].seg <= Len(segs)
      BY Zenon
    <2>1. lines[i].seg \in Nat /\ lines[i].seg <= Active /\ i <= i
      BY <1>1, LineFields DEF FilesInv, Ordered
    <2>2. lines[i].seg # Active
      BY <1>2, Zenon DEF SegLines
    <2> QED
      BY <1>3, <2>1, <2>2 DEF Active
  <1>6. Ordered(lines)
    BY <1>1, Zenon DEF FilesInv
  <1> QED
    BY <1>1, <1>3, <1>4, <1>5, <1>6, LastOfNewest, Zenon

-----------------------------------------------------------------------------
(* Type correctness of each step. *)

\* A head and an id loaded from any segment have their types.
LEMMA LoadTypes ==
    ASSUME TypeOK, NEW s, NEW h \in Seq(Records), NEW c \in Nat
    PROVE  LoadedHead(s, h) \in Seq(Records) /\ LoadedId(s, c) \in Nat
  <1>1. CASE SegLines(lines, s) = {}
    BY <1>1, Zenon DEF LoadedHead, LoadedId
  <1>2. CASE SegLines(lines, s) # {}
    <2>1. LastOf(s) \in DOMAIN lines /\ lines \in Seq(Line)
      BY <1>2, LastOfExists, Zenon DEF TypeOK
    <2>2. lines[LastOf(s)].hash \in Seq(Records) /\ lines[LastOf(s)].cid \in Nat
      BY <2>1, LineFields, Zenon
    <2> QED
      BY <1>2, <2>2, Zenon DEF LoadedHead, LoadedId
  <1> QED
    BY <1>1, <1>2, Zenon

\* What reaches the file is a sequence of lines, joined or not.
LEMMA PutType ==
    ASSUME NEW f \in Seq(Line), NEW L \in Line, NEW k \in Landings
    PROVE  Put(f, L, k) \in Seq(Line)
  <1>1. \A x \in Forms : [L EXCEPT !.form = x] \in Line
    BY Zenon DEF Line
  <1>2. k = "none" \/ k \in Forms
    BY AuditLogAssumption, Zenon DEF Landings, Forms
  <1>3. "junk" \in Forms /\ "torn" \in Forms
    BY DEF Forms
  <1> DEFINE joins == f # <<>> /\ f[Len(f)].seg = Active /\ ~Terminated(f[Len(f)])
             base  == IF joins THEN SubSeq(f, 1, Len(f) - 1) ELSE f
             form  == IF ~joins THEN k ELSE IF k = "whole" THEN "junk" ELSE "torn"
  <1>4. base \in Seq(Line)
    <2>1. f # <<>> => SubSeq(f, 1, Len(f) - 1) \in Seq(Line)
      OBVIOUS
    <2> QED
      BY <2>1, Zenon
  <1>5. k # "none" => form \in Forms
    BY <1>2, <1>3, Zenon
  <1>6. Put(f, L, k) = IF k = "none" THEN f ELSE Append(base, [L EXCEPT !.form = form])
    BY Zenon DEF Put
  <1> HIDE DEF joins, base, form
  <1>7. k # "none" => [L EXCEPT !.form = form] \in Line
    BY <1>1, <1>5, Zenon
  <1>8. ASSUME NEW M \in Line PROVE Append(base, M) \in Seq(Line)
    BY <1>4
  <1> QED
    BY <1>6, <1>7, <1>8, Zenon

\* append writes a line while no other thread writes.
LEMMA TypeOfWrite ==
    ASSUME TypeOK, NEW t \in Threads, WriteLine(t)
    PROVE  /\ Stored = lines /\ ~InFlight
           /\ rec[t] # NoRecord /\ NewLine(t) \in Line
           /\ lines' \in Seq(Line)
  <1>1. Stored = lines /\ ~InFlight
    BY AuditLogAssumption, Zenon DEF TypeOK, WriteLine, Stored, InFlight
  <1>2. rec[t] # NoRecord /\ NewLine(t) \in Line
    BY NewLineType, Zenon DEF TypeOK, WriteLine
  <1>3. lines \in Seq(Line) /\ landed' \in Landings
        /\ lines' = Put(lines, NewLine(t), landed')
    BY Zenon DEF TypeOK, WriteLine
  <1> QED
    BY <1>1, <1>2, <1>3, PutType, Zenon

\* Every step of a call keeps the types and the locks in order.
LEMMA TypeStep ==
    ASSUME TypeOK, NEW t \in Threads, Step(t)
    PROVE  TypeOK'
  <1> USE AuditLogAssumption DEF TypeOK, Locations, Return, Goto,
          disk, handle, calls
  <1>1. CASE NoRotation(t)
    BY <1>1, Zenon DEF NoRotation
  <1>2. CASE StartRotation(t)
    BY <1>2 DEF StartRotation, Timestamps
  <1>3. CASE CloseForRotation(t)
    <2>1. CASE Return(t) /\ UNCHANGED copied
      BY <1>3, <2>1, Zenon DEF CloseForRotation
    <2>2. CASE /\ fileLock' = t /\ copied' = sidecar
               /\ Goto(t, "rename") /\ UNCHANGED <<rec, rotLock>>
      BY <1>3, <2>2, Zenon DEF CloseForRotation
    <2> QED
      BY <1>3, <2>1, <2>2, Zenon DEF CloseForRotation
  <1>4. CASE Rename(t)
    <2>1. segs' \in Seq(Segment)
      <3>1. [ts |-> rotTs, cid |-> copied] \in Segment
        BY Zenon DEF Segment
      <3>2. segs' = segs \/ segs' = Append(segs, [ts |-> rotTs, cid |-> copied])
        BY <1>4, Zenon DEF Rename
      <3>3. segs \in Seq(Segment)
        BY Zenon
      <3> HIDE DEF TypeOK
      <3> QED
        BY <3>1, <3>2, <3>3
    <2>4. copied' \in Nat
      BY <1>4 DEF Rename, NoId
    <2>2. CASE Return(t) /\ UNCHANGED <<segs, present>>
      BY <1>4, <2>1, <2>2, <2>4, Zenon DEF Rename
    <2>3. CASE /\ segs' = Append(segs, [ts |-> rotTs, cid |-> copied])
               /\ present' = FALSE /\ Goto(t, "reopen")
               /\ UNCHANGED <<rec, rotLock, fileLock>>
      <3>1. segs' # <<>>
        <4>1. segs \in Seq(Segment) /\ [ts |-> rotTs, cid |-> copied] \in Segment
          BY Zenon DEF Segment
        <4> HIDE DEF TypeOK, Locations, Return, Goto, disk, handle, calls
        <4>2. ASSUME NEW x \in Segment PROVE Append(segs, x) # <<>>
          BY <4>1
        <4> QED
          BY <2>3, <4>1, <4>2, Zenon
      <3> QED
        BY <1>4, <2>1, <2>3, <2>4, <3>1, Zenon DEF Rename
    <2> QED
      BY <1>4, <2>2, <2>3, Zenon DEF Rename
  <1>5. CASE ReopenFails(t)
    BY <1>5, Zenon DEF ReopenFails
  <1>6. CASE CheckSidecar(t)
    <2>1. CASE sidecar' = id /\ Goto(t, "lock")
      BY <1>6, <2>1, Zenon DEF CheckSidecar
    <2>2. CASE sidecar' \in {sidecar, id} /\ Goto(t, "poison")
      BY <1>6, <2>2, Zenon DEF CheckSidecar
    <2> QED
      BY <1>6, <2>1, <2>2, Zenon DEF CheckSidecar
  <1>7. CASE Poison(t)
    BY <1>7, Zenon DEF Poison
  <1>8. CASE AppendUnavailable(t)
    BY <1>8, Zenon DEF AppendUnavailable
  <1>9. CASE Reopen(t)
    <2>1. head' \in Seq(Records) /\ id' \in Nat
      <3>1. segs # <<>>
        BY <1>9, Zenon DEF Reopen
      <3>2. Len(segs) \in 1..Len(segs)
        BY <3>1
      <3>3. segs[Len(segs)].cid \in Nat
        BY <3>2, SegFields, Zenon
      <3>4. /\ LoadedHead(Len(segs), head) \in Seq(Records)
            /\ LoadedId(Len(segs), id) \in Nat
        BY LoadTypes, Zenon
      <3> QED
        BY <1>9, <3>3, <3>4, Zenon DEF Reopen
    <2> QED
      BY <1>9, <2>1, Zenon DEF Reopen
  <1>10. CASE WriteLine(t)
    <2>1. lines' \in Seq(Line) /\ rec[t] # NoRecord
      BY <1>10, TypeOfWrite, Zenon
    <2> QED
      BY <1>10, <2>1, Zenon DEF WriteLine
  <1>11. CASE AppendOk(t)
    BY <1>11 DEF AppendOk, compute, Landings
  <1>12. CASE AppendFails(t)
    <2>1. lines' \in Seq(Line)
      BY <1>12, Zenon DEF AppendFails, Rollback
    <2>2. guard' = FALSE /\ orig' = <<>> /\ landed' \in Landings
      BY <1>12, Zenon DEF AppendFails, FileAfterFailure, Landings
    <2>3. Return(t) /\ UNCHANGED <<segs, present, sidecar, nextId, up, head, id,
                                   rotTs, copied, used, acked>>
      BY <1>12, Zenon DEF AppendFails
    <2>4. /\ pc' \in [Threads -> Locations]
          /\ rec' \in [Threads -> Records \cup {NoRecord}]
          /\ rotLock' \in Threads \cup {NoThread}
          /\ fileLock' \in Threads \cup {NoThread}
      BY <2>3, Zenon
    <2>5. ASSUME NEW u \in Threads
          PROVE  /\ pc'[u] \in {"close", "rename", "reopen"} <=> rotLock' = u
                 /\ pc'[u] \in {"rename", "reopen", "write"} <=> fileLock' = u
                 /\ pc'[u] \in {"sidecar", "poison", "lock", "write"}
                        => rec'[u] # NoRecord
                 /\ pc'[u] = "reopen" => segs' # <<>>
      BY <2>3, Zenon
    <2>6. UNCHANGED <<segs, present, sidecar, nextId, up, head, id,
                      rotTs, copied, used, acked>>
      BY <2>3, Zenon
    <2>7. orig' \in Seq(Line)
      BY <2>2
    <2>8. guard' \in BOOLEAN
      BY <2>2, Zenon
    <2> HIDE DEF Return, Locations
    <2> QED
      BY <2>1, <2>2, <2>4, <2>5, <2>6, <2>7, <2>8, Zenon
  <1> QED
    BY <1>1, <1>2, <1>3, <1>4, <1>5, <1>6, <1>7, <1>8, <1>9, <1>10, <1>11, <1>12,
       Zenon DEF Step

\* A call begins.
LEMMA TypeBegin ==
    ASSUME TypeOK, NEW t \in Threads,
           \/ \E r \in Records : BeginAppend(t, r)
           \/ \E r \in Rotations : BeginRotate(t, r)
    PROVE  TypeOK'
  <1>1. ASSUME NEW r \in Records, BeginAppend(t, r) PROVE TypeOK'
    BY <1>1, AuditLogAssumption, Zenon
       DEF BeginAppend, Goto, disk, handle, TypeOK, Locations
  <1>2. ASSUME NEW r \in Rotations, BeginRotate(t, r) PROVE TypeOK'
    BY <1>2, AuditLogAssumption, Zenon
       DEF BeginRotate, Goto, disk, handle, TypeOK, Locations
  <1> QED
    BY <1>1, <1>2, Zenon

\* open_internal finds a head, and an id or makes one, whichever segment it
\* takes for the newest.
LEMMA OpenedIds ==
    ASSUME TypeOK
    PROVE  /\ PriorSidecar \in Nat /\ LoadedHead(HeadSeg, Zero) \in Seq(Records)
           /\ OpenedId \in Nat /\ OpenedId # NoId /\ NextId \in Nat \ {0}
  <1>1. HeadSeg # Active => HeadSeg \in 1..Len(segs)
    BY LatestExists, Zenon DEF HeadSeg, TypeOK
  <1>2. PriorSidecar \in Nat
    BY <1>1, SegFields, Zenon DEF PriorSidecar, TypeOK
  <1>3. Zero \in Seq(Records) /\ NoId \in Nat
    BY DEF Zero, NoId
  <1>4. LoadedHead(HeadSeg, Zero) \in Seq(Records) /\ LoadedId(HeadSeg, NoId) \in Nat
    BY <1>3, LoadTypes, Zenon
  <1>5. nextId \in Nat \ {0}
    BY Zenon DEF TypeOK
  <1> QED
    BY <1>2, <1>4, <1>5 DEF OpenedId, NextId, NoId

\* open_internal loads a head and an id of their types.
LEMMA TypeOpen ==
    ASSUME TypeOK, OpenOk
    PROVE  TypeOK' /\ id' # NoId /\ PriorSidecar \in Nat
  <1>1. /\ head' = LoadedHead(HeadSeg, Zero)
        /\ UNCHANGED <<lines, segs, rotLock, fileLock, calls>>
        /\ up' \in BOOLEAN /\ guard' \in BOOLEAN /\ present' \in BOOLEAN
    BY Zenon DEF OpenOk
  <1>2. id' \in Nat /\ id' # NoId /\ sidecar' \in Nat /\ nextId' \in Nat \ {0}
    BY OpenedIds, Zenon DEF OpenOk, TypeOK
  <1> QED
    BY <1>1, <1>2, OpenedIds, Zenon DEF TypeOK, calls

\* The process stops.
LEMMA TypeStop ==
    ASSUME TypeOK, Stop
    PROVE  TypeOK'
  <1>1. /\ lines' = lines /\ segs' = segs /\ used' = used /\ acked' = acked
        /\ up' = FALSE /\ guard' = FALSE
        /\ pc' = [t \in Threads |-> "idle"] /\ rec' = [t \in Threads |-> NoRecord]
    BY Zenon DEF Stop, disk
  <1>2. /\ up' \in BOOLEAN /\ guard' \in BOOLEAN
    BY <1>1, Zenon
  <1>3. UNCHANGED <<lines, segs, present, sidecar, nextId, rotTs, used, acked>>
    BY Zenon DEF Stop, disk
  <1>4. /\ head' \in Seq(Records) /\ id' \in Nat /\ orig' \in Seq(Line)
        /\ landed' \in Landings /\ copied' \in Nat
        /\ rotLock' \in Threads \cup {NoThread}
        /\ fileLock' \in Threads \cup {NoThread}
    BY DEF Stop, Zero, NoId, Landings
  <1>5. /\ pc' \in [Threads -> Locations]
        /\ rec' \in [Threads -> Records \cup {NoRecord}]
    BY <1>1, Zenon DEF Locations
  <1>6. ASSUME NEW u \in Threads
        PROVE  /\ pc'[u] \in {"close", "rename", "reopen"} <=> rotLock' = u
               /\ pc'[u] \in {"rename", "reopen", "write"} <=> fileLock' = u
               /\ pc'[u] \in {"sidecar", "poison", "lock", "write"}
                      => rec'[u] # NoRecord
               /\ pc'[u] = "reopen" => segs' # <<>>
    BY <1>1, AuditLogAssumption, Zenon DEF Stop
  <1> QED
    BY <1>2, <1>3, <1>4, <1>5, <1>6, Zenon DEF TypeOK

\* Opening is refused, or the sidecar is lost.
LEMMA TypeIdle ==
    ASSUME TypeOK, OpenRefused \/ LoseSidecar \/ UNCHANGED vars
    PROVE  TypeOK'
  <1>1. UNCHANGED <<lines, segs, handle, calls>>
    BY Zenon DEF OpenRefused, LoseSidecar, vars, disk
  <1>2. sidecar' \in Nat /\ nextId' \in Nat \ {0}
    <2>1. sidecar \in Nat /\ nextId \in Nat \ {0} /\ NoId \in Nat
      BY DEF TypeOK, NoId
    <2>2. sidecar' \in {sidecar, NoId, OpenedId} /\ nextId' \in {nextId, NextId}
      BY Zenon DEF OpenRefused, LoseSidecar, vars, disk
    <2> QED
      BY <2>1, <2>2, OpenedIds, Zenon
  <1>3. present' = present \/ present' = TRUE
    BY Zenon DEF OpenRefused, LoseSidecar, vars, disk
  <1>4. present \in BOOLEAN
    BY Zenon DEF TypeOK
  <1>5. present' \in BOOLEAN
    BY <1>3, <1>4, Zenon
  <1> QED
    BY <1>1, <1>2, <1>5, Zenon DEF TypeOK, handle, calls

\* The empty directory.
LEMMA TypeInit == Init => TypeOK
  <1> SUFFICES ASSUME Init PROVE TypeOK
    BY Zenon
  <1>1. present \in BOOLEAN /\ up \in BOOLEAN /\ guard \in BOOLEAN
    BY Zenon DEF Init
  <1> QED
    BY <1>1, AuditLogAssumption DEF Init, TypeOK, Zero, NoId, Landings, Locations

\* Every step of every thread, of the process and of the files.
LEMMA TypeNext == TypeOK /\ [Next]_vars => TypeOK'
  <1> SUFFICES ASSUME TypeOK, [Next]_vars PROVE TypeOK'
    BY Zenon
  <1> QED
    BY TypeStep, TypeBegin, TypeOpen, TypeStop, TypeIdle, Zenon DEF Next

\* The two locks are held exactly where append, rotate_inner and
\* reopen_rotated hold them, and what a head is loaded from is a line of a
\* segment, for every use of the log: any rotations, clock and torn writes.
THEOREM TypesHold == Spec => []TypeOK
  <1> QED
    BY TypeInit, TypeNext, PTL DEF Spec

-----------------------------------------------------------------------------
(* What append acknowledged stays on disk, whatever rotates. *)

\* The steps of a call that write no line and rename no file leave the settled
\* lines, the segments and the chain head alone.
LEMMA QuietFacts ==
    ASSUME TypeOK, NEW t \in Threads,
           \/ NoRotation(t) \/ StartRotation(t) \/ CloseForRotation(t)
           \/ ReopenFails(t) \/ CheckSidecar(t) \/ Poison(t)
           \/ AppendUnavailable(t)
    PROVE  /\ Stored' = Stored /\ segs' = segs /\ used' = used /\ acked' = acked
           /\ head' = head /\ id' = id /\ up' = up /\ (guard' => guard)
           /\ \A u \in Threads \ {t} :
                /\ pc'[u] = pc[u] /\ rec'[u] = rec[u]
                /\ pc[u] \in {"close", "rename"} => rotTs' = rotTs
                /\ pc[u] = "write" => guard' = guard
           /\ lines' = lines /\ orig' = orig /\ landed' = landed
           /\ rec'[t] = rec[t] \/ rec'[t] = NoRecord
  <1> USE DEF TypeOK, Return, Goto, disk, handle, calls
  <1>1. /\ segs' = segs /\ used' = used /\ acked' = acked
        /\ head' = head /\ id' = id /\ up' = up
        /\ lines' = lines /\ orig' = orig /\ landed' = landed
    BY Zenon DEF NoRotation, StartRotation, CloseForRotation, ReopenFails,
           CheckSidecar, Poison, AppendUnavailable
  <1>2. /\ pc[t] # "write" /\ pc'[t] # "write"
        /\ pc' = [pc EXCEPT ![t] = pc'[t]]
        /\ rec'[t] = rec[t] \/ rec'[t] = NoRecord
        /\ rec' = [rec EXCEPT ![t] = rec'[t]]
    BY Zenon DEF NoRotation, StartRotation, CloseForRotation, ReopenFails,
           CheckSidecar, Poison, AppendUnavailable
  <1>3. Stored' = Stored
    BY <1>1, <1>2, StoredSame, Zenon
  <1>4. guard' = guard \/ (guard' = FALSE /\ fileLock = NoThread)
    BY Zenon DEF NoRotation, StartRotation, CloseForRotation, ReopenFails,
           CheckSidecar, Poison, AppendUnavailable
  <1>5. rotTs' = rotTs \/ rotLock = NoThread
    BY Zenon DEF NoRotation, StartRotation, CloseForRotation, ReopenFails,
           CheckSidecar, Poison, AppendUnavailable
  <1> QED
    BY <1>1, <1>2, <1>3, <1>4, <1>5, AuditLogAssumption

\* During a write the file is the settled lines, or those and the new one, in
\* the active segment and joined to no other line.
LEMMA DurableWrite ==
    ASSUME WholeLines, DurableInv, NEW t \in Threads, pc[t] = "write"
    PROVE  /\ Stored = orig /\ guard /\ up
           /\ landed = "none" => lines = orig
           /\ landed # "none" =>
                /\ DOMAIN lines = DOMAIN orig \cup {Len(lines)}
                /\ Len(lines) \notin DOMAIN orig
                /\ \A i \in DOMAIN orig : lines[i] = orig[i]
                /\ lines[Len(lines)].seg = Active
                /\ lines[Len(lines)].rec = rec[t]
                /\ lines[Len(lines)].form = landed
                /\ landed \in {"whole", "torn"}
  <1>1. Stored = orig /\ guard /\ up /\ rec[t] # NoRecord
    BY OneWriter, Zenon DEF DurableInv, DurableCall, TypeOK
  <1>2. NewLine(t) \in Line /\ orig \in Seq(Line) /\ landed \in Landings
    BY <1>1, NewLineType, Zenon DEF DurableInv, TypeOK
  <1>3. \A i \in DOMAIN orig : orig[i].seg = Active => orig[i].form = "whole"
    BY <1>1, Zenon DEF DurableInv, DurableFiles
  <1>4. lines = Put(orig, NewLine(t), landed)
    BY Zenon DEF DurableInv, DurableCall
  <1>5. landed # "none" => landed \in {"whole", "torn"}
    BY <1>2, AuditLogAssumption, Zenon DEF Landings, WholeLines
  <1>6. landed = "none" => lines = orig
    BY <1>2, <1>3, <1>4, PutAppends, Zenon
  <1>7. ASSUME landed # "none"
        PROVE  /\ DOMAIN lines = DOMAIN orig \cup {Len(lines)}
               /\ Len(lines) \notin DOMAIN orig
               /\ \A i \in DOMAIN orig : lines[i] = orig[i]
               /\ lines[Len(lines)] = [NewLine(t) EXCEPT !.form = landed]
    <2> DEFINE L == [NewLine(t) EXCEPT !.form = landed]
    <2>1. L \in Line /\ lines = Append(orig, L)
      BY <1>2, <1>3, <1>4, <1>7, PutAppends, Zenon
    <2> HIDE DEF L
    <2>2. /\ Len(lines) = Len(orig) + 1 /\ lines[Len(lines)] = L
          /\ DOMAIN lines = 1..(Len(orig) + 1) /\ DOMAIN orig = 1..Len(orig)
          /\ \A i \in DOMAIN orig : lines[i] = orig[i]
          /\ Len(orig) \in Nat
      BY <1>2, <2>1
    <2>3. 1..(Len(orig) + 1) = 1..Len(orig) \cup {Len(orig) + 1}
      BY <2>2
    <2>4. Len(orig) + 1 \notin 1..Len(orig)
      BY <2>2
    <2> QED
      BY <2>2, <2>3, <2>4, Zenon DEF L
  <1>8. landed # "none" => /\ lines[Len(lines)].seg = Active
                           /\ lines[Len(lines)].rec = rec[t]
                           /\ lines[Len(lines)].form = landed
    <2>1. /\ [NewLine(t) EXCEPT !.form = landed].seg = Active
          /\ [NewLine(t) EXCEPT !.form = landed].rec = rec[t]
          /\ [NewLine(t) EXCEPT !.form = landed].form = landed
      BY Zenon DEF NewLine
    <2> QED
      BY <1>7, <2>1, Zenon
  <1> QED
    BY <1>1, <1>5, <1>6, <1>7, <1>8, Zenon

\* Whether a write in progress is counted or not: no line was joined, no record
\* is in two lines, and what was acknowledged is there.
LEMMA DurableLines ==
    ASSUME WholeLines, DurableInv
    PROVE  /\ \A i \in DOMAIN lines :
                /\ lines[i].form \in {"whole", "torn"} /\ lines[i].seg <= Active
                /\ lines[i].rec \in used
                /\ \A j \in DOMAIN lines : lines[i].rec = lines[j].rec => i = j
           /\ \A r \in acked : \E i \in DOMAIN lines :
                                    Readable(lines[i]) /\ lines[i].rec = r
  <1>1. CASE Stored = lines
    BY <1>1, Zenon DEF DurableInv, DurableFiles
  <1>2. CASE Stored # lines
    <2>1. PICK t \in Threads : pc[t] = "write"
      BY <1>2, Zenon DEF Stored, InFlight
    <2>2. /\ Stored = orig /\ landed # "none"
          /\ DOMAIN lines = DOMAIN orig \cup {Len(lines)}
          /\ Len(lines) \notin DOMAIN orig
          /\ \A i \in DOMAIN orig : lines[i] = orig[i]
          /\ lines[Len(lines)].seg = Active
          /\ lines[Len(lines)].rec = rec[t]
          /\ lines[Len(lines)].form \in {"whole", "torn"}
      BY <1>2, <2>1, DurableWrite, Zenon
    <2>3. /\ rec[t] \in used
          /\ \A i \in DOMAIN orig : orig[i].rec # rec[t]
      BY <2>1, <2>2, Zenon DEF DurableInv, DurableCall, TypeOK
    <2>4. Active <= Active
      BY DEF DurableInv, TypeOK, Active
    <2>5. ASSUME NEW i \in DOMAIN lines
          PROVE  /\ lines[i].form \in {"whole", "torn"} /\ lines[i].seg <= Active
                 /\ lines[i].rec \in used
      BY <2>2, <2>3, <2>4, Zenon DEF DurableInv, DurableFiles
    <2>6. ASSUME NEW i \in DOMAIN lines, NEW j \in DOMAIN lines,
                 lines[i].rec = lines[j].rec
          PROVE  i = j
      <3>1. \A k, m \in DOMAIN orig : orig[k].rec = orig[m].rec => k = m
        BY <2>2, Zenon DEF DurableInv, DurableFiles
      <3>2. i \in DOMAIN orig \/ i = Len(lines)
        BY <2>2, Zenon
      <3>3. j \in DOMAIN orig \/ j = Len(lines)
        BY <2>2, Zenon
      <3> QED
        BY <2>2, <2>3, <2>6, <3>1, <3>2, <3>3, Zenon
    <2>7. \A r \in acked : \E i \in DOMAIN lines :
                                Readable(lines[i]) /\ lines[i].rec = r
      <3> SUFFICES ASSUME NEW r \in acked
                   PROVE  \E i \in DOMAIN lines :
                                Readable(lines[i]) /\ lines[i].rec = r
        BY Zenon
      <3>1. PICK i \in DOMAIN orig : Readable(orig[i]) /\ orig[i].rec = r
        BY <2>2, Zenon DEF DurableInv, DurableFiles
      <3> QED
        BY <2>2, <3>1, Zenon
    <2> QED
      BY <2>5, <2>6, <2>7, Zenon
  <1> QED
    BY <1>1, <1>2, Zenon

\* A step that leaves the settled lines and the segments alone.
LEMMA DurableFilesSame ==
    ASSUME DurableFiles, Stored' = Stored, segs' = segs, used \subseteq used',
           acked' = acked, guard' => guard
    PROVE  DurableFiles'
  BY Zenon DEF DurableFiles, Active, Readable

\* What DurableFiles asks of the lines that a step settles.
LEMMA DurableFilesOf ==
    ASSUME NEW f, Stored' = f, Active' = Active,
           \A i \in DOMAIN f :
                /\ f[i].form \in {"whole", "torn"} /\ f[i].seg <= Active
                /\ f[i].rec \in used'
                /\ \A j \in DOMAIN f : f[i].rec = f[j].rec => i = j,
           guard' => \A i \in DOMAIN f : f[i].seg = Active => f[i].form = "whole",
           \A r \in acked' : \E i \in DOMAIN f : Readable(f[i]) /\ f[i].rec = r
    PROVE  DurableFiles'
  <1>1. \A r \in acked' : \E i \in DOMAIN Stored' :
                Readable(Stored'[i]) /\ Stored'[i].rec = r
    BY Zenon
  <1> QED
    BY <1>1, Zenon DEF DurableFiles, Readable

\* Thread u is between two steps of its call while another one moves.
LEMMA DurableCallSame ==
    ASSUME DurableInv, NEW u \in Threads, NEW t \in Threads, u # t,
           Stored' = Stored, up' = up, used \subseteq used',
           pc'[u] = pc[u], rec'[u] = rec[u],
           rec'[t] \in {rec[t], NoRecord} \/ rec'[t] \notin used,
           \A v \in Threads \ {t} : rec'[v] = rec[v],
           pc[u] \in {"reopen", "write"} =>
                /\ segs' = segs /\ guard' = guard /\ lines' = lines /\ orig' = orig
                /\ landed' = landed /\ head' = head /\ id' = id
    PROVE  DurableCall(u)'
  <1>1. DurableCall(u)
    BY Zenon DEF DurableInv
  <1>2. pc[u] = "write" => (lines = Put(orig, NewLine(u), landed))'
    BY <1>1, Zenon DEF DurableCall, NewLine, Put, Terminated, Active, compute
  <1>3. pc[u] = "reopen" => (SegLines(Stored, Active) = {})'
    BY <1>1, Zenon DEF DurableCall, SegLines, Active
  <1>4. rec'[u] # NoRecord => \A v \in Threads \ {u} : rec'[v] # rec'[u]
    BY <1>1, Zenon DEF DurableCall
  <1> QED
    BY <1>1, <1>2, <1>3, <1>4, Zenon DEF DurableCall

\* The steps of a call that write no line and rename no file.
LEMMA DurableQuiet ==
    ASSUME DurableInv, NEW t \in Threads,
           \/ NoRotation(t) \/ StartRotation(t) \/ CloseForRotation(t)
           \/ ReopenFails(t) \/ CheckSidecar(t) \/ Poison(t)
           \/ AppendUnavailable(t)
    PROVE  DurableFiles' /\ \A u \in Threads : DurableCall(u)'
  <1>1. TypeOK /\ DurableFiles /\ DurableCall(t)
    BY Zenon DEF DurableInv
  <1>2. DurableFiles'
    BY <1>1, QuietFacts, DurableFilesSame, Zenon
  <1>3. ASSUME NEW u \in Threads \ {t} PROVE DurableCall(u)'
    <2>1. pc[u] = "reopen" => guard' = guard
      BY <1>1, AuditLogAssumption, Zenon
         DEF TypeOK, NoRotation, StartRotation, CloseForRotation, ReopenFails,
             CheckSidecar, Poison, AppendUnavailable, handle
    <2> QED
      BY <1>1, <2>1, QuietFacts, DurableCallSame, Zenon
  <1>4. DurableCall(t)'
    <2>1. pc'[t] \notin {"reopen", "write"} /\ pc[t] # "idle"
      BY <1>1, Zenon DEF TypeOK, NoRotation, StartRotation, CloseForRotation,
             ReopenFails, CheckSidecar, Poison, AppendUnavailable, Goto, Return
    <2>2. /\ up' = up /\ used' = used /\ Stored' = Stored
          /\ rec'[t] = rec[t] \/ rec'[t] = NoRecord
          /\ \A u \in Threads \ {t} : rec'[u] = rec[u]
      BY <1>1, QuietFacts, Zenon
    <2> QED
      BY <1>1, <2>1, <2>2, Zenon DEF DurableCall
  <1> QED
    BY <1>2, <1>3, <1>4, Zenon

\* append or rotate is called: a record is given to one call only.
LEMMA DurableBegin ==
    ASSUME DurableInv, NEW t \in Threads,
           \/ \E r \in Records : BeginAppend(t, r)
           \/ \E r \in Rotations : BeginRotate(t, r)
    PROVE  DurableInv'
  <1>1. TypeOK'
    BY TypeBegin, Zenon DEF DurableInv
  <1>2. TypeOK /\ DurableFiles /\ DurableCall(t)
        /\ pc \in [Threads -> Locations]
        /\ rec \in [Threads -> Records \cup {NoRecord}]
    BY Zenon DEF DurableInv, TypeOK
  <1>3. /\ UNCHANGED <<disk, handle, rotTs, orig, landed, acked>> /\ up
        /\ pc[t] = "idle" /\ pc' = [pc EXCEPT ![t] = "check"]
        /\ used \subseteq used'
        /\ \/ rec' = rec
           \/ rec'[t] \notin used /\ rec'[t] \in used'
              /\ rec' = [rec EXCEPT ![t] = rec'[t]]
    BY <1>2, Zenon DEF BeginAppend, BeginRotate, Goto
  <1>4. Stored' = Stored
    BY <1>2, <1>3, StoredSame, Zenon DEF disk
  <1>5. DurableFiles'
    BY <1>2, <1>3, <1>4, DurableFilesSame, Zenon DEF disk, handle
  <1>6. ASSUME NEW u \in Threads \ {t} PROVE DurableCall(u)'
    <2>1. pc'[u] = pc[u] /\ \A v \in Threads \ {t} : rec'[v] = rec[v]
      BY <1>2, <1>3, Zenon
    <2> QED
      BY <1>3, <1>4, <2>1, DurableCallSame, Zenon DEF disk, handle
  <1>7. DurableCall(t)'
    <2>1. pc'[t] = "check" /\ up'
      BY <1>2, <1>3, Zenon DEF handle
    <2>2. CASE rec' = rec
      BY <1>2, <1>3, <1>4, <2>1, <2>2, Zenon DEF DurableCall
    <2>3. CASE rec'[t] \notin used /\ rec'[t] \in used'
               /\ rec' = [rec EXCEPT ![t] = rec'[t]]
      <3>1. \A i \in DOMAIN Stored : Stored[i].rec # rec'[t]
        BY <1>2, <2>3, Zenon DEF DurableFiles
      <3>2. \A u \in Threads \ {t} : rec[u] = NoRecord \/ rec[u] \in used
        BY Zenon DEF DurableInv, DurableCall
      <3>3. \A u \in Threads \ {t} : rec'[u] = rec[u]
        BY <1>2, <2>3, Zenon
      <3> QED
        BY <1>4, <2>1, <2>3, <3>1, <3>2, <3>3, Zenon DEF DurableCall
    <2> QED
      BY <1>3, <2>2, <2>3, Zenon
  <1> QED
    BY <1>1, <1>5, <1>6, <1>7, Zenon DEF DurableInv

\* reopen_rotated: no line is in the segment that becomes the active one.
LEMMA DurableRename ==
    ASSUME DurableInv, NEW t \in Threads, Rename(t)
    PROVE  DurableFiles' /\ \A u \in Threads : DurableCall(u)'
  <1>1. /\ TypeOK /\ DurableFiles /\ DurableCall(t) /\ pc[t] = "rename"
        /\ pc \in [Threads -> Locations]
        /\ rec \in [Threads -> Records \cup {NoRecord}]
        /\ \A u \in Threads \ {t} : pc[u] \notin {"reopen", "write"}
    BY Zenon DEF DurableInv, TypeOK, Rename
  <1>2. UNCHANGED <<lines, up, guard, head, id, orig, landed, used, acked>>
    BY Zenon DEF Rename
  <1>3. /\ pc' = [pc EXCEPT ![t] = pc'[t]] /\ pc'[t] \in {"reopen", "idle"}
        /\ rec' = [rec EXCEPT ![t] = rec'[t]] /\ rec'[t] \in {rec[t], NoRecord}
        /\ pc'[t] = "idle" => segs' = segs
        /\ segs' = segs \/ segs' = Append(segs, [ts |-> rotTs, cid |-> copied])
        /\ pc'[t] = "reopen" => segs' = Append(segs, [ts |-> rotTs, cid |-> copied])
    BY <1>1, Zenon DEF Rename, Goto, Return
  <1>4. Stored' = Stored
    BY <1>1, <1>2, <1>3, StoredSame, Zenon
  <1>5. ASSUME segs' # segs
        PROVE  \A i \in DOMAIN Stored : Stored[i].seg <= Active' /\ Stored[i].seg # Active'
    <2>1. segs \in Seq(Segment) /\ [ts |-> rotTs, cid |-> copied] \in Segment
      BY <1>1, Zenon DEF TypeOK, Segment
    <2>2. ASSUME NEW x \in Segment PROVE Len(Append(segs, x)) = Len(segs) + 1
      BY <2>1
    <2>3. Active' = Active + 1 /\ Active \in Nat
      <3>1. Len(segs') = Len(segs) + 1 /\ Len(segs) \in Nat
        BY <1>3, <1>5, <2>1, <2>2
      <3> QED
        BY <3>1 DEF Active
    <2>4. \A i \in DOMAIN Stored : Stored[i].seg \in Nat /\ Stored[i].seg <= Active
      BY <1>1, LineFields, Zenon DEF DurableFiles, TypeOK, Stored
    <2> QED
      BY <2>3, <2>4
  <1>6. pc'[t] = "reopen" => segs' # segs
    <2>1. segs \in Seq(Segment) /\ [ts |-> rotTs, cid |-> copied] \in Segment
      BY <1>1, Zenon DEF TypeOK, Segment
    <2>2. ASSUME NEW x \in Segment PROVE Append(segs, x) # segs
      BY <2>1
    <2> QED
      BY <1>3, <2>1, <2>2, Zenon
  <1>7. DurableFiles'
    <2>1. CASE segs' = segs
      BY <1>1, <1>2, <1>4, <2>1, DurableFilesSame, Zenon
    <2>2. CASE segs' # segs
      BY <1>1, <1>2, <1>4, <1>5, <2>2, Zenon DEF DurableFiles, Readable
    <2> QED
      BY <2>1, <2>2, Zenon
  <1>8. ASSUME NEW u \in Threads \ {t} PROVE DurableCall(u)'
    <2>1. pc'[u] = pc[u] /\ \A v \in Threads \ {t} : rec'[v] = rec[v]
      BY <1>1, <1>3, Zenon
    <2> QED
      BY <1>1, <1>2, <1>3, <1>4, <2>1, DurableCallSame, Zenon
  <1>9. DurableCall(t)'
    <2>1. \A u \in Threads \ {t} : rec'[u] = rec[u]
      BY <1>1, <1>3, Zenon
    <2>2. pc'[t] = "reopen" => (SegLines(Stored, Active) = {})'
      BY <1>4, <1>5, <1>6, Zenon DEF SegLines
    <2>3. pc'[t] # "write" /\ up' = up /\ up
      BY <1>1, <1>2, <1>3, Zenon DEF DurableCall
    <2>4. rec'[t] # NoRecord =>
            /\ rec'[t] \in used'
            /\ \A i \in DOMAIN Stored' : Stored'[i].rec # rec'[t]
            /\ \A u \in Threads \ {t} : rec'[u] # rec'[t]
      BY <1>1, <1>2, <1>3, <1>4, <2>1, Zenon DEF DurableCall
    <2> QED
      BY <2>2, <2>3, <2>4, Zenon DEF DurableCall
  <1> QED
    BY <1>7, <1>8, <1>9, Zenon

\* The rest of rotate_inner: the handle gets a file without lines.
LEMMA DurableReopen ==
    ASSUME DurableInv, NEW t \in Threads, Reopen(t)
    PROVE  DurableFiles' /\ \A u \in Threads : DurableCall(u)'
  <1>1. /\ TypeOK /\ DurableFiles /\ DurableCall(t) /\ pc[t] = "reopen"
        /\ pc \in [Threads -> Locations]
        /\ \A u \in Threads \ {t} : pc[u] \notin {"reopen", "write"}
    BY Zenon DEF DurableInv, TypeOK, Reopen
  <1>2. /\ UNCHANGED <<lines, segs, up, rec, orig, landed, used, acked>>
        /\ pc' = [pc EXCEPT ![t] = pc'[t]] /\ pc'[t] \notin {"reopen", "write"}
    BY <1>1, Zenon DEF Reopen, Goto
  <1>3. Stored' = Stored
    BY <1>1, <1>2, StoredSame, Zenon
  <1>4. SegLines(Stored, Active) = {}
    BY <1>1, Zenon DEF DurableCall
  <1>5. DurableFiles'
    BY <1>1, <1>2, <1>3, <1>4, Zenon DEF DurableFiles, Readable, SegLines, Active
  <1>6. ASSUME NEW u \in Threads \ {t} PROVE DurableCall(u)'
    <2>1. pc'[u] = pc[u] /\ rec'[t] \in {rec[t], NoRecord}
      BY <1>1, <1>2, Zenon
    <2> QED
      BY <1>1, <1>2, <1>3, <2>1, DurableCallSame, Zenon
  <1>7. DurableCall(t)'
    BY <1>1, <1>2, <1>3, Zenon DEF DurableCall
  <1> QED
    BY <1>5, <1>6, <1>7, Zenon

\* append writes its line.
LEMMA DurableWriteLine ==
    ASSUME DurableInv, NEW t \in Threads, WriteLine(t)
    PROVE  DurableFiles' /\ \A u \in Threads : DurableCall(u)'
  <1>1. /\ TypeOK /\ DurableFiles /\ DurableCall(t) /\ pc[t] = "lock" /\ guard
        /\ \A u \in Threads : pc[u] \notin {"reopen", "write"}
        /\ pc' = [pc EXCEPT ![t] = "write"] /\ pc \in [Threads -> Locations]
        /\ orig' = lines /\ lines' = Put(lines, NewLine(t), landed')
        /\ segs' = segs /\ up' = up /\ guard' = guard /\ head' = head /\ id' = id
        /\ rec' = rec /\ used' = used /\ acked' = acked
    BY AuditLogAssumption, Zenon DEF DurableInv, TypeOK, WriteLine, Goto
  <1>2. Stored = lines
    BY <1>1, TypeOfWrite, Zenon
  <1>3. Stored' = Stored
    BY <1>1, <1>2, Zenon DEF Stored, InFlight
  <1>4. DurableFiles'
    BY <1>1, <1>3, DurableFilesSame, Zenon
  <1>5. ASSUME NEW u \in Threads \ {t} PROVE DurableCall(u)'
    <2>1. pc'[u] = pc[u] /\ rec'[t] \in {rec[t], NoRecord}
      BY <1>1, Zenon
    <2> QED
      BY <1>1, <1>3, <2>1, DurableCallSame, Zenon
  <1>6. DurableCall(t)'
    <2>1. (lines = Put(orig, NewLine(t), landed))'
      BY <1>1, Zenon DEF Put, NewLine, Terminated, Active, compute
    <2>2. pc'[t] = "write"
      BY <1>1, Zenon
    <2> QED
      BY <1>1, <1>3, <2>1, <2>2, Zenon DEF DurableCall
  <1> QED
    BY <1>4, <1>5, <1>6, Zenon

\* The end of a write: the line is settled or truncated away, and only a whole
\* line is acknowledged; after a failure the handle has no file.
LEMMA DurableAppend ==
    ASSUME WholeLines, DurableInv, NEW t \in Threads, AppendOk(t) \/ AppendFails(t)
    PROVE  DurableFiles' /\ \A u \in Threads : DurableCall(u)'
  <1>1. /\ TypeOK /\ DurableFiles /\ DurableCall(t) /\ pc[t] = "write"
        /\ pc \in [Threads -> Locations]
        /\ rec \in [Threads -> Records \cup {NoRecord}] /\ rec[t] # NoRecord
        /\ \A u \in Threads \ {t} : pc[u] \notin {"reopen", "write"}
    BY Zenon DEF DurableInv, TypeOK, AppendOk, AppendFails
  <1>2. /\ Return(t) /\ lines' \in {orig, lines}
        /\ segs' = segs /\ up' = up /\ used' = used
    BY Zenon DEF AppendOk, AppendFails, Rollback, disk
  <1>3. /\ pc'[t] = "idle" /\ rec'[t] = NoRecord
        /\ \A u \in Threads \ {t} : pc'[u] = pc[u] /\ rec'[u] = rec[u]
    BY <1>1, <1>2, Zenon DEF Return
  <1>4. Stored' = lines' /\ Stored = orig
    BY <1>1, <1>3, OneWriter, Zenon DEF Stored, InFlight
  <1>5. Active' = Active
    BY <1>2, Zenon DEF Active
  <1>6. /\ \A i \in DOMAIN lines' :
                /\ lines'[i].form \in {"whole", "torn"} /\ lines'[i].seg <= Active
                /\ lines'[i].rec \in used
                /\ \A j \in DOMAIN lines' : lines'[i].rec = lines'[j].rec => i = j
        /\ \A r \in acked : \E i \in DOMAIN lines' :
                                Readable(lines'[i]) /\ lines'[i].rec = r
    <2>1. CASE lines' = orig
      <3>1. /\ \A i \in DOMAIN Stored :
                    /\ Stored[i].form \in {"whole", "torn"} /\ Stored[i].seg <= Active
                    /\ Stored[i].rec \in used
                    /\ \A j \in DOMAIN Stored : Stored[i].rec = Stored[j].rec => i = j
            /\ \A r \in acked : \E i \in DOMAIN Stored :
                                    Readable(Stored[i]) /\ Stored[i].rec = r
        BY <1>1, Zenon DEF DurableFiles
      <3>2. Stored = lines'
        BY <1>4, <2>1, Zenon
      <3> QED
        BY <3>1, <3>2, Zenon
    <2>2. CASE lines' = lines
      BY <2>2, DurableLines, Zenon
    <2> QED
      BY <1>2, <2>1, <2>2, Zenon
  <1>7. DurableFiles'
    <2>1. CASE AppendOk(t)
      <3>1. /\ lines' = lines /\ landed = "whole" /\ landed # "none" /\ guard' = guard
            /\ acked' = acked \cup {rec[t]}
        BY <2>1, Zenon DEF AppendOk, Synced, disk
      <3>2. /\ DOMAIN lines = DOMAIN orig \cup {Len(lines)}
            /\ \A i \in DOMAIN orig : lines[i] = orig[i]
            /\ lines[Len(lines)].rec = rec[t] /\ lines[Len(lines)].form = "whole"
        BY <1>1, <3>1, DurableWrite, Zenon
      <3>3. guard => \A i \in DOMAIN lines : lines[i].seg = Active => lines[i].form = "whole"
        <4>1. guard => \A i \in DOMAIN orig : orig[i].seg = Active => orig[i].form = "whole"
          BY <1>1, <1>4, Zenon DEF DurableFiles
        <4> QED
          BY <3>2, <4>1, Zenon
      <3>4. Len(lines) \in DOMAIN lines /\ Readable(lines[Len(lines)])
        BY <3>2, Zenon DEF Readable
      <3>5. \A r \in acked' : \E i \in DOMAIN lines' :
                                Readable(lines'[i]) /\ lines'[i].rec = r
        BY <1>6, <3>1, <3>2, <3>4, Zenon
      <3> QED
        BY <1>2, <1>4, <1>5, <1>6, <3>1, <3>3, <3>5, DurableFilesOf
    <2>2. CASE AppendFails(t)
      <3>1. guard' = FALSE /\ acked' = acked
        BY <2>2, Zenon DEF AppendFails, FileAfterFailure
      <3> QED
        BY <1>2, <1>4, <1>5, <1>6, <3>1, DurableFilesOf
    <2> QED
      BY <2>1, <2>2, Zenon
  <1>8. DurableCall(t)'
    BY <1>3, Zenon DEF DurableCall
  <1>9. ASSUME NEW u \in Threads \ {t} PROVE DurableCall(u)'
    <2>1. DurableCall(u)
      BY Zenon DEF DurableInv
    <2>2. \A i \in DOMAIN lines' : \/ i \in DOMAIN orig /\ lines'[i] = orig[i]
                                   \/ lines'[i].rec = rec[t]
      BY <1>1, <1>2, DurableWrite, Zenon
    <2>3. rec'[u] # NoRecord =>
            /\ rec'[u] \in used'
            /\ \A i \in DOMAIN lines' : lines'[i].rec # rec'[u]
            /\ \A v \in Threads \ {u} : rec'[v] # rec'[u]
      BY <1>2, <1>3, <1>4, <2>1, <2>2, Zenon DEF DurableCall
    <2> QED
      BY <1>1, <1>2, <1>3, <1>4, <2>1, <2>3, Zenon DEF DurableCall
  <1> QED
    BY <1>7, <1>8, <1>9, Zenon

\* The process stops, in the middle of a write or not.
LEMMA DurableStop ==
    ASSUME WholeLines, DurableInv, Stop
    PROVE  DurableInv'
  <1>1. /\ lines' = lines /\ segs' = segs /\ used' = used /\ acked' = acked
        /\ guard' = FALSE
        /\ pc' = [t \in Threads |-> "idle"] /\ rec' = [t \in Threads |-> NoRecord]
    BY Zenon DEF Stop, disk
  <1>2. Stored' = lines /\ Active' = Active
    BY <1>1, Zenon DEF Stored, InFlight, Active
  <1>3. DurableFiles'
    BY <1>1, <1>2, DurableLines, Zenon DEF DurableFiles, Readable
  <1>4. \A u \in Threads : DurableCall(u)'
    BY <1>1, Zenon DEF DurableCall
  <1> QED
    BY <1>3, <1>4, TypeStop, Zenon DEF DurableInv

\* open_internal gives the handle a file only when every line parses, and a
\* line that parses is terminated.
LEMMA DurableOpen ==
    ASSUME DurableInv, OpenOk
    PROVE  DurableInv'
  <1>1. /\ ~up /\ Verified
        /\ UNCHANGED <<lines, segs, pc, rec, orig, landed, used, acked>>
    BY Zenon DEF OpenOk, calls
  <1>2. \A u \in Threads : pc[u] = "idle" /\ DurableCall(u)
    BY <1>1, Zenon DEF DurableInv, DurableCall
  <1>3. Stored = lines /\ Stored' = lines /\ Active' = Active
    BY <1>1, <1>2, Zenon DEF Stored, InFlight, Active
  <1>4. \A i \in DOMAIN lines : Readable(lines[i]) /\ lines[i].form \in {"whole", "torn"}
    BY <1>1, <1>3, Zenon DEF Verified, DurableInv, DurableFiles
  <1>5. \A i \in DOMAIN lines : lines[i].form = "whole"
    BY <1>4, Zenon DEF Readable
  <1>6. DurableFiles'
    <2>1. /\ \A i \in DOMAIN lines :
                    /\ lines[i].form \in {"whole", "torn"} /\ lines[i].seg <= Active
                    /\ lines[i].rec \in used
                    /\ \A j \in DOMAIN lines : lines[i].rec = lines[j].rec => i = j
          /\ \A r \in acked : \E i \in DOMAIN lines :
                                    Readable(lines[i]) /\ lines[i].rec = r
      BY <1>3, Zenon DEF DurableInv, DurableFiles
    <2> QED
      BY <1>1, <1>3, <1>5, <2>1, DurableFilesOf
  <1>7. \A u \in Threads : DurableCall(u)'
    BY <1>1, <1>2, <1>3, Zenon DEF DurableCall
  <1> QED
    BY <1>6, <1>7, TypeOpen, Zenon DEF DurableInv

\* Opening is refused, or the sidecar is lost.
LEMMA DurableIdle ==
    ASSUME DurableInv, OpenRefused \/ LoseSidecar \/ UNCHANGED vars
    PROVE  DurableInv'
  <1>1. UNCHANGED <<lines, segs, handle, calls>>
    BY Zenon DEF OpenRefused, LoseSidecar, vars, disk
  <1>2. Stored' = Stored
    BY <1>1, Zenon DEF Stored, InFlight, calls
  <1>3. DurableFiles'
    BY <1>1, <1>2, DurableFilesSame, Zenon DEF DurableInv, handle, calls
  <1>4. ASSUME NEW u \in Threads PROVE DurableCall(u)'
    <2>1. DurableCall(u)
      BY Zenon DEF DurableInv
    <2>2. NewLine(u)' = NewLine(u)
      BY <1>1, Zenon DEF NewLine, Active, compute, handle, calls
    <2>3. pc[u] = "write" => (lines = Put(orig, NewLine(u), landed))'
      BY <1>1, <2>1, <2>2, Zenon DEF DurableCall, Put, Terminated, Active, calls
    <2> QED
      BY <1>1, <1>2, <2>1, <2>3, Zenon DEF DurableCall, SegLines, Active, handle, calls
  <1> QED
    BY <1>3, <1>4, TypeIdle, Zenon DEF DurableInv

\* The empty directory.
LEMMA DurableInit == Init => DurableInv
  <1> SUFFICES ASSUME Init PROVE DurableInv
    BY Zenon
  <1>1. Stored = <<>> /\ acked = {}
    BY Zenon DEF Init, Stored, InFlight
  <1>2. DOMAIN Stored = {}
    BY <1>1
  <1>3. DurableFiles
    BY <1>1, <1>2, Zenon DEF DurableFiles
  <1>4. \A t \in Threads : DurableCall(t)
    BY Zenon DEF Init, DurableCall
  <1> QED
    BY <1>3, <1>4, TypeInit, Zenon DEF DurableInv

\* Every step of every thread, of the process and of the files.
LEMMA DurableNext ==
    ASSUME WholeLines, DurableInv, [Next]_vars
    PROVE  DurableInv'
  <1>1. ASSUME NEW t \in Threads, Step(t) PROVE DurableInv'
    <2>1. TypeOK'
      BY <1>1, TypeStep, Zenon DEF DurableInv
    <2>2. DurableFiles' /\ \A u \in Threads : DurableCall(u)'
      BY <1>1, DurableQuiet, DurableRename, DurableReopen, DurableWriteLine,
         DurableAppend, Zenon DEF Step
    <2> QED
      BY <2>1, <2>2, Zenon DEF DurableInv
  <1> QED
    BY <1>1, DurableBegin, DurableOpen, DurableStop, DurableIdle, Zenon DEF Next

\* A record whose append returned Ok stays on disk, exactly once, in a line
\* that parses: through rotations by size and calls of rotate, a clock that
\* steps back, failed writes, renames and truncations, and restarts (append,
\* write_line_durably, rotate_inner, open_internal).
THEOREM AckedAlwaysPersisted == WholeLines => (Spec => []AckedPersisted)
  <1> SUFFICES ASSUME WholeLines PROVE Spec => []AckedPersisted
    BY Zenon
  <1>1. Init => DurableInv
    BY DurableInit, Zenon
  <1>2. DurableInv /\ [Next]_vars => DurableInv'
    BY DurableNext, Zenon
  <1>3. DurableInv => AckedPersisted
    <2> SUFFICES ASSUME DurableInv, NEW r \in acked
                 PROVE  \E i \in DOMAIN Stored :
                            /\ Readable(Stored[i]) /\ Stored[i].rec = r
                            /\ \A j \in DOMAIN Stored \ {i} :
                                    Readable(Stored[j]) => Stored[j].rec # r
      BY Zenon DEF AckedPersisted
    <2>1. PICK i \in DOMAIN Stored : Readable(Stored[i]) /\ Stored[i].rec = r
      BY Zenon DEF DurableInv, DurableFiles
    <2>2. \A j \in DOMAIN Stored : Stored[i].rec = Stored[j].rec => i = j
      BY Zenon DEF DurableInv, DurableFiles
    <2> QED
      BY <2>1, <2>2, Zenon
  <1> QED
    BY <1>1, <1>2, <1>3, PTL DEF Spec

-----------------------------------------------------------------------------
(* A line being written continues the chain. *)

\* During a write the file is the settled lines, or those and the new one.
LEMMA Extends ==
    ASSUME SafeUse, ChainInv, NEW t \in Threads, pc[t] = "write"
    PROVE  /\ Stored = orig /\ guard /\ up
           /\ landed = "none" => lines = orig
           /\ landed # "none" =>
                /\ lines = Append(orig, [NewLine(t) EXCEPT !.form = landed])
                /\ Len(lines) = Len(orig) + 1
                /\ DOMAIN lines = DOMAIN orig \cup {Len(lines)}
                /\ \A i \in DOMAIN orig : lines[i] = orig[i] /\ i < Len(lines)
                /\ lines[Len(lines)] = [NewLine(t) EXCEPT !.form = landed]
                /\ landed \in {"whole", "torn"}
           /\ \A i \in DOMAIN orig : orig[i].form = "whole"
           /\ rec[t] \in Records /\ NewLine(t) \in Line
  <1> USE DEF ChainInv
  <1>1. Stored = orig /\ guard /\ up /\ rec[t] \in Records
    BY OneWriter, Zenon DEF CallInv, HandleInv, TypeOK
  <1>2. NewLine(t) \in Line /\ orig \in Seq(Line) /\ landed \in Landings
    BY <1>1, NewLineType, AuditLogAssumption, Zenon DEF TypeOK
  <1>3. \A i \in DOMAIN orig : orig[i].form = "whole"
    BY <1>1, Zenon DEF HandleInv, HandleExtendsDisk, FilesInv, Follows, Readable
  <1>4. lines = Put(orig, NewLine(t), landed)
    BY Zenon DEF CallInv
  <1>5. landed # "none" => landed \in {"whole", "torn"}
    BY <1>2, AuditLogAssumption, Zenon DEF Landings, SafeUse, WholeLines
  <1>6. /\ landed = "none" => lines = orig
        /\ landed # "none" => lines = Append(orig, [NewLine(t) EXCEPT !.form = landed])
    BY <1>2, <1>3, <1>4, PutAppends, Zenon
  <1> HIDE DEF ChainInv
  <1>7. ASSUME landed # "none"
        PROVE  /\ Len(lines) = Len(orig) + 1
               /\ DOMAIN lines = DOMAIN orig \cup {Len(lines)}
               /\ \A i \in DOMAIN orig : lines[i] = orig[i] /\ i < Len(lines)
               /\ lines[Len(lines)] = [NewLine(t) EXCEPT !.form = landed]
    <2> DEFINE L == [NewLine(t) EXCEPT !.form = landed]
    <2>1. L \in Line
      BY <1>2, <1>3, <1>7, PutAppends, Zenon
    <2>2. lines = Append(orig, L)
      BY <1>6, <1>7, Zenon
    <2> HIDE DEF L
    <2>3. /\ Len(lines) = Len(orig) + 1
          /\ DOMAIN lines = DOMAIN orig \cup {Len(lines)}
          /\ \A i \in DOMAIN orig : lines[i] = orig[i] /\ i < Len(lines)
          /\ lines[Len(lines)] = L
      BY <1>2, <2>1, <2>2
    <2> QED
      BY <2>3, Zenon DEF L
  <1> QED
    BY <1>1, <1>2, <1>3, <1>5, <1>6, <1>7, Zenon

\* What the extended lines satisfy, whole or torn.
LEMMA ExtendedChain ==
    ASSUME SafeUse, ChainInv, NEW t \in Threads, pc[t] = "write", landed # "none"
    PROVE  /\ \A i \in DOMAIN lines : Follows(lines, i) /\ lines[i].rec \in used
           /\ Ordered(lines)
           /\ \A s \in 1..Len(segs) : SegLines(lines, s) # {}
           /\ \A r \in acked : \E i \in DOMAIN lines :
                                    Readable(lines[i]) /\ lines[i].rec = r
           /\ \A i \in DOMAIN lines : lines[i].cid = id
           /\ lines # <<>> /\ LastHash(lines) = compute(head, rec[t])
           /\ landed = "whole" => \A i \in DOMAIN lines : Readable(lines[i])
           /\ lines[Len(lines)].rec = rec[t]
           /\ landed = "whole" => Readable(lines[Len(lines)])
  <1> DEFINE n == Len(lines)
  <1>1. /\ Stored = orig /\ guard /\ up
        /\ n = Len(orig) + 1
        /\ DOMAIN lines = DOMAIN orig \cup {n}
        /\ \A i \in DOMAIN orig : lines[i] = orig[i] /\ i < n
        /\ landed \in {"whole", "torn"}
        /\ \A i \in DOMAIN orig : orig[i].form = "whole"
        /\ orig \in Seq(Line) /\ segs \in Seq(Segment)
    BY Extends, Zenon DEF ChainInv, TypeOK
  <1>2. /\ lines[n].seg = Active /\ lines[n].form = landed
        /\ lines[n].rec = rec[t] /\ lines[n].prev = head
        /\ lines[n].hash = compute(head, rec[t]) /\ lines[n].cid = id
    <2>1. lines[n] = [NewLine(t) EXCEPT !.form = landed]
      BY Extends, Zenon
    <2> QED
      BY <2>1, Zenon DEF NewLine
  <1>3. head = LastHash(orig)
    BY <1>1, Zenon DEF ChainInv, HandleInv, HandleExtendsDisk
  <1>4. /\ \A i \in DOMAIN orig : Follows(orig, i) /\ orig[i].rec \in used
        /\ Ordered(orig)
        /\ \A s \in 1..Len(segs) : SegLines(orig, s) # {}
        /\ \A r \in acked : \E i \in DOMAIN orig :
                                Readable(orig[i]) /\ orig[i].rec = r
        /\ \A i \in DOMAIN orig : orig[i].cid = id
        /\ rec[t] \in used /\ \A i \in DOMAIN orig : orig[i].rec # rec[t]
    <2>1. FilesInv /\ HandleInv /\ CallInv(t)
      BY Zenon DEF ChainInv
    <2>2. rec[t] # NoRecord
      BY Zenon DEF ChainInv, TypeOK
    <2>3. \A i \in DOMAIN orig : orig[i].cid = id
      BY <1>1, <2>1, Zenon DEF HandleInv
    <2>4. rec[t] \in used /\ \A i \in DOMAIN orig : orig[i].rec # rec[t]
      BY <1>1, <2>1, <2>2, Zenon DEF CallInv
    <2> QED
      BY <1>1, <2>1, <2>3, <2>4, Zenon DEF FilesInv
  <1>13. id # NoId
    BY <1>1, Zenon DEF ChainInv, HandleInv
  <1> HIDE DEF n
  <1>5. n \in Nat /\ n > 0 /\ Len(orig) \in Nat /\ DOMAIN orig = 1..Len(orig)
    BY <1>1
  <1>6. ASSUME NEW i \in DOMAIN lines PROVE Follows(lines, i)
    <2>1. CASE i = n
      <3>1. lines[n].prev = IF n = 1 THEN Zero ELSE lines[n - 1].hash
        <4>1. CASE orig = <<>>
          BY <1>1, <1>2, <1>3, <4>1 DEF LastHash
        <4>2. CASE orig # <<>>
          <5>1. Len(orig) \in DOMAIN orig /\ n - 1 = Len(orig) /\ n # 1
            BY <1>1, <1>5, <4>2
          <5> QED
            BY <1>1, <1>2, <1>3, <4>2, <5>1, Zenon DEF LastHash
        <4> QED BY <4>1, <4>2, Zenon
      <3> QED
        BY <1>1, <1>2, <1>13, <2>1, <3>1, Zenon DEF Follows, n
    <2>2. CASE i \in DOMAIN orig
      <3>1. i = 1 \/ i - 1 \in DOMAIN orig
        BY <1>5, <2>2
      <3>2. i # 1 => lines[i - 1] = orig[i - 1]
        BY <1>1, <3>1, Zenon
      <3> QED
        BY <1>1, <1>4, <2>2, <3>2 DEF Follows
    <2> QED
      BY <1>1, <2>1, <2>2, Zenon
  <1>7. Ordered(lines)
    <2> SUFFICES ASSUME NEW i \in DOMAIN lines, NEW j \in DOMAIN lines, i <= j
                 PROVE  /\ 1 <= lines[i].seg /\ lines[i].seg <= lines[j].seg
                        /\ lines[j].seg <= Active
                        /\ lines[i].cid = lines[j].cid
                        /\ lines[i].rec = lines[j].rec => i = j
      BY Zenon DEF Ordered
    <2>1. CASE i \in DOMAIN orig /\ j \in DOMAIN orig
      <3>1. lines[i] = orig[i] /\ lines[j] = orig[j] /\ Ordered(orig)
        BY <1>1, <1>4, <2>1, Zenon
      <3> QED
        BY <2>1, <3>1 DEF Ordered
    <2>2. CASE i \in DOMAIN orig /\ j = n
      <3>1. i \in Nat /\ i <= i /\ i < n /\ n \in Nat /\ Ordered(orig)
        BY <1>1, <1>4, <1>5, <2>2
      <3>2. 1 <= orig[i].seg /\ orig[i].seg <= Active
        BY <2>2, <3>1, Zenon DEF Ordered
      <3>3. /\ lines[i] = orig[i] /\ lines[j].seg = Active
            /\ orig[i].cid = lines[j].cid /\ orig[i].rec # lines[j].rec
        BY <1>1, <1>2, <1>4, <2>2, Zenon
      <3>4. Active \in Nat
        BY <1>1 DEF Active
      <3> QED
        BY <3>2, <3>3, <3>4
    <2>3. CASE i = n /\ j = n
      <3>1. Active \in Nat /\ 1 <= Active
        BY <1>1 DEF Active
      <3> QED
        BY <1>2, <2>3, <3>1
    <2>4. CASE i = n /\ j \in DOMAIN orig
      BY <1>1, <1>5, <2>4
    <2> QED
      BY <1>1, <2>1, <2>2, <2>3, <2>4, Zenon
  <1>8. LastHash(lines) = compute(head, rec[t]) /\ lines # <<>>
    BY <1>1, <1>2 DEF LastHash, n
  <1>9. landed = "whole" => \A i \in DOMAIN lines : Readable(lines[i])
    BY <1>1, <1>2, Zenon DEF Readable
  <1>10. \A i \in DOMAIN lines : lines[i].rec \in used /\ lines[i].cid = id
    BY <1>1, <1>2, <1>4
  <1>11. \A s \in 1..Len(segs) : SegLines(lines, s) # {}
    BY <1>1, <1>4 DEF SegLines
  <1>12. \A r \in acked : \E i \in DOMAIN lines :
                                Readable(lines[i]) /\ lines[i].rec = r
    BY <1>1, <1>4, Zenon
  <1> QED
    BY <1>1, <1>2, <1>6, <1>7, <1>8, <1>9, <1>10, <1>11, <1>12, Zenon DEF n

-----------------------------------------------------------------------------
(* Steps that leave the settled lines alone. *)

\* Files that do not change stay one chain.
LEMMA FilesSame ==
    ASSUME FilesInv, Stored' = Stored, segs' = segs, used \subseteq used',
           acked' = acked
    PROVE  FilesInv'
  BY DEF FilesInv, Follows, Ordered, SegLines, Active, compute, Readable, NoId

\* A handle that does not change still agrees with unchanged files.
LEMMA HandleSame ==
    ASSUME HandleInv, Stored' = Stored, head' = head, id' = id, up' = up,
           guard' => guard
    PROVE  HandleInv'
  BY Zenon DEF HandleInv, HandleExtendsDisk, LastHash, Readable

\* Thread u is between two steps of its call while another one moves.
LEMMA CallSame ==
    ASSUME ChainInv, NEW u \in Threads, NEW t \in Threads, u # t,
           Stored' = Stored, segs' = segs, up' = up, used \subseteq used',
           pc'[u] = pc[u], rec'[u] = rec[u],
           rec'[t] = rec[t] \/ rec'[t] \notin used,
           \A v \in Threads \ {t} : rec'[v] = rec[v],
           pc[u] \in {"close", "rename"} => rotTs' = rotTs,
           pc[u] = "write" => /\ guard' = guard /\ lines' = lines /\ orig' = orig
                              /\ landed' = landed /\ head' = head /\ id' = id
    PROVE  CallInv(u)'
  <1>1. CallInv(u)
    BY Zenon DEF ChainInv
  <1>2. pc[u] = "write" => (lines = Put(orig, NewLine(u), landed))'
    BY <1>1, Zenon DEF CallInv, NewLine, Put, Terminated, Active, compute
  <1>3. rec[u] # NoRecord => rec[u] \in used /\ \A v \in Threads \ {u} : rec[v] # rec[u]
    BY <1>1, Zenon DEF CallInv
  <1>4. rec'[u] # NoRecord => \A v \in Threads \ {u} : rec'[v] # rec'[u]
    BY <1>3, Zenon
  <1>5. Active' = Active
    BY Zenon DEF Active
  <1> QED
    BY <1>1, <1>2, <1>3, <1>4, <1>5, Zenon DEF CallInv, SegLines

\* These steps preserve the invariant; a rotation starts only on a file that
\* holds a settled line, since the threshold is above one line.
LEMMA QuietStep ==
    ASSUME SafeUse, ChainInv, NEW t \in Threads,
           \/ NoRotation(t) \/ StartRotation(t) \/ CloseForRotation(t)
           \/ ReopenFails(t) \/ CheckSidecar(t) \/ Poison(t)
           \/ AppendUnavailable(t)
    PROVE  FilesInv' /\ HandleInv' /\ \A u \in Threads : CallInv(u)'
  <1>1. FilesInv'
    BY QuietFacts, FilesSame, Zenon DEF ChainInv
  <1>2. HandleInv'
    BY QuietFacts, HandleSame, Zenon DEF ChainInv
  <1>3. NoRecord \notin used
    BY AuditLogAssumption, Zenon DEF ChainInv, TypeOK
  <1>4. ASSUME NEW u \in Threads \ {t} PROVE CallInv(u)'
    <2>1. TypeOK
      BY Zenon DEF ChainInv
    <2> QED
      BY <1>3, <2>1, QuietFacts, CallSame, Zenon
  <1>5. CallInv(t)'
    <2>1. CallInv(t) /\ pc \in [Threads -> Locations]
          /\ rec \in [Threads -> Records \cup {NoRecord}]
      BY Zenon DEF ChainInv, TypeOK
    <2>2. /\ Stored' = Stored /\ segs' = segs /\ used' = used /\ up' = up
          /\ Active' = Active
          /\ \A u \in Threads \ {t} : rec'[u] = rec[u]
      BY QuietFacts, Zenon DEF Active, ChainInv
    <2>3. CASE pc'[t] = "idle" /\ rec'[t] = NoRecord
      BY <2>3, Zenon DEF CallInv
    <2>4. CASE NoRotation(t) \/ CheckSidecar(t)
      <3>1. rec' = rec /\ pc[t] # "idle"
            /\ pc'[t] \in {"sidecar", "lock", "poison"}
        BY <2>1, <2>4, Zenon DEF NoRotation, CheckSidecar, Goto
      <3> QED
        BY <2>1, <2>2, <3>1, Zenon DEF CallInv
    <2>5. CASE StartRotation(t)
      <3>1. rec' = rec /\ pc[t] = "check" /\ pc'[t] = "close"
        BY <2>1, <2>5, Zenon DEF StartRotation, Goto
      <3>2. rec[t] # NoRecord /\ Oversize
        BY <2>1, <2>5, <3>1, Zenon DEF StartRotation, CallInv
      <3>3. SegLines(Stored, Active) # {}
        <4>1. PICK i \in DOMAIN lines : lines[i].seg = Active
                                        /\ Len(lines) - i + 1 >= MaxLines
          BY <3>2, Zenon DEF Oversize
        <4>2. CASE ~InFlight
          BY <4>1, <4>2, Zenon DEF Stored, SegLines
        <4>3. CASE InFlight
          <5>1. PICK w \in Threads : pc[w] = "write"
            BY <4>3, Zenon DEF InFlight
          <5>2. i \in DOMAIN orig /\ lines[i] = orig[i]
            <6>1. i # Len(lines)
              BY <4>1, AuditLogAssumption DEF SafeUse, ChainInv, TypeOK
            <6>2. CASE landed = "none"
              BY <4>1, <5>1, <6>2, Extends, Zenon
            <6>3. CASE landed # "none"
              BY <4>1, <5>1, <6>1, <6>3, Extends, Zenon
            <6> QED
              BY <6>2, <6>3, Zenon
          <5> QED
            BY <4>1, <5>1, <5>2, Extends, Zenon DEF SegLines
        <4> QED
          BY <4>2, <4>3, Zenon
      <3>4. \A s \in 1..Len(segs) : segs[s].ts <= rotTs'
        <4>1. rotTs' \in Nat /\ (segs # <<>> => segs[Len(segs)].ts <= rotTs')
          <5>1. rotTs' \in Timestamps
            BY <2>5, Zenon DEF StartRotation
          <5> QED
            BY <5>1 DEF Timestamps, SafeUse
        <4> SUFFICES ASSUME NEW s \in 1..Len(segs) PROVE segs[s].ts <= rotTs'
          BY Zenon
        <4>2. segs \in Seq(Segment) /\ segs # <<>>
          BY DEF ChainInv, TypeOK
        <4>3. /\ Len(segs) \in 1..Len(segs) /\ s <= Len(segs)
              /\ segs[s].ts \in Nat /\ segs[Len(segs)].ts \in Nat
          BY <4>2, SegFields
        <4>4. segs[s].ts <= segs[Len(segs)].ts
          BY <4>3, Zenon DEF ChainInv, FilesInv
        <4> QED
          BY <4>1, <4>2, <4>3, <4>4
      <3> QED
        BY <2>1, <2>2, <3>1, <3>3, <3>4, Zenon DEF CallInv, SegLines
    <2>6. CASE CloseForRotation(t)
      <3>1. /\ pc[t] = "close"
            /\ \/ pc'[t] = "rename" /\ rec' = rec
               \/ pc'[t] = "idle" /\ rec'[t] = NoRecord
        <4>1. CASE Return(t)
          BY <2>1, <2>6, <4>1, Zenon DEF CloseForRotation, Return
        <4>2. CASE Goto(t, "rename") /\ UNCHANGED rec
          BY <2>1, <2>6, <4>2, Zenon DEF CloseForRotation, Goto
        <4> QED
          BY <2>6, <4>1, <4>2, Zenon DEF CloseForRotation
      <3>2. rotTs' = rotTs
        BY <2>6, Zenon DEF CloseForRotation
      <3> QED
        BY <2>1, <2>2, <2>3, <3>1, <3>2, Zenon DEF CallInv, SegLines
    <2>7. CASE ReopenFails(t) \/ Poison(t) \/ AppendUnavailable(t)
      BY <2>1, <2>3, <2>7, Zenon DEF ReopenFails, Poison, AppendUnavailable, Return
    <2> QED
      BY <2>4, <2>5, <2>6, <2>7, Zenon
  <1> QED
    BY <1>1, <1>2, <1>4, <1>5, Zenon

\* append is called.
LEMMA BeginStep ==
    ASSUME SafeUse, ChainInv, NEW t \in Threads, NEW r \in Records, BeginAppend(t, r)
    PROVE  ChainInv'
  <1> USE DEF BeginAppend, Goto, disk, handle, calls
  <1>1. TypeOK'
    BY TypeBegin, Zenon DEF ChainInv
  <1>2. pc \in [Threads -> Locations] /\ rec \in [Threads -> Records \cup {NoRecord}]
    BY Zenon DEF ChainInv, TypeOK
  <1>3. Stored' = Stored
    BY StoredSame, Zenon DEF ChainInv
  <1>4. FilesInv'
    BY <1>3, FilesSame, Zenon DEF ChainInv
  <1>5. HandleInv'
    BY <1>3, HandleSame, Zenon DEF ChainInv
  <1>6. ASSUME NEW u \in Threads \ {t} PROVE CallInv(u)'
    BY <1>2, <1>3, CallSame, Zenon
  <1>7. CallInv(t)'
    <2>1. pc'[t] = "check" /\ rec'[t] = r /\ r # NoRecord /\ up'
      BY <1>2, AuditLogAssumption, Zenon
    <2>2. \A i \in DOMAIN Stored : Stored[i].rec \in used
      BY Zenon DEF ChainInv, FilesInv
    <2>3. \A u \in Threads \ {t} :
            rec'[u] = rec[u] /\ (rec[u] = NoRecord \/ rec[u] \in used)
      BY <1>2, Zenon DEF ChainInv, CallInv
    <2> QED
      BY <1>3, <2>1, <2>2, <2>3 DEF CallInv
  <1> QED
    BY <1>1, <1>4, <1>5, <1>6, <1>7, Zenon DEF ChainInv

-----------------------------------------------------------------------------
(* Rotation. *)

\* reopen_rotated appends one non-empty segment, newest by timestamp.
LEMMA RenameStep ==
    ASSUME SafeUse, ChainInv, NEW t \in Threads, Rename(t)
    PROVE  FilesInv' /\ HandleInv' /\ \A u \in Threads : CallInv(u)'
  <1>1. /\ pc[t] = "rename" /\ CallInv(t) /\ segs \in Seq(Segment)
        /\ pc \in [Threads -> Locations]
        /\ rec \in [Threads -> Records \cup {NoRecord}]
        /\ lines' = lines /\ orig' = orig /\ landed' = landed /\ used' = used
        /\ acked' = acked /\ head' = head /\ id' = id /\ up' = up
        /\ guard' = guard /\ rotTs' = rotTs
    BY Zenon DEF Rename, ChainInv, TypeOK
  <1>2. \A u \in Threads \ {t} : pc[u] \notin {"close", "rename", "reopen", "write"}
    BY <1>1, Zenon DEF ChainInv, TypeOK
  <1>3. ~InFlight /\ Stored = lines
    BY <1>1, <1>2, Zenon DEF InFlight, Stored
  <1>4. CASE Return(t) /\ UNCHANGED <<segs, present>>
    <2>1. Stored' = Stored
      BY <1>1, <1>4, StoredSame, Zenon DEF ChainInv, Return
    <2>2. NoRecord \notin used
      BY AuditLogAssumption, Zenon DEF ChainInv, TypeOK
    <2>3. FilesInv' /\ HandleInv'
      BY <1>1, <1>4, <2>1, FilesSame, HandleSame, Zenon DEF ChainInv
    <2>4. ASSUME NEW u \in Threads \ {t} PROVE CallInv(u)'
      BY <1>1, <1>4, <2>1, <2>2, CallSame, Zenon DEF Return
    <2>5. CallInv(t)'
      BY <1>1, <1>4, Zenon DEF CallInv, Return
    <2> QED
      BY <2>3, <2>4, <2>5, Zenon
  <1>5. CASE segs' = Append(segs, [ts |-> rotTs, cid |-> copied])
             /\ Goto(t, "reopen") /\ rec' = rec
    <2>1. Stored' = Stored
      BY <1>1, <1>5, StoredSame, Zenon DEF ChainInv, Goto
    <2> DEFINE x == [ts |-> rotTs, cid |-> copied]
    <2>2. /\ x \in Segment /\ x.ts = rotTs /\ rotTs \in Nat
      BY Zenon DEF ChainInv, TypeOK, Segment
    <2> HIDE DEF x
    <2>3. /\ Len(segs') = Len(segs) + 1 /\ segs' # <<>> /\ Len(segs) \in Nat
          /\ \A s \in 1..Len(segs) : segs'[s] = segs[s]
          /\ segs'[Len(segs) + 1] = x
      BY <1>1, <1>5, <2>2 DEF x
    <2>4. Active' = Active + 1 /\ Active = Len(segs) + 1
      BY <2>3, Zenon DEF Active
    <2>5. /\ SegLines(Stored, Active) # {}
          /\ \A s \in 1..Len(segs) : segs[s].ts <= rotTs
      BY <1>1, Zenon DEF CallInv
    <2>6. Stored \in Seq(Line) /\ \A i \in DOMAIN Stored : Stored[i].seg <= Active
                                          /\ Stored[i].seg \in Nat
      <3>1. Stored \in Seq(Line)
        BY <1>3, Zenon DEF ChainInv, TypeOK
      <3>2. Ordered(Stored)
        BY Zenon DEF ChainInv, FilesInv
      <3> QED
        BY <3>1, <3>2, LineFields DEF Ordered
    <2>7. FilesInv'
      <3>1. Ordered(Stored)'
        <4> SUFFICES ASSUME NEW i \in DOMAIN Stored, NEW j \in DOMAIN Stored, i <= j
                     PROVE  /\ 1 <= Stored[i].seg /\ Stored[i].seg <= Stored[j].seg
                            /\ Stored[j].seg <= Active'
                            /\ Stored[i].cid = Stored[j].cid
                            /\ Stored[i].rec = Stored[j].rec => i = j
          BY <2>1 DEF Ordered
        <4>1. /\ 1 <= Stored[i].seg /\ Stored[i].seg <= Stored[j].seg
              /\ Stored[j].seg <= Active
              /\ Stored[i].cid = Stored[j].cid
              /\ Stored[i].rec = Stored[j].rec => i = j
          BY Zenon DEF ChainInv, FilesInv, Ordered
        <4>2. Active \in Nat /\ Stored[j].seg \in Nat
          BY <2>3, <2>4, <2>6
        <4>3. Stored[j].seg <= Active'
          BY <4>1, <4>2, <2>4
        <4> QED
          BY <4>1, <4>3, Zenon
      <3>2. \A s \in 1..Len(segs') : SegLines(Stored, s) # {}
        <4>1. \A s \in 1..Len(segs) : SegLines(Stored, s) # {}
          BY Zenon DEF ChainInv, FilesInv
        <4> QED
          BY <4>1, <2>3, <2>4, <2>5
      <3>3. ASSUME NEW s \in 1..Len(segs'), NEW u \in 1..Len(segs'), s <= u
            PROVE  segs'[s].ts <= segs'[u].ts
        <4>1. CASE u \in 1..Len(segs)
          BY <2>3, <3>3, <4>1, SMTT(20) DEF ChainInv, FilesInv
        <4>2. CASE u = Len(segs) + 1 /\ s \in 1..Len(segs)
          BY <2>2, <2>3, <2>5, <4>2, Zenon
        <4>3. CASE u = Len(segs) + 1 /\ s = u
          BY <2>2, <2>3, <4>3
        <4> QED
          BY <2>3, <3>3, <4>1, <4>2, <4>3
      <3>4. \A i \in DOMAIN Stored : Follows(Stored, i) /\ Stored[i].rec \in used
        BY Zenon DEF ChainInv, FilesInv
      <3>5. (\A i \in DOMAIN Stored : Follows(Stored, i) /\ Stored[i].rec \in used)'
        BY <1>1, <2>1, <3>4, Zenon DEF Follows, compute, NoId
      <3>6. (\A r \in acked : \E i \in DOMAIN Stored :
                                Readable(Stored[i]) /\ Stored[i].rec = r)'
        BY <1>1, <2>1, Zenon DEF ChainInv, FilesInv, Readable
      <3>7. (\A s \in 1..Len(segs) : SegLines(Stored, s) # {})'
        BY <2>1, <3>2, Zenon DEF SegLines
      <3> QED
        BY <3>1, <3>3, <3>5, <3>6, <3>7, Zenon DEF FilesInv
    <2>8. HandleInv'
      BY <1>1, <2>1, HandleSame, Zenon DEF ChainInv
    <2>9. ASSUME NEW u \in Threads \ {t} PROVE CallInv(u)'
      <3>1. CallInv(u) /\ pc'[u] = pc[u]
        BY <1>1, <1>5, Zenon DEF ChainInv, Goto
      <3> QED
        BY <1>1, <1>2, <1>5, <2>1, <3>1, Zenon DEF CallInv
    <2>10. CallInv(t)'
      <3>1. pc'[t] = "reopen"
        BY <1>1, <1>5, Zenon DEF Goto
      <3>2. (SegLines(Stored, Active) = {})'
        BY <2>1, <2>3, <2>4, <2>6 DEF SegLines
      <3> QED
        BY <1>1, <1>5, <2>1, <2>3, <3>1, <3>2, Zenon DEF CallInv
    <2> QED
      BY <2>7, <2>8, <2>9, <2>10, Zenon
  <1> QED
    BY <1>4, <1>5, Zenon DEF Rename

\* The head that rotate_inner reloads is the one the chain ends with.
LEMMA ReopenStep ==
    ASSUME SafeUse, ChainInv, NEW t \in Threads, Reopen(t)
    PROVE  FilesInv' /\ HandleInv' /\ \A u \in Threads : CallInv(u)'
  <1>1. /\ pc[t] = "reopen" /\ CallInv(t) /\ TypeOK
        /\ pc \in [Threads -> Locations]
        /\ lines' = lines /\ orig' = orig /\ segs' = segs /\ used' = used
        /\ acked' = acked /\ up' = up /\ rec' = rec /\ rotTs' = rotTs
        /\ pc' = [pc EXCEPT ![t] = IF rec[t] = NoRecord THEN "idle" ELSE "sidecar"]
    BY Zenon DEF Reopen, ChainInv, TypeOK, Goto
  <1>2. /\ Stored = lines /\ SegLines(lines, Len(segs)) # {}
        /\ lines # <<>> /\ LastOf(Len(segs)) = Len(lines)
    BY <1>1, ReopenFacts, Zenon
  <1>3. Stored' = Stored /\ \A u \in Threads \ {t} : pc'[u] = pc[u] /\ pc[u] # "write"
    <2>1. \A u \in Threads \ {t} : pc'[u] = pc[u] /\ pc[u] # "write"
      BY <1>1, Zenon DEF TypeOK
    <2>2. Stored' = Stored
      BY <1>1, StoredSame, Zenon
    <2> QED
      BY <2>1, <2>2, Zenon
  <1>4. FilesInv'
    BY <1>1, <1>3, FilesSame, Zenon DEF ChainInv
  <1>5. head' = LastHash(lines) /\ Readable(lines[Len(lines)])
    BY <1>2, Zenon DEF Reopen, LoadFails, LoadedHead, LastHash
  <1>6. id' = id /\ up /\ id # NoId
    <2>1. Len(lines) \in DOMAIN lines
      BY <1>1, <1>2 DEF TypeOK
    <2>2. up /\ id # NoId /\ lines[Len(lines)].cid = id
      BY <1>1, <1>2, <2>1, Zenon DEF CallInv, ChainInv, HandleInv
    <2> QED
      BY <1>2, <2>2, Zenon DEF Reopen, LoadedId
  <1>7. \A i \in DOMAIN lines : Readable(lines[i])
    BY <1>2, <1>5, Zenon DEF ChainInv, FilesInv, Follows, Readable
  <1>8. HandleInv'
    <2>1. HandleExtendsDisk'
      BY <1>1, <1>2, <1>3, <1>5, <1>7, Zenon DEF HandleExtendsDisk, LastHash, Readable
    <2> QED
      BY <1>1, <1>3, <1>6, <2>1, Zenon DEF HandleInv, ChainInv
  <1>9. ASSUME NEW u \in Threads \ {t} PROVE CallInv(u)'
    BY <1>1, <1>3, CallSame, Zenon
  <1>10. CallInv(t)'
    BY <1>1, <1>3, <1>6, Zenon DEF CallInv
  <1> QED
    BY <1>4, <1>8, <1>9, <1>10, Zenon

-----------------------------------------------------------------------------
(* Writing a line. *)

\* While a line is written the settled lines are those before it.
LEMMA WriteStep ==
    ASSUME SafeUse, ChainInv, NEW t \in Threads, WriteLine(t)
    PROVE  FilesInv' /\ HandleInv' /\ \A u \in Threads : CallInv(u)'
  <1>1. /\ pc[t] = "lock" /\ fileLock = NoThread /\ guard /\ CallInv(t)
        /\ pc \in [Threads -> Locations]
        /\ pc' = [pc EXCEPT ![t] = "write"]
        /\ orig' = lines /\ lines' = Put(lines, NewLine(t), landed')
        /\ segs' = segs /\ up' = up /\ guard' = guard /\ head' = head /\ id' = id
        /\ rec' = rec /\ rotTs' = rotTs /\ used' = used /\ acked' = acked
    BY Zenon DEF WriteLine, Goto, ChainInv, TypeOK
  <1>2. Stored = lines /\ \A u \in Threads : pc[u] # "write"
    BY TypeOfWrite, Zenon DEF InFlight, ChainInv
  <1>3. Stored' = Stored
    BY <1>1, <1>2, Zenon DEF Stored, InFlight
  <1>4. FilesInv' /\ HandleInv'
    BY <1>1, <1>3, FilesSame, HandleSame, Zenon DEF ChainInv
  <1>5. ASSUME NEW u \in Threads \ {t} PROVE CallInv(u)'
    BY <1>1, <1>2, <1>3, CallSame, Zenon
  <1>6. CallInv(t)'
    <2>1. (lines = Put(orig, NewLine(t), landed))'
      BY <1>1, Zenon DEF Put, NewLine, Terminated, Active, compute
    <2> QED
      BY <1>1, <1>3, <2>1, Zenon DEF CallInv
  <1> QED
    BY <1>4, <1>5, <1>6, Zenon

\* The lines on disk form a chain whether a write in progress is counted or not.
LEMMA LinesChain ==
    ASSUME SafeUse, ChainInv
    PROVE  /\ \A i \in DOMAIN lines : Follows(lines, i) /\ lines[i].rec \in used
           /\ Ordered(lines)
           /\ \A s \in 1..Len(segs) : SegLines(lines, s) # {}
           /\ \A r \in acked : \E i \in DOMAIN lines :
                                    Readable(lines[i]) /\ lines[i].rec = r
           /\ up => \A i \in DOMAIN lines : lines[i].cid = id
  <1>1. CASE Stored = lines
    BY <1>1, Zenon DEF ChainInv, FilesInv, HandleInv
  <1>2. CASE Stored # lines
    <2>1. PICK t \in Threads : pc[t] = "write"
      BY <1>2, Zenon DEF Stored, InFlight
    <2>2. landed # "none"
      BY <1>2, <2>1, Extends, Zenon
    <2> QED
      BY <2>1, <2>2, ExtendedChain, Zenon
  <1> QED
    BY <1>1, <1>2, Zenon

\* The end of a write settles the lines; the calls of the others go on.
LEMMA SettleCalls ==
    ASSUME SafeUse, ChainInv, NEW t \in Threads, pc[t] = "write", Return(t),
           lines' \in {orig, lines}, segs' = segs, up' = up, used' = used,
           rotTs' = rotTs
    PROVE  Stored' = lines' /\ \A u \in Threads : CallInv(u)'
  <1>1. /\ pc \in [Threads -> Locations]
        /\ rec \in [Threads -> Records \cup {NoRecord}]
        /\ \A u \in Threads \ {t} : pc[u] \notin {"rename", "reopen", "write"}
    BY Zenon DEF ChainInv, TypeOK
  <1>2. /\ pc'[t] = "idle" /\ rec'[t] = NoRecord
        /\ \A u \in Threads \ {t} : pc'[u] = pc[u] /\ rec'[u] = rec[u]
    BY <1>1, Zenon DEF Return
  <1>3. Stored' = lines' /\ Stored = orig
    BY <1>1, <1>2, OneWriter, Zenon DEF Stored, InFlight, ChainInv
  <1>4. CallInv(t)'
    BY <1>2, Zenon DEF CallInv
  <1>5. ASSUME NEW u \in Threads \ {t} PROVE CallInv(u)'
    <2>1. CallInv(u) /\ CallInv(t) /\ rec[t] # NoRecord
      BY Zenon DEF ChainInv, TypeOK
    <2>2. /\ \A i \in DOMAIN lines' : \/ i \in DOMAIN orig /\ lines'[i] = orig[i]
                                      \/ lines'[i].rec = rec[t]
          /\ \A i \in DOMAIN orig : i \in DOMAIN lines' /\ lines'[i] = orig[i]
      <3>1. CASE lines' = orig
        BY <3>1, Zenon
      <3>2. CASE lines' = lines /\ landed = "none"
        BY <3>2, Extends, Zenon
      <3>3. CASE lines' = lines /\ landed # "none"
        <4>1. /\ DOMAIN lines = DOMAIN orig \cup {Len(lines)}
              /\ \A i \in DOMAIN orig : lines[i] = orig[i]
          BY <3>3, Extends, Zenon
        <4>2. lines[Len(lines)].rec = rec[t]
          BY <3>3, ExtendedChain, Zenon
        <4> QED
          BY <3>3, <4>1, <4>2, Zenon
      <3> QED
        BY <3>1, <3>2, <3>3, Zenon
    <2>3. rec'[u] # NoRecord =>
            /\ rec'[u] \in used'
            /\ \A i \in DOMAIN lines' : lines'[i].rec # rec'[u]
            /\ \A v \in Threads \ {u} : rec'[v] # rec'[u]
      BY <1>2, <1>3, <2>1, <2>2, Zenon DEF CallInv
    <2>4. pc'[u] = "close" => /\ SegLines(lines', Active') # {}
                              /\ \A s \in 1..Len(segs') : segs'[s].ts <= rotTs'
      <3> SUFFICES ASSUME pc'[u] = "close"
                   PROVE  /\ SegLines(lines', Active') # {}
                          /\ \A s \in 1..Len(segs') : segs'[s].ts <= rotTs'
        BY Zenon
      <3>1. Active' = Active /\ pc[u] = "close"
        BY <1>2, Zenon DEF Active
      <3>2. /\ SegLines(orig, Active) # {}
            /\ \A s \in 1..Len(segs) : segs[s].ts <= rotTs
        BY <1>3, <2>1, <3>1, Zenon DEF CallInv
      <3>3. PICK i \in DOMAIN orig : orig[i].seg = Active
        BY <3>2, Zenon DEF SegLines
      <3>4. i \in DOMAIN lines' /\ lines'[i].seg = Active'
        BY <2>2, <3>1, <3>3, Zenon
      <3>5. SegLines(lines', Active') # {}
        BY <3>4, Zenon DEF SegLines
      <3> QED
        BY <3>2, <3>5, Zenon
    <2>5. pc'[u] = "close" => (SegLines(Stored, Active))' # {}
      BY <1>3, <2>4, Zenon DEF SegLines
    <2> QED
      BY <1>1, <1>2, <1>3, <2>1, <2>3, <2>4, <2>5, Zenon DEF CallInv
  <1> QED
    BY <1>3, <1>4, <1>5, Zenon

\* An append that returns leaves one chain on disk, and a usable handle at its end.
LEMMA AppendStep ==
    ASSUME SafeUse, ChainInv, NEW t \in Threads, AppendOk(t) \/ AppendFails(t)
    PROVE  FilesInv' /\ HandleInv' /\ \A u \in Threads : CallInv(u)'
  <1>1. /\ pc[t] = "write" /\ Return(t) /\ lines' \in {orig, lines}
        /\ segs' = segs /\ up' = up /\ used' = used /\ rotTs' = rotTs /\ id' = id
    BY Zenon DEF AppendOk, AppendFails, Rollback, disk
  <1>2. Stored' = lines' /\ \A u \in Threads : CallInv(u)'
    BY <1>1, SettleCalls, Zenon
  <1>3. Stored = orig /\ orig \in Seq(Line) /\ up
    BY <1>1, Extends, Zenon DEF ChainInv, TypeOK
  <1>4. /\ \A i \in DOMAIN lines' : Follows(lines', i) /\ lines'[i].rec \in used
        /\ Ordered(lines')
        /\ \A s \in 1..Len(segs) : SegLines(lines', s) # {}
        /\ \A r \in acked : \E i \in DOMAIN lines' :
                                Readable(lines'[i]) /\ lines'[i].rec = r
        /\ \A i \in DOMAIN lines' : lines'[i].cid = id
    <2>1. CASE lines' = orig
      BY <1>3, <2>1, Zenon DEF ChainInv, FilesInv, HandleInv
    <2>2. CASE lines' = lines
      BY <1>3, <2>2, LinesChain, Zenon
    <2> QED
      BY <1>1, <2>1, <2>2, Zenon
  <1>5. \A r \in acked' : \E i \in DOMAIN lines' :
                                Readable(lines'[i]) /\ lines'[i].rec = r
    <2>1. CASE AppendOk(t)
      <3>1. landed # "none" /\ landed = "whole" /\ lines' = lines
            /\ acked' = acked \cup {rec[t]}
        BY <2>1, Zenon DEF AppendOk, Synced, disk
      <3>2. /\ lines # <<>> /\ lines[Len(lines)].rec = rec[t]
            /\ Readable(lines[Len(lines)]) /\ lines \in Seq(Line)
        BY <1>1, <3>1, ExtendedChain, Zenon DEF ChainInv, TypeOK
      <3>3. Len(lines) \in DOMAIN lines
        BY <3>2
      <3> QED
        BY <1>4, <3>1, <3>2, <3>3, Zenon
    <2>2. CASE AppendFails(t)
      BY <1>4, <2>2, Zenon DEF AppendFails
    <2> QED
      BY <2>1, <2>2, Zenon
  <1>6. FilesInv'
    <2>1. (\A i \in DOMAIN Stored : Follows(Stored, i) /\ Stored[i].rec \in used)'
      BY <1>1, <1>2, <1>4, Zenon DEF Follows, compute, NoId
    <2>2. Ordered(Stored)'
      <3>1. Active' = Active
        BY <1>1, Zenon DEF Active
      <3>2. Ordered(lines')
        BY <1>4, Zenon
      <3> HIDE DEF Active
      <3> QED
        BY <1>2, <3>1, <3>2 DEF Ordered
    <2>3. (\A s \in 1..Len(segs) : SegLines(Stored, s) # {})'
      BY <1>1, <1>2, <1>4, Zenon DEF SegLines
    <2>4. (\A s, u \in 1..Len(segs) : s <= u => segs[s].ts <= segs[u].ts)'
      BY <1>1, Zenon DEF ChainInv, FilesInv
    <2>5. (\A r \in acked : \E i \in DOMAIN Stored :
                                Readable(Stored[i]) /\ Stored[i].rec = r)'
      BY <1>2, <1>5, Zenon DEF Readable
    <2> QED
      BY <2>1, <2>2, <2>3, <2>4, <2>5, Zenon DEF FilesInv
  <1>7. HandleInv'
    <2>1. up' /\ id' # NoId /\ \A i \in DOMAIN Stored' : Stored'[i].cid = id'
      BY <1>1, <1>2, <1>3, <1>4, Zenon DEF ChainInv, HandleInv
    <2>2. HandleExtendsDisk'
      <3>1. CASE AppendOk(t)
        <4>1. landed # "none" /\ landed = "whole" /\ lines' = lines
              /\ head' = compute(head, rec[t])
          BY <3>1, Zenon DEF AppendOk, Synced, disk
        <4>2. /\ LastHash(lines) = compute(head, rec[t])
              /\ \A i \in DOMAIN lines : Readable(lines[i])
          BY <1>1, <4>1, ExtendedChain, Zenon
        <4> QED
          BY <1>2, <4>1, <4>2, Zenon DEF HandleExtendsDisk, LastHash, Readable
      <3>2. CASE AppendFails(t)
        BY <3>2, Zenon DEF AppendFails, FileAfterFailure, HandleExtendsDisk
      <3> QED
        BY <3>1, <3>2, Zenon
    <2> QED
      BY <2>1, <2>2, Zenon DEF HandleInv
  <1> QED
    BY <1>2, <1>6, <1>7, Zenon

-----------------------------------------------------------------------------
(* Processes stop and open the files again. *)

\* Whatever was being written when the process stops, the files are one chain.
LEMMA StopStep ==
    ASSUME SafeUse, ChainInv, Stop
    PROVE  ChainInv'
  <1>1. /\ lines' = lines /\ segs' = segs /\ used' = used /\ acked' = acked
        /\ up' = FALSE /\ guard' = FALSE
        /\ pc' = [t \in Threads |-> "idle"] /\ rec' = [t \in Threads |-> NoRecord]
    BY Zenon DEF Stop, disk
  <1>2. TypeOK'
    BY TypeStop, Zenon DEF ChainInv
  <1>3. Stored' = lines
    BY <1>1, Zenon DEF Stored, InFlight
  <1>4. FilesInv'
    <2>1. (\A i \in DOMAIN Stored : Follows(Stored, i) /\ Stored[i].rec \in used)'
      BY <1>1, <1>3, LinesChain, Zenon DEF Follows, compute, NoId
    <2>2. Ordered(Stored)'
      <3>1. Active' = Active
        BY <1>1, Zenon DEF Active
      <3>2. Ordered(lines) /\ Stored' = lines
        BY <1>3, LinesChain, Zenon
      <3> QED
        BY <3>1, <3>2 DEF Ordered
    <2>3. (\A s \in 1..Len(segs) : SegLines(Stored, s) # {})'
      BY <1>1, <1>3, LinesChain, Zenon DEF SegLines
    <2>4. (\A s, u \in 1..Len(segs) : s <= u => segs[s].ts <= segs[u].ts)'
      BY <1>1, Zenon DEF ChainInv, FilesInv
    <2>5. (\A r \in acked : \E i \in DOMAIN Stored :
                                Readable(Stored[i]) /\ Stored[i].rec = r)'
      BY <1>1, <1>3, LinesChain, Zenon DEF Readable
    <2> QED
      BY <2>1, <2>2, <2>3, <2>4, <2>5, Zenon DEF FilesInv
  <1>5. HandleInv'
    BY <1>1, Zenon DEF HandleInv, HandleExtendsDisk
  <1>6. \A u \in Threads : CallInv(u)'
    BY <1>1, Zenon DEF CallInv
  <1> QED
    BY <1>2, <1>4, <1>5, <1>6, Zenon DEF ChainInv

\* No thread is inside a call while no process holds the log.
LEMMA DownFacts ==
    ASSUME ChainInv, ~up
    PROVE  /\ \A u \in Threads : pc[u] = "idle" /\ rec[u] = NoRecord
           /\ ~InFlight /\ Stored = lines
  BY Zenon DEF ChainInv, CallInv, InFlight, Stored

\* A process that opens the files resumes at their last line.
LEMMA OpenStep ==
    ASSUME SafeUse, ChainInv, OpenOk
    PROVE  ChainInv'
  <1>1. /\ ~up /\ Verified /\ up' = TRUE /\ guard' = TRUE /\ present' = TRUE
        /\ head' = LoadedHead(HeadSeg, Zero)
        /\ lines' = lines /\ segs' = segs /\ rotLock' = rotLock
        /\ fileLock' = fileLock /\ pc' = pc /\ rec' = rec /\ rotTs' = rotTs
        /\ orig' = orig /\ landed' = landed /\ used' = used /\ acked' = acked
    BY Zenon DEF OpenOk, calls
  <1>2. /\ \A u \in Threads : pc[u] = "idle" /\ rec[u] = NoRecord
        /\ ~InFlight /\ Stored = lines
    BY <1>1, DownFacts, Zenon
  <1>3. Stored' = lines
    BY <1>1, <1>2, Zenon DEF Stored, InFlight
  <1>4. /\ HeadSeg \in 1..Active
        /\ HeadSeg # Active => segs[HeadSeg] \in Segment
        /\ lines = <<>> => SegLines(lines, HeadSeg) = {}
        /\ lines # <<>> => /\ SegLines(lines, HeadSeg) # {}
                           /\ LastOf(HeadSeg) = Len(lines)
                           /\ lines[Len(lines)] \in Line
    BY <1>2, HeadSegLast, Zenon DEF ChainInv
  <1>6. head' = LastHash(lines) /\ head' \in Seq(Records)
    <2>1. CASE lines = <<>>
      <3>1. LoadedHead(HeadSeg, Zero) = Zero
        BY <1>4, <2>1, Zenon DEF LoadedHead
      <3>2. LastHash(lines) = Zero
        BY <2>1, Zenon DEF LastHash
      <3>3. Zero \in Seq(Records)
        BY DEF Zero
      <3> QED
        BY <1>1, <3>1, <3>2, <3>3, Zenon
    <2>2. CASE lines # <<>>
      <3>1. lines[Len(lines)].hash \in Seq(Records)
        BY <1>4, <2>2, Zenon DEF Line
      <3> QED
        BY <1>1, <1>4, <2>2, <3>1, Zenon DEF LoadedHead, LastHash
    <2> QED
      BY <2>1, <2>2, Zenon
  <1>7. LoadedId(HeadSeg, NoId) = IF lines = <<>> THEN NoId ELSE lines[Len(lines)].cid
    BY <1>4, Zenon DEF LoadedId
  <1>9. /\ id' # NoId
        /\ LoadedId(HeadSeg, NoId) # NoId => id' = LoadedId(HeadSeg, NoId)
    BY OpenedIds, Zenon DEF OpenOk, OpenedId, ChainInv
  <1>10. \A i \in DOMAIN lines : Readable(lines[i])
    BY <1>1, Zenon DEF Verified
  <1>11. \A i \in DOMAIN lines : lines[i].cid # NoId
    BY <1>2, Zenon DEF ChainInv, FilesInv, Follows
  <1>12. \A i \in DOMAIN lines : lines[i].cid = id'
    <2> SUFFICES ASSUME NEW i \in DOMAIN lines PROVE lines[i].cid = id'
      BY Zenon
    <2>1. lines # <<>> /\ Len(lines) \in DOMAIN lines
      BY DEF ChainInv, TypeOK
    <2>2. lines[i].cid = lines[Len(lines)].cid
      BY <1>1, <2>1, Zenon DEF Verified
    <2> QED
      BY <1>7, <1>9, <1>11, <2>1, <2>2, Zenon
  <1>13. TypeOK'
    BY TypeOpen, Zenon DEF ChainInv
  <1>14. FilesInv'
    BY <1>1, <1>2, <1>3, FilesSame, Zenon DEF ChainInv
  <1>15. HandleInv'
    <2>1. HandleExtendsDisk'
      BY <1>3, <1>6, <1>10, Zenon DEF HandleExtendsDisk, LastHash, Readable, Zero
    <2> QED
      BY <1>1, <1>3, <1>9, <1>12, <2>1, Zenon DEF HandleInv, NoId
  <1>16. \A u \in Threads : CallInv(u)'
    BY <1>1, <1>2, Zenon DEF CallInv
  <1> QED
    BY <1>13, <1>14, <1>15, <1>16, Zenon DEF ChainInv

\* Opening is refused, or the sidecar is lost: lines and handle stay.
LEMMA IdleStep ==
    ASSUME ChainInv, OpenRefused \/ LoseSidecar \/ UNCHANGED vars
    PROVE  ChainInv'
  <1>1. UNCHANGED <<lines, segs, handle, calls>>
    BY Zenon DEF OpenRefused, LoseSidecar, vars, disk
  <1>6. TypeOK'
    BY TypeIdle, Zenon DEF ChainInv
  <1>7. Stored' = Stored
    BY <1>1, Zenon DEF Stored, InFlight, calls
  <1>8. FilesInv' /\ HandleInv'
    BY <1>1, <1>7, FilesSame, HandleSame, Zenon DEF ChainInv, handle, calls
  <1>9. ASSUME NEW u \in Threads PROVE CallInv(u)'
    <2>1. CallInv(u)
      BY Zenon DEF ChainInv
    <2>2. NewLine(u)' = NewLine(u)
      BY <1>1, Zenon DEF NewLine, Active, compute, handle, calls
    <2>3. pc[u] = "write" => (lines = Put(orig, NewLine(u), landed))'
      BY <1>1, <2>1, <2>2, Zenon DEF CallInv, Put, Terminated, Active, calls
    <2> QED
      BY <1>1, <1>7, <2>1, <2>3, Zenon DEF CallInv, SegLines, Active, handle, calls
  <1> QED
    BY <1>6, <1>8, <1>9, Zenon DEF ChainInv

-----------------------------------------------------------------------------
(* The invariant. *)

\* The empty directory satisfies the invariant.
LEMMA ChainInit == Init => ChainInv
  <1> SUFFICES ASSUME Init PROVE ChainInv
    BY Zenon
  <1> USE DEF Init
  <1>1. Stored = <<>> /\ ~InFlight
    BY Zenon DEF Stored, InFlight
  <1>3. TypeOK
    BY TypeInit, Zenon
  <1>4. FilesInv
    <2>1. Stored = <<>> /\ segs = <<>> /\ acked = {}
      BY <1>1, Zenon
    <2>2. DOMAIN Stored = {} /\ 1..Len(segs) = {}
      BY <2>1
    <2> HIDE DEF Init
    <2> QED
      BY <2>1, <2>2, Zenon DEF FilesInv, Ordered
  <1>5. HandleInv
    BY Zenon DEF HandleInv, HandleExtendsDisk
  <1>6. \A t \in Threads : CallInv(t)
    BY Zenon DEF CallInv
  <1> QED
    BY <1>3, <1>4, <1>5, <1>6, Zenon DEF ChainInv

\* Every step of every thread, of the process and of the files preserves it.
LEMMA ChainNext ==
    ASSUME SafeUse, ChainInv, [Next]_vars
    PROVE  ChainInv'
  <1>1. ASSUME NEW t \in Threads, Step(t) PROVE ChainInv'
    <2>1. TypeOK'
      BY <1>1, TypeStep, Zenon DEF ChainInv
    <2>2. FilesInv' /\ HandleInv' /\ \A u \in Threads : CallInv(u)'
      BY <1>1, QuietStep, RenameStep, ReopenStep, WriteStep, AppendStep, Zenon DEF Step
    <2> QED
      BY <2>1, <2>2, Zenon DEF ChainInv
  <1>2. ASSUME NEW t \in Threads, NEW r \in Records, BeginAppend(t, r) PROVE ChainInv'
    BY <1>2, BeginStep, Zenon
  <1>3. ASSUME NEW t \in Threads, NEW r \in Rotations, BeginRotate(t, r) PROVE FALSE
    BY <1>3, Zenon DEF SafeUse
  <1> QED
    BY <1>1, <1>2, <1>3, OpenStep, StopStep, IdleStep, Zenon DEF Next

\* Under SafeUse: whatever the threads interleave, wherever writes, syncs,
\* renames and truncations fail and processes stop, the files hold one chain
\* and an open handle continues it (append, rotate_inner, open_internal).
THEOREM ChainInvariant == SafeUse => (Spec => []ChainInv)
  <1> SUFFICES ASSUME SafeUse PROVE Spec => []ChainInv
    BY Zenon
  <1>1. Init => ChainInv
    BY ChainInit, Zenon
  <1>2. ChainInv /\ [Next]_vars => ChainInv'
    BY ChainNext, Zenon
  <1> QED
    BY <1>1, <1>2, PTL DEF Spec

-----------------------------------------------------------------------------
(* What follows from the invariant. *)

\* An open handle continues the chain at its end, for any number of threads.
THEOREM HandleAlwaysExtendsDisk == SafeUse => (Spec => []HandleExtendsDisk)
  <1> SUFFICES ASSUME SafeUse PROVE Spec => []HandleExtendsDisk
    BY Zenon
  <1>1. ChainInv => HandleExtendsDisk
    BY Zenon DEF ChainInv, HandleInv
  <1> QED
    BY <1>1, ChainInvariant, PTL

\* Under the invariant the order in which segments are read back is the order
\* in which lines were written.
LEMMA ReadInWriteOrder ==
    ASSUME ChainInv, Ordered(lines), NEW i \in DOMAIN lines, NEW j \in DOMAIN lines
    PROVE  LineBefore(i, j) <=> i < j
  <1>1. lines \in Seq(Line) /\ segs \in Seq(Segment)
    BY Zenon DEF ChainInv, TypeOK
  <1>2. /\ i \in Nat /\ j \in Nat /\ Active = Len(segs) + 1 /\ Len(segs) \in Nat
        /\ lines[i].seg \in 1..Active /\ lines[j].seg \in 1..Active
    BY <1>1, LineFields DEF Ordered, Active
  <1>3. ASSUME NEW s \in 1..Active, NEW u \in 1..Active
        PROVE  SegBefore(s, u) <=> s < u
    <2>1. \A v \in 1..Len(segs) : segs[v].ts \in Nat
      BY <1>1, SegFields, Zenon
    <2>2. \A v, w \in 1..Len(segs) : v <= w => segs[v].ts <= segs[w].ts
      BY Zenon DEF ChainInv, FilesInv
    <2>3. CASE s = Active \/ u = Active
      BY <1>2, <2>3 DEF SegBefore
    <2>4. CASE s \in 1..Len(segs) /\ u \in 1..Len(segs)
      <3>1. s <= u => segs[s].ts <= segs[u].ts
        BY <2>2, <2>4, Zenon
      <3>2. u <= s => segs[u].ts <= segs[s].ts
        BY <2>2, <2>4, Zenon
      <3> QED
        BY <1>2, <2>1, <2>4, <3>1, <3>2 DEF SegBefore
    <2> QED
      BY <1>2, <2>3, <2>4
  <1>4. SegBefore(lines[i].seg, lines[j].seg) <=> lines[i].seg < lines[j].seg
    BY <1>2, <1>3, Zenon
  <1>5. i <= j => lines[i].seg <= lines[j].seg
    BY Zenon DEF Ordered
  <1>6. j <= i => lines[j].seg <= lines[i].seg
    BY Zenon DEF Ordered
  <1>7. lines[i].seg \in Nat /\ lines[j].seg \in Nat
    BY <1>2
  <1>8. CASE lines[i].seg = lines[j].seg
    BY <1>2, <1>4, <1>7, <1>8 DEF LineBefore
  <1>9. CASE lines[i].seg # lines[j].seg
    <2>1. LineBefore(i, j) <=> SegBefore(lines[i].seg, lines[j].seg)
      BY <1>9, Zenon DEF LineBefore
    <2> QED
      BY <1>2, <1>4, <1>5, <1>6, <1>7, <1>9, <2>1
  <1> QED
    BY <1>8, <1>9, Zenon

\* The files of an interrupted or running log without a torn line verify.
THEOREM AlwaysReopensOwnLog == SafeUse => (Spec => []ReopensOwnLog)
  <1> SUFFICES ASSUME SafeUse PROVE Spec => []ReopensOwnLog
    BY Zenon
  <1>1. ChainInv => ReopensOwnLog
    <2> SUFFICES ASSUME ChainInv, \A i \in DOMAIN lines : Readable(lines[i]),
                        NEW j \in DOMAIN lines
                 PROVE  /\ lines[j].prev = ExpectedPrev(j)
                        /\ lines[j].hash = compute(lines[j].prev, lines[j].rec)
                        /\ \A i \in DOMAIN lines : lines[i].cid = lines[j].cid
      BY Zenon DEF ReopensOwnLog, Verified
    <2>1. Ordered(lines) /\ Follows(lines, j) /\ lines \in Seq(Line)
      BY LinesChain, Zenon DEF ChainInv, TypeOK
    <2>2. j \in Nat /\ j >= 1 /\ DOMAIN lines \subseteq Nat
          /\ \A i \in DOMAIN lines : 1 <= i /\ (i <= j => i \in DOMAIN lines)
          /\ (j # 1 => j - 1 \in DOMAIN lines)
      BY <2>1
    <2> DEFINE earlier == {i \in DOMAIN lines : LineBefore(i, j)}
    <2>3. earlier = {i \in DOMAIN lines : i < j}
      BY <2>1, ReadInWriteOrder, Zenon
    <2>4. CASE j = 1
      <3>1. earlier = {}
        BY <2>2, <2>3, <2>4
      <3> QED
        BY <2>1, <2>2, <2>4, <3>1, Zenon DEF ExpectedPrev, Follows, Ordered
    <2>5. CASE j # 1
      <3>1. j - 1 \in earlier /\ earlier # {}
        BY <2>2, <2>3, <2>5
      <3>2. \A k \in earlier \ {j - 1} : LineBefore(k, j - 1)
        BY <2>1, <2>2, <2>3, <3>1, ReadInWriteOrder
      <3>3. ASSUME NEW i \in earlier, \A k \in earlier \ {i} : LineBefore(k, i)
            PROVE  i = j - 1
        <4> SUFFICES ASSUME i # j - 1 PROVE FALSE
          BY Zenon
        <4>1. LineBefore(j - 1, i)
          BY <3>1, <3>3, Zenon
        <4>2. j - 1 < i
          BY <2>1, <2>2, <2>3, <3>1, <4>1, ReadInWriteOrder, Zenon
        <4> QED
          BY <2>2, <2>3, <4>2
      <3>4. (CHOOSE i \in earlier : \A k \in earlier \ {i} : LineBefore(k, i)) = j - 1
        BY <3>1, <3>2, <3>3, Zenon
      <3>5. ExpectedPrev(j) = lines[j - 1].hash
        BY <3>1, <3>4, Zenon DEF ExpectedPrev
      <3> QED
        BY <2>1, <2>2, <2>5, <3>5 DEF Follows, Ordered
    <2> QED
      BY <2>4, <2>5, Zenon
  <1> QED
    BY <1>1, ChainInvariant, PTL

-----------------------------------------------------------------------------
(* The log implements the trail. *)

\* The trail is a function of the settled lines.
LEMMA TrailSame ==
    ASSUME Stored' = Stored
    PROVE  Trail' = Trail
  BY Zenon DEF Trail, Readable

\* What the trail becomes when the line being written settles as it is.
LEMMA TrailExtends ==
    ASSUME SafeUse, ChainInv, NEW t \in Threads, pc[t] = "write", Stored' = lines
    PROVE  /\ landed # "whole" => Trail' = Trail
           /\ landed = "whole" => /\ rec[t] \in Records
                                  /\ Trail' = Append(Trail, rec[t])
                                  /\ \A i \in DOMAIN Trail : Trail[i] # rec[t]
  <1> DEFINE n == Len(orig)
  <1>1. /\ Stored = orig /\ orig \in Seq(Line) /\ rec[t] \in Records
        /\ \A i \in DOMAIN orig : Readable(orig[i])
        /\ \A i \in DOMAIN orig : orig[i].rec # rec[t]
        /\ n \in Nat /\ DOMAIN orig = 1..n
    <2>1. /\ Stored = orig /\ orig \in Seq(Line) /\ rec[t] \in Records
          /\ \A i \in DOMAIN orig : Readable(orig[i])
      BY Extends, Zenon DEF ChainInv, TypeOK, Readable
    <2>2. rec[t] # NoRecord /\ CallInv(t)
      BY Zenon DEF ChainInv, TypeOK
    <2>3. \A i \in DOMAIN orig : orig[i].rec # rec[t]
      BY <2>1, <2>2, Zenon DEF CallInv
    <2> QED
      BY <2>1, <2>3
  <1>2. Trail = [i \in 1..n |-> orig[i].rec]
    <2>1. orig # <<>> => n \in DOMAIN orig
      BY <1>1
    <2> QED
      BY <1>1, <2>1, Zenon DEF Trail
  <1>3. CASE landed = "none"
    BY <1>1, <1>3, Extends, TrailSame, Zenon
  <1>4. CASE landed # "none"
    <2>1. /\ Len(lines) = n + 1 /\ lines # <<>>
          /\ \A i \in 1..n : lines[i] = orig[i]
          /\ lines[n + 1].rec = rec[t]
          /\ landed = "whole" => Readable(lines[n + 1])
          /\ landed \in {"whole", "torn"}
      <3>1. /\ Len(lines) = n + 1 /\ landed \in {"whole", "torn"}
            /\ \A i \in DOMAIN orig : lines[i] = orig[i]
        BY <1>4, Extends, Zenon
      <3>2. /\ lines # <<>> /\ lines[Len(lines)].rec = rec[t]
            /\ landed = "whole" => Readable(lines[Len(lines)])
        BY <1>4, ExtendedChain, Zenon
      <3> QED
        BY <1>1, <3>1, <3>2, Zenon
    <2>2. CASE landed = "torn"
      <3>1. ~Readable(lines[n + 1])
        <4>1. lines[Len(lines)] = [NewLine(t) EXCEPT !.form = landed]
          BY <1>4, Extends, Zenon
        <4> QED
          BY <2>1, <2>2, <4>1, Zenon DEF Readable, NewLine
      <3>2. Trail' = [i \in 1..n |-> lines[i].rec]
        BY <1>1, <2>1, <3>1 DEF Trail, Readable
      <3>3. [i \in 1..n |-> lines[i].rec] = [i \in 1..n |-> orig[i].rec]
        BY <2>1, Zenon
      <3>4. Trail' = Trail
        BY <1>2, <3>2, <3>3, Zenon
      <3> QED
        BY <2>2, <3>4, Zenon
    <2>3. CASE landed = "whole"
      <3>1. Trail' = [i \in 1..(n + 1) |-> lines[i].rec]
        BY <1>1, <2>1, <2>3, Zenon DEF Trail, Readable
      <3>2. Trail \in Seq(Records)
        BY <1>1, <1>2, LineFields
      <3>3. Trail' = Append(Trail, rec[t])
        <4>1. Len(Trail) = n
          BY <1>1, <1>2
        <4> QED
          BY <1>1, <1>2, <2>1, <3>1, <3>2, <4>1
      <3> QED
        BY <1>1, <1>2, <2>3, <3>3, Zenon
    <2> QED
      BY <2>1, <2>2, <2>3, Zenon
  <1> QED
    BY <1>3, <1>4, Zenon

\* A step outside a write leaves the settled lines as they are.
LEMMA StoredKept ==
    ASSUME SafeUse, ChainInv, Next,
           ~ \E t \in Threads : AppendOk(t) \/ AppendFails(t), ~Stop
    PROVE  Stored' = Stored /\ acked' = acked
  <1>1. ASSUME NEW t \in Threads, Rename(t) \/ Reopen(t)
        PROVE  Stored' = Stored /\ acked' = acked
    <2>1. /\ pc[t] # "write" /\ lines' = lines /\ orig' = orig /\ acked' = acked
          /\ \E x : x # "write" /\ pc' = [pc EXCEPT ![t] = x]
      BY <1>1, Zenon DEF Rename, Reopen, Goto, Return
    <2> QED
      BY <2>1, StoredSame, Zenon DEF ChainInv
  <1>2. ASSUME NEW t \in Threads, WriteLine(t)
        PROVE  Stored' = Stored /\ acked' = acked
    <2>1. Stored = lines /\ orig' = lines /\ acked' = acked
      BY <1>2, TypeOfWrite, Zenon DEF WriteLine, ChainInv
    <2>2. InFlight'
      BY <1>2, Zenon DEF WriteLine, Goto, InFlight, ChainInv, TypeOK
    <2> QED
      BY <2>1, <2>2, Zenon DEF Stored
  <1>3. ASSUME NEW t \in Threads, NEW r \in Records, BeginAppend(t, r)
        PROVE  Stored' = Stored /\ acked' = acked
    BY <1>3, StoredSame, Zenon DEF BeginAppend, Goto, disk, ChainInv
  <1>4. ASSUME NEW t \in Threads, NEW r \in Rotations, BeginRotate(t, r) PROVE FALSE
    BY <1>4, Zenon DEF SafeUse
  <1>5. ASSUME OpenOk \/ OpenRefused \/ LoseSidecar
        PROVE  Stored' = Stored /\ acked' = acked
    BY <1>5, Zenon DEF OpenOk, OpenRefused, LoseSidecar, calls, Stored, InFlight
  <1> QED
    BY <1>1, <1>2, <1>3, <1>4, <1>5, QuietFacts, Zenon DEF ChainInv, Next, Step

\* Every behaviour of the log, with its rotations, failures and restarts, is
\* one of the trail: records are only ever added at its end, each once.
THEOREM LogImplementsTrail == SafeUse => (Spec => ImplementsTrail)
  <1> SUFFICES ASSUME SafeUse PROVE Spec => ImplementsTrail
    BY Zenon
  <1>1. Init => Promise!TrailInit
    BY DEF Init, Promise!TrailInit, Trail, Stored, InFlight
  <1>2. ChainInv /\ [Next]_vars => [Promise!TrailNext]_<<Trail, acked>>
    <2> SUFFICES ASSUME ChainInv, [Next]_vars
                 PROVE  \/ \E r \in Records : Promise!Acknowledge(r) \/ Promise!Linger(r)
                        \/ Trail' = Trail /\ acked' = acked
      BY Zenon DEF Promise!TrailNext
    <2>1. CASE UNCHANGED vars
      BY <2>1, TrailSame, Zenon DEF vars, disk, calls, Stored, InFlight
    <2>2. ASSUME NEW t \in Threads, AppendOk(t)
          PROVE  \E r \in Records : Promise!Acknowledge(r)
      <3>1. /\ pc[t] = "write" /\ landed = "whole" /\ lines' = lines
            /\ acked' = acked \cup {rec[t]} /\ Stored' = lines
        BY <2>2, SettleCalls, Zenon DEF AppendOk, Synced, disk
      <3> QED
        BY <3>1, TrailExtends, Zenon DEF Promise!Acknowledge, Promise!Extend
    <2>3. ASSUME NEW t \in Threads, AppendFails(t)
          PROVE  \/ \E r \in Records : Promise!Linger(r)
                 \/ Trail' = Trail /\ acked' = acked
      <3>1. /\ pc[t] = "write" /\ lines' \in {orig, lines} /\ acked' = acked
            /\ Stored' = lines' /\ Stored = orig
        BY <2>3, SettleCalls, Extends, Zenon DEF AppendFails, Rollback
      <3>2. CASE lines' = orig
        BY <3>1, <3>2, TrailSame, Zenon
      <3>3. CASE lines' = lines
        BY <3>1, <3>3, TrailExtends, Zenon DEF Promise!Linger, Promise!Extend
      <3> QED
        BY <3>1, <3>2, <3>3, Zenon
    <2>4. CASE Stop
      <3>1. Stored' = lines /\ acked' = acked
        BY <2>4, Zenon DEF Stop, disk, Stored, InFlight
      <3>2. CASE InFlight
        <4>1. PICK t \in Threads : pc[t] = "write"
          BY <3>2, Zenon DEF InFlight
        <4> QED
          BY <3>1, <4>1, TrailExtends, Zenon DEF Promise!Linger, Promise!Extend
      <3>3. CASE ~InFlight
        BY <3>1, <3>3, TrailSame, Zenon DEF Stored
      <3> QED
        BY <3>2, <3>3, Zenon
    <2>5. CASE Next /\ ~Stop /\ ~ \E t \in Threads : AppendOk(t) \/ AppendFails(t)
      BY <2>5, StoredKept, TrailSame, Zenon
    <2> QED
      BY <2>1, <2>2, <2>3, <2>4, <2>5, Zenon
  <1> QED
    BY <1>1, <1>2, ChainInvariant, PTL DEF Spec, ImplementsTrail, Promise!TrailSpec
=============================================================================
