------------------------------ MODULE AuditLog ------------------------------
(***************************************************************************)
(* The hash-chained decision log of agentguard-core: DecisionLog           *)
(* (decision/log.rs) over HashChain (decision/chain.rs).  Several threads  *)
(* of one process call append and rotate on one handle; the process may    *)
(* stop at any point and another one opens the files it left behind.       *)
(*                                                                         *)
(* The files are kept as one sequence of lines in the order they were      *)
(* written, each tagged with its segment: segments 1..Len(segs) have been  *)
(* rotated away, segment Len(segs)+1 is the active path.  A rotation then  *)
(* only appends to segs.  The HMAC is taken to be free of collisions: the  *)
(* hash of a record is the sequence of records it commits to.              *)
(***************************************************************************)
EXTENDS Integers, Sequences

CONSTANTS
    Threads,        \* callers of one log handle
    Records,        \* decision records, each appended by one call
    MaxLines,       \* RotationConfig.max_bytes, counted in lines
    Tears,          \* how a write may be cut short, a subset of
                    \* {"torn", "noeol"}
    Rotations,      \* calls of rotate(), besides the rotations by size
    ClockMonotonic, \* whether the wall clock never steps back
    MaxTime,        \* bound on rotation timestamps
    MaxIds,         \* bound on the chain ids generated
    NoThread, NoRecord

ASSUME AuditLogAssumption ==
    /\ MaxLines \in Nat \ {0}   \* RotationConfig::parse refuses 0
    /\ Tears \subseteq {"torn", "noeol"}
    /\ ClockMonotonic \in BOOLEAN
    /\ MaxTime \in Nat /\ MaxIds \in Nat
    /\ NoThread \notin Threads /\ NoRecord \notin Records \cup Rotations
    /\ Records \cap Rotations = {}

VARIABLES
    \* what is on disk
    lines,      \* every line of every segment, in the order written
    segs,       \* the rotated segments: name timestamp, id in the sidecar
    present,    \* the active path exists
    sidecar,    \* the id in the active segment's sidecar, or NoId
    nextId,     \* the next chain id to be generated
    \* the open handle
    up,         \* a process holds the log open
    guard,      \* the Option<File> behind the file lock is Some
    head, id,   \* HashChainInner
    rotLock,    \* holder of rotation_lock
    fileLock,   \* holder of the file lock
    \* the calls
    pc, rec,    \* where each thread is, and the record it appends
    rotTs,      \* timestamp read by the rotation in progress, and the id it
    copied,     \* has copied next to the new name
    orig,       \* the lines up to original_len of the write in progress
    landed,     \* how much of that write reached the file
    used,       \* records some call has been given, calls of rotate made
    acked       \* records whose append returned Ok

disk == <<lines, segs, present, sidecar, nextId>>
handle == <<up, guard, head, id, rotLock, fileLock>>
calls == <<pc, rec, rotTs, copied, orig, landed, used, acked>>
vars == <<disk, handle, calls>>

NoId == 0
Zero == <<>>

\* HashChain::compute.
compute(prev, r) == Append(prev, r)

Active == Len(segs) + 1

\* A line is whole; or whole but for its newline; or torn, a prefix that
\* does not parse; or junk, two lines run together and terminated.
Forms == {"whole", "noeol", "torn", "junk"}

\* How much of a line a write may leave in the file.
Landings == {"none", "whole"} \cup Tears

Line == [seg: Nat, form: Forms, rec: Records,
         prev: Seq(Records), hash: Seq(Records), cid: Nat]

\* A rotated segment: the timestamp in its name, the id in its sidecar.
Segment == [ts: Nat, cid: Nat]

Readable(line) == line.form \in {"whole", "noeol"}
Terminated(line) == line.form \in {"whole", "junk"}

-----------------------------------------------------------------------------
(* Reading the files back. *)

SegLines(f, s) == {i \in DOMAIN f : f[i].seg = s}

\* The metadata length that rotate_if_needed compares with max_bytes; it is
\* read without the file lock, so it counts the bytes of a write in progress.
Oversize == \E i \in DOMAIN lines :
                /\ lines[i].seg = Active
                /\ Len(lines) - i + 1 >= MaxLines

\* rotation_order: rotated segments by timestamp, then by collision suffix
\* (which grows with the order of creation), the active path last.
SegBefore(s, u) ==
    \/ s < Active /\ u = Active
    \/ s < Active /\ u < Active /\ segs[s].ts < segs[u].ts
    \/ s < Active /\ u < Active /\ segs[s].ts = segs[u].ts /\ s < u

\* latest_rotated_log.
LatestRotated == CHOOSE s \in 1..Len(segs) :
                    \A u \in 1..Len(segs) \ {s} : SegBefore(u, s)

LineBefore(i, j) ==
    \/ SegBefore(lines[i].seg, lines[j].seg)
    \/ lines[i].seg = lines[j].seg /\ i < j

ExpectedPrev(j) ==
    LET earlier == {i \in DOMAIN lines : LineBefore(i, j)}
    IN  IF earlier = {} THEN Zero
        ELSE lines[CHOOSE i \in earlier :
                        \A k \in earlier \ {i} : LineBefore(k, i)].hash

\* verify_chain_paths over rotated_logs and the active path.
Verified ==
    \A j \in DOMAIN lines :
        /\ Readable(lines[j])
        /\ lines[j].prev = ExpectedPrev(j)
        /\ lines[j].hash = compute(lines[j].prev, lines[j].rec)
        /\ \A i \in DOMAIN lines : lines[i].cid = lines[j].cid

\* The last non-blank line of segment s, which load_head_from_file reads.
LastOf(s) == CHOOSE i \in SegLines(lines, s) :
                \A j \in SegLines(lines, s) : j <= i

\* load_head_from_file: an empty segment leaves the head as it was, a line
\* that does not parse is an error.
LoadFails(s) == SegLines(lines, s) # {} /\ ~Readable(lines[LastOf(s)])
LoadedHead(s, h) == IF SegLines(lines, s) = {} THEN h ELSE lines[LastOf(s)].hash
LoadedId(s, c) == IF SegLines(lines, s) = {} THEN c ELSE lines[LastOf(s)].cid

\* The lines after k of line L reached the active file.  A line that follows
\* an unterminated one continues it, and the two no longer parse.
Put(f, L, k) ==
    LET joins == f # <<>> /\ f[Len(f)].seg = Active /\ ~Terminated(f[Len(f)])
        base  == IF joins THEN SubSeq(f, 1, Len(f) - 1) ELSE f
        form  == IF ~joins THEN k ELSE IF k = "whole" THEN "junk" ELSE "torn"
    IN  IF k = "none" THEN f ELSE Append(base, [L EXCEPT !.form = form])

-----------------------------------------------------------------------------
Init ==
    /\ lines = <<>> /\ segs = <<>> /\ present = FALSE
    /\ sidecar = NoId /\ nextId = 1
    /\ up = FALSE /\ guard = FALSE /\ head = Zero /\ id = NoId
    /\ rotLock = NoThread /\ fileLock = NoThread
    /\ pc = [t \in Threads |-> "idle"]
    /\ rec = [t \in Threads |-> NoRecord]
    /\ rotTs = 0 /\ copied = NoId /\ orig = <<>> /\ landed = "none"
    /\ used = {} /\ acked = {}

\* Mutant: a rotation that fails keeps rotation_lock.
ReturnHoldingLock(t) ==
    /\ pc' = [pc EXCEPT ![t] = "idle"]
    /\ rec' = [rec EXCEPT ![t] = NoRecord]
    /\ fileLock' = IF fileLock = t THEN NoThread ELSE fileLock
    /\ UNCHANGED rotLock

\* A call of t ends and the locks it holds are released.
Return(t) ==
    /\ pc' = [pc EXCEPT ![t] = "idle"]
    /\ rec' = [rec EXCEPT ![t] = NoRecord]
    /\ rotLock' = IF rotLock = t THEN NoThread ELSE rotLock
    /\ fileLock' = IF fileLock = t THEN NoThread ELSE fileLock

Goto(t, label) == pc' = [pc EXCEPT ![t] = label]

(* Opening. *)

\* Mutant: open resumes from the active file only.
HeadSegActive == Active

\* The segment open_internal resumes from: the active file, or the newest
\* rotated one when the active file is empty.
HeadSeg == IF SegLines(lines, Active) = {} /\ segs # <<>>
           THEN LatestRotated ELSE Active

PriorSidecar == IF HeadSeg = Active THEN sidecar ELSE segs[HeadSeg].cid

\* The id in the file wins over the sidecar's (adopt_id); without either a
\* fresh one is made.
OpenedId ==
    IF LoadedId(HeadSeg, NoId) # NoId THEN LoadedId(HeadSeg, NoId)
    ELSE IF PriorSidecar # NoId THEN PriorSidecar ELSE nextId

NextId ==
    IF LoadedId(HeadSeg, NoId) = NoId /\ PriorSidecar = NoId THEN nextId + 1 ELSE nextId

\* open_internal, when every persisted segment verifies.  An id the sidecar
\* did not have is persisted.
OpenOk ==
    /\ ~up /\ Verified
    /\ up' = TRUE /\ guard' = TRUE /\ present' = TRUE
    /\ head' = LoadedHead(HeadSeg, Zero)
    /\ id' = OpenedId
    /\ sidecar' = IF PriorSidecar = NoId THEN OpenedId ELSE sidecar
    /\ nextId' = NextId
    /\ UNCHANGED <<lines, segs, rotLock, fileLock, calls>>

\* open_internal refuses: a segment does not verify, or the chain id cannot
\* be persisted, or only its directory cannot be synced.  The active path has
\* been created by then.
OpenRefused ==
    /\ ~up
    /\ ~Verified \/ PriorSidecar = NoId
    /\ present' = TRUE
    /\ \/ UNCHANGED <<sidecar, nextId>>
       \/ Verified /\ sidecar' = OpenedId /\ nextId' = NextId
    /\ UNCHANGED <<lines, segs, handle, calls>>

(* Calls. *)

\* append is called with a record.
BeginAppend(t, r) ==
    /\ up /\ pc[t] = "idle" /\ r \notin used
    /\ Goto(t, "check")
    /\ rec' = [rec EXCEPT ![t] = r]
    /\ used' = used \cup {r}
    /\ UNCHANGED <<disk, handle, rotTs, copied, orig, landed, acked>>

\* rotate is called (the library's entry point, and `agentguard audit rotate`).
BeginRotate(t, r) ==
    /\ up /\ pc[t] = "idle" /\ r \notin used
    /\ Goto(t, "check")
    /\ used' = used \cup {r}
    /\ UNCHANGED <<disk, handle, rec, rotTs, copied, orig, landed, acked>>

\* rotate_if_needed below the threshold.
NoRotation(t) ==
    /\ pc[t] = "check" /\ rec[t] # NoRecord /\ rotLock = NoThread
    /\ ~Oversize
    /\ Goto(t, "sidecar")
    /\ UNCHANGED <<disk, handle, rec, rotTs, copied, orig, landed, used, acked>>

Timestamps ==
    {ts \in 0..MaxTime :
        ClockMonotonic /\ segs # <<>> => segs[Len(segs)].ts <= ts}

\* rotate, or rotate_if_needed at the threshold: take rotation_lock and read
\* the clock for the new name.
StartRotation(t) ==
    /\ pc[t] = "check" /\ rotLock = NoThread
    /\ rec[t] = NoRecord \/ Oversize
    /\ rotLock' = t
    /\ rotTs' \in Timestamps
    /\ Goto(t, "close")
    /\ UNCHANGED <<disk, up, guard, head, id, fileLock,
                   rec, copied, orig, landed, used, acked>>

\* rotate_inner takes the file lock, drops the old file and copies the chain
\* id next to the new name.  The copy may fail, and needs a readable sidecar.
CloseForRotation(t) ==
    /\ pc[t] = "close" /\ fileLock = NoThread
    /\ guard' = FALSE
    /\ \/ /\ sidecar # NoId
          /\ fileLock' = t /\ copied' = sidecar
          /\ Goto(t, "rename")
          /\ UNCHANGED <<rec, rotLock>>
       \/ Return(t) /\ UNCHANGED copied
    /\ UNCHANGED <<disk, up, head, id, rotTs, orig, landed, used, acked>>

\* reopen_rotated renames the active path; it fails when there is none.
Rename(t) ==
    /\ pc[t] = "rename"
    /\ \/ /\ present
          /\ segs' = Append(segs, [ts |-> rotTs, cid |-> copied])
          /\ present' = FALSE
          /\ Goto(t, "reopen")
          /\ UNCHANGED <<rec, rotLock, fileLock>>
       \/ /\ Return(t)
          /\ UNCHANGED <<segs, present>>
    /\ copied' = NoId
    /\ UNCHANGED <<lines, sidecar, nextId, up, guard, head, id,
                   rotTs, orig, landed, used, acked>>

\* The rest of rotate_inner: open a fresh active file, reload the head from
\* the segment just renamed, and make the handle usable.
Reopen(t) ==
    /\ pc[t] = "reopen"
    /\ present' = TRUE
    /\ ~LoadFails(Len(segs))
    /\ head' = LoadedHead(Len(segs), head)
    /\ id' = LET c == LoadedId(Len(segs), id)
             IN  IF c = NoId THEN segs[Len(segs)].cid ELSE c
    /\ guard' = TRUE
    /\ rotLock' = NoThread /\ fileLock' = NoThread
    /\ Goto(t, IF rec[t] = NoRecord THEN "idle" ELSE "sidecar")
    /\ UNCHANGED <<lines, segs, sidecar, nextId, up,
                   rec, rotTs, copied, orig, landed, used, acked>>

\* The new active file cannot be opened; or it is there, and the renamed one
\* cannot be read or ends in a line that does not parse: the call fails and
\* the handle stays without a file.
ReopenFails(t) ==
    /\ pc[t] = "reopen"
    /\ present' \in BOOLEAN
    /\ Return(t)
    /\ UNCHANGED <<lines, segs, sidecar, nextId, up, guard, head, id,
                   rotTs, copied, orig, landed, used, acked>>

\* append checks the sidecar, without any lock, and rewrites it when it does
\* not hold the chain's id; that may fail before it is written, or after.
CheckSidecar(t) ==
    /\ pc[t] = "sidecar"
    /\ \/ /\ sidecar' = id
          /\ Goto(t, "lock")
       \/ /\ sidecar # id
          /\ sidecar' \in {sidecar, id}
          /\ Goto(t, "poison")
    /\ UNCHANGED <<lines, segs, present, nextId, handle,
                   rec, rotTs, copied, orig, landed, used, acked>>

\* The sidecar could not be written or synced: drop the file and fail.
Poison(t) ==
    /\ pc[t] = "poison" /\ fileLock = NoThread
    /\ guard' = FALSE
    /\ Return(t)
    /\ UNCHANGED <<disk, up, head, id, rotTs, copied, orig, landed, used, acked>>

\* The file is gone after a prior failure.
AppendUnavailable(t) ==
    /\ pc[t] = "lock" /\ fileLock = NoThread /\ ~guard
    /\ Return(t)
    /\ UNCHANGED <<disk, up, guard, head, id,
                   rotTs, copied, orig, landed, used, acked>>

\* The line of t's record, hashed onto the current head.
NewLine(t) ==
    [seg |-> Active, form |-> "whole", rec |-> rec[t],
     prev |-> head, hash |-> compute(head, rec[t]), cid |-> id]

\* append takes the file lock and writes its line; some of it reaches the file.
WriteLine(t) ==
    /\ pc[t] = "lock" /\ fileLock = NoThread /\ guard
    /\ fileLock' = t
    /\ orig' = lines
    /\ landed' \in Landings
    /\ lines' = Put(lines, NewLine(t), landed')
    /\ Goto(t, "write")
    /\ UNCHANGED <<segs, present, sidecar, nextId, up, guard, head, id, rotLock,
                   rec, rotTs, copied, used, acked>>

\* Mutant: the results of write_all and sync_all are ignored.
SyncedAlways == TRUE

\* write_all and sync_all may only return Ok with the whole line in the file.
Synced == landed = "whole"

\* Mutant: truncation goes one line too far.
RollbackTooFar == {SubSeq(orig, 1, Len(orig) - 1), lines}

\* write_line_durably truncates to original_len; the truncation may fail.
Rollback == {orig, lines}

\* Mutant: the file stays usable.
FileKept == guard

\* The Option<File> after a failed write: None.
FileAfterFailure == FALSE

\* The whole line is written and synced: the head advances, append returns Ok.
AppendOk(t) ==
    /\ pc[t] = "write" /\ Synced
    /\ head' = compute(head, rec[t])
    /\ acked' = acked \cup {rec[t]}
    /\ orig' = <<>> /\ landed' = "none"
    /\ Return(t)
    /\ UNCHANGED <<disk, up, guard, id, rotTs, copied, used>>

\* The write or the sync fails: truncate, drop the file, return the error.
AppendFails(t) ==
    /\ pc[t] = "write"
    /\ lines' \in Rollback
    /\ guard' = FileAfterFailure
    /\ orig' = <<>> /\ landed' = "none"
    /\ Return(t)
    /\ UNCHANGED <<segs, present, sidecar, nextId, up, head, id,
                   rotTs, copied, used, acked>>

(* The environment. *)

\* The process stops, wherever its threads are.
Stop ==
    /\ up
    /\ up' = FALSE /\ guard' = FALSE /\ head' = Zero /\ id' = NoId
    /\ rotLock' = NoThread /\ fileLock' = NoThread
    /\ pc' = [t \in Threads |-> "idle"]
    /\ rec' = [t \in Threads |-> NoRecord]
    /\ orig' = <<>> /\ landed' = "none" /\ copied' = NoId
    /\ UNCHANGED <<disk, rotTs, used, acked>>

\* The active sidecar is removed or damaged: open and append write it again.
LoseSidecar ==
    /\ sidecar # NoId /\ nextId <= MaxIds
    /\ sidecar' = NoId
    /\ UNCHANGED <<lines, segs, present, nextId, handle, calls>>

Step(t) ==
    \/ NoRotation(t) \/ StartRotation(t) \/ CloseForRotation(t)
    \/ Rename(t) \/ Reopen(t) \/ ReopenFails(t)
    \/ CheckSidecar(t) \/ Poison(t) \/ AppendUnavailable(t)
    \/ WriteLine(t) \/ AppendOk(t) \/ AppendFails(t)

Next ==
    \/ \E t \in Threads : Step(t)
    \/ \E t \in Threads, r \in Rotations : BeginRotate(t, r)
    \/ \E t \in Threads, r \in Records : BeginAppend(t, r)
    \/ OpenOk \/ OpenRefused \/ Stop \/ LoseSidecar

Spec == Init /\ [][Next]_vars

\* A thread that is inside a call keeps running: the locks are std Mutexes
\* held for a bounded number of file operations, which all return.
FairSpec == Spec /\ \A t \in Threads : WF_vars(Step(t))

-----------------------------------------------------------------------------
(* Correctness. *)

\* Some thread is between the first byte of its line and the end of append.
InFlight == \E t \in Threads : pc[t] = "write"

\* The lines on disk, without those of a write that may yet be rolled back.
Stored == IF InFlight THEN orig ELSE lines

LastHash(f) == IF f = <<>> THEN Zero ELSE f[Len(f)].hash

Locations == {"idle", "check", "close", "rename", "reopen", "sidecar",
              "poison", "lock", "write"}

\* The values of the variables, and who may hold which lock where: the file
\* lock covers close-to-reopen of a rotation and a write, rotation_lock a
\* rotation, which reopens only after it has renamed a segment.
TypeOK ==
    /\ lines \in Seq(Line) /\ orig \in Seq(Line)
    /\ segs \in Seq(Segment)
    /\ present \in BOOLEAN /\ up \in BOOLEAN /\ guard \in BOOLEAN
    /\ sidecar \in Nat /\ nextId \in Nat \ {0} /\ id \in Nat
    /\ head \in Seq(Records)
    /\ rotLock \in Threads \cup {NoThread}
    /\ fileLock \in Threads \cup {NoThread}
    /\ pc \in [Threads -> Locations]
    /\ rec \in [Threads -> Records \cup {NoRecord}]
    /\ rotTs \in Nat /\ copied \in Nat /\ landed \in Landings
    /\ used \subseteq Records \cup Rotations /\ acked \subseteq Records
    /\ \A t \in Threads :
        /\ pc[t] \in {"close", "rename", "reopen"} <=> rotLock = t
        /\ pc[t] \in {"rename", "reopen", "write"} <=> fileLock = t
        /\ pc[t] \in {"sidecar", "poison", "lock", "write"} => rec[t] # NoRecord
        /\ pc[t] = "reopen" => segs # <<>>

\* A handle that accepts appends continues the chain where the files end, and
\* no unreadable line is among them: not after a failed append, a rotation, or
\* a restart at any point (DecisionLog::append, rotate_inner, open_internal).
HandleExtendsDisk ==
    guard => /\ head = LastHash(Stored)
             /\ \A i \in DOMAIN Stored : Readable(Stored[i])

\* A record whose append returned Ok is on disk exactly once, in a line that
\* parses, through every later failure, rotation and restart.
AckedPersisted ==
    \A r \in acked :
        \E i \in DOMAIN Stored :
            /\ Readable(Stored[i]) /\ Stored[i].rec = r
            /\ \A j \in DOMAIN Stored \ {i} : Readable(Stored[j]) => Stored[j].rec # r

\* Files without a torn line always pass the verification that open_internal
\* runs over the rotated segments and the active file: the log never locks
\* its owner out.
ReopensOwnLog ==
    ~InFlight /\ (\A i \in DOMAIN lines : Readable(lines[i])) => Verified

\* No write is cut between a line and its newline.
WholeLines == "noeol" \notin Tears

\* The files: each record is in at most one line, and a file that accepts
\* appends holds only terminated lines, so that the next line joins none.
DurableFiles ==
    /\ \A i \in DOMAIN Stored :
        /\ Stored[i].form \in {"whole", "torn"} /\ Stored[i].seg <= Active
        /\ guard /\ Stored[i].seg = Active => Stored[i].form = "whole"
        /\ Stored[i].rec \in used
        /\ \A j \in DOMAIN Stored : Stored[i].rec = Stored[j].rec => i = j
    /\ \A r \in acked : \E i \in DOMAIN Stored : Readable(Stored[i]) /\ Stored[i].rec = r

\* A call owns its record until its line is settled.
DurableCall(t) ==
    /\ pc[t] # "idle" => up
    /\ rec[t] # NoRecord =>
        /\ rec[t] \in used
        /\ \A i \in DOMAIN Stored : Stored[i].rec # rec[t]
        /\ \A u \in Threads \ {t} : rec[u] # rec[t]
    /\ pc[t] = "reopen" => SegLines(Stored, Active) = {}
    /\ pc[t] = "write" => guard /\ lines = Put(orig, NewLine(t), landed)

\* The inductive strengthening of AckedPersisted, under WholeLines, whatever
\* rotates and however the clock moves (append, write_line_durably,
\* rotate_inner, open_internal).
DurableInv == TypeOK /\ DurableFiles /\ \A t \in Threads : DurableCall(t)

\* The uses of the log for which its guarantees hold: rotation by size only,
\* with a threshold above the size of one line; a wall clock that does not
\* step back; no write cut between a line and its newline.
SafeUse ==
    /\ Rotations = {} /\ MaxLines > 1 /\ ClockMonotonic
    /\ WholeLines

\* Line i of f follows line i-1: chained hash, a chain id, and only the very
\* last line may be unreadable.
Follows(f, i) ==
    /\ f[i].cid # NoId
    /\ f[i].form \in {"whole", "torn"}
    /\ f[i].form = "torn" => i = Len(f)
    /\ f[i].prev = IF i = 1 THEN Zero ELSE f[i - 1].hash
    /\ f[i].hash = compute(f[i].prev, f[i].rec)

Ordered(f) ==
    \A i, j \in DOMAIN f : i <= j =>
        /\ 1 <= f[i].seg /\ f[i].seg <= f[j].seg /\ f[j].seg <= Active
        /\ f[i].cid = f[j].cid
        /\ f[i].rec = f[j].rec => i = j

\* The files: one chain in write order, no empty segment among the rotated
\* ones, timestamps in the order of the rotations.
FilesInv ==
    /\ \A i \in DOMAIN Stored : Follows(Stored, i) /\ Stored[i].rec \in used
    /\ Ordered(Stored)
    /\ \A s \in 1..Len(segs) : SegLines(Stored, s) # {}
    /\ \A s, u \in 1..Len(segs) : s <= u => segs[s].ts <= segs[u].ts
    /\ \A r \in acked : \E i \in DOMAIN Stored : Readable(Stored[i]) /\ Stored[i].rec = r

\* The handle agrees with the files.
HandleInv ==
    /\ guard => up
    /\ up => id # NoId /\ \A i \in DOMAIN Stored : Stored[i].cid = id
    /\ HandleExtendsDisk

\* What a thread knows between two steps of its call.
CallInv(t) ==
    /\ pc[t] # "idle" => up
    /\ pc[t] = "idle" <=> rec[t] = NoRecord
    /\ rec[t] # NoRecord =>
        /\ rec[t] \in used
        /\ \A i \in DOMAIN Stored : Stored[i].rec # rec[t]
        /\ \A u \in Threads \ {t} : rec[u] # rec[t]
    /\ pc[t] \in {"close", "rename"} =>
        /\ SegLines(Stored, Active) # {}
        /\ \A s \in 1..Len(segs) : segs[s].ts <= rotTs
    /\ pc[t] = "reopen" => SegLines(Stored, Active) = {}
    /\ pc[t] = "write" => guard /\ lines = Put(orig, NewLine(t), landed)

\* The inductive strengthening of the invariants above, under SafeUse: at any
\* point of any interleaving the files form one chain, the handle agrees with
\* them, and each call is where its locks say (append, rotate_inner,
\* open_internal together).
ChainInv == TypeOK /\ FilesInv /\ HandleInv /\ \A t \in Threads : CallInv(t)

\* A call returns, or its process stops: rotation_lock and the file lock never
\* block each other, whichever calls interleave.
CallsReturn == \A t \in Threads : pc[t] # "idle" ~> pc[t] = "idle"

\* The readable records on disk, in the order the chain has them.
Trail ==
    LET n == IF Stored # <<>> /\ ~Readable(Stored[Len(Stored)])
             THEN Len(Stored) - 1 ELSE Len(Stored)
    IN  [i \in 1..n |-> Stored[i].rec]

Promise == INSTANCE AuditTrail WITH trail <- Trail

\* The files, their failures and restarts implement the trail of AuditTrail.
ImplementsTrail == Promise!TrailSpec
=============================================================================
