---------------------------- MODULE AuditCommands ----------------------------
(***************************************************************************)
(* The commands that read the audit log of a running server (log tail and  *)
(* dump, audit export, sar and verify), rewrite it (audit erase) or rotate *)
(* it (audit rotate), beside the server's own appends and rotations.  The  *)
(* formats of audit export are in ExportFormats.                           *)
(*                                                                         *)
(* The log is the sequence of its files, the one at the active path last.  *)
(* A line has its place in the chain and its subject, and hashes (intact)  *)
(* unless it was erased.  AuditLog models how the server writes them.      *)
(***************************************************************************)
EXTENDS Naturals, Sequences

CONSTANTS
    Subjects,       \* principals of the records
    MaxLines,       \* bound on the lines appended
    MaxRotations,   \* bound on the rotations
    MaxBegun        \* bound on the commands begun

\* The tag of an erased subject is not a principal.
ASSUME CommandsAssumption == "erased" \notin Subjects

VARIABLES
    files,      \* the files of the log
    handle,     \* the file the server holds open
    written,    \* lines the server has appended
    command,    \* the command under way
    begun       \* commands begun

commandVars == <<files, handle, written, command, begun>>

NoCommand == [kind |-> "none"]
Active == files[Len(files)]

CommandsInit ==
    /\ files = <<<<>>>>
    /\ handle = 1
    /\ written = 0
    /\ command = NoCommand
    /\ begun = 0

-----------------------------------------------------------------------------
(* The server.                                                             *)

\* A command under way remembers what happened to the log since it began.
Noting(what) ==
    command' = IF command.kind = "none" THEN command
               ELSE [command EXCEPT !.seen = @ \union {what}]

\* write_line_durably, at the end of the file the server holds open.
AppendLine ==
    /\ written < MaxLines
    /\ written' = written + 1
    /\ \E who \in Subjects :
         files' = [files EXCEPT ![handle] =
                      Append(@, [place |-> written + 1, who |-> who, intact |-> TRUE])]
    /\ Noting("append")
    /\ UNCHANGED <<handle, begun>>

\* rotate_inner of the server: the active path is renamed and opened afresh.
RotateLog ==
    /\ Len(files) <= MaxRotations
    /\ files' = Append(files, <<>>)
    /\ handle' = Len(files')
    /\ Noting("rotation")
    /\ UNCHANGED <<written, begun>>

-----------------------------------------------------------------------------
(* Readers: read_all and verify_chain list the rotated files, then open    *)
(* them and the active path one after the other.                           *)

MayBegin == command.kind = "none" /\ begun < MaxBegun

\* The name of the active path, whichever file has it; a rotated file is named by
\* its number.
ActivePath == 0

\* Reads the active path only, as read_all_chained does.
ListingActiveOnly == <<ActivePath>>
\* rotated_logs, and the active path.
Listing == [i \in 1..Len(files) |-> IF i < Len(files) THEN i ELSE ActivePath]

\* tail, dump, export and sar read the records; verify checks the chain.
StartReading ==
    /\ MayBegin
    /\ begun' = begun + 1
    /\ \E kind \in {"read", "verify"} :
         command' = [kind |-> kind, at |-> "reading", names |-> Listing, got |-> <<>>,
                     seen |-> {}, since |-> files]
    /\ UNCHANGED <<files, handle, written>>

\* open_existing_audit_file, and the lines the file holds.
ReadFile ==
    /\ command.kind \in {"read", "verify"}
    /\ command.at = "reading"
    /\ LET n == Len(command.got) + 1
           name == command.names[n]
           file == IF name = ActivePath THEN Active ELSE files[name]
       IN  command' = [command EXCEPT !.got = Append(@, file),
                                      !.at = IF n = Len(command.names) THEN "done" ELSE @]
    /\ UNCHANGED <<files, handle, written, begun>>

\* The file is missing between the rename and the reopening of a rotation, or a
\* line that is being written is read in part: the command ends with an error.
FailReading ==
    /\ command.kind # "none"
    /\ command.at = "reading"
    /\ command' = NoCommand
    /\ UNCHANGED <<files, handle, written, begun>>

\* verify_chain_paths: every line hashes and follows the one before it, across
\* files; the first one follows none.
LastBefore(fs, j) ==
    LET filled == {e \in 1..(j - 1) : fs[e] # <<>>}
        last == CHOOSE e \in filled : \A d \in filled : d <= e
    IN  IF filled = {} THEN 0 ELSE fs[last][Len(fs[last])].place
Previous(fs, j, i) == IF i > 1 THEN fs[j][i - 1].place ELSE LastBefore(fs, j)
ChainHolds(fs) ==
    \A j \in 1..Len(fs) : \A i \in 1..Len(fs[j]) :
        fs[j][i].intact /\ fs[j][i].place = Previous(fs, j, i) + 1

EndReading ==
    /\ command.kind \in {"read", "verify"}
    /\ command.at = "done"
    /\ command' = NoCommand
    /\ UNCHANGED <<files, handle, written, begun>>

-----------------------------------------------------------------------------
(* audit rotate, in a process of its own: the server keeps its file.       *)

RotateByCommand ==
    /\ MayBegin
    /\ Len(files) <= MaxRotations
    /\ begun' = begun + 1
    /\ files' = Append(files, <<>>)
    /\ UNCHANGED <<handle, written, command>>

-----------------------------------------------------------------------------
(* audit erase reads the active path, creates the target anew (which       *)
(* truncates it) and writes the lines to it from its start.                *)

\* The subject is replaced by a tag and the hashes are kept, so that the line no
\* longer hashes.
Erased(lines, subject) ==
    [i \in DOMAIN lines |->
        IF lines[i].who = subject
        THEN [lines[i] EXCEPT !.who = "erased", !.intact = FALSE] ELSE lines[i]]

StartErase ==
    /\ MayBegin
    /\ begun' = begun + 1
    /\ \E subject \in Subjects, inPlace \in BOOLEAN :
         command' = [kind |-> "erase", at |-> "reading", got |-> Erased(Active, subject),
                     seen |-> {}, since |-> Active, subject |-> subject,
                     inPlace |-> inPlace, target |-> Len(files)]
    /\ UNCHANGED <<files, handle, written>>

CreateTarget ==
    /\ command.kind = "erase"
    /\ command.at = "reading"
    /\ command' = [command EXCEPT !.at = "writing", !.target = Len(files)]
    /\ files' = IF command.inPlace THEN [files EXCEPT ![Len(files)] = <<>>] ELSE files
    /\ UNCHANGED <<handle, written, begun>>

\* The lines the buffered writer brings to the file: dropping it reports no
\* error, so a write that fails at the end leaves some out unnoticed.  What the
\* server appended to the file meanwhile is overwritten as far as they reach.
Overlaid(lines, n, old) ==
    [i \in 1..(IF n > Len(old) THEN n ELSE Len(old)) |-> IF i <= n THEN lines[i] ELSE old[i]]

WriteTarget ==
    /\ command.kind = "erase"
    /\ command.at = "writing"
    /\ \E n \in 0..Len(command.got) :
         /\ command' = [command EXCEPT !.at = "done",
                           !.seen = IF n < Len(command.got) THEN @ \union {"fault"} ELSE @]
         /\ files' = IF command.inPlace
                     THEN [files EXCEPT ![command.target] =
                              Overlaid(command.got, n, @)]
                     ELSE files
    /\ UNCHANGED <<handle, written, begun>>

\* The command returns, or is killed after it created the target.
EndErase ==
    /\ command.kind = "erase"
    /\ command.at \in {"writing", "done"}
    /\ command' = NoCommand
    /\ UNCHANGED <<files, handle, written, begun>>

CommandsNext ==
    \/ AppendLine \/ RotateLog
    \/ StartReading \/ ReadFile \/ FailReading \/ EndReading
    \/ RotateByCommand
    \/ StartErase \/ CreateTarget \/ WriteTarget \/ EndErase

CommandsSpec == CommandsInit /\ [][CommandsNext]_commandVars

-----------------------------------------------------------------------------
Lines(fs) == UNION {{fs[j][i] : i \in 1..Len(fs[j])} : j \in 1..Len(fs)}

\* One log has the lines of another where they were, and more only behind them.
Continues(old, new) ==
    /\ Len(new) = Len(old)
    /\ \A j \in 1..Len(old) :
        /\ Len(old[j]) <= Len(new[j]) /\ \A i \in 1..Len(old[j]) : new[j][i] = old[j][i]
        /\ Len(old[j]) < Len(new[j]) => \A l \in (j + 1)..Len(old) : old[l] = <<>>

\* read_all and verify_chain: a command that met no rotation between its listing
\* and its last file returns every line the log had when it began, in order, and
\* a chain that holds is confirmed.
ReadComplete ==
    command.kind \in {"read", "verify"} /\ command.at = "done"
        /\ "rotation" \notin command.seen =>
    /\ Continues(command.since, command.got)
    /\ ChainHolds(files) => ChainHolds(command.got)

\* verify_chain: a rotation between the listing and the opening of the active
\* path hides a file from the command.  It never confirms what lies beyond: of a
\* log whose chain holds, what is confirmed is a beginning.
ConfirmsBeginning ==
    command.kind = "verify" /\ command.at = "done"
        /\ ChainHolds(files) /\ ChainHolds(command.got) =>
    \A x \in Lines(command.got) :
        /\ x \in Lines(files)
        /\ \A y \in Lines(files) : y.place < x.place => y \in Lines(command.got)

\* audit erase: when the server is quiet and every write succeeds, each line of
\* the active file keeps its place, the other subjects' lines are unchanged and
\* the subject is in none; with --out the log itself is unchanged.
EraseKeepsPlaces ==
    command.kind = "erase" /\ command.at = "done" /\ command.seen = {} =>
        IF command.inPlace
        THEN /\ Len(Active) = Len(command.since)
             /\ \A i \in DOMAIN Active :
                  /\ Active[i].place = command.since[i].place
                  /\ Active[i].who # command.subject
                  /\ command.since[i].who # command.subject => Active[i] = command.since[i]
        ELSE Active = command.since

\* What a command finds, and what it leaves behind.
CommandsSound == ReadComplete /\ ConfirmsBeginning /\ EraseKeepsPlaces
=============================================================================
