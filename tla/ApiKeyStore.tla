---------------------------- MODULE ApiKeyStore -----------------------------
(***************************************************************************)
(* The API-key file: `agentguard apikey create` and `revoke`               *)
(* (agentguard-cli/src/commands/apikey.rs) load it, change their copy and  *)
(* save it (ApiKeyStore in agentguard-auth/src/api_key.rs); the server     *)
(* polls it and reloads (spawn_api_key_watcher in server.rs); it may also  *)
(* be replaced from outside, as a projected Kubernetes Secret is.          *)
(***************************************************************************)
EXTENDS Integers, FiniteSets

CONSTANTS
    KeyIds,            \* the key ids there may be
    Operators,       \* processes that run a CLI command
    MaxReplacements, \* bound on the replacements from outside
    MaxCommands,     \* bound on the CLI commands
    MaxReadErrors,   \* bound on the I/O errors of lookups and reads
    NoFile, Bad      \* the file is missing; it is not a valid key store

\* What a key record can be: not there, active, or with its revoked_at set.
Absent == 0
InUse == 1
Revoked == 2
KeySet == [KeyIds -> {Absent, InUse, Revoked}]

ASSUME ApiKeyStoreAssumption ==
    /\ NoFile \notin KeySet /\ Bad \notin KeySet /\ NoFile # Bad
    /\ MaxReplacements \in Nat /\ MaxCommands \in Nat /\ MaxReadErrors \in Nat

VARIABLES
    file,       \* the content of the key file
    keys,       \* ApiKeyStore.keys of the server
    last,       \* last_attempted_snapshot; NoFile for None
    snap,       \* what the poll in progress has read
    at,         \* where the server is
    errors,     \* I/O errors so far
    cli,        \* where each operator's command is: "idle" or "save"
    copy,       \* the command's own ApiKeyStore
    undo,       \* the key the command revokes, if any
    used,       \* ids that create has drawn: a UUID is never drawn twice
    commands, replacements,
    \* history: operators whose copy is not of the file as it is; revocations
    \* reported since the file was last written over unseen; whether it was
    \* since the watcher's snapshot; whether that attempt met an I/O error
    overtaken, acked, meddled, failed

server == <<keys, last, snap, at, errors, failed>>
operators == <<cli, copy, undo, used, commands, overtaken, acked>>
keyFileVars == <<file, server, operators, replacements, meddled>>

Empty == [k \in KeyIds |-> Absent]
FileContent == KeySet \cup {NoFile, Bad}

\* The key set reload_from_file installs for a file that is not Bad.
Parsed(c) == IF c = NoFile THEN Empty ELSE c

\* The ids of the records in a file.
IdsIn(c) == IF c \in KeySet THEN {k \in KeyIds : c[k] # Absent} ELSE {}

KeyFileInit ==
    /\ file \in FileContent
    /\ keys = Empty /\ last = NoFile /\ snap = NoFile
    /\ at = "config" /\ errors = 0
    /\ cli = [o \in Operators |-> "idle"]
    /\ copy = [o \in Operators |-> Empty]
    /\ undo = [o \in Operators |-> {}]
    /\ overtaken = {} /\ acked = {} /\ meddled = FALSE /\ failed = FALSE
    /\ used = IdsIn(file)
    /\ commands = 0 /\ replacements = 0

-----------------------------------------------------------------------------
(* The server. *)

Glitch == errors < MaxReadErrors /\ errors' = errors + 1

\* Path::exists returns false, as it also does when it runs into an error.
Missing == Glitch \/ (file = NoFile /\ UNCHANGED errors)

\* AuthLayer::from_config, which is reload_from_file into an empty store: the
\* path is looked up ...
FromConfig ==
    /\ at = "config"
    /\ \/ Missing /\ at' = "baseline"
       \/ file # NoFile /\ at' = "load" /\ UNCHANGED errors
    /\ UNCHANGED <<file, keys, last, snap, failed, operators, replacements, meddled>>

\* ... then read; run fails when the file cannot be loaded.
LoadConfig ==
    /\ at = "load"
    /\ \/ /\ Glitch \/ (file \notin KeySet /\ UNCHANGED errors)
          /\ at' = "exit" /\ UNCHANGED keys
       \/ /\ file \in KeySet /\ UNCHANGED errors
          /\ at' = "baseline" /\ keys' = file
    /\ UNCHANGED <<file, last, snap, failed, operators, replacements, meddled>>

\* spawn_api_key_watcher reads the baseline, then reloads.
ReadBaseline ==
    /\ at = "baseline"
    /\ \/ snap' = file /\ UNCHANGED errors
       \/ snap' = NoFile /\ Glitch
    /\ last' = snap'
    /\ at' = "exists"
    /\ meddled' = FALSE
    /\ UNCHANGED <<file, keys, failed, operators, replacements>>

\* Mutant: the snapshot is compared with the serving key set's size only.
SameSnapshotSize ==
    \/ file = last
    \/ /\ file \in KeySet /\ last \in KeySet
       /\ {k \in KeyIds : file[k] # Absent} = {k \in KeyIds : last[k] # Absent}

SameSnapshot == file = last

\* A tick reads other bytes, or none, than were last attempted.
Poll ==
    /\ at = "poll" /\ ~SameSnapshot
    /\ snap' = file
    /\ at' = "exists"
    /\ meddled' = FALSE /\ failed' = FALSE
    /\ UNCHANGED <<file, keys, last, errors, operators, replacements>>

\* reload_from_file, in two steps: the path is looked up ...
Exists ==
    /\ at = "exists"
    /\ \/ /\ Missing /\ failed' = (errors' # errors)
          /\ keys' = Empty /\ last' = snap /\ at' = "poll"
       \/ file # NoFile /\ at' = "read" /\ UNCHANGED <<keys, last, errors, failed>>
    /\ UNCHANGED <<file, snap, operators, replacements, meddled>>

\* Mutant: the loaded keys are added to those there.
LoadedMerged(old, c) ==
    IF c \in KeySet THEN [k \in KeyIds |-> IF c[k] = Absent THEN old[k] ELSE c[k]] ELSE old

\* The key set after the file is read and parsed: an error keeps the old one.
Loaded(old, c) == IF c \in KeySet THEN c ELSE old

\* ... then read and parsed, with the attempt recorded whatever comes of it.
Reload ==
    /\ at = "read"
    /\ \/ keys' = Loaded(keys, file) /\ UNCHANGED <<errors, failed>>
       \/ Glitch /\ failed' = TRUE /\ UNCHANGED keys
    /\ last' = snap
    /\ at' = "poll"
    /\ UNCHANGED <<file, snap, operators, replacements, meddled>>

-----------------------------------------------------------------------------
(* The operators, and whatever else writes the file. *)

\* What load_from_file may return: the store in the file, or an empty one when
\* there is no file or Path::exists fails.
Load(store) ==
    \/ file # Bad /\ store = Parsed(file) /\ UNCHANGED errors
    \/ Glitch /\ store = Empty

\* A command loads the store and changes its copy: create adds a record,
\* revoke needs one with the given id.
Begin(o) ==
    /\ cli[o] = "idle" /\ commands < MaxCommands
    /\ commands' = commands + 1
    /\ cli' = [cli EXCEPT ![o] = "save"]
    /\ \E store \in {Empty} \cup ({file} \cap KeySet), k \in KeyIds :
        /\ Load(store)
        /\ overtaken' = IF errors' = errors THEN overtaken \ {o} ELSE overtaken \cup {o}
        /\ \/ /\ k \notin used /\ used' = used \cup {k}
              /\ copy' = [copy EXCEPT ![o] = [store EXCEPT ![k] = InUse]]
              /\ undo' = [undo EXCEPT ![o] = {}]
           \/ /\ store[k] # Absent /\ used' = used
              /\ copy' = [copy EXCEPT ![o] = [store EXCEPT ![k] = Revoked]]
              /\ undo' = [undo EXCEPT ![o] = {k}]
    /\ UNCHANGED <<file, keys, last, snap, at, failed, acked, replacements, meddled>>

\* The file is the copy of o: the other commands in progress have not seen it,
\* and what o had not seen is gone.
Save(o) ==
    /\ file' = copy[o]
    /\ overtaken' = {p \in Operators \ {o} : cli[p] = "save"}
    /\ meddled' = (meddled \/ o \in overtaken)

\* The command ends, and its store with it.
End(o) ==
    /\ cli' = [cli EXCEPT ![o] = "idle"]
    /\ copy' = [copy EXCEPT ![o] = Empty]
    /\ undo' = [undo EXCEPT ![o] = {}]

Lasting(o) == IF o \in overtaken THEN {} ELSE acked

\* save_to_file renames the new file into place, and syncs the directory.
SaveOk(o) ==
    /\ cli[o] = "save"
    /\ Save(o)
    /\ acked' = Lasting(o) \cup undo[o]
    /\ End(o)
    /\ UNCHANGED <<server, used, commands, replacements>>

\* Mutant: the command ignores the error of save_to_file.
AckedAnyway(o) == acked \cup undo[o]

\* What a command that fails has reported.
AckedAfterFailure(o) == acked

\* An error: before the rename, which leaves the file, or after it.
SaveFails(o) ==
    /\ cli[o] = "save"
    /\ \/ /\ overtaken' = overtaken \ {o} /\ acked' = AckedAfterFailure(o)
          /\ UNCHANGED <<file, meddled>>
       \/ Save(o) /\ acked' = Lasting(o)
    /\ End(o)
    /\ UNCHANGED <<server, used, commands, replacements>>

\* The file is replaced, removed, or partly projected.
Replace(c) ==
    /\ replacements < MaxReplacements /\ c # file
    /\ file' = c
    /\ replacements' = replacements + 1
    /\ overtaken' = {p \in Operators : cli[p] = "save"}
    /\ used' = used \cup IdsIn(c)
    /\ acked' = {} /\ meddled' = TRUE
    /\ UNCHANGED <<server, cli, copy, undo, commands>>

Server == FromConfig \/ LoadConfig \/ ReadBaseline \/ Poll \/ Exists \/ Reload

KeyFileNext ==
    \/ Server
    \/ \E o \in Operators : Begin(o) \/ SaveOk(o) \/ SaveFails(o)
    \/ \E c \in FileContent : Replace(c)

KeyFileSpec == KeyFileInit /\ [][KeyFileNext]_keyFileVars

\* The watcher's interval keeps ticking.
KeyFileFairSpec == KeyFileSpec /\ WF_keyFileVars(Server)

-----------------------------------------------------------------------------
(* Correctness. *)

\* The values of the variables (ApiKeyStore, spawn_api_key_watcher, and the
\* commands in progress).
KeyFileTypes ==
    /\ file \in FileContent /\ last \in FileContent /\ snap \in FileContent
    /\ keys \in KeySet
    /\ at \in {"config", "load", "baseline", "exists", "read", "poll", "exit"}
    /\ cli \in [Operators -> {"idle", "save"}]
    /\ copy \in [Operators -> KeySet]
    /\ undo \in [Operators -> SUBSET KeyIds]
    /\ used \subseteq KeyIds /\ acked \subseteq KeyIds /\ overtaken \subseteq Operators
    /\ meddled \in BOOLEAN /\ failed \in BOOLEAN
    /\ commands \in Nat /\ replacements \in Nat /\ errors \in Nat

\* Between two polls the server has the keys of a valid file, or the next
\* poll will see that it has not: the file it reads for comparison and the
\* one reload_from_file reads may differ, and no update of the commands is lost
\* by that (spawn_api_key_watcher).  It may be lost when that attempt met an I/O
\* error, which is not repeated, or when a writer that had not seen the file
\* brought back what the attempt was compared with.
NoUpdateForgotten ==
    at = "poll" /\ ~failed /\ ~meddled /\ file # Bad /\ keys # Parsed(file)
        => ~SameSnapshot

\* A revocation the CLI reported (apikey revoke) stays in the file, through
\* commands that fail before or after the rename, until the file is written over
\* by a writer that has not seen it: one from outside, a command that another
\* one overlapped, or a command whose Path::exists failed.
RevocationDurable == file \in KeySet => \A k \in acked : file[k] = Revoked

\* A revocation the CLI reported reaches a server that runs: once the file is
\* left alone, a key whose revocation stands is not live in its key set, unless
\* the reload met an I/O error (which is not repeated) or the file was replaced
\* under it.
RevocationReachesServer ==
    \A k \in KeyIds :
        k \in acked ~> \/ at = "exit"
                      \/ [](keys[k] # InUse \/ k \notin acked \/ failed \/ meddled)

\* Path::exists fails in reload_from_file.
LookupFails == at = "exists" /\ errors' # errors

\* Whatever is replaced under the watcher, the server's keys change only to
\* those of the valid file that is there, or to none when there is no file: a
\* file that cannot be read or parsed changes nothing, and no mixture of two
\* files and no part of an invalid one ever authenticates
\* (ApiKeyStore::reload_from_file).  Nothing is said of a lookup that fails:
\* see FailuresLeaveKeys.
KeysWholeOrNone ==
    [][keys' # keys /\ ~LookupFails => file # Bad /\ keys' = Parsed(file)]_keyFileVars

\* "A parse or I/O failure leaves the currently active set untouched"
\* (reload_from_file): the keys a server has loaded change only with the file.
\* Path::exists answers false when it fails, and the keys are gone.
FailuresLeaveKeys == [][errors' # errors => keys' = keys]_keyFileVars

-----------------------------------------------------------------------------
(* The inductive strengthening of NoUpdateForgotten and RevocationDurable. *)

Leq(c, d) == \A k \in KeyIds : c[k] <= d[k]

\* The file had the content c at some time, and only grew since then.
Earlier(c) ==
    \/ c = NoFile
    \/ c = Bad /\ file = Bad
    \/ c \in KeySet /\ file \in KeySet /\ Leq(c, file)

\* The file and the commands in progress: a record only goes from absent to live
\* to revoked, so a copy to be saved has every revocation of the file it is of.
FileInv ==
    /\ KeyFileTypes
    /\ \A o \in Operators : cli[o] = "save" =>
         /\ \A k \in undo[o] : copy[o][k] = Revoked
         /\ \A k \in KeyIds : copy[o][k] # Absent => k \in used
         /\ o \notin overtaken => file # Bad /\ Leq(Parsed(file), copy[o])
    /\ \A k \in acked : file \in KeySet /\ file[k] = Revoked
    /\ file \in KeySet => \A k \in KeyIds : file[k] # Absent => k \in used

\* And the server: what the watcher compared is no newer than what it loaded,
\* and that no newer than the file.
KeyInv ==
    /\ FileInv
    /\ at \in {"exists", "read", "poll"} /\ ~meddled => Earlier(snap)
    /\ at = "read" /\ ~meddled => file # NoFile
    /\ at = "poll" => last = snap
    /\ at = "poll" /\ ~meddled /\ ~failed /\ file # Bad =>
         Leq(Parsed(last), keys) /\ Leq(keys, Parsed(file))
=============================================================================
