---------------------------- MODULE PolicyReload ----------------------------
(***************************************************************************)
(* How the standalone server follows its policy store: the startup load    *)
(* (build_state_with_options, run in server.rs), the file watcher          *)
(* (agentguard-policy/src/watcher.rs) with its polling task, the SIGHUP    *)
(* handler, and AuthorizerHandle::reload (authzen.rs) over                 *)
(* PolicyStore::load_policies and load_schema (policy/store.rs).           *)
(*                                                                         *)
(* The store is read one file at a time while it may be edited.  notify's  *)
(* PollWatcher is external: it remembers each file it has scanned and      *)
(* reports one that was written since.                                     *)
(***************************************************************************)
EXTENDS Integers, FiniteSets

CONSTANTS
    Policies,       \* the paths of Cedar files
    Schema,         \* the path of schema.cedarschema
    Contents,       \* what a file that parses may hold
    MaxFiles,       \* MAX_POLICY_FILES
    MaxSighups,     \* bound on the SIGHUPs received
    MaxEdits,       \* bound on the edits of the store
    MaxReadErrors,  \* bound on the I/O errors met by loads and by the watcher
    Absent, Bad     \* no such file; one that does not parse

Files == Policies \cup {Schema}
Tasks == {"startup", "watcher", "sighup"}

ASSUME PolicyReloadAssumption ==
    /\ Schema \notin Policies
    /\ Absent \notin Contents /\ Bad \notin Contents /\ Absent # Bad
    /\ MaxFiles \in Nat /\ MaxSighups \in Nat /\ MaxEdits \in Nat
    /\ MaxReadErrors \in Nat

VARIABLES
    store,      \* the files on disk
    unseen,     \* files written since PollWatcher last scanned them
    changed,    \* PendingSignals.changed
    phase,      \* of run: "load", "watch", "serve", or "exit"
    current,    \* AuthorizerHandle.current
    at,         \* where each task is in AuthorizerHandle::load
    todo, got,  \* the files it has still to read, and what it has read
    edits,      \* how often the store was edited,
    early,      \* the files edited before the watcher's first scan
    hups, errors

env == <<store, unseen, edits, early>>
loads == <<at, todo, got>>
reloadVars == <<store, unseen, changed, phase, current, at, todo, got,
                edits, early, hups, errors>>

Content == Contents \cup {Absent, Bad}
Nothing == [f \in Files |-> Absent]

Present(s) == {f \in Policies : s[f] # Absent}

WithinLimit(s) == Cardinality(Present(s)) <= MaxFiles

\* A store that load_policies and load_schema accept.
Valid(s) == (\A f \in Files : s[f] # Bad) /\ WithinLimit(s)

ReloadInit ==
    /\ store \in [Files -> Content]
    /\ unseen = {} /\ changed = FALSE
    /\ phase = "load" /\ current = Nothing
    /\ at = [t \in Tasks |-> IF t = "startup" THEN "list" ELSE "idle"]
    /\ todo = [t \in Tasks |-> {}]
    /\ got = [t \in Tasks |-> Nothing]
    /\ edits = 0 /\ early = {} /\ hups = 0 /\ errors = 0

Glitch == errors < MaxReadErrors /\ errors' = errors + 1

-----------------------------------------------------------------------------
(* The store and its watcher. *)

\* A file is written, replaced or removed.
Edit(f, c) ==
    /\ edits < MaxEdits /\ store[f] # c
    /\ store' = [store EXCEPT ![f] = c]
    /\ IF phase = "serve"
       THEN unseen' = unseen \cup {f} /\ UNCHANGED early
       ELSE early' = early \cup {f} /\ UNCHANGED unseen
    /\ edits' = edits + 1
    /\ UNCHANGED <<changed, phase, current, loads, hups, errors>>

\* try_spawn_policy_watcher: the first scan, which every later one is
\* compared with.  run fails with it.
Baseline ==
    /\ phase = "watch"
    /\ \/ phase' = "serve" /\ UNCHANGED errors
       \/ phase' = "exit" /\ Glitch
    /\ unseen' = {}
    /\ UNCHANGED <<store, changed, current, loads, edits, early, hups>>

\* PollWatcher scans f and reports it (record_event).
Scan(f) ==
    /\ f \in unseen
    /\ unseen' = unseen \ {f}
    /\ changed' = TRUE
    /\ UNCHANGED <<store, phase, current, loads, edits, early, hups, errors>>

\* The watcher task drains the pending events and calls reload.  A tick
\* within the debounce window leaves them pending.
Tick ==
    /\ phase = "serve" /\ at["watcher"] = "idle" /\ changed
    /\ changed' = FALSE
    /\ at' = [at EXCEPT !["watcher"] = "list"]
    /\ UNCHANGED <<env, phase, current, todo, got, hups, errors>>

\* A SIGHUP reaches the signal task, which calls reload.
Sighup ==
    /\ phase = "serve" /\ at["sighup"] = "idle" /\ hups < MaxSighups
    /\ hups' = hups + 1
    /\ at' = [at EXCEPT !["sighup"] = "list"]
    /\ UNCHANGED <<env, changed, phase, current, todo, got, errors>>

-----------------------------------------------------------------------------
(* AuthorizerHandle::load, by each of the tasks. *)

\* The load fails: the serving snapshot stays; at startup run returns the error.
Fail(t) ==
    /\ at' = [at EXCEPT ![t] = "idle"]
    /\ phase' = IF t = "startup" THEN "exit" ELSE phase
    /\ UNCHANGED <<todo, got, current>>

\* An error, or what the load refuses.
Refused(t, cause) == (Glitch \/ (cause /\ UNCHANGED errors)) /\ Fail(t)

\* The files under the paths in s that a load is to read, unless Path::exists
\* runs into an error, and returns false.
Found(t, s) ==
    \/ todo' = [todo EXCEPT ![t] = s] /\ UNCHANGED errors
    \/ todo' = [todo EXCEPT ![t] = {}] /\ Glitch

\* The walk of the policies directory lists its files, up to the limit; there
\* is no walk when the directory does not seem to exist.
List(t) ==
    /\ at[t] = "list"
    /\ \/ Refused(t, ~WithinLimit(store))
       \/ /\ at' = [at EXCEPT ![t] = "read"]
          /\ Found(t, Present(store))
          /\ todo'[t] # {} => WithinLimit(store)
          /\ got' = [got EXCEPT ![t] = Nothing]
          /\ UNCHANGED <<phase, current>>
    /\ UNCHANGED <<env, changed, hups>>

\* read_bounded_text of one listed file, which may be gone by now.
Read(t, f) ==
    /\ at[t] \in {"read", "schema"} /\ f \in todo[t]
    /\ \/ Refused(t, store[f] = Absent)
       \/ /\ store[f] # Absent
          /\ todo' = [todo EXCEPT ![t] = @ \ {f}]
          /\ got' = [got EXCEPT ![t][f] = store[f]]
          /\ UNCHANGED <<at, phase, current, errors>>
    /\ UNCHANGED <<env, changed, hups>>

\* Mutant: files that do not parse are skipped.
ParsesAlways(t) == TRUE

Parses(t) == \A f \in Files : got[t][f] # Bad

\* All policies are read: they are parsed, then the schema is looked for.
Parse(t) ==
    /\ at[t] = "read" /\ todo[t] = {}
    /\ \/ ~Parses(t) /\ Fail(t) /\ UNCHANGED errors
       \/ /\ Parses(t)
          /\ at' = [at EXCEPT ![t] = "schema"]
          /\ Found(t, {f \in {Schema} : store[f] # Absent})
          /\ UNCHANGED <<got, phase, current>>
    /\ UNCHANGED <<env, changed, hups>>

\* Mutant: events that arrived during the reload are dropped.
InstallAndForget(t) ==
    /\ at[t] = "schema" /\ todo[t] = {}
    /\ \/ ~Parses(t) /\ Fail(t)
       \/ /\ Parses(t)
          /\ current' = got[t]
          /\ at' = [at EXCEPT ![t] = "idle"]
          /\ phase' = IF t = "startup" THEN "watch" ELSE phase
          /\ UNCHANGED <<todo, got>>
    /\ changed' = FALSE
    /\ UNCHANGED <<env, hups, errors>>

\* The schema is parsed and the complete snapshot swapped in.
Install(t) ==
    /\ at[t] = "schema" /\ todo[t] = {}
    /\ \/ ~Parses(t) /\ Fail(t)
       \/ /\ Parses(t)
          /\ current' = got[t]
          /\ at' = [at EXCEPT ![t] = "idle"]
          /\ phase' = IF t = "startup" THEN "watch" ELSE phase
          /\ UNCHANGED <<todo, got>>
    /\ UNCHANGED <<env, changed, hups, errors>>

Load(t) == List(t) \/ (\E f \in Files : Read(t, f)) \/ Parse(t) \/ Install(t)

ReloadNext ==
    \/ \E f \in Files, c \in Content : Edit(f, c)
    \/ \E f \in Files : Scan(f)
    \/ \E t \in Tasks : Load(t)
    \/ Baseline \/ Tick \/ Sighup

ReloadSpec == ReloadInit /\ [][ReloadNext]_reloadVars

\* The polling thread keeps scanning, the watcher task's interval keeps
\* ticking, and a load does a bounded amount of work.
ReloadFairSpec ==
    /\ ReloadSpec
    /\ \A f \in Files : WF_reloadVars(Scan(f))
    /\ \A t \in Tasks : WF_reloadVars(Load(t))
    /\ WF_reloadVars(Baseline) /\ WF_reloadVars(Tick)

-----------------------------------------------------------------------------
(* Correctness. *)

\* The values of the variables (AuthorizerHandle, PendingSignals, and where
\* each caller of AuthorizerHandle::load is).
ReloadTypes ==
    /\ store \in [Files -> Content] /\ current \in [Files -> Content]
    /\ unseen \subseteq Files /\ changed \in BOOLEAN
    /\ phase \in {"load", "watch", "serve", "exit"}
    /\ at \in [Tasks -> {"idle", "list", "read", "schema"}]
    /\ todo \in [Tasks -> SUBSET Files]
    /\ got \in [Tasks -> [Files -> Content]]
    /\ edits \in Nat /\ early \subseteq Files /\ hups \in Nat /\ errors \in Nat

\* Requests are answered from a snapshot that parsed as a whole and is within
\* the limits, whatever is edited while it is read: a malformed or oversized
\* store leaves the last good one (AuthorizerHandle::reload).
ServesOnlyValid == phase = "serve" => Valid(current)

\* So far no SIGHUP, no I/O error, and no edit between the startup load and the
\* watcher's first scan.
Undisturbed == early = {} /\ hups = 0 /\ errors = 0

\* What is pending whenever something other than a valid store is served.
Remembered ==
    phase = "serve" /\ current # store /\ Valid(store)
        => unseen # {} \/ changed \/ at["watcher"] # "idle"

\* While the server serves something other than a valid store, a reload is
\* under way or the watcher has noticed, or will: no edit is forgotten,
\* however it falls between the scan, the drain of events and the reads
\* (PolicyWatcher::events, spawn_policy_watcher_task), until the server has
\* been disturbed.
NoEditForgotten == Undisturbed => Remembered

\* Once edits stop, a valid store is eventually the one that is served, for
\* good, by a server that was never disturbed.
ServesStoreEventually ==
    <>[](Undisturbed /\ phase = "serve" /\ Valid(store) => current = store)

-----------------------------------------------------------------------------
(* Why only valid snapshots are served: the strengthening of ServesOnlyValid. *)

\* The policies a load found in its walk, whether it has read them or not.
Listed(t) == Present(got[t]) \cup (todo[t] \cap Policies)

\* A load never holds more policies than it may install, and what was
\* installed is valid (PolicyStore::load_policies, AuthorizerHandle::reload).
ValidInv ==
    /\ ReloadTypes
    /\ \A t \in Tasks : at[t] \in {"read", "schema"} => Cardinality(Listed(t)) <= MaxFiles
    /\ phase \in {"watch", "serve"} => Valid(current)

-----------------------------------------------------------------------------
(* Why no edit is forgotten: the inductive strengthening of NoEditForgotten. *)

\* What is remembered of f: the watcher has reported it or will.
Noticed(f) == f \in unseen \/ changed

Current(t, f) == IF f \in todo[t] THEN store[f] # Absent ELSE got[t][f] = store[f]

\* Every file a load has read, or decided not to read, is still as the load
\* knows it, unless the watcher knows better.
UpToDate(t) ==
    /\ at[t] = "read" =>
         /\ todo[t] \subseteq Policies /\ got[t][Schema] = Absent
         /\ \A f \in Policies :
                Noticed(f) \/ Current(t, f)
    /\ at[t] = "schema" => \A f \in Files : Noticed(f) \/ Current(t, f)

\* The store and the serving snapshot stay connected: through the startup
\* load, and then through what the watcher and its task have pending.
Following ==
    /\ at["sighup"] = "idle"
    /\ phase # "load" => at["startup"] = "idle"
    /\ phase # "serve" => unseen = {} /\ ~changed /\ at["watcher"] = "idle"
    /\ phase = "watch" => current = store
    /\ UpToDate("startup") /\ UpToDate("watcher")
    /\ Remembered

\* The server follows the store until it is disturbed
\* (AuthorizerHandle::reload, PolicyWatcher::events).
FollowInv == ReloadTypes /\ (Undisturbed => Following)
=============================================================================
