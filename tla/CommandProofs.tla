---------------------------- MODULE CommandProofs ---------------------------
(***************************************************************************)
(* Proofs about the commands that share a file with a running server.      *)
(*                                                                         *)
(* ApiKeyStore, for every set of keys and of operators, whoever writes the *)
(* file, however commands overlap and whatever fails: what the server      *)
(* takes over is whole; a command keeps the revocations of the file it has *)
(* seen; and an attempt that is not disturbed forgets no update.           *)
(*                                                                         *)
(* AuditCommands, for every number of lines, rotations and commands: what  *)
(* a reader returns, what verify confirms and what an erase leaves behind. *)
(***************************************************************************)
EXTENDS ApiKeyStore, AuditCommands, WellFoundedInduction, TLAPS

\* The statuses are ordered as records go through them.
LEMMA LeqOrder ==
    ASSUME NEW c \in KeySet, NEW d \in KeySet
    PROVE  /\ Leq(c, c) /\ Leq(Empty, c)
           /\ Leq(c, d) /\ Leq(d, c) => c = d
           /\ \A e \in KeySet : Leq(c, d) /\ Leq(d, e) => Leq(c, e)
<1> USE DEF KeySet, Absent, InUse, Revoked
<1>1. Leq(c, c) /\ Leq(Empty, c)
  BY DEF Leq, Empty
<1>2. ASSUME Leq(c, d), Leq(d, c) PROVE c = d
  <2>1. \A k \in KeyIds : c[k] = d[k]
    BY <1>2 DEF Leq
  <2> QED
    BY <2>1
<1>3. ASSUME NEW e \in KeySet, Leq(c, d), Leq(d, e) PROVE Leq(c, e)
  BY <1>3 DEF Leq
<1> QED
  BY <1>1, <1>2, <1>3

\* What is parsed is a key set.
LEMMA ParsedType ==
    Empty \in KeySet /\ \A c \in FileContent : c # Bad => Parsed(c) \in KeySet
  BY DEF Empty, Parsed, FileContent, KeySet, Absent

\* A valid file is neither missing nor bad.
LEMMA ValidFile ==
    ASSUME NEW c \in KeySet PROVE c # Bad /\ c # NoFile /\ Parsed(c) = c
  BY ApiKeyStoreAssumption, Zenon DEF Parsed

\* A file written over by a larger key set keeps what was known of it.
LEMMA FileGrows ==
    ASSUME KeyFileTypes, NEW d \in KeySet, file' = d, file # Bad, Leq(Parsed(file), d)
    PROVE  /\ \A c \in FileContent : Earlier(c) => Earlier(c)'
           /\ Leq(keys, Parsed(file)) => Leq(keys, Parsed(file)')
<1>1. file \in FileContent /\ keys \in KeySet
  BY DEF KeyFileTypes
<1>2. Parsed(file)' = d
  BY ApiKeyStoreAssumption DEF Parsed
<1>3. Parsed(file) \in KeySet
  BY <1>1, ParsedType
<1>4. ASSUME NEW c \in FileContent, Earlier(c), c # NoFile PROVE Earlier(c)'
  <2>1. c \in KeySet /\ file \in KeySet /\ Leq(c, file)
    BY <1>4 DEF Earlier
  <2>2. Parsed(file) = file
    BY <2>1, ApiKeyStoreAssumption DEF Parsed
  <2>3. Leq(c, d)
    BY <2>1, <2>2, LeqOrder
  <2> QED
    BY <2>1, <2>3 DEF Earlier, Leq
<1>5. \A c \in FileContent : Earlier(c) => Earlier(c)'
  BY <1>4 DEF Earlier
<1>6. Leq(keys, Parsed(file)) => Leq(keys, d)
  BY <1>1, <1>3, LeqOrder
<1> QED
  BY <1>2, <1>5, <1>6, LeqOrder

\* The initial states satisfy both invariants.
LEMMA KeyInit == KeyFileInit => KeyInv
<1> SUFFICES ASSUME KeyFileInit PROVE KeyInv
  OBVIOUS
<1>1. KeyFileTypes
  BY ParsedType DEF KeyFileInit, KeyFileTypes, FileContent, IdsIn
<1>2. FileInv
  BY <1>1 DEF KeyFileInit, FileInv, IdsIn
<1> QED
  BY <1>2 DEF KeyFileInit, KeyInv

-----------------------------------------------------------------------------
(* Whatever replaces the file and whatever fails. *)

\* A step of the server leaves the file and the operators alone.
LEMMA ServerTypes ==
    ASSUME KeyFileTypes, Server
    PROVE  KeyFileTypes' /\ file' = file /\ UNCHANGED <<operators, replacements>>
<1> USE DEF Server, FromConfig, LoadConfig, ReadBaseline, Poll, Exists, Reload
<1>1. file' = file /\ UNCHANGED <<operators, replacements>>
  OBVIOUS
<1>2. errors' \in Nat
  BY DEF KeyFileTypes, Glitch, Missing
<1>3. keys' \in KeySet
  BY ParsedType DEF KeyFileTypes, Loaded
<1>4. last' \in FileContent /\ snap' \in FileContent
  BY DEF KeyFileTypes, FileContent
<1>5. at' \in {"config", "load", "baseline", "exists", "read", "poll", "exit"}
  OBVIOUS
<1>6. meddled' \in BOOLEAN /\ failed' \in BOOLEAN
  BY Zenon DEF KeyFileTypes
<1> QED
  BY <1>1, <1>2, <1>3, <1>4, <1>5, <1>6, Zenon DEF KeyFileTypes, operators

\* What a command may do with its copy (create, revoke): it is the store in the
\* file with one record changed, or the operator counts as overtaken.
LEMMA BeginTypes ==
    ASSUME KeyFileTypes, NEW o \in Operators, Begin(o)
    PROVE  /\ KeyFileTypes'
           /\ UNCHANGED <<file, keys, last, snap, at, failed, acked, replacements, meddled>>
           /\ cli' = [cli EXCEPT ![o] = "save"]
           /\ \A p \in Operators : p # o => copy'[p] = copy[p] /\ undo'[p] = undo[p]
           /\ overtaken' \ {o} = overtaken \ {o}
           /\ \E store \in KeySet, k \in KeyIds, s \in {InUse, Revoked} :
                /\ \/ store = Empty /\ o \in overtaken'
                   \/ file # Bad /\ store = Parsed(file)
                /\ copy'[o] = [store EXCEPT ![k] = s]
                /\ used' = used \cup {k} \/ (used' = used /\ store[k] # Absent)
                /\ s = InUse => k \notin used /\ undo'[o] = {}
                /\ s = Revoked => undo'[o] = {k}
<1>1. PICK store \in {Empty} \cup ({file} \cap KeySet), k \in KeyIds :
        /\ Load(store)
        /\ overtaken' = IF errors' = errors THEN overtaken \ {o} ELSE overtaken \cup {o}
        /\ \/ /\ k \notin used /\ used' = used \cup {k}
              /\ copy' = [copy EXCEPT ![o] = [store EXCEPT ![k] = InUse]]
              /\ undo' = [undo EXCEPT ![o] = {}]
           \/ /\ store[k] # Absent /\ used' = used
              /\ copy' = [copy EXCEPT ![o] = [store EXCEPT ![k] = Revoked]]
              /\ undo' = [undo EXCEPT ![o] = {k}]
  BY DEF Begin
<1>2. store \in KeySet
  BY <1>1, ParsedType
<1>3. /\ UNCHANGED <<file, keys, last, snap, at, failed, acked, replacements, meddled>>
      /\ cli' = [cli EXCEPT ![o] = "save"] /\ commands' = commands + 1
  BY DEF Begin
<1>4. /\ errors' \in Nat
      /\ \/ store = Empty /\ o \in overtaken'
         \/ file # Bad /\ store = Parsed(file)
  BY <1>1 DEF Load, Glitch, KeyFileTypes
<1>5. PICK s \in {InUse, Revoked} :
        /\ copy' = [copy EXCEPT ![o] = [store EXCEPT ![k] = s]]
        /\ used' = used \cup {k} \/ (used' = used /\ store[k] # Absent)
        /\ s = InUse => k \notin used /\ undo' = [undo EXCEPT ![o] = {}]
        /\ s = Revoked => undo' = [undo EXCEPT ![o] = {k}]
  <2>1. InUse # Revoked
    BY DEF InUse, Revoked
  <2>2. CASE k \notin used
    BY <1>1, <2>1, <2>2
  <2>3. CASE k \in used
    BY <1>1, <2>1, <2>3
  <2> QED
    BY <2>2, <2>3
<1>6. [store EXCEPT ![k] = s] \in KeySet
  BY <1>2 DEF KeySet
<1>7. copy' \in [Operators -> KeySet] /\ undo' \in [Operators -> SUBSET KeyIds]
      /\ used' \subseteq KeyIds
  BY <1>5, <1>6 DEF KeyFileTypes
<1>8. cli' \in [Operators -> {"idle", "save"}] /\ commands' \in Nat
  BY <1>3 DEF KeyFileTypes
<1>9. overtaken' \subseteq Operators /\ overtaken' \ {o} = overtaken \ {o}
  BY <1>1 DEF KeyFileTypes
<1>10. KeyFileTypes'
  BY <1>3, <1>4, <1>7, <1>8, <1>9, Zenon DEF KeyFileTypes
<1>11. copy'[o] = [store EXCEPT ![k] = s]
      /\ (s = InUse => undo'[o] = {}) /\ (s = Revoked => undo'[o] = {k})
  BY <1>5 DEF KeyFileTypes
<1>12. \A p \in Operators : p # o => copy'[p] = copy[p] /\ undo'[p] = undo[p]
  BY <1>5 DEF KeyFileTypes
<1>13. /\ \/ store = Empty /\ o \in overtaken'
          \/ file # Bad /\ store = Parsed(file)
       /\ copy'[o] = [store EXCEPT ![k] = s]
       /\ used' = used \cup {k} \/ (used' = used /\ store[k] # Absent)
       /\ s = InUse => k \notin used /\ undo'[o] = {}
       /\ s = Revoked => undo'[o] = {k}
  BY <1>4, <1>5, <1>11
<1> QED
  BY <1>2, <1>3, <1>9, <1>10, <1>12, <1>13

\* What a save may do, whether it fails or not.
LEMMA SaveTypes ==
    ASSUME KeyFileTypes, NEW o \in Operators, SaveOk(o) \/ SaveFails(o)
    PROVE  /\ KeyFileTypes' /\ cli[o] = "save" /\ cli' = [cli EXCEPT ![o] = "idle"]
           /\ UNCHANGED <<keys, last, snap, at, errors, failed, used, commands, replacements>>
           /\ copy[o] \in KeySet /\ file \in FileContent
           /\ \A p \in Operators : p # o => copy'[p] = copy[p] /\ undo'[p] = undo[p]
           /\ \/ file' = file /\ acked' = acked /\ meddled' = meddled
                 /\ overtaken' = overtaken \ {o}
              \/ /\ file' = copy[o] /\ acked' \subseteq Lasting(o) \cup undo[o]
                 /\ \A p \in Operators : p # o /\ cli[p] = "save" => p \in overtaken'
                 /\ ~meddled' => ~meddled /\ o \notin overtaken
<1>1. /\ cli[o] = "save" /\ cli' = [cli EXCEPT ![o] = "idle"]
      /\ UNCHANGED <<keys, last, snap, at, errors, failed, used, commands, replacements>>
      /\ copy' = [copy EXCEPT ![o] = Empty] /\ undo' = [undo EXCEPT ![o] = {}]
  BY DEF SaveOk, SaveFails, End, server
<1>2. copy[o] \in KeySet /\ file \in FileContent /\ undo[o] \subseteq KeyIds
      /\ Lasting(o) \subseteq KeyIds
  BY DEF KeyFileTypes, Lasting
<1>3. \/ file' = file /\ acked' = acked /\ meddled' = meddled
         /\ overtaken' = overtaken \ {o}
      \/ /\ file' = copy[o] /\ acked' \subseteq Lasting(o) \cup undo[o]
         /\ overtaken' = {p \in Operators \ {o} : cli[p] = "save"}
         /\ meddled' = (meddled \/ o \in overtaken)
  BY DEF SaveOk, SaveFails, AckedAfterFailure, Save
<1>4. acked' \subseteq KeyIds /\ file' \in FileContent /\ overtaken' \subseteq Operators
  BY <1>2, <1>3 DEF KeyFileTypes, FileContent
<1>5. meddled' \in BOOLEAN
  BY <1>3, Zenon DEF KeyFileTypes
<1>6. cli' \in [Operators -> {"idle", "save"}] /\ copy' \in [Operators -> KeySet]
      /\ undo' \in [Operators -> SUBSET KeyIds]
  BY <1>1, ParsedType DEF KeyFileTypes
<1>7. KeyFileTypes'
  BY <1>1, <1>4, <1>5, <1>6, Zenon DEF KeyFileTypes
<1>8. \A p \in Operators : p # o => copy'[p] = copy[p] /\ undo'[p] = undo[p]
  BY <1>1 DEF KeyFileTypes
<1> QED
  BY <1>1, <1>2, <1>3, <1>7, <1>8, Zenon

\* A replacement of the file from outside.
LEMMA ReplaceTypes ==
    ASSUME KeyFileTypes, NEW c \in FileContent, Replace(c) PROVE KeyFileTypes'
<1>1. replacements' \in Nat /\ file' \in FileContent
  BY DEF Replace, KeyFileTypes
<1>2. UNCHANGED <<server, cli, copy, undo, commands>>
  BY DEF Replace
<1>3. used' \subseteq KeyIds /\ acked' \subseteq KeyIds /\ overtaken' \subseteq Operators
  BY DEF Replace, KeyFileTypes, IdsIn
<1>4. meddled' \in BOOLEAN
  BY DEF Replace
<1> QED
  BY <1>1, <1>2, <1>3, <1>4, Zenon DEF server, KeyFileTypes

\* The types hold in every environment.
LEMMA Types == KeyFileSpec => []KeyFileTypes
<1>1. KeyFileTypes /\ [KeyFileNext]_keyFileVars => KeyFileTypes'
  <2> SUFFICES ASSUME KeyFileTypes, [KeyFileNext]_keyFileVars PROVE KeyFileTypes'
    OBVIOUS
  <2>1. CASE Server
    BY <2>1, ServerTypes
  <2>2. ASSUME NEW o \in Operators, Begin(o) \/ SaveOk(o) \/ SaveFails(o) PROVE KeyFileTypes'
    BY <2>2, BeginTypes, SaveTypes
  <2>3. ASSUME NEW c \in FileContent, Replace(c) PROVE KeyFileTypes'
    BY <2>3, ReplaceTypes
  <2>4. CASE UNCHANGED keyFileVars
    BY <2>4, Zenon DEF keyFileVars, server, operators, KeyFileTypes
  <2> QED
    BY <2>1, <2>2, <2>3, <2>4, Zenon DEF KeyFileNext
<1>2. KeyFileInit => KeyFileTypes
  BY KeyInit DEF KeyInv, FileInv
<1> QED
  BY <1>1, <1>2, PTL DEF KeyFileSpec

\* The keys that authenticate change only to those of one valid file as a whole,
\* or to none when there is no file, however the file is replaced, commands
\* overlap and reads fail; only a lookup that fails may take them away
\* (ApiKeyStore::reload_from_file, AuthLayer::from_config).
THEOREM KeysAlwaysWhole == KeyFileSpec => KeysWholeOrNone
<1> DEFINE Whole == keys' # keys /\ ~LookupFails => file # Bad /\ keys' = Parsed(file)
<1>1. ASSUME KeyFileTypes, KeyFileNext PROVE Whole
  <2>1. CASE FromConfig \/ ReadBaseline \/ Poll
    BY <2>1 DEF FromConfig, ReadBaseline, Poll
  <2>2. CASE LoadConfig
    <3>1. keys' = keys \/ (file \in KeySet /\ keys' = file)
      BY <2>2 DEF LoadConfig
    <3> QED
      BY <3>1, ValidFile, Zenon
  <2>3. CASE Exists
    <3>1. Glitch => errors' # errors
      BY <1>1 DEF Glitch, KeyFileTypes
    <3>2. file = NoFile => file # Bad /\ Parsed(file) = Empty
      BY ApiKeyStoreAssumption DEF Parsed
    <3> QED
      BY <2>3, <3>1, <3>2 DEF Exists, Missing, LookupFails
  <2>4. CASE Reload
    <3>1. keys' = keys \/ (file \in KeySet /\ keys' = file)
      BY <2>4 DEF Reload, Loaded
    <3> QED
      BY <3>1, ValidFile, Zenon
  <2>5. CASE \E o \in Operators : Begin(o) \/ SaveOk(o) \/ SaveFails(o)
    BY <2>5 DEF Begin, SaveOk, SaveFails, server
  <2>6. CASE \E c \in FileContent : Replace(c)
    BY <2>6 DEF Replace, server
  <2> QED
    BY <1>1, <2>1, <2>2, <2>3, <2>4, <2>5, <2>6 DEF KeyFileNext, Server
<1>2. KeyFileTypes /\ [KeyFileNext]_keyFileVars => [Whole]_keyFileVars
  BY <1>1
<1> QED
  BY <1>2, Types, PTL DEF KeyFileSpec, KeysWholeOrNone

-----------------------------------------------------------------------------
(* The file. *)

\* A step that leaves the file and the operators alone keeps FileInv.
LEMMA FileUnchanged ==
    ASSUME FileInv, KeyFileTypes', file' = file, UNCHANGED operators PROVE FileInv'
<1>1. Parsed(file)' = Parsed(file)
  BY DEF Parsed
<1> QED
  BY <1>1 DEF FileInv, operators

\* What FileInv says of a command in progress.
Copied(o) ==
    /\ \A k \in undo[o] : copy[o][k] = Revoked
    /\ \A k \in KeyIds : copy[o][k] # Absent => k \in used
    /\ o \notin overtaken => file # Bad /\ Leq(Parsed(file), copy[o])

\* A command that begins keeps FileInv.
LEMMA FileBegin ==
    ASSUME FileInv, NEW o \in Operators, Begin(o) PROVE FileInv'
<1>1. KeyFileTypes
  BY DEF FileInv
<1>2. /\ KeyFileTypes' /\ file' = file /\ acked' = acked
      /\ cli' = [cli EXCEPT ![o] = "save"]
      /\ \A p \in Operators : p # o => copy'[p] = copy[p] /\ undo'[p] = undo[p]
      /\ overtaken' \ {o} = overtaken \ {o}
  BY <1>1, BeginTypes, Zenon
<1>3. PICK store \in KeySet, k \in KeyIds, s \in {InUse, Revoked} :
        /\ \/ store = Empty /\ o \in overtaken'
           \/ file # Bad /\ store = Parsed(file)
        /\ copy'[o] = [store EXCEPT ![k] = s]
        /\ used' = used \cup {k} \/ (used' = used /\ store[k] # Absent)
        /\ s = InUse => k \notin used /\ undo'[o] = {}
        /\ s = Revoked => undo'[o] = {k}
  BY <1>1, BeginTypes, Zenon
<1>4. \A j \in KeyIds : store[j] # Absent => j \in used
  BY <1>1, <1>3 DEF FileInv, KeyFileTypes, Parsed, FileContent, Empty
<1>5. \A j \in KeyIds : copy'[o][j] # Absent => j \in used'
  BY <1>3, <1>4 DEF KeySet
<1>6. \A j \in undo'[o] : copy'[o][j] = Revoked
  BY <1>3 DEF KeySet, InUse, Revoked
<1>7. Leq(store, copy'[o])
  <2>1. store[k] <= s
    BY <1>3, <1>4 DEF KeySet, Absent, InUse, Revoked
  <2>2. ASSUME NEW j \in KeyIds PROVE store[j] <= copy'[o][j]
    BY <1>3, <2>1 DEF KeySet, Absent, InUse, Revoked
  <2> QED
    BY <2>2 DEF Leq
<1>8. Parsed(file)' = Parsed(file) /\ used \subseteq used'
  BY <1>2, <1>3 DEF Parsed
<1>9. Copied(o)'
  BY <1>2, <1>3, <1>5, <1>6, <1>7, <1>8 DEF Copied
<1>10. ASSUME NEW p \in Operators, p # o, cli'[p] = "save" PROVE Copied(p)'
  <2>1. cli[p] = "save" /\ copy'[p] = copy[p] /\ undo'[p] = undo[p]
    BY <1>1, <1>2, <1>10 DEF KeyFileTypes
  <2>2. p \in overtaken' <=> p \in overtaken
    BY <1>2, <1>10
  <2>3. Copied(p)
    BY <2>1 DEF FileInv, Copied
  <2> QED
    BY <1>2, <1>8, <2>1, <2>2, <2>3 DEF Copied
<1>11. \A p \in Operators : cli'[p] = "save" => Copied(p)'
  BY <1>9, <1>10
<1> QED
  BY <1>2, <1>8, <1>11 DEF FileInv, Copied

\* A save, whether it fails or not, keeps FileInv, and the file only grows,
\* unless the command was overtaken.
LEMMA FileSave ==
    ASSUME FileInv, NEW o \in Operators, SaveOk(o) \/ SaveFails(o)
    PROVE  /\ FileInv'
           /\ \/ file' = file /\ meddled' = meddled
              \/ meddled'
              \/ /\ ~meddled /\ file' = copy[o]
                 /\ file # Bad /\ Leq(Parsed(file), copy[o])
<1>1. KeyFileTypes
  BY DEF FileInv
<1>2. /\ KeyFileTypes' /\ cli[o] = "save" /\ cli' = [cli EXCEPT ![o] = "idle"]
      /\ used' = used /\ copy[o] \in KeySet
      /\ \A p \in Operators : p # o => copy'[p] = copy[p] /\ undo'[p] = undo[p]
      /\ \/ file' = file /\ acked' = acked /\ meddled' = meddled
            /\ overtaken' = overtaken \ {o}
         \/ /\ file' = copy[o] /\ acked' \subseteq Lasting(o) \cup undo[o]
            /\ \A p \in Operators : p # o /\ cli[p] = "save" => p \in overtaken'
            /\ ~meddled' => ~meddled /\ o \notin overtaken
  BY <1>1, SaveTypes, Zenon
<1>3. Copied(o)
  BY <1>2 DEF FileInv, Copied
<1>4. ASSUME NEW p \in Operators, cli'[p] = "save"
      PROVE  p # o /\ cli[p] = "save" /\ copy'[p] = copy[p] /\ undo'[p] = undo[p] /\ Copied(p)
  <2>1. p # o /\ cli[p] = "save"
    BY <1>1, <1>2, <1>4 DEF KeyFileTypes
  <2> QED
    BY <1>2, <2>1 DEF FileInv, Copied
<1>5. CASE file' = file /\ acked' = acked /\ meddled' = meddled
           /\ overtaken' = overtaken \ {o}
  <2>1. Parsed(file)' = Parsed(file)
    BY <1>5 DEF Parsed
  <2>2. \A p \in Operators : cli'[p] = "save" => Copied(p)'
    BY <1>2, <1>4, <1>5, <2>1 DEF Copied
  <2> QED
    BY <1>2, <1>5, <2>2 DEF FileInv, Copied
<1>6. CASE /\ file' = copy[o] /\ acked' \subseteq Lasting(o) \cup undo[o]
           /\ \A p \in Operators : p # o /\ cli[p] = "save" => p \in overtaken'
           /\ ~meddled' => ~meddled /\ o \notin overtaken
  <2>1. ASSUME NEW k \in Lasting(o) PROVE copy[o][k] = Revoked
    <3>1. k \in acked /\ o \notin overtaken
      BY <2>1 DEF Lasting
    <3>2. file \in KeySet /\ file[k] = Revoked /\ k \in KeyIds
      BY <1>1, <3>1 DEF FileInv, KeyFileTypes
    <3>3. Leq(file, copy[o])
      BY <1>3, <3>1, <3>2, ValidFile DEF Copied
    <3>4. Revoked <= copy[o][k]
      BY <3>2, <3>3 DEF Leq
    <3> QED
      BY <1>2, <3>2, <3>4 DEF KeySet, Absent, InUse, Revoked
  <2>2. \A k \in acked' : file' \in KeySet /\ file'[k] = Revoked
    BY <1>2, <1>3, <1>6, <2>1 DEF Copied
  <2>3. \A p \in Operators : cli'[p] = "save" => Copied(p)'
    BY <1>2, <1>4, <1>6 DEF Copied
  <2>4. file' \in KeySet => \A k \in KeyIds : file'[k] # Absent => k \in used'
    BY <1>2, <1>3, <1>6 DEF Copied
  <2>5. FileInv'
    BY <1>2, <2>2, <2>3, <2>4 DEF FileInv, Copied
  <2> QED
    BY <1>3, <1>6, <2>5 DEF Copied
<1> QED
  BY <1>2, <1>5, <1>6

\* So does a replacement: nothing is known of it.
LEMMA FileReplace ==
    ASSUME FileInv, NEW c \in FileContent, Replace(c) PROVE FileInv'
<1>1. KeyFileTypes /\ KeyFileTypes'
  BY ReplaceTypes DEF FileInv
<1>2. /\ file' = c /\ acked' = {} /\ used' = used \cup IdsIn(c)
      /\ UNCHANGED <<cli, copy, undo>>
      /\ \A p \in Operators : cli[p] = "save" => p \in overtaken'
  BY DEF Replace
<1>3. \A p \in Operators : cli'[p] = "save" => Copied(p)'
  BY <1>2 DEF FileInv, Copied
<1>4. file' \in KeySet => \A k \in KeyIds : file'[k] # Absent => k \in used'
  BY <1>2 DEF IdsIn
<1> QED
  BY <1>1, <1>2, <1>3, <1>4 DEF FileInv, Copied

-----------------------------------------------------------------------------
(* The server and the file. *)

\* What KeyInv says of the server.
Watching ==
    /\ at \in {"exists", "read", "poll"} /\ ~meddled => Earlier(snap)
    /\ at = "read" /\ ~meddled => file # NoFile
    /\ at = "poll" => last = snap
    /\ at = "poll" /\ ~meddled /\ ~failed /\ file # Bad =>
         Leq(Parsed(last), keys) /\ Leq(keys, Parsed(file))

\* A step of the server keeps KeyInv.
LEMMA ServerStep ==
    ASSUME KeyInv, Server PROVE KeyInv'
<1>1. KeyFileTypes /\ Watching
  BY DEF KeyInv, FileInv, Watching
<1>2. file \in FileContent /\ snap \in FileContent /\ file' = file /\ KeyFileTypes'
      /\ UNCHANGED operators
  BY <1>1, ServerTypes DEF KeyFileTypes
<1>3. Parsed(file)' = Parsed(file) /\ Earlier(snap)' = (Earlier(snap'))
  BY <1>2 DEF Parsed, Earlier
<1>4. file # Bad => Parsed(file) \in KeySet /\ Leq(Parsed(file), Parsed(file))
                    /\ Leq(Empty, Parsed(file))
  BY <1>2, ParsedType, LeqOrder
<1>5. Earlier(file) /\ Earlier(NoFile)
  BY <1>2, <1>4, ValidFile DEF Earlier, FileContent
<1>6. file # Bad /\ Earlier(snap) => Leq(Parsed(snap), Parsed(file))
  BY <1>4, ValidFile, ApiKeyStoreAssumption DEF Earlier, Parsed
<1>7. FileInv'
  BY <1>2, FileUnchanged DEF KeyInv
<1>8. Watching'
  <2>1. CASE FromConfig
    BY <2>1 DEF FromConfig, Watching
  <2>2. CASE LoadConfig
    BY <2>2 DEF LoadConfig, Watching
  <2>3. CASE ReadBaseline
    <3>1. Earlier(snap)' /\ at' = "exists"
      BY <1>3, <1>5, <2>3 DEF ReadBaseline
    <3> QED
      BY <3>1 DEF Watching
  <2>4. CASE Poll
    <3>1. Earlier(snap)' /\ at' = "exists"
      BY <1>3, <1>5, <2>4 DEF Poll
    <3> QED
      BY <3>1 DEF Watching
  <2>5. CASE Exists
    <3>1. snap' = snap /\ meddled' = meddled /\ (~meddled => Earlier(snap)')
      BY <1>1, <1>3, <2>5 DEF Exists, Watching
    <3>2. CASE Missing /\ failed' = (errors' # errors) /\ keys' = Empty /\ last' = snap
               /\ at' = "poll"
      <4>1. CASE errors' # errors
        <5>1. failed'
          BY <3>2, <4>1, Zenon
        <5> QED
          BY <3>1, <3>2, <5>1 DEF Watching
      <4>2. CASE errors' = errors
        <5>1. file = NoFile
          BY <1>1, <3>2, <4>2 DEF Missing, Glitch, KeyFileTypes
        <5>2. file # Bad /\ Parsed(file) = Empty
          BY <5>1, ApiKeyStoreAssumption DEF Parsed
        <5>3. ~meddled => Leq(Parsed(snap), Empty)
          BY <1>1, <1>6, <2>5, <5>2 DEF Exists, Watching
        <5>4. Parsed(last)' = Parsed(snap)
          BY <3>2 DEF Parsed
        <5> QED
          BY <1>3, <1>4, <3>1, <3>2, <5>2, <5>3, <5>4 DEF Watching
      <4> QED
        BY <4>1, <4>2
    <3>3. CASE at' = "read" /\ file # NoFile
      BY <1>2, <3>1, <3>3 DEF Watching
    <3> QED
      BY <2>5, <3>2, <3>3 DEF Exists
  <2>6. CASE Reload
    <3>1. /\ snap' = snap /\ meddled' = meddled /\ last' = snap
          /\ (~meddled => Earlier(snap)') /\ (~meddled => Earlier(snap))
      BY <1>1, <1>3, <2>6 DEF Reload, Watching
    <3>2. Parsed(last)' = Parsed(snap)
      BY <3>1 DEF Parsed
    <3>3. CASE keys' = Loaded(keys, file) /\ failed' = failed
      <4>1. file # Bad /\ file # NoFile => keys' = Parsed(file)
        BY <1>2, <3>3 DEF Loaded, Parsed, FileContent
      <4>2. ~meddled => file # NoFile
        BY <1>1, <2>6 DEF Reload, Watching
      <4> QED
        BY <1>2, <1>3, <1>4, <1>6, <2>6, <3>1, <3>2, <4>1, <4>2 DEF Watching, Reload
    <3>4. CASE failed'
      BY <2>6, <3>1, <3>4 DEF Watching, Reload
    <3> QED
      BY <2>6, <3>3, <3>4 DEF Reload
  <2> QED
    BY <2>1, <2>2, <2>3, <2>4, <2>5, <2>6 DEF Server
<1> QED
  BY <1>7, <1>8 DEF KeyInv, Watching

\* A step that leaves the file and the server alone keeps Watching.
LEMMA WatchUnchanged ==
    ASSUME Watching, UNCHANGED <<file, keys, last, snap, at, failed, meddled>>
    PROVE  Watching'
<1>1. Parsed(file)' = Parsed(file) /\ Parsed(last)' = Parsed(last)
      /\ Earlier(snap)' = Earlier(snap)
  BY DEF Parsed, Earlier
<1> QED
  BY <1>1 DEF Watching

\* A command of an operator, at its start or its end, keeps KeyInv.
LEMMA OperatorStep ==
    ASSUME KeyInv, NEW o \in Operators, Begin(o) \/ SaveOk(o) \/ SaveFails(o)
    PROVE  KeyInv'
<1>1. FileInv /\ KeyFileTypes /\ Watching
  BY DEF KeyInv, FileInv, Watching
<1>2. CASE Begin(o)
  <2>1. FileInv' /\ UNCHANGED <<file, keys, last, snap, at, failed, meddled>>
    BY <1>1, <1>2, FileBegin DEF Begin
  <2> QED
    BY <1>1, <2>1, WatchUnchanged DEF KeyInv, Watching
<1>3. CASE SaveOk(o) \/ SaveFails(o)
  <2>1. FileInv' /\ UNCHANGED <<keys, last, snap, at, failed>>
    BY <1>1, <1>3, FileSave DEF SaveOk, SaveFails, server
  <2>2. CASE file' = file /\ meddled' = meddled
    BY <1>1, <2>1, <2>2, WatchUnchanged DEF KeyInv, Watching
  <2>3. CASE meddled'
    BY <1>1, <2>1, <2>3 DEF KeyInv, Watching
  <2>4. CASE ~meddled /\ file' = copy[o] /\ file # Bad /\ Leq(Parsed(file), copy[o])
    <3>1. copy[o] \in KeySet /\ snap \in FileContent
      BY <1>1 DEF KeyFileTypes
    <3>2. /\ \A c \in FileContent : Earlier(c) => Earlier(c)'
          /\ Leq(keys, Parsed(file)) => Leq(keys, Parsed(file)')
      BY <1>1, <2>4, <3>1, FileGrows
    <3>3. Earlier(snap) => Earlier(snap)'
      BY <2>1, <3>1, <3>2 DEF Earlier
    <3>4. file' # Bad /\ file' # NoFile /\ Parsed(last)' = Parsed(last)
      BY <2>1, <2>4, <3>1, ValidFile DEF Parsed
    <3>5. Watching'
      BY <1>1, <2>1, <2>4, <3>2, <3>3, <3>4 DEF Watching
    <3> QED
      BY <2>1, <3>5 DEF KeyInv, Watching
  <2> QED
    BY <1>1, <1>3, <2>2, <2>3, <2>4, FileSave
<1> QED
  BY <1>2, <1>3

\* A replacement keeps KeyInv.
LEMMA ReplaceStep ==
    ASSUME KeyInv, NEW c \in FileContent, Replace(c) PROVE KeyInv'
<1>1. FileInv' /\ meddled' /\ last' = last /\ snap' = snap /\ at' = at
  BY FileReplace DEF KeyInv, Replace, server
<1> QED
  BY <1>1 DEF KeyInv

\* KeyInv is an invariant of ApiKeyStore: whatever fails and whoever writes the
\* file, a command that was not overtaken has all the revocations of the file,
\* and an attempt that was not disturbed has loaded no less than it compared.
THEOREM KeyInvariant == KeyFileSpec => []KeyInv
<1>1. KeyInv /\ [KeyFileNext]_keyFileVars => KeyInv'
  <2> SUFFICES ASSUME KeyInv, [KeyFileNext]_keyFileVars PROVE KeyInv'
    OBVIOUS
  <2>0. FileInv /\ KeyFileTypes /\ Watching
    BY DEF KeyInv, FileInv, Watching
  <2>1. CASE Server
    BY <2>1, ServerStep
  <2>2. ASSUME NEW o \in Operators, Begin(o) \/ SaveOk(o) \/ SaveFails(o) PROVE KeyInv'
    BY <2>2, OperatorStep
  <2>3. ASSUME NEW c \in FileContent, Replace(c) PROVE KeyInv'
    BY <2>3, ReplaceStep
  <2>4. CASE UNCHANGED keyFileVars
    <3>1. UNCHANGED <<file, keys, last, snap, at, failed, meddled, operators>>
      BY <2>4, Zenon DEF keyFileVars, server
    <3>2. KeyFileTypes'
      BY <2>0, <2>4, Zenon DEF keyFileVars, server, operators, KeyFileTypes
    <3>3. FileInv'
      BY <2>0, <3>1, <3>2, FileUnchanged
    <3> QED
      BY <2>0, <3>1, <3>3, WatchUnchanged DEF KeyInv, Watching
  <2> QED
    BY <2>1, <2>2, <2>3, <2>4, Zenon DEF KeyFileNext
<1> QED
  BY <1>1, KeyInit, PTL DEF KeyFileSpec

\* A revocation that `apikey revoke` reported stays in the key file, whatever
\* lookups, reads and saves fail and however commands overlap, until a writer
\* that has not seen it writes the file over (ApiKeyStore::save_to_file).
THEOREM RevocationAlwaysDurable == KeyFileSpec => []RevocationDurable
<1>1. KeyInv => RevocationDurable
  BY DEF KeyInv, FileInv, RevocationDurable
<1> QED
  BY <1>1, KeyInvariant, PTL

\* No update of the key file is lost between the read that a poll compares
\* and the read that reload_from_file installs, unless one of them failed or the
\* file was written over unseen (spawn_api_key_watcher).
THEOREM NeverForgetsAnUpdate == KeyFileSpec => []NoUpdateForgotten
<1>1. KeyInv => NoUpdateForgotten
  <2> SUFFICES ASSUME KeyInv, at = "poll", ~failed, ~meddled, file # Bad, file = last
               PROVE  keys = Parsed(file)
    BY DEF NoUpdateForgotten, SameSnapshot
  <2>1. Leq(Parsed(file), keys) /\ Leq(keys, Parsed(file))
    BY DEF KeyInv
  <2>2. keys \in KeySet /\ Parsed(file) \in KeySet
    BY ParsedType DEF KeyInv, FileInv, KeyFileTypes
  <2> QED
    BY <2>1, <2>2, LeqOrder
<1> QED
  BY <1>1, KeyInvariant, PTL

-----------------------------------------------------------------------------
(* AuditCommands                                                             *)

\* AuditCommands: no two intact lines have one place, and none is beyond the last.
Line == [place : Nat, who : Subjects \cup {"erased"}, intact : BOOLEAN]
Agree(X, Y) == \A x \in X, y \in Y : x.intact /\ y.intact /\ x.place = y.place => x = y
Below(X, n) == \A x \in X : x.place <= n
LogInv ==
    /\ files \in Seq(Seq(Line)) /\ handle \in 1..Len(files) /\ written \in Nat
    /\ \A j \in (handle + 1)..Len(files) : files[j] = <<>>
    /\ Below(Lines(files), written) /\ Agree(Lines(files), Lines(files))

\* A reader: what it has read is in the log; without a rotation it has read of
\* every file but the server's own all there is, and of that one a beginning.
Begins(s, t) == Len(s) <= Len(t) /\ \A i \in 1..Len(s) : t[i] = s[i]
Unrotated(since, got) ==
    /\ Len(files) = Len(since)
    /\ \A j \in 1..Len(files) :
        Begins(since[j], files[j]) /\ (j # handle => since[j] = files[j])
    /\ \A j \in 1..Len(got) :
        /\ Begins(since[j], got[j]) /\ Begins(got[j], files[j])
        /\ j # handle => got[j] = files[j]
ReaderTypes ==
    /\ DOMAIN command = {"kind", "at", "names", "got", "seen", "since"}
    /\ command.since \in Seq(Seq(Line)) /\ command.got \in Seq(Seq(Line))
    /\ Len(command.since) \in 1..Len(files)
    /\ command.names = [i \in 1..Len(command.since) |->
                           IF i < Len(command.since) THEN i ELSE ActivePath]
    /\ \/ command.at = "reading" /\ Len(command.got) < Len(command.since)
       \/ command.at = "done" /\ Len(command.got) = Len(command.since)
ReaderInv ==
    command.kind \in {"read", "verify"} =>
        /\ ReaderTypes
        /\ Lines(command.got) \subseteq Lines(files)
        /\ "rotation" \notin command.seen => Unrotated(command.since, command.got)

\* An eraser: its lines are or were lines of the log, and go to no file the server
\* has not reached.
EraserTypes ==
    /\ DOMAIN command = {"kind", "at", "got", "seen", "since", "subject", "inPlace", "target"}
    /\ command.got \in Seq(Line) /\ command.since \in Seq(Line)
    /\ command.subject \in Subjects /\ command.inPlace \in BOOLEAN
    /\ command.target \in 1..Len(files) /\ command.at \in {"reading", "writing", "done"}
Unnoticed ==
    /\ command.target = Len(files)
    /\ command.got = Erased(command.since, command.subject)
    /\ ~command.inPlace \/ command.at = "reading" => Active = command.since
    /\ command.inPlace /\ command.at = "writing" => Active = <<>>
    /\ command.inPlace /\ command.at = "done" => Active = command.got
EraserInv ==
    command.kind = "erase" =>
        /\ EraserTypes
        /\ command.at = "reading" => command.got = <<>> \/ handle = Len(files)
        /\ command.at # "reading" => command.got = <<>> \/ command.target <= handle
        /\ Below(Lines(<<command.got>>), written)
        /\ Agree(Lines(<<command.got>>), Lines(<<command.got>>))
        /\ Agree(Lines(<<command.got>>), Lines(files))
        /\ command.seen = {} => Unnoticed

CommandsInv ==
    /\ LogInv /\ ReaderInv /\ EraserInv
    /\ command.kind \in {"none", "read", "verify", "erase"}

-----------------------------------------------------------------------------

\* A sequence with one element replaced.
LEMMA Replaced ==
    ASSUME NEW S, NEW f \in Seq(S), NEW j \in 1..Len(f), NEW v \in S
    PROVE  /\ [f EXCEPT ![j] = v] \in Seq(S) /\ Len([f EXCEPT ![j] = v]) = Len(f)
           /\ [f EXCEPT ![j] = v][j] = v
           /\ \A i \in 1..Len(f) : i # j => [f EXCEPT ![j] = v][i] = f[i]
  OBVIOUS

\* A sequence with one element more.
LEMMA Longer ==
    ASSUME NEW S, NEW f \in Seq(S), NEW v \in S
    PROVE  /\ Append(f, v) \in Seq(S) /\ Len(Append(f, v)) = Len(f) + 1
           /\ Len(f) \in Nat
           /\ Append(f, v)[Len(f) + 1] = v
           /\ \A i \in 1..Len(f) : Append(f, v)[i] = f[i]
  OBVIOUS

\* Where a line of the log is.
LEMMA LineAt ==
    ASSUME NEW fs, NEW x \in Lines(fs)
    PROVE  \E j \in 1..Len(fs) : \E i \in 1..Len(fs[j]) : x = fs[j][i]
  BY DEF Lines

LEMMA IsLine ==
    ASSUME NEW fs, NEW j \in 1..Len(fs), NEW i \in 1..Len(fs[j])
    PROVE  fs[j][i] \in Lines(fs)
  BY DEF Lines

\* The lines of one file.
LEMMA LineIn ==
    ASSUME NEW f, NEW x \in Lines(<<f>>)
    PROVE  \E i \in 1..Len(f) : x = f[i]
  BY DEF Lines

LEMMA IsLineIn ==
    ASSUME NEW f, NEW i \in 1..Len(f)
    PROVE  f[i] \in Lines(<<f>>)
  BY DEF Lines

\* An element of a sequence.
LEMMA Element ==
    ASSUME NEW S, NEW f \in Seq(S), NEW j \in 1..Len(f)
    PROVE  f[j] \in S
  OBVIOUS

LEMMA LinesType ==
    ASSUME NEW fs \in Seq(Seq(Line)), NEW x \in Lines(fs)
    PROVE  x \in Line /\ x.place \in Nat
<1>1. PICK j \in 1..Len(fs) : \E i \in 1..Len(fs[j]) : x = fs[j][i]
  BY LineAt
<1>2. PICK i \in 1..Len(fs[j]) : x = fs[j][i]
  BY <1>1, Zenon
<1>3. fs[j] \in Seq(Line)
  BY Element, Zenon
<1>4. x \in Line
  BY <1>2, <1>3, Element, Zenon
<1> QED
  BY <1>4, Zenon DEF Line

\* A new file at the end of the log is empty.
LEMMA FileAdded ==
    ASSUME NEW fs \in Seq(Seq(Line))
    PROVE  /\ Append(fs, <<>>) \in Seq(Seq(Line)) /\ Len(Append(fs, <<>>)) = Len(fs) + 1
           /\ Len(fs) \in Nat
           /\ Append(fs, <<>>)[Len(fs) + 1] = <<>>
           /\ \A j \in 1..Len(fs) : Append(fs, <<>>)[j] = fs[j]
           /\ Lines(Append(fs, <<>>)) = Lines(fs)
<1>1. <<>> \in Seq(Line)
  OBVIOUS
<1> DEFINE S == Seq(Line)
           gs == Append(fs, <<>>)
<1>2. /\ gs \in Seq(S) /\ Len(gs) = Len(fs) + 1
      /\ Len(fs) \in Nat
      /\ gs[Len(fs) + 1] = <<>>
      /\ \A j \in 1..Len(fs) : gs[j] = fs[j]
  <2> HIDE DEF S
  <2> QED
    BY <1>1, Longer DEF S
<1> HIDE DEF gs
<1>3. ASSUME NEW x \in Lines(fs) PROVE x \in Lines(gs)
  <2>1. PICK j \in 1..Len(fs) : \E i \in 1..Len(fs[j]) : x = fs[j][i]
    BY <1>3, LineAt
  <2>2. j \in 1..Len(gs) /\ gs[j] = fs[j]
    BY <1>2
  <2> QED
    BY <2>1, <2>2, IsLine, Zenon
<1>4. ASSUME NEW x \in Lines(gs) PROVE x \in Lines(fs)
  <2>1. PICK j \in 1..Len(gs) : \E i \in 1..Len(gs[j]) : x = gs[j][i]
    BY <1>4, LineAt
  <2>2. CASE j = Len(fs) + 1
    <3>1. gs[j] = <<>>
      BY <1>2, <2>2, Zenon
    <3>2. Len(<<>>) = 0
      OBVIOUS
    <3>3. \A i \in 1..0 : FALSE
      OBVIOUS
    <3> QED
      BY <2>1, <3>1, <3>2, <3>3, Zenon
  <2>3. CASE j # Len(fs) + 1
    <3>1. j \in 1..Len(fs) /\ gs[j] = fs[j]
      BY <1>2, <2>3
    <3> QED
      BY <2>1, <3>1, IsLine, Zenon
  <2> QED
    BY <2>2, <2>3, Zenon
<1> QED
  BY <1>2, <1>3, <1>4, Zenon DEF gs, S

\* Files that differ in one place differ in its lines only.
LEMMA LinesReplaced ==
    ASSUME NEW fs \in Seq(Seq(Line)), NEW j \in 1..Len(fs), NEW f \in Seq(Line)
    PROVE  /\ [fs EXCEPT ![j] = f] \in Seq(Seq(Line)) /\ Len([fs EXCEPT ![j] = f]) = Len(fs)
           /\ [fs EXCEPT ![j] = f][j] = f
           /\ \A i \in 1..Len(fs) : i # j => [fs EXCEPT ![j] = f][i] = fs[i]
           /\ Lines([fs EXCEPT ![j] = f]) \subseteq Lines(fs) \cup Lines(<<f>>)
<1> DEFINE S == Seq(Line)
           gs == [fs EXCEPT ![j] = f]
<1>1. /\ gs \in Seq(S) /\ Len(gs) = Len(fs) /\ gs[j] = f
      /\ \A i \in 1..Len(fs) : i # j => gs[i] = fs[i]
  <2> HIDE DEF S
  <2>1. f \in S /\ fs \in Seq(S)
    BY DEF S
  <2> QED
    BY <2>1, Replaced
<1> HIDE DEF gs
<1>2. ASSUME NEW x \in Lines(gs) PROVE x \in Lines(fs) \cup Lines(<<f>>)
  <2>1. PICK l \in 1..Len(gs) : \E i \in 1..Len(gs[l]) : x = gs[l][i]
    BY <1>2, LineAt
  <2>2. PICK i \in 1..Len(gs[l]) : x = gs[l][i]
    BY <2>1, Zenon
  <2>3. CASE l = j
    <3>1. i \in 1..Len(f) /\ x = f[i]
      BY <1>1, <2>2, <2>3, Zenon
    <3> QED
      BY <3>1, IsLineIn
  <2>4. CASE l # j
    <3>1. l \in 1..Len(fs) /\ i \in 1..Len(fs[l]) /\ x = fs[l][i]
      BY <1>1, <2>1, <2>2, <2>4, Zenon
    <3> QED
      BY <3>1, IsLine
  <2> QED
    BY <2>3, <2>4, Zenon
<1> QED
  BY <1>1, <1>2, Zenon DEF gs

\* An append puts one line behind those of the server's file.
LEMMA AppendFacts ==
    ASSUME LogInv, AppendLine
    PROVE  \E x \in Line :
             /\ x.place = written + 1
             /\ files' \in Seq(Seq(Line)) /\ Len(files') = Len(files)
             /\ Begins(files[handle], files'[handle])
             /\ \A j \in 1..Len(files) : j # handle => files'[j] = files[j]
             /\ Lines(files') \subseteq Lines(files) \cup {x}
             /\ Lines(files) \subseteq Lines(files')
<1>1. PICK who \in Subjects :
        files' = [files EXCEPT ![handle] =
                     Append(@, [place |-> written + 1, who |-> who, intact |-> TRUE])]
  BY Zenon DEF AppendLine
<1> DEFINE x == [place |-> written + 1, who |-> who, intact |-> TRUE]
           old == files[handle]
           f == Append(old, x)
<1>2. /\ files \in Seq(Seq(Line)) /\ handle \in 1..Len(files) /\ written \in Nat
  BY Zenon DEF LogInv
<1>3. x \in Line /\ x.place = written + 1
  BY <1>2 DEF Line
<1>4. old \in Seq(Line)
  BY <1>2, Element
<1>5. files' = [files EXCEPT ![handle] = f]
  BY <1>1, Zenon
<1> HIDE DEF x, old
<1>6. /\ f \in Seq(Line) /\ Len(f) = Len(old) + 1 /\ Len(old) \in Nat /\ f[Len(old) + 1] = x
      /\ \A i \in 1..Len(old) : f[i] = old[i]
  BY <1>3, <1>4, Longer
<1> HIDE DEF f
<1>7. /\ files' \in Seq(Seq(Line)) /\ Len(files') = Len(files) /\ files'[handle] = f
      /\ \A j \in 1..Len(files) : j # handle => files'[j] = files[j]
      /\ Lines(files') \subseteq Lines(files) \cup Lines(<<f>>)
  <2>1. files \in Seq(Seq(Line)) /\ handle \in 1..Len(files) /\ f \in Seq(Line)
    BY <1>2, <1>6, Zenon
  <2>2. /\ [files EXCEPT ![handle] = f] \in Seq(Seq(Line))
        /\ Len([files EXCEPT ![handle] = f]) = Len(files)
        /\ [files EXCEPT ![handle] = f][handle] = f
        /\ \A j \in 1..Len(files) : j # handle => [files EXCEPT ![handle] = f][j] = files[j]
        /\ Lines([files EXCEPT ![handle] = f]) \subseteq Lines(files) \cup Lines(<<f>>)
    BY ONLY <2>1, LinesReplaced
  <2> QED
    BY <1>5, <2>2, Zenon
<1>8. Begins(old, f)
  BY <1>6 DEF Begins
<1>9. ASSUME NEW y \in Lines(<<f>>), y # x PROVE y \in Lines(files)
  <2>1. PICK i \in 1..Len(f) : y = f[i]
    BY <1>9, LineIn
  <2>2. i \in 1..Len(old) /\ y = old[i]
    BY <1>6, <1>9, <2>1
  <2> QED
    BY <1>2, <2>2, IsLine DEF old
<1>10. ASSUME NEW y \in Lines(files) PROVE y \in Lines(files')
  <2>1. PICK j \in 1..Len(files) : \E i \in 1..Len(files[j]) : y = files[j][i]
    BY <1>10, LineAt
  <2>2. PICK i \in 1..Len(files[j]) : y = files[j][i]
    BY <2>1, Zenon
  <2>3. i \in 1..Len(files'[j]) /\ y = files'[j][i]
    <3>1. CASE j = handle
      <4>1. files'[j] = f /\ files[j] = old
        BY <1>7, <3>1, Zenon DEF old
      <4>2. i \in 1..Len(f) /\ y = f[i]
        BY <1>6, <2>2, <4>1
      <4> QED
        BY <4>1, <4>2, Zenon
    <3>2. CASE j # handle
      BY <1>7, <2>2, <3>2, Zenon
    <3> QED
      BY <3>1, <3>2, Zenon
  <2>4. j \in 1..Len(files')
    BY <1>7, Zenon
  <2> QED
    BY <2>3, <2>4, IsLine
<1>11. Lines(files') \subseteq Lines(files) \cup {x}
  BY <1>7, <1>9, Zenon
<1>12. Begins(files[handle], files'[handle])
  BY <1>7, <1>8, Zenon DEF old
<1> QED
  BY <1>3, <1>7, <1>10, <1>11, <1>12, Zenon

\* Lines of the log, and one of the next place.
LEMMA NextPlace ==
    ASSUME NEW X, NEW n \in Nat, Below(X, n), Agree(X, X), NEW x, x.place = n + 1,
           NEW Y, Y \subseteq X \cup {x}, \A y \in X : y.place \in Nat
    PROVE  Below(Y, n + 1) /\ Agree(Y, Y) /\ (\A Z : Z \subseteq X => Agree(Z, Y))
<1>1. \A y \in X : y.place <= n + 1 /\ y.place # x.place
  BY DEF Below
<1>2. Below(Y, n + 1)
  BY <1>1 DEF Below
<1>3. Agree(Y, Y) /\ (\A Z : Z \subseteq X => Agree(Z, Y))
  BY <1>1, Zenon DEF Agree
<1> QED
  BY <1>2, <1>3, Zenon

LEMMA AppendKeepsLog ==
    ASSUME LogInv, AppendLine
    PROVE  LogInv'
<1>1. PICK x \in Line :
             /\ x.place = written + 1
             /\ files' \in Seq(Seq(Line)) /\ Len(files') = Len(files)
             /\ Begins(files[handle], files'[handle])
             /\ \A j \in 1..Len(files) : j # handle => files'[j] = files[j]
             /\ Lines(files') \subseteq Lines(files) \cup {x}
             /\ Lines(files) \subseteq Lines(files')
  BY AppendFacts, Zenon
<1>2. /\ files \in Seq(Seq(Line)) /\ handle \in 1..Len(files) /\ written \in Nat
      /\ Below(Lines(files), written) /\ Agree(Lines(files), Lines(files))
      /\ \A j \in (handle + 1)..Len(files) : files[j] = <<>>
      /\ handle' = handle /\ written' = written + 1
  BY Zenon DEF LogInv, AppendLine
<1>3. \A y \in Lines(files) : y.place \in Nat
  BY <1>2, LinesType, Zenon
<1>4. Below(Lines(files'), written + 1) /\ Agree(Lines(files'), Lines(files'))
  BY <1>1, <1>2, <1>3, NextPlace, Zenon
<1>5. written + 1 \in Nat /\ handle \in Nat
  BY <1>2
<1>6. \A j \in (handle + 1)..Len(files) : files'[j] = <<>>
  <2> SUFFICES ASSUME NEW j \in (handle + 1)..Len(files) PROVE files'[j] = <<>>
    BY Zenon
  <2>1. j \in 1..Len(files) /\ j # handle
    BY <1>2
  <2> QED
    BY <1>1, <1>2, <2>1, Zenon
<1> QED
  BY <1>1, <1>2, <1>4, <1>5, <1>6, Zenon DEF LogInv

\* What a reader under way remembers of an append or a rotation.
LEMMA ReaderNotes ==
    ASSUME NEW what, Noting(what), command.kind \in {"read", "verify"}, ReaderTypes
    PROVE  /\ DOMAIN command' = DOMAIN command
           /\ command'.kind = command.kind /\ command'.at = command.at
           /\ command'.names = command.names /\ command'.got = command.got
           /\ command'.since = command.since /\ command'.seen = command.seen \cup {what}
<1>1. command' = [command EXCEPT !.seen = @ \cup {what}]
  BY DEF Noting
<1>2. DOMAIN command = {"kind", "at", "names", "got", "seen", "since"}
  BY Zenon DEF ReaderTypes
<1> QED
  BY <1>1, <1>2

LEMMA EraserNotes ==
    ASSUME NEW what, Noting(what), command.kind = "erase", EraserTypes
    PROVE  /\ DOMAIN command' = DOMAIN command
           /\ command'.kind = command.kind /\ command'.at = command.at
           /\ command'.got = command.got /\ command'.since = command.since
           /\ command'.subject = command.subject /\ command'.inPlace = command.inPlace
           /\ command'.target = command.target /\ command'.seen # {}
<1>1. command' = [command EXCEPT !.seen = @ \cup {what}]
  BY DEF Noting
<1>2. DOMAIN command =
        {"kind", "at", "got", "seen", "since", "subject", "inPlace", "target"}
  BY Zenon DEF EraserTypes
<1> QED
  BY <1>1, <1>2

\* A reader and an append.
LEMMA AppendUnrotated ==
    ASSUME LogInv, AppendLine, NEW since \in Seq(Seq(Line)), NEW got \in Seq(Seq(Line)),
           Len(got) <= Len(since), Unrotated(since, got)
    PROVE  /\ Len(files') = Len(since)
           /\ \A j \in 1..Len(files') :
               Begins(since[j], files'[j]) /\ (j # handle' => since[j] = files'[j])
           /\ \A j \in 1..Len(got) :
               /\ Begins(since[j], got[j]) /\ Begins(got[j], files'[j])
               /\ j # handle' => got[j] = files'[j]
<1>1. /\ files' \in Seq(Seq(Line)) /\ Len(files') = Len(files)
      /\ Begins(files[handle], files'[handle])
      /\ \A j \in 1..Len(files) : j # handle => files'[j] = files[j]
  BY AppendFacts, Zenon
<1>2. /\ files \in Seq(Seq(Line)) /\ handle \in 1..Len(files) /\ handle' = handle
  BY Zenon DEF LogInv, AppendLine
<1>3. /\ Len(files) = Len(since)
      /\ \A j \in 1..Len(files) :
          Begins(since[j], files[j]) /\ (j # handle => since[j] = files[j])
      /\ \A j \in 1..Len(got) :
          /\ Begins(since[j], got[j]) /\ Begins(got[j], files[j])
          /\ j # handle => got[j] = files[j]
  BY Zenon DEF Unrotated
<1>4. ASSUME NEW j \in 1..Len(files), NEW s \in Seq(Line), Begins(s, files[j])
      PROVE  Begins(s, files'[j])
  <2>1. CASE j = handle
    <3>1. files[j] \in Seq(Line) /\ files'[j] \in Seq(Line)
      BY <1>1, <1>2
    <3> QED
      <4>1. Begins(s, files[j]) /\ Begins(files[j], files'[j])
        BY <1>1, <1>4, <2>1, Zenon
      <4> QED
        BY ONLY <3>1, <4>1, s \in Seq(Line) DEF Begins
  <2>2. CASE j # handle
    BY <1>1, <1>4, <2>2, Zenon
  <2> QED
    BY <2>1, <2>2, Zenon
<1>5. \A j \in 1..Len(got) : j \in 1..Len(files) /\ got[j] \in Seq(Line)
  <2>1. Len(files) = Len(since) /\ Len(got) <= Len(since)
    BY <1>3, Zenon
  <2> QED
    BY ONLY <2>1, got \in Seq(Seq(Line)), since \in Seq(Seq(Line))
<1>6. \A j \in 1..Len(files) : since[j] \in Seq(Line)
  <2>1. Len(files) = Len(since)
    BY <1>3, Zenon
  <2> QED
    BY ONLY <2>1, since \in Seq(Seq(Line))
<1> QED
  BY <1>1, <1>2, <1>3, <1>4, <1>5, <1>6, Zenon

LEMMA AppendKeepsReader ==
    ASSUME CommandsInv, AppendLine
    PROVE  ReaderInv'
<1> SUFFICES ASSUME command'.kind \in {"read", "verify"} PROVE ReaderInv'
  BY Zenon DEF ReaderInv
<1>1. LogInv /\ ReaderInv /\ Noting("append")
  BY Zenon DEF CommandsInv, AppendLine
<1>2. command.kind \in {"read", "verify"}
  <2>1. CASE command.kind = "none"
    BY <1>1, <2>1 DEF Noting
  <2>2. CASE command.kind = "erase"
    <3>1. EraserTypes
      BY <2>2, Zenon DEF CommandsInv, EraserInv
    <3>2. command'.kind = command.kind
      BY <1>1, <2>2, <3>1, EraserNotes, Zenon
    <3> QED
      BY <2>2, <3>2
  <2> QED
    BY <2>1, <2>2 DEF CommandsInv
<1>3. /\ ReaderTypes /\ Lines(command.got) \subseteq Lines(files)
      /\ "rotation" \notin command.seen => Unrotated(command.since, command.got)
  BY <1>1, <1>2, Zenon DEF ReaderInv
<1>4. /\ DOMAIN command' = DOMAIN command
      /\ command'.kind = command.kind /\ command'.at = command.at
      /\ command'.names = command.names /\ command'.got = command.got
      /\ command'.since = command.since /\ command'.seen = command.seen \cup {"append"}
  BY <1>1, <1>2, <1>3, ReaderNotes, Zenon
<1>5. Len(files') = Len(files) /\ Lines(files) \subseteq Lines(files')
  BY <1>1, AppendFacts, Zenon
<1>6. ReaderTypes'
  BY <1>3, <1>4, <1>5, Zenon DEF ReaderTypes
<1>7. Lines(command'.got) \subseteq Lines(files')
  BY <1>3, <1>4, <1>5, Zenon
<1>8. ASSUME "rotation" \notin command'.seen PROVE Unrotated(command.since, command.got)'
  <2>1. Unrotated(command.since, command.got)
    BY <1>3, <1>4, <1>8, Zenon
  <2>2. /\ command.since \in Seq(Seq(Line)) /\ command.got \in Seq(Seq(Line))
        /\ Len(command.got) <= Len(command.since)
    BY <1>3 DEF ReaderTypes
  <2> DEFINE since == command.since
             got == command.got
  <2>3. /\ Len(files') = Len(since)
        /\ \A j \in 1..Len(files') :
               Begins(since[j], files'[j]) /\ (j # handle' => since[j] = files'[j])
        /\ \A j \in 1..Len(got) :
               /\ Begins(since[j], got[j]) /\ Begins(got[j], files'[j])
               /\ j # handle' => got[j] = files'[j]
    BY <1>1, <2>1, <2>2, AppendUnrotated, Zenon
  <2> QED
    BY <1>4, <2>3, Zenon DEF Unrotated
<1> QED
  BY <1>6, <1>7, <1>8, Zenon DEF ReaderInv

\* What kind of command is under way when the server appends or rotates.
LEMMA KindNoted ==
    ASSUME NEW what, CommandsInv, Noting(what)
    PROVE  command'.kind = command.kind /\ (command.kind = "none" => command' = command)
<1>1. CASE command.kind = "none"
  BY <1>1 DEF Noting
<1>2. CASE command.kind \in {"read", "verify"}
  <2>1. ReaderTypes
    BY <1>2, Zenon DEF CommandsInv, ReaderInv
  <2> QED
    BY <1>2, <2>1, ReaderNotes
<1>3. CASE command.kind = "erase"
  <2>1. EraserTypes
    BY <1>3, Zenon DEF CommandsInv, EraserInv
  <2> QED
    BY <1>3, <2>1, EraserNotes
<1> QED
  BY <1>1, <1>2, <1>3 DEF CommandsInv

\* An eraser and an append.
LEMMA AppendKeepsEraser ==
    ASSUME CommandsInv, AppendLine
    PROVE  EraserInv'
<1> SUFFICES ASSUME command'.kind = "erase" PROVE EraserInv'
  BY Zenon DEF EraserInv
<1>1. LogInv /\ EraserInv /\ Noting("append") /\ handle' = handle /\ written' = written + 1
  BY Zenon DEF CommandsInv, AppendLine
<1>2. command.kind = "erase"
  BY <1>1, KindNoted, Zenon
<1>3. /\ EraserTypes
      /\ command.at = "reading" => command.got = <<>> \/ handle = Len(files)
      /\ command.at # "reading" => command.got = <<>> \/ command.target <= handle
      /\ Below(Lines(<<command.got>>), written)
      /\ Agree(Lines(<<command.got>>), Lines(<<command.got>>))
      /\ Agree(Lines(<<command.got>>), Lines(files))
  BY <1>1, <1>2, Zenon DEF EraserInv
<1>4. /\ DOMAIN command' = DOMAIN command
      /\ command'.kind = command.kind /\ command'.at = command.at
      /\ command'.got = command.got /\ command'.since = command.since
      /\ command'.subject = command.subject /\ command'.inPlace = command.inPlace
      /\ command'.target = command.target /\ command'.seen # {}
  BY <1>1, <1>2, <1>3, EraserNotes, Zenon
<1>5. PICK x \in Line :
        /\ x.place = written + 1 /\ Len(files') = Len(files)
        /\ Lines(files') \subseteq Lines(files) \cup {x}
  BY <1>1, AppendFacts, Zenon
<1>6. EraserTypes'
  BY <1>3, <1>4, <1>5, Zenon DEF EraserTypes
<1>7. \A y \in Lines(<<command.got>>) : y.place \in Nat
  <2>1. <<command.got>> \in Seq(Seq(Line))
    BY <1>3 DEF EraserTypes
  <2> QED
    BY <2>1, LinesType, Zenon
<1>8. written \in Nat
  BY <1>1, Zenon DEF LogInv
<1>9. \A y \in Lines(<<command.got>>) : y.place <= written + 1 /\ y.place # written + 1
  BY <1>3, <1>7, <1>8 DEF Below
<1>10. Below(Lines(<<command.got>>), written + 1)
  BY <1>9, Zenon DEF Below
<1>11. Agree(Lines(<<command.got>>), Lines(files'))
  BY <1>3, <1>5, <1>9, Zenon DEF Agree
<1> QED
  BY <1>1, <1>3, <1>4, <1>5, <1>6, <1>10, <1>11, Zenon DEF EraserInv

LEMMA AppendKeepsCommands ==
    ASSUME CommandsInv, AppendLine
    PROVE  CommandsInv'
<1>1. LogInv /\ Noting("append") /\ command.kind \in {"none", "read", "verify", "erase"}
  BY Zenon DEF CommandsInv, AppendLine
<1>2. command'.kind = command.kind
  BY <1>1, KindNoted, Zenon
<1>3. LogInv' /\ ReaderInv' /\ EraserInv'
  BY <1>1, AppendKeepsLog, AppendKeepsReader, AppendKeepsEraser, Zenon
<1> QED
  BY <1>1, <1>2, <1>3, Zenon DEF CommandsInv

\* A rotation adds an empty file.
LEMMA RotationKeepsLog ==
    ASSUME LogInv, files' = Append(files, <<>>), handle' = handle \/ handle' = Len(files'),
           written' = written
    PROVE  LogInv' /\ Lines(files') = Lines(files) /\ Len(files') = Len(files) + 1
<1>1. /\ files \in Seq(Seq(Line)) /\ handle \in 1..Len(files) /\ written \in Nat
      /\ Below(Lines(files), written) /\ Agree(Lines(files), Lines(files))
      /\ \A j \in (handle + 1)..Len(files) : files[j] = <<>>
  BY Zenon DEF LogInv
<1>2. /\ Append(files, <<>>) \in Seq(Seq(Line)) /\ Len(Append(files, <<>>)) = Len(files) + 1
      /\ Len(files) \in Nat
      /\ Append(files, <<>>)[Len(files) + 1] = <<>>
      /\ \A j \in 1..Len(files) : Append(files, <<>>)[j] = files[j]
      /\ Lines(Append(files, <<>>)) = Lines(files)
  BY <1>1, FileAdded
<1>3. /\ files' \in Seq(Seq(Line)) /\ Len(files') = Len(files) + 1
      /\ files'[Len(files) + 1] = <<>>
      /\ \A j \in 1..Len(files) : files'[j] = files[j]
      /\ Lines(files') = Lines(files)
  BY <1>2, Zenon
<1>4. handle' \in 1..Len(files')
  BY <1>1, <1>2, <1>3
<1>5. ASSUME NEW j \in (handle' + 1)..Len(files') PROVE files'[j] = <<>>
  <2>1. CASE j = Len(files) + 1
    BY <1>3, <2>1, Zenon
  <2>2. CASE j # Len(files) + 1
    <3>1. j \in (handle + 1)..Len(files) /\ j \in 1..Len(files)
      <4>1. /\ handle \in 1..Len(files) /\ Len(files) \in Nat /\ Len(files') = Len(files) + 1
            /\ handle' = handle \/ handle' = Len(files')
        BY <1>1, <1>2, <1>3, Zenon
      <4> QED
        BY ONLY <2>2, <4>1, j \in (handle' + 1)..Len(files')
    <3> QED
      BY <1>1, <1>3, <3>1, Zenon
  <2> QED
    BY <2>1, <2>2, Zenon
<1> QED
  BY <1>1, <1>3, <1>4, <1>5, Zenon DEF LogInv

LEMMA RotateKeepsCommands ==
    ASSUME CommandsInv, RotateLog
    PROVE  CommandsInv'
<1>1. /\ LogInv /\ ReaderInv /\ EraserInv
      /\ command.kind \in {"none", "read", "verify", "erase"}
      /\ Noting("rotation") /\ files' = Append(files, <<>>) /\ handle' = Len(files')
      /\ written' = written
  BY Zenon DEF CommandsInv, RotateLog
<1>2. LogInv' /\ Lines(files') = Lines(files) /\ Len(files') = Len(files) + 1
  BY <1>1, RotationKeepsLog, Zenon
<1>3. command'.kind = command.kind
  BY <1>1, KindNoted, Zenon
<1>4. Len(files) \in Nat /\ handle \in 1..Len(files)
  BY <1>1 DEF LogInv
<1>5. ASSUME command.kind \in {"read", "verify"} PROVE ReaderInv'
  <2>1. ReaderTypes /\ Lines(command.got) \subseteq Lines(files)
    BY <1>1, <1>5, Zenon DEF ReaderInv
  <2>2. /\ DOMAIN command' = DOMAIN command
        /\ command'.kind = command.kind /\ command'.at = command.at
        /\ command'.names = command.names /\ command'.got = command.got
        /\ command'.since = command.since /\ command'.seen = command.seen \cup {"rotation"}
    BY <1>1, <1>5, <2>1, ReaderNotes, Zenon
  <2>3. Len(command.since) \in 1..Len(files')
    BY <1>2, <1>4, <2>1 DEF ReaderTypes
  <2>4. ReaderTypes'
    BY <2>1, <2>2, <2>3, Zenon DEF ReaderTypes
  <2>5. "rotation" \in command'.seen
    BY <2>2, Zenon
  <2> QED
    BY <1>2, <2>1, <2>2, <2>4, <2>5, Zenon DEF ReaderInv
<1>6. ASSUME command.kind = "erase" PROVE EraserInv'
  <2>1. /\ EraserTypes
        /\ command.at # "reading" => command.got = <<>> \/ command.target <= handle
        /\ Below(Lines(<<command.got>>), written)
        /\ Agree(Lines(<<command.got>>), Lines(<<command.got>>))
        /\ Agree(Lines(<<command.got>>), Lines(files))
    BY <1>1, <1>6, Zenon DEF EraserInv
  <2>2. /\ DOMAIN command' = DOMAIN command
        /\ command'.kind = command.kind /\ command'.at = command.at
        /\ command'.got = command.got /\ command'.since = command.since
        /\ command'.subject = command.subject /\ command'.inPlace = command.inPlace
        /\ command'.target = command.target /\ command'.seen # {}
    BY <1>1, <1>6, <2>1, EraserNotes, Zenon
  <2>3. command.target \in 1..Len(files') /\ command.target <= handle'
    BY <1>1, <1>2, <1>4, <2>1 DEF EraserTypes
  <2>4. EraserTypes'
    BY <2>1, <2>2, <2>3, Zenon DEF EraserTypes
  <2> QED
    BY <1>1, <1>2, <2>1, <2>2, <2>3, <2>4, Zenon DEF EraserInv
<1>7. ReaderInv' /\ EraserInv'
  BY <1>3, <1>5, <1>6, Zenon DEF ReaderInv, EraserInv
<1> QED
  BY <1>1, <1>2, <1>3, <1>7, Zenon DEF CommandsInv

\* The end of a command.
LEMMA EndKeepsCommands ==
    ASSUME CommandsInv, command' = NoCommand, UNCHANGED <<files, handle, written>>
    PROVE  CommandsInv'
<1>1. command'.kind = "none"
  BY DEF NoCommand
<1>2. command'.kind \notin {"read", "verify", "erase"}
  BY <1>1
<1>3. LogInv'
  BY Zenon DEF CommandsInv, LogInv
<1> QED
  BY <1>1, <1>2, <1>3, Zenon DEF CommandsInv, ReaderInv, EraserInv

\* audit rotate.
LEMMA RotateByKeepsCommands ==
    ASSUME CommandsInv, RotateByCommand
    PROVE  CommandsInv'
<1>1. /\ LogInv /\ files' = Append(files, <<>>) /\ handle' = handle /\ written' = written
      /\ command' = command /\ command.kind = "none"
  BY Zenon DEF CommandsInv, RotateByCommand, MayBegin
<1>2. LogInv'
  BY <1>1, RotationKeepsLog, Zenon
<1>3. command'.kind = "none" /\ command'.kind \notin {"read", "verify", "erase"}
  BY <1>1
<1> QED
  BY <1>2, <1>3, Zenon DEF CommandsInv, ReaderInv, EraserInv

\* Readers.
LEMMA StartKeepsCommands ==
    ASSUME CommandsInv, StartReading
    PROVE  CommandsInv'
<1>1. /\ LogInv /\ files' = files /\ handle' = handle /\ written' = written
  BY Zenon DEF CommandsInv, StartReading
<1>2. LogInv'
  BY <1>1, Zenon DEF LogInv
<1>3. PICK kind \in {"read", "verify"} :
        command' = [kind |-> kind, at |-> "reading", names |-> Listing, got |-> <<>>,
                    seen |-> {}, since |-> files]
  BY Zenon DEF StartReading
<1>4. /\ DOMAIN command' = {"kind", "at", "names", "got", "seen", "since"}
      /\ command'.kind \in {"read", "verify"} /\ command'.at = "reading"
      /\ command'.names = Listing /\ command'.got = <<>> /\ command'.since = files
  BY <1>3
<1>5. /\ files \in Seq(Seq(Line)) /\ handle \in 1..Len(files)
  BY <1>1, Zenon DEF LogInv
<1>6. /\ <<>> \in Seq(Seq(Line)) /\ Len(files) \in 1..Len(files) /\ Len(<<>>) < Len(files)
  BY <1>5
<1>7. ReaderTypes'
  BY <1>1, <1>4, <1>5, <1>6, Zenon DEF ReaderTypes, Listing
<1>8. Lines(<<>>) = {}
  BY DEF Lines
<1>9. \A j \in 1..Len(files) : Begins(files[j], files[j])
  BY <1>5 DEF Begins
<1>10. 1..Len(<<>>) = {}
  OBVIOUS
<1>11. Unrotated(command.since, command.got)'
  BY <1>1, <1>4, <1>9, <1>10, Zenon DEF Unrotated
<1>12. ReaderInv'
  BY <1>4, <1>7, <1>8, <1>11, Zenon DEF ReaderInv
<1>13. command'.kind # "erase"
  BY <1>4
<1> QED
  BY <1>2, <1>4, <1>12, <1>13, Zenon DEF CommandsInv, EraserInv

\* The lines of a log with one file more.
LEMMA FileRead ==
    ASSUME NEW S, NEW fs \in Seq(S), NEW f \in S, NEW X, Lines(fs) \subseteq X,
           \A i \in 1..Len(f) : f[i] \in X
    PROVE  Lines(Append(fs, f)) \subseteq X
<1> SUFFICES ASSUME NEW x \in Lines(Append(fs, f)) PROVE x \in X
  BY Zenon
<1>1. /\ Len(Append(fs, f)) = Len(fs) + 1 /\ Len(fs) \in Nat
      /\ Append(fs, f)[Len(fs) + 1] = f
      /\ \A i \in 1..Len(fs) : Append(fs, f)[i] = fs[i]
  BY Longer
<1>2. PICK j \in 1..Len(Append(fs, f)) :
        \E i \in 1..Len(Append(fs, f)[j]) : x = Append(fs, f)[j][i]
  BY LineAt, Zenon
<1>3. PICK i \in 1..Len(Append(fs, f)[j]) : x = Append(fs, f)[j][i]
  BY <1>2, Zenon
<1>4. CASE j = Len(fs) + 1
  BY <1>1, <1>3, <1>4, Zenon
<1>5. CASE j # Len(fs) + 1
  <2>1. j \in 1..Len(fs)
    BY <1>1, <1>5
  <2>2. i \in 1..Len(fs[j]) /\ x = fs[j][i]
    BY <1>1, <1>3, <2>1, Zenon
  <2> QED
    BY <2>1, <2>2, IsLine
<1> QED
  BY <1>4, <1>5, Zenon

\* The file a reader opens: the one listed, or the one now at the active path.
LEMMA FileOpened ==
    ASSUME LogInv, ReaderTypes, command.at = "reading", NEW n, n = Len(command.got) + 1,
           NEW opened, opened = IF command.names[n] = ActivePath THEN Active
                            ELSE files[command.names[n]]
    PROVE  /\ n \in 1..Len(command.since) /\ Len(command.names) = Len(command.since)
           /\ \E l \in 1..Len(files) :
                opened = files[l] /\ (Len(files) = Len(command.since) => l = n)
<1>1. /\ command.got \in Seq(Seq(Line)) /\ command.since \in Seq(Seq(Line))
      /\ Len(command.since) \in 1..Len(files)
      /\ command.names = [i \in 1..Len(command.since) |->
                             IF i < Len(command.since) THEN i ELSE ActivePath]
      /\ Len(command.got) < Len(command.since)
  BY DEF ReaderTypes
<1>2. files \in Seq(Seq(Line)) /\ Len(files) \in Nat /\ Len(files) \in 1..Len(files)
  BY DEF LogInv
<1>3. n \in 1..Len(command.since) /\ Len(command.names) = Len(command.since)
  BY <1>1
<1>4. CASE n < Len(command.since)
  <2>1. command.names[n] = n /\ n # ActivePath /\ n \in 1..Len(files)
    BY <1>1, <1>3, <1>4 DEF ActivePath
  <2>2. opened = files[n]
    BY <2>1, Zenon
  <2> QED
    BY <1>3, <2>1, <2>2, Zenon
<1>5. CASE ~(n < Len(command.since))
  <2>1. command.names[n] = ActivePath /\ n = Len(command.since)
    BY <1>1, <1>3, <1>5
  <2>2. opened = files[Len(files)]
    BY <2>1, Zenon DEF Active
  <2> QED
    BY <1>2, <1>3, <2>1, <2>2, Zenon
<1> QED
  BY <1>4, <1>5, Zenon

LEMMA ReadKeepsCommands ==
    ASSUME CommandsInv, ReadFile
    PROVE  CommandsInv'
<1> DEFINE n == Len(command.got) + 1
           opened == IF command.names[n] = ActivePath THEN Active ELSE files[command.names[n]]
<1>1. /\ LogInv /\ ReaderInv /\ files' = files /\ handle' = handle /\ written' = written
      /\ command.kind \in {"read", "verify"} /\ command.at = "reading"
      /\ command' = [command EXCEPT !.got = Append(@, opened),
                                    !.at = IF n = Len(command.names) THEN "done" ELSE @]
  BY Zenon DEF CommandsInv, ReadFile
<1>2. LogInv'
  BY <1>1, Zenon DEF LogInv
<1>3. /\ ReaderTypes /\ Lines(command.got) \subseteq Lines(files)
      /\ "rotation" \notin command.seen => Unrotated(command.since, command.got)
  BY <1>1, Zenon DEF ReaderInv
<1>4. /\ n \in 1..Len(command.since) /\ Len(command.names) = Len(command.since)
      /\ \E l \in 1..Len(files) :
           opened = files[l] /\ (Len(files) = Len(command.since) => l = n)
  BY <1>1, <1>3, FileOpened
<1>5. PICK l \in 1..Len(files) :
        opened = files[l] /\ (Len(files) = Len(command.since) => l = n)
  BY <1>4, Zenon
<1> HIDE DEF opened
<1>6. /\ DOMAIN command = {"kind", "at", "names", "got", "seen", "since"}
      /\ command.got \in Seq(Seq(Line))
  BY <1>3, Zenon DEF ReaderTypes
<1>7. /\ DOMAIN command' = DOMAIN command
      /\ command'.kind = command.kind /\ command'.names = command.names
      /\ command'.since = command.since /\ command'.seen = command.seen
      /\ command'.got = Append(command.got, opened)
      /\ command'.at = IF n = Len(command.names) THEN "done" ELSE "reading"
  BY <1>1, <1>6
<1>8. opened \in Seq(Line) /\ \A i \in 1..Len(opened) : opened[i] \in Lines(files)
  BY <1>1, <1>5, Element, IsLine DEF LogInv
<1>9. /\ command'.got \in Seq(Seq(Line)) /\ Len(command'.got) = n
      /\ command'.got[n] = opened /\ Len(command.got) \in Nat
      /\ \A j \in 1..Len(command.got) : command'.got[j] = command.got[j]
  BY <1>6, <1>7, <1>8, Longer
<1>10. \/ command'.at = "reading" /\ Len(command'.got) < Len(command'.since)
       \/ command'.at = "done" /\ Len(command'.got) = Len(command'.since)
  BY <1>4, <1>7, <1>9
<1>11. ReaderTypes'
  BY <1>1, <1>3, <1>7, <1>9, <1>10, Zenon DEF ReaderTypes
<1>12. Lines(command'.got) \subseteq Lines(files')
  <2>1. Lines(Append(command.got, opened)) \subseteq Lines(files)
    BY <1>3, <1>6, <1>8, FileRead
  <2> QED
    BY <1>1, <1>7, <2>1, Zenon
<1>13. ASSUME "rotation" \notin command'.seen PROVE Unrotated(command.since, command.got)'
  <2>1. Unrotated(command.since, command.got)
    BY <1>3, <1>7, <1>13, Zenon
  <2>2. opened = files[n] /\ n \in 1..Len(files)
    BY <1>4, <1>5, <2>1, Zenon DEF Unrotated
  <2>3. Begins(command.since[n], opened) /\ (n # handle => command.since[n] = opened)
    BY <2>1, <2>2, Zenon DEF Unrotated
  <2>4. Begins(opened, opened)
    BY <1>8 DEF Begins
  <2>5. \A j \in 1..Len(command'.got) : j = n \/ j \in 1..Len(command.got)
    BY <1>9
  <2>6. ASSUME NEW j \in 1..Len(command'.got)
        PROVE  /\ Begins(command.since[j], command'.got[j]) /\ Begins(command'.got[j], files[j])
               /\ j # handle => command'.got[j] = files[j]
    <3>1. CASE j = n
      BY <1>9, <2>2, <2>3, <2>4, <3>1, Zenon
    <3>2. CASE j \in 1..Len(command.got)
      BY <1>9, <2>1, <3>2, Zenon DEF Unrotated
    <3> QED
      BY <2>5, <3>1, <3>2, Zenon
  <2> QED
    BY <1>1, <1>7, <2>1, <2>6, Zenon DEF Unrotated
<1>14. ReaderInv'
  BY <1>11, <1>12, <1>13, Zenon DEF ReaderInv
<1>15. command'.kind \in {"read", "verify"} /\ command'.kind # "erase"
  BY <1>1, <1>7
<1> QED
  BY <1>2, <1>14, <1>15, Zenon DEF CommandsInv, EraserInv

\* A line without its subject.
LEMMA LineErased ==
    ASSUME NEW x \in Line
    PROVE  /\ [x EXCEPT !.who = "erased", !.intact = FALSE] \in Line
           /\ [x EXCEPT !.who = "erased", !.intact = FALSE].place = x.place
           /\ [x EXCEPT !.who = "erased", !.intact = FALSE].who = "erased"
           /\ [x EXCEPT !.who = "erased", !.intact = FALSE].intact = FALSE
  BY Zenon DEF Line

\* Erased keeps every place and the other subjects' lines.
LEMMA ErasedFacts ==
    ASSUME NEW lines \in Seq(Line), NEW subject \in Subjects
    PROVE  /\ Erased(lines, subject) \in Seq(Line)
           /\ Len(Erased(lines, subject)) = Len(lines)
           /\ \A i \in 1..Len(lines) :
                /\ Erased(lines, subject)[i].place = lines[i].place
                /\ Erased(lines, subject)[i].who # subject
                /\ lines[i].who # subject => Erased(lines, subject)[i] = lines[i]
                /\ Erased(lines, subject)[i].intact => Erased(lines, subject)[i] = lines[i]
<1> DEFINE e == Erased(lines, subject)
<1>1. DOMAIN lines = 1..Len(lines) /\ Len(lines) \in Nat
  OBVIOUS
<1>2. DOMAIN e = 1..Len(lines)
  BY <1>1 DEF Erased
<1>3. ASSUME NEW i \in 1..Len(lines)
      PROVE  /\ e[i] \in Line /\ e[i].place = lines[i].place /\ e[i].who # subject
             /\ lines[i].who # subject => e[i] = lines[i]
             /\ e[i].intact => e[i] = lines[i]
  <2>1. lines[i] \in Line
    BY Element
  <2>2. CASE lines[i].who = subject
    <3>1. e[i] = [lines[i] EXCEPT !.who = "erased", !.intact = FALSE]
      BY <1>1, <2>2, Zenon DEF Erased
    <3>2. /\ e[i] \in Line /\ e[i].place = lines[i].place
          /\ e[i].who = "erased" /\ e[i].intact = FALSE
      BY <2>1, <3>1, LineErased, Zenon
    <3>3. "erased" # subject
      BY CommandsAssumption
    <3> QED
      BY <2>2, <3>2, <3>3, Zenon
  <2>3. CASE lines[i].who # subject
    <3>1. e[i] = lines[i]
      BY <1>1, <2>3, Zenon DEF Erased
    <3> QED
      BY <2>1, <2>3, <3>1, Zenon
  <2> QED
    BY <2>2, <2>3, Zenon
<1>4. e = [i \in 1..Len(lines) |-> e[i]]
  BY <1>1, Zenon DEF Erased
<1> HIDE DEF e
<1>5. e \in Seq(Line) /\ Len(e) = Len(lines)
  BY <1>1, <1>2, <1>3, <1>4
<1> QED
  BY <1>3, <1>5, Zenon DEF e

\* Lines of the log, and lines that agree with them.
LEMMA AgreeTogether ==
    ASSUME NEW X, NEW Y, Agree(X, X), Agree(Y, Y), Agree(X, Y), NEW Z, Z \subseteq X \cup Y
    PROVE  Agree(Z, Z) /\ Agree(X, Z)
  BY Zenon DEF Agree

LEMMA BelowTogether ==
    ASSUME NEW X, NEW Y, NEW n, Below(X, n), Below(Y, n), NEW Z, Z \subseteq X \cup Y
    PROVE  Below(Z, n)
  BY Zenon DEF Below

\* audit erase reads the active file.
LEMMA EraseKeepsCommands ==
    ASSUME CommandsInv, StartErase
    PROVE  CommandsInv'
<1>1. /\ LogInv /\ files' = files /\ handle' = handle /\ written' = written
  BY Zenon DEF CommandsInv, StartErase
<1>2. LogInv'
  BY <1>1, Zenon DEF LogInv
<1>3. PICK subject \in Subjects : \E inPlace \in BOOLEAN :
        command' = [kind |-> "erase", at |-> "reading", got |-> Erased(Active, subject),
                    seen |-> {}, since |-> Active, subject |-> subject,
                    inPlace |-> inPlace, target |-> Len(files)]
  BY Zenon DEF StartErase
<1>4. PICK inPlace \in BOOLEAN :
        command' = [kind |-> "erase", at |-> "reading", got |-> Erased(Active, subject),
                    seen |-> {}, since |-> Active, subject |-> subject,
                    inPlace |-> inPlace, target |-> Len(files)]
  BY <1>3, Zenon
<1> DEFINE got == Erased(Active, subject)
<1>5. /\ DOMAIN command' =
           {"kind", "at", "got", "seen", "since", "subject", "inPlace", "target"}
      /\ command'.kind = "erase" /\ command'.at = "reading" /\ command'.got = got
      /\ command'.since = Active /\ command'.subject = subject
      /\ command'.inPlace = inPlace /\ command'.target = Len(files)
  BY <1>4
<1>6. /\ files \in Seq(Seq(Line)) /\ handle \in 1..Len(files) /\ written \in Nat
      /\ Below(Lines(files), written) /\ Agree(Lines(files), Lines(files))
      /\ \A j \in (handle + 1)..Len(files) : files[j] = <<>>
  BY <1>1, Zenon DEF LogInv
<1>7. Len(files) \in 1..Len(files) /\ Active \in Seq(Line)
  <2>1. Len(files) \in 1..Len(files)
    BY ONLY <1>6
  <2> QED
    BY <1>6, <2>1, Element, Zenon DEF Active
<1>8. /\ got \in Seq(Line) /\ Len(got) = Len(Active)
      /\ \A i \in 1..Len(Active) :
           got[i].place = Active[i].place /\ (got[i].intact => got[i] = Active[i])
  BY <1>7, ErasedFacts
<1> HIDE DEF got
<1>9. ASSUME NEW x \in Lines(<<got>>)
      PROVE  \E y \in Lines(files) : x.place = y.place /\ (x.intact => x = y)
  <2>1. PICK i \in 1..Len(got) : x = got[i]
    BY LineIn
  <2>2. Active[i] \in Lines(files)
    BY <1>7, <1>8, <2>1, IsLine DEF Active
  <2> QED
    BY <1>8, <2>1, <2>2, Zenon
<1>10. Below(Lines(<<got>>), written)
  BY <1>6, <1>9, Zenon DEF Below
<1>11. Agree(Lines(<<got>>), Lines(<<got>>)) /\ Agree(Lines(<<got>>), Lines(files))
  BY <1>6, <1>9, Zenon DEF Agree
<1>12. got = <<>> \/ handle = Len(files)
  <2> SUFFICES ASSUME handle # Len(files) PROVE got = <<>>
    BY Zenon
  <2>1. Len(files) \in (handle + 1)..Len(files)
    BY <1>6
  <2>2. Active = <<>>
    BY <1>6, <2>1, Zenon DEF Active
  <2> QED
    BY <1>8, <2>2
<1>13. EraserTypes'
  BY <1>1, <1>5, <1>7, <1>8, Zenon DEF EraserTypes
<1>14. command'.at = "reading" /\ command'.at # "writing" /\ command'.at # "done"
  BY <1>5
<1>15. Unnoticed'
  BY <1>1, <1>5, <1>14, Zenon DEF Unnoticed, Active, got
<1>16. EraserInv'
  BY <1>1, <1>5, <1>10, <1>11, <1>12, <1>13, <1>15, Zenon DEF EraserInv
<1>17. command'.kind \notin {"read", "verify"}
  BY <1>5
<1> QED
  BY <1>2, <1>5, <1>16, <1>17, Zenon DEF CommandsInv, ReaderInv

\* A file of the log rewritten with lines that agree with the log.
LEMMA RewriteKeepsLog ==
    ASSUME LogInv, NEW j \in 1..Len(files), NEW f \in Seq(Line), NEW X,
           Lines(<<f>>) \subseteq X \cup Lines(files), Below(X, written), Agree(X, X),
           Agree(X, Lines(files)), f = <<>> \/ j <= handle,
           files' = [files EXCEPT ![j] = f], UNCHANGED <<handle, written>>
    PROVE  /\ LogInv' /\ Agree(X, Lines(files'))
           /\ Len(files') = Len(files) /\ files'[j] = f
<1>1. /\ files \in Seq(Seq(Line)) /\ handle \in 1..Len(files) /\ written \in Nat
      /\ Below(Lines(files), written) /\ Agree(Lines(files), Lines(files))
      /\ \A k \in (handle + 1)..Len(files) : files[k] = <<>>
      /\ handle' = handle /\ written' = written
  BY Zenon DEF LogInv
<1>2. /\ files' \in Seq(Seq(Line)) /\ Len(files') = Len(files) /\ files'[j] = f
      /\ \A i \in 1..Len(files) : i # j => files'[i] = files[i]
      /\ Lines(files') \subseteq Lines(files) \cup Lines(<<f>>)
  <2>1. files \in Seq(Seq(Line)) /\ j \in 1..Len(files) /\ f \in Seq(Line)
    BY <1>1, Zenon
  <2>2. /\ [files EXCEPT ![j] = f] \in Seq(Seq(Line))
        /\ Len([files EXCEPT ![j] = f]) = Len(files) /\ [files EXCEPT ![j] = f][j] = f
        /\ \A i \in 1..Len(files) : i # j => [files EXCEPT ![j] = f][i] = files[i]
        /\ Lines([files EXCEPT ![j] = f]) \subseteq Lines(files) \cup Lines(<<f>>)
    BY ONLY <2>1, LinesReplaced
  <2> QED
    BY <2>2, Zenon
<1>3. Lines(files') \subseteq X \cup Lines(files)
  BY <1>2, Zenon
<1>4. Below(Lines(files'), written)
  BY <1>1, <1>3, BelowTogether, Zenon
<1>5. Agree(Lines(files'), Lines(files')) /\ Agree(X, Lines(files'))
  BY <1>1, <1>3, AgreeTogether, Zenon
<1>6. ASSUME NEW k \in (handle + 1)..Len(files) PROVE files'[k] = <<>>
  <2>1. k \in 1..Len(files) /\ k > handle
    BY <1>1
  <2>2. CASE k = j
    BY <1>1, <1>2, <2>1, <2>2
  <2>3. CASE k # j
    BY <1>1, <1>2, <1>6, <2>1, <2>3, Zenon
  <2> QED
    BY <2>2, <2>3, Zenon
<1> QED
  BY <1>1, <1>2, <1>4, <1>5, <1>6, Zenon DEF LogInv

\* The file is created anew: it is empty.
LEMMA CreateKeepsCommands ==
    ASSUME CommandsInv, CreateTarget
    PROVE  CommandsInv'
<1>1. /\ LogInv /\ EraserInv /\ handle' = handle /\ written' = written
      /\ command.kind = "erase" /\ command.at = "reading"
      /\ command' = [command EXCEPT !.at = "writing", !.target = Len(files)]
      /\ files' = IF command.inPlace THEN [files EXCEPT ![Len(files)] = <<>>] ELSE files
  BY Zenon DEF CommandsInv, CreateTarget
<1>2. /\ EraserTypes /\ (command.got = <<>> \/ handle = Len(files))
      /\ Below(Lines(<<command.got>>), written)
      /\ Agree(Lines(<<command.got>>), Lines(<<command.got>>))
      /\ Agree(Lines(<<command.got>>), Lines(files))
      /\ command.seen = {} => Unnoticed
  BY <1>1, Zenon DEF EraserInv
<1>3. /\ DOMAIN command =
           {"kind", "at", "got", "seen", "since", "subject", "inPlace", "target"}
      /\ command.inPlace \in BOOLEAN
  BY <1>2, Zenon DEF EraserTypes
<1>4. /\ DOMAIN command' = DOMAIN command
      /\ command'.kind = "erase" /\ command'.at = "writing" /\ command'.got = command.got
      /\ command'.seen = command.seen /\ command'.since = command.since
      /\ command'.subject = command.subject /\ command'.inPlace = command.inPlace
      /\ command'.target = Len(files)
  BY <1>1, <1>3
<1>5. Len(files) \in 1..Len(files) /\ <<>> \in Seq(Line) /\ Lines(<<<<>>>>) = {}
  <2>1. Len(files) \in 1..Len(files) /\ <<>> \in Seq(Line)
    BY <1>1 DEF LogInv
  <2>2. 1..Len(<<>>) = {}
    OBVIOUS
  <2>3. Lines(<<<<>>>>) = {}
    BY <2>2, LineIn
  <2> QED
    BY <2>1, <2>3, Zenon
<1>6. /\ LogInv' /\ Agree(Lines(<<command.got>>), Lines(files'))
      /\ Len(files') = Len(files) /\ (command.inPlace => files'[Len(files)] = <<>>)
  <2>1. CASE command.inPlace
    <3> DEFINE X == Lines(<<command.got>>)
               top == Len(files)
    <3>1. /\ Lines(<<<<>>>>) \subseteq X \cup Lines(files)
          /\ files' = [files EXCEPT ![top] = <<>>]
      BY <1>1, <1>5, <2>1, Zenon
    <3>2. top \in 1..Len(files)
      BY <1>5, Zenon
    <3> HIDE DEF X, top
    <3>3. Below(X, written) /\ Agree(X, X) /\ Agree(X, Lines(files))
      BY <1>2, Zenon DEF X
    <3>4. /\ LogInv' /\ Agree(X, Lines(files'))
          /\ Len(files') = Len(files) /\ files'[top] = <<>>
      BY <1>1, <1>5, <3>1, <3>2, <3>3, RewriteKeepsLog, Zenon
    <3> QED
      BY <3>4, Zenon DEF X, top
  <2>2. CASE ~command.inPlace
    <3>1. files' = files
      BY <1>1, <2>2, Zenon
    <3> QED
      BY <1>1, <1>2, <2>2, <3>1, Zenon DEF LogInv
  <2> QED
    BY <2>1, <2>2, Zenon
<1>7. EraserTypes'
  BY <1>2, <1>4, <1>5, <1>6, Zenon DEF EraserTypes
<1>8. command'.at # "reading" /\ command'.at # "done"
  BY <1>4
<1>9. command.got = <<>> \/ Len(files) <= handle
  BY <1>1, <1>2 DEF LogInv
<1>10. ASSUME command.seen = {} PROVE Unnoticed'
  <2>1. /\ command.got = Erased(command.since, command.subject)
        /\ Active = command.since
    BY <1>1, <1>2, <1>10, Zenon DEF Unnoticed
  <2>2. CASE command.inPlace
    BY <1>4, <1>6, <1>8, <2>1, <2>2, Zenon DEF Unnoticed, Active
  <2>3. CASE ~command.inPlace
    <3>1. files' = files
      BY <1>1, <2>3, Zenon
    <3> QED
      BY <1>4, <1>8, <2>1, <2>3, <3>1, Zenon DEF Unnoticed, Active
  <2> QED
    BY <2>2, <2>3, Zenon
<1>11. EraserInv'
  BY <1>1, <1>2, <1>4, <1>6, <1>7, <1>8, <1>9, <1>10, Zenon DEF EraserInv
<1>12. command'.kind \notin {"read", "verify"}
  BY <1>4
<1> QED
  BY <1>4, <1>6, <1>11, <1>12, Zenon DEF CommandsInv, ReaderInv

\* What the eraser leaves in its target.
LEMMA OverlaidFacts ==
    ASSUME NEW lines \in Seq(Line), NEW n \in 0..Len(lines), NEW old \in Seq(Line)
    PROVE  /\ Overlaid(lines, n, old) \in Seq(Line)
           /\ Lines(<<Overlaid(lines, n, old)>>) \subseteq Lines(<<lines>>) \cup Lines(<<old>>)
           /\ n = Len(lines) /\ old = <<>> => Overlaid(lines, n, old) = lines
           /\ lines = <<>> => Overlaid(lines, n, old) = old
<1> DEFINE m == IF n > Len(old) THEN n ELSE Len(old)
           f == Overlaid(lines, n, old)
<1>1. m \in Nat /\ n \in Nat /\ Len(old) \in Nat /\ Len(lines) \in Nat
  OBVIOUS
<1>2. f = [i \in 1..m |-> IF i <= n THEN lines[i] ELSE old[i]]
  BY DEF Overlaid
<1>3. \A i \in 1..m : IF i <= n THEN i \in 1..Len(lines) ELSE i \in 1..Len(old)
  OBVIOUS
<1> HIDE DEF m, f
<1>4. \A i \in 1..m : (IF i <= n THEN lines[i] ELSE old[i]) \in Line
  BY <1>1, <1>3
<1>5. f \in Seq(Line) /\ Len(f) = m
  BY <1>1, <1>2, <1>4
<1>6. ASSUME NEW x \in Lines(<<f>>) PROVE x \in Lines(<<lines>>) \cup Lines(<<old>>)
  <2>1. PICK i \in 1..Len(f) : x = f[i]
    BY LineIn
  <2>2. i \in 1..m /\ x = IF i <= n THEN lines[i] ELSE old[i]
    BY <1>2, <1>5, <2>1, Zenon
  <2>3. CASE i <= n
    BY <1>3, <2>2, <2>3, IsLineIn
  <2>4. CASE ~(i <= n)
    BY <1>3, <2>2, <2>4, IsLineIn
  <2> QED
    BY <2>3, <2>4, Zenon
<1>7. ASSUME n = Len(lines), old = <<>> PROVE f = lines
  <2>1. m = Len(lines) /\ \A i \in 1..m : i <= n
    BY <1>1, <1>7 DEF m
  <2>2. \A i \in 1..Len(lines) : f[i] = lines[i]
    BY <1>2, <2>1, Zenon
  <2> QED
    BY <1>5, <2>1, <2>2
<1>8. ASSUME lines = <<>> PROVE f = old
  <2>1. m = Len(old) /\ \A i \in 1..m : ~(i <= n)
    BY <1>1, <1>8 DEF m
  <2>2. \A i \in 1..Len(old) : f[i] = old[i]
    BY <1>2, <2>1, Zenon
  <2> QED
    BY <1>5, <2>1, <2>2
<1> QED
  BY <1>5, <1>6, <1>7, <1>8, Zenon DEF f

\* The eraser writes its lines.
LEMMA WriteKeepsCommands ==
    ASSUME CommandsInv, WriteTarget
    PROVE  CommandsInv'
<1>1. /\ LogInv /\ EraserInv /\ handle' = handle /\ written' = written
      /\ command.kind = "erase" /\ command.at = "writing"
  BY Zenon DEF CommandsInv, WriteTarget
<1>2. PICK n \in 0..Len(command.got) :
        /\ command' = [command EXCEPT !.at = "done",
                          !.seen = IF n < Len(command.got) THEN @ \union {"fault"} ELSE @]
        /\ files' = IF command.inPlace
                    THEN [files EXCEPT ![command.target] = Overlaid(command.got, n, @)]
                    ELSE files
  BY Zenon DEF WriteTarget
<1>3. command.at # "reading" /\ command.at # "done"
  BY <1>1
<1>4. /\ EraserTypes /\ (command.got = <<>> \/ command.target <= handle)
      /\ Below(Lines(<<command.got>>), written)
      /\ Agree(Lines(<<command.got>>), Lines(<<command.got>>))
      /\ Agree(Lines(<<command.got>>), Lines(files))
      /\ command.seen = {} => Unnoticed
  BY <1>1, <1>3, Zenon DEF EraserInv
<1>5. /\ DOMAIN command =
           {"kind", "at", "got", "seen", "since", "subject", "inPlace", "target"}
      /\ command.inPlace \in BOOLEAN /\ command.got \in Seq(Line)
      /\ command.target \in 1..Len(files)
  BY <1>4, Zenon DEF EraserTypes
<1>6. /\ DOMAIN command' = DOMAIN command
      /\ command'.kind = "erase" /\ command'.at = "done" /\ command'.got = command.got
      /\ command'.seen = (IF n < Len(command.got) THEN command.seen \union {"fault"}
                          ELSE command.seen)
      /\ command'.since = command.since
      /\ command'.subject = command.subject /\ command'.inPlace = command.inPlace
      /\ command'.target = command.target
  <2>1. command' = [command EXCEPT !.at = "done",
                       !.seen = IF n < Len(command.got) THEN @ \union {"fault"} ELSE @]
    BY <1>2, Zenon
  <2>2. DOMAIN command =
          {"kind", "at", "got", "seen", "since", "subject", "inPlace", "target"}
    BY <1>5, Zenon
  <2>3. command.kind = "erase"
    BY <1>1, Zenon
  <2> QED
    BY ONLY <2>1, <2>2, <2>3
<1> DEFINE got == command.got
           j == command.target
           old == files[j]
           f == Overlaid(got, n, old)
<1>7. old \in Seq(Line) /\ j \in 1..Len(files) /\ got \in Seq(Line) /\ n \in 0..Len(got)
  BY <1>1, <1>5, Element DEF LogInv
<1>8. command.inPlace => files' = [files EXCEPT ![j] = f]
  BY <1>2, Zenon
<1> HIDE DEF got, j, old
<1>9. /\ f \in Seq(Line) /\ Lines(<<f>>) \subseteq Lines(<<got>>) \cup Lines(<<old>>)
      /\ n = Len(got) /\ old = <<>> => f = got
      /\ got = <<>> => f = old
  BY ONLY <1>7, OverlaidFacts
<1> HIDE DEF f
<1>10. Lines(<<old>>) \subseteq Lines(files)
  <2> SUFFICES ASSUME NEW x \in Lines(<<old>>) PROVE x \in Lines(files)
    BY Zenon
  <2>1. PICK i \in 1..Len(old) : x = old[i]
    BY LineIn
  <2> QED
    BY <1>7, <2>1, IsLine DEF old
<1>11. f = <<>> \/ j <= handle
  <2> SUFFICES ASSUME ~(j <= handle) PROVE f = <<>>
    BY Zenon
  <2>1. got = <<>>
    BY <1>4, Zenon DEF got, j
  <2>2. j \in (handle + 1)..Len(files)
    BY <1>1, <1>7 DEF LogInv
  <2>3. old = <<>>
    BY <1>1, <2>2, Zenon DEF LogInv, old
  <2> QED
    BY <1>9, <2>1, <2>3, Zenon
<1>12. /\ LogInv' /\ Agree(Lines(<<got>>), Lines(files'))
       /\ Len(files') = Len(files) /\ (command.inPlace => files'[j] = f)
  <2>1. CASE command.inPlace
    <3> DEFINE X == Lines(<<got>>)
    <3>1. Lines(<<f>>) \subseteq X \cup Lines(files)
      BY <1>9, <1>10, Zenon
    <3>2. Below(X, written) /\ Agree(X, X) /\ Agree(X, Lines(files))
      BY <1>4, Zenon DEF got
    <3>3. files' = [files EXCEPT ![j] = f] /\ handle' = handle /\ written' = written
      BY <1>1, <1>8, <2>1, Zenon
    <3> HIDE DEF X
    <3>4. /\ LogInv' /\ Agree(X, Lines(files'))
          /\ Len(files') = Len(files) /\ files'[j] = f
      BY ONLY <1>1, <1>7, <1>9, <1>11, <3>1, <3>2, <3>3, RewriteKeepsLog, Zenon
    <3> QED
      BY <3>4, Zenon DEF X
  <2>2. CASE ~command.inPlace
    <3>1. files' = files
      BY <1>2, <2>2, Zenon
    <3> QED
      BY <1>1, <1>4, <2>2, <3>1, Zenon DEF LogInv, got
  <2> QED
    BY <2>1, <2>2, Zenon
<1>13. EraserTypes'
  BY <1>4, <1>6, <1>12, Zenon DEF EraserTypes
<1>14. command'.at # "reading" /\ command'.at # "writing"
  BY <1>6
<1>15. ASSUME command'.seen = {} PROVE Unnoticed'
  <2>1. n = Len(got) /\ command.seen = {}
    <3>1. ~(n < Len(command.got)) /\ command.seen = {}
      BY <1>6, <1>15, Zenon
    <3> QED
      BY <1>7, <3>1 DEF got
  <2>2. /\ command.target = Len(files)
        /\ command.got = Erased(command.since, command.subject)
        /\ ~command.inPlace => Active = command.since
        /\ command.inPlace => Active = <<>>
    BY <1>1, <1>4, <2>1, Zenon DEF Unnoticed
  <2>3. CASE command.inPlace
    <3>1. old = <<>>
      BY <2>2, <2>3, Zenon DEF Active, old, j
    <3>2. files'[Len(files')] = command.got
      BY <1>9, <1>12, <2>1, <2>2, <2>3, <3>1, Zenon DEF got, j
    <3> QED
      BY <1>6, <1>12, <1>14, <2>2, <2>3, <3>2, Zenon DEF Unnoticed, Active
  <2>4. CASE ~command.inPlace
    <3>1. files' = files
      BY <1>2, <2>4, Zenon
    <3> QED
      BY <1>6, <1>14, <2>2, <2>4, <3>1, Zenon DEF Unnoticed, Active
  <2> QED
    BY <2>3, <2>4, Zenon
<1>16. EraserInv'
  BY <1>1, <1>4, <1>6, <1>12, <1>13, <1>14, <1>15, Zenon DEF EraserInv, got
<1>17. command'.kind \notin {"read", "verify"}
  BY <1>6
<1> QED
  BY <1>6, <1>12, <1>16, <1>17, Zenon DEF CommandsInv, ReaderInv

LEMMA CommandsInitInv == CommandsInit => CommandsInv
<1> SUFFICES ASSUME CommandsInit PROVE CommandsInv
  OBVIOUS
<1>1. files = <<<<>>>> /\ handle = 1 /\ written = 0 /\ command.kind = "none"
  BY DEF CommandsInit, NoCommand
<1>2. 1..Len(<<>>) = {} /\ <<>> \in Seq(Line)
  OBVIOUS
<1>3. Lines(files) = {}
  BY <1>1, <1>2, LineIn
<1>4. files \in Seq(Seq(Line)) /\ Len(files) = 1
  BY <1>1, <1>2
<1>5. handle \in 1..Len(files) /\ (handle + 1)..Len(files) = {} /\ written \in Nat
  BY <1>1, <1>4
<1>6. LogInv
  BY <1>3, <1>4, <1>5, Zenon DEF LogInv, Below, Agree
<1>7. command.kind \notin {"read", "verify", "erase"}
  BY <1>1
<1> QED
  BY <1>1, <1>6, <1>7, Zenon DEF CommandsInv, ReaderInv, EraserInv

LEMMA CommandsStep == CommandsInv /\ [CommandsNext]_commandVars => CommandsInv'
<1> SUFFICES ASSUME CommandsInv, [CommandsNext]_commandVars PROVE CommandsInv'
  OBVIOUS
<1>1. CASE FailReading
  BY <1>1, EndKeepsCommands, Zenon DEF FailReading
<1>2. CASE EndReading
  BY <1>2, EndKeepsCommands, Zenon DEF EndReading
<1>3. CASE EndErase
  BY <1>3, EndKeepsCommands, Zenon DEF EndErase
<1>4. CASE UNCHANGED commandVars
  <2>1. files' = files /\ handle' = handle /\ written' = written /\ command' = command
    BY <1>4, Zenon DEF commandVars
  <2>2. LogInv' = LogInv
    BY <2>1, Zenon DEF LogInv
  <2>3. ReaderInv' = ReaderInv
    <3>1. ReaderTypes' = ReaderTypes
      BY <2>1, Zenon DEF ReaderTypes
    <3>2. Unrotated(command.since, command.got)' = Unrotated(command.since, command.got)
      BY <2>1, Zenon DEF Unrotated
    <3> QED
      BY <2>1, <3>1, <3>2, Zenon DEF ReaderInv
  <2>4. EraserInv' = EraserInv
    <3>1. EraserTypes' = EraserTypes
      BY <2>1, Zenon DEF EraserTypes
    <3>2. Unnoticed' = Unnoticed
      BY <2>1, Zenon DEF Unnoticed, Active
    <3> QED
      BY <2>1, <3>1, <3>2, Zenon DEF EraserInv
  <2> QED
    BY <2>1, <2>2, <2>3, <2>4, Zenon DEF CommandsInv
<1> QED
  BY <1>1, <1>2, <1>3, <1>4, AppendKeepsCommands, RotateKeepsCommands, StartKeepsCommands,
     ReadKeepsCommands, RotateByKeepsCommands, EraseKeepsCommands, CreateKeepsCommands,
     WriteKeepsCommands, Zenon DEF CommandsNext

\* A non-empty set of naturals below a bound has a greatest element.
LEMMA Greatest ==
    ASSUME NEW n \in Nat, NEW T, T \subseteq 1..n, T # {}
    PROVE  \E e \in T : \A d \in T : d <= e
<1> DEFINE R == {ss \in Nat \X Nat : ss[1] < ss[2]}
           U == {n - d : d \in T}
<1>1. R = OpToRel(<, Nat)
  BY DEF OpToRel
<1>2. IsWellFoundedOn(R, Nat)
  BY <1>1, NatLessThanWellFounded, Zenon
<1>3. U \subseteq Nat /\ U # {}
  <2>1. \A d \in T : n - d \in Nat
    OBVIOUS
  <2> QED
    BY <2>1, Zenon
<1>4. \A x, y \in Nat : <<y, x>> \notin R => x <= y
  BY DEF R
<1> HIDE DEF R
<1>5. PICK x \in U : \A y \in U : ~ (<<y, x>> \in R)
  BY <1>2, <1>3, WFMin, Zenon
<1>6. PICK e \in T : x = n - e
  OBVIOUS
<1>7. \A d \in T : <<n - d, n - e>> \notin R
  BY <1>5, <1>6, Zenon
<1>8. ASSUME NEW d \in T PROVE d <= e
  <2>1. n - d \in Nat /\ n - e \in Nat
    OBVIOUS
  <2>2. n - e <= n - d
    BY <1>7, <1>4, <2>1, Zenon
  <2> QED
    BY <2>2
<1> QED
  BY <1>8, Zenon

\* The line before the first one of a file.
LEMMA LastBeforeFacts ==
    ASSUME NEW fs, NEW j \in Nat, LastBefore(fs, j) # 0
    PROVE  \E e \in 1..(j - 1) :
             /\ fs[e] # <<>> /\ LastBefore(fs, j) = fs[e][Len(fs[e])].place
             /\ e = CHOOSE k \in {d \in 1..(j - 1) : fs[d] # <<>>} :
                      \A d \in {d \in 1..(j - 1) : fs[d] # <<>>} : d <= k
<1> DEFINE filled == {d \in 1..(j - 1) : fs[d] # <<>>}
           final == CHOOSE k \in filled : \A d \in filled : d <= k
<1>1. filled # {} /\ LastBefore(fs, j) = fs[final][Len(fs[final])].place
  BY Zenon DEF LastBefore
<1>2. filled \subseteq 1..j
  OBVIOUS
<1>3. \E k \in filled : \A d \in filled : d <= k
  <2> HIDE DEF filled
  <2> QED
    BY <1>1, <1>2, Greatest, Zenon
<1>4. final \in filled
  BY <1>3, Zenon
<1> QED
  BY <1>1, <1>4, Zenon

\* It depends on the files before only.
LEMMA LastBeforeSame ==
    ASSUME NEW fs, NEW gs, NEW j \in Nat, \A e \in 1..(j - 1) : fs[e] = gs[e]
    PROVE  LastBefore(fs, j) = LastBefore(gs, j)
<1> DEFINE F(hs) == {d \in 1..(j - 1) : hs[d] # <<>>}
           final(hs) == CHOOSE k \in F(hs) : \A d \in F(hs) : d <= k
<1>1. F(fs) = F(gs)
  BY Zenon
<1>2. CASE F(fs) = {}
  BY <1>1, <1>2, Zenon DEF LastBefore
<1>3. CASE F(fs) # {}
  <2>1. F(fs) \subseteq 1..j
    OBVIOUS
  <2>2. \E k \in F(fs) : \A d \in F(fs) : d <= k
    <3> HIDE DEF F
    <3> QED
      BY <1>3, <2>1, Greatest
  <2>3. final(fs) \in F(fs)
    BY <2>2, Zenon
  <2>4. final(fs) = final(gs)
    BY <1>1, Zenon
  <2>5. /\ LastBefore(fs, j) = fs[final(fs)][Len(fs[final(fs)])].place
        /\ LastBefore(gs, j) = gs[final(gs)][Len(gs[final(gs)])].place
    BY <1>1, <1>3, Zenon DEF LastBefore
  <2>6. fs[final(fs)] = gs[final(fs)]
    BY <2>3, Zenon
  <2> QED
    BY <2>4, <2>5, <2>6, Zenon
<1> QED
  BY <1>2, <1>3, Zenon

\* What precedes a line is a line of the log, or nothing.
LEMMA PreviousFacts ==
    ASSUME NEW fs \in Seq(Seq(Line)), NEW j \in 1..Len(fs), NEW i \in 1..Len(fs[j])
    PROVE  /\ Previous(fs, j, i) \in Nat
           /\ Previous(fs, j, i) # 0 => \E z \in Lines(fs) : z.place = Previous(fs, j, i)
<1>1. CASE i > 1
  <2>1. fs[j] \in Seq(Line)
    BY Element
  <2>2. i - 1 \in 1..Len(fs[j])
    BY <1>1, <2>1
  <2>3. fs[j][i - 1] \in Lines(fs)
    BY <2>2, IsLine
  <2>4. Previous(fs, j, i) = fs[j][i - 1].place
    BY <1>1, Zenon DEF Previous
  <2>5. fs[j][i - 1].place \in Nat
    BY <2>3, LinesType, Zenon
  <2> QED
    BY <2>3, <2>4, <2>5, Zenon
<1>2. CASE ~(i > 1)
  <2>1. Previous(fs, j, i) = LastBefore(fs, j)
    BY <1>2, Zenon DEF Previous
  <2>2. CASE LastBefore(fs, j) = 0
    BY <2>1, <2>2
  <2>3. CASE LastBefore(fs, j) # 0
    <3>1. j \in Nat /\ Len(fs) \in Nat
      OBVIOUS
    <3>2. PICK e \in 1..(j - 1) :
            fs[e] # <<>> /\ LastBefore(fs, j) = fs[e][Len(fs[e])].place
      BY <2>3, <3>1, LastBeforeFacts, Zenon
    <3>3. e \in 1..Len(fs)
      BY <3>1
    <3>4. Len(fs[e]) \in 1..Len(fs[e])
      <4>1. fs[e] \in Seq(Line)
        BY <3>3, Element
      <4> QED
        BY <3>2, <4>1
    <3>5. fs[e][Len(fs[e])] \in Lines(fs)
      BY <3>3, <3>4, IsLine
    <3>6. fs[e][Len(fs[e])].place \in Nat
      BY <3>5, LinesType, Zenon
    <3> QED
      BY <2>1, <3>2, <3>5, <3>6, Zenon
  <2> QED
    BY <2>2, <2>3, Zenon
<1> QED
  BY <1>1, <1>2, Zenon

\* A line of a log whose chain holds.
LEMMA ChainedLine ==
    ASSUME NEW fs \in Seq(Seq(Line)), ChainHolds(fs), NEW x \in Lines(fs)
    PROVE  /\ x.intact /\ x.place \in Nat /\ x.place > 0
           /\ x.place > 1 => \E z \in Lines(fs) : z.place = x.place - 1
<1>1. PICK j \in 1..Len(fs) : \E i \in 1..Len(fs[j]) : x = fs[j][i]
  BY LineAt
<1>2. PICK i \in 1..Len(fs[j]) : x = fs[j][i]
  BY <1>1, Zenon
<1>3. x.intact /\ x.place = Previous(fs, j, i) + 1
  BY <1>2, Zenon DEF ChainHolds
<1>4. /\ Previous(fs, j, i) \in Nat
      /\ Previous(fs, j, i) # 0 => \E z \in Lines(fs) : z.place = Previous(fs, j, i)
  BY PreviousFacts
<1> DEFINE before == Previous(fs, j, i)
<1>5. before \in Nat /\ x.place = before + 1
  BY <1>3, <1>4, Zenon
<1> HIDE DEF before
<1>6. /\ x.place \in Nat /\ x.place > 0 /\ before = x.place - 1
      /\ x.place > 1 => before # 0
  BY ONLY <1>5
<1> QED
  BY <1>3, <1>4, <1>6, Zenon DEF before

\* So it has a line of every place up to its last.
LEMMA ChainFilled ==
    ASSUME NEW fs \in Seq(Seq(Line)), ChainHolds(fs), NEW x \in Lines(fs),
           NEW p \in 1..x.place
    PROVE  \E z \in Lines(fs) : z.place = p
<1> DEFINE T == {d \in 1..x.place : \A z \in Lines(fs) : z.place # d}
<1> SUFFICES ASSUME T # {} PROVE FALSE
  BY Zenon
<1>1. x.place \in Nat
  BY ChainedLine
<1>2. T \subseteq 1..x.place
  OBVIOUS
<1>3. PICK e \in T : \A d \in T : d <= e
  <2> HIDE DEF T
  <2> QED
    BY <1>1, <1>2, Greatest, Zenon
<1>4. e \in 1..x.place /\ e # x.place /\ \A z \in Lines(fs) : z.place # e
  BY Zenon
<1>5. e + 1 \in 1..x.place /\ ~(e + 1 <= e) /\ e + 1 > 1 /\ (e + 1) - 1 = e
  BY <1>1, <1>4
<1>6. PICK y \in Lines(fs) : y.place = e + 1
  BY <1>3, <1>5, Zenon
<1>7. y.place > 1 => \E z \in Lines(fs) : z.place = y.place - 1
  BY ChainedLine, Zenon
<1>8. \E z \in Lines(fs) : z.place = e
  BY <1>5, <1>6, <1>7, Zenon
<1> QED
  BY <1>4, <1>8, Zenon

\* A reader that met no rotation has every line, and a chain that holds is
\* confirmed.
LEMMA InvReadComplete == CommandsInv => ReadComplete
<1> DEFINE since == command.since
           got == command.got
<1> SUFFICES ASSUME CommandsInv, command.kind \in {"read", "verify"}, command.at = "done",
                    "rotation" \notin command.seen
             PROVE  Continues(since, got) /\ (ChainHolds(files) => ChainHolds(got))
  BY Zenon DEF ReadComplete
<1>1. LogInv /\ ReaderTypes /\ Unrotated(since, got)
  BY Zenon DEF CommandsInv, ReaderInv
<1>2. /\ files \in Seq(Seq(Line)) /\ handle \in 1..Len(files)
      /\ \A j \in (handle + 1)..Len(files) : files[j] = <<>>
  BY <1>1, Zenon DEF LogInv
<1>3. /\ got \in Seq(Seq(Line)) /\ since \in Seq(Seq(Line)) /\ Len(got) = Len(since)
  BY <1>1 DEF ReaderTypes
<1> HIDE DEF since, got
<1>4. /\ Len(files) = Len(got)
      /\ \A j \in 1..Len(got) :
          /\ Begins(since[j], got[j]) /\ Begins(got[j], files[j])
          /\ j # handle => since[j] = files[j] /\ got[j] = files[j]
  BY <1>1, <1>3, Zenon DEF Unrotated
<1>5. \A j \in 1..Len(got) : got[j] \in Seq(Line) /\ files[j] \in Seq(Line) /\ since[j] \in Seq(Line)
  BY <1>2, <1>3, <1>4, Element
<1>6. Continues(since, got)
  <2>1. ASSUME NEW j \in 1..Len(since)
        PROVE  /\ Len(since[j]) <= Len(got[j])
               /\ \A i \in 1..Len(since[j]) : got[j][i] = since[j][i]
    BY <1>3, <1>4, Zenon DEF Begins
  <2>2. ASSUME NEW j \in 1..Len(since), Len(since[j]) < Len(got[j]),
               NEW l \in (j + 1)..Len(since)
        PROVE  since[l] = <<>>
    <3>1. j = handle
      <4>1. j \in 1..Len(got) /\ Len(since[j]) # Len(got[j])
        BY <1>3, <1>5, <2>2
      <4> QED
        BY <1>4, <4>1, Zenon
    <3>2. PICK m \in Nat : m = Len(got) /\ m = Len(since) /\ m = Len(files)
      BY <1>3, <1>4
    <3>3. l \in (j + 1)..m /\ j \in 1..m
      BY <2>2, <3>2, Zenon
    <3>4. l \in (j + 1)..m /\ l # j /\ l \in 1..m
      BY <3>3
    <3>5. l \in (handle + 1)..Len(files) /\ l # handle /\ l \in 1..Len(got)
      BY <3>1, <3>2, <3>4, Zenon
    <3> QED
      BY <1>2, <1>4, <3>5, Zenon
  <2> QED
    BY <1>3, <2>1, <2>2, Zenon DEF Continues
<1>7. ASSUME ChainHolds(files) PROVE ChainHolds(got)
  <2> SUFFICES ASSUME NEW j \in 1..Len(got), NEW i \in 1..Len(got[j])
               PROVE  got[j][i].intact /\ got[j][i].place = Previous(got, j, i) + 1
    BY Zenon DEF ChainHolds
  <2>1. /\ i \in 1..Len(files[j]) /\ \A k \in 1..i : got[j][k] = files[j][k]
    BY <1>4, <1>5 DEF Begins
  <2>2. got[j][i] = files[j][i]
    BY <1>5, <2>1
  <2>3. /\ files[j][i].intact /\ files[j][i].place = Previous(files, j, i) + 1
    BY <1>4, <1>7, <2>1, Zenon DEF ChainHolds
  <2>4. j \in Nat /\ \A e \in 1..(j - 1) : got[e] = files[e]
    <3>1. files[j] # <<>> /\ j \in 1..Len(files)
      BY <1>4, <1>5, <2>1
    <3>2. j <= handle /\ j \in Nat
      BY <1>2, <3>1
    <3>3. \A e \in 1..(j - 1) : e \in 1..Len(got) /\ e # handle
      BY <1>2, <3>2
    <3> QED
      BY <1>4, <3>2, <3>3, Zenon
  <2>5. LastBefore(got, j) = LastBefore(files, j)
    BY <2>4, LastBeforeSame
  <2>6. Previous(got, j, i) = Previous(files, j, i)
    <3>1. i > 1 => i - 1 \in 1..i
      OBVIOUS
    <3> QED
      BY <2>1, <2>5, <3>1, Zenon DEF Previous
  <2> QED
    BY <2>2, <2>3, <2>6, Zenon
<1> QED
  BY <1>6, <1>7, Zenon

\* What verify confirms is a beginning of the log.
LEMMA InvConfirmsBeginning == CommandsInv => ConfirmsBeginning
<1> DEFINE got == command.got
<1> SUFFICES ASSUME CommandsInv, command.kind = "verify", command.at = "done",
                    ChainHolds(files), ChainHolds(got), NEW x \in Lines(got)
             PROVE  /\ x \in Lines(files)
                    /\ \A y \in Lines(files) : y.place < x.place => y \in Lines(got)
  BY Zenon DEF ConfirmsBeginning
<1>1. /\ files \in Seq(Seq(Line)) /\ got \in Seq(Seq(Line))
      /\ Lines(got) \subseteq Lines(files) /\ Agree(Lines(files), Lines(files))
  BY Zenon DEF CommandsInv, LogInv, ReaderInv, ReaderTypes
<1> HIDE DEF got
<1>2. ASSUME NEW y \in Lines(files), y.place < x.place PROVE y \in Lines(got)
  <2>1. y.intact /\ y.place \in Nat /\ y.place > 0
    BY <1>1, ChainedLine
  <2>2. x.place \in Nat
    BY <1>1, ChainedLine
  <2>3. y.place \in 1..x.place
    BY <1>2, <2>1, <2>2
  <2>4. PICK z \in Lines(got) : z.place = y.place
    BY <1>1, <2>3, ChainFilled
  <2>5. z.intact
    BY <1>1, ChainedLine
  <2> QED
    BY <1>1, <2>1, <2>4, <2>5, Zenon DEF Agree
<1> QED
  BY <1>1, <1>2, Zenon

\* An erase that nothing disturbed keeps the places.
LEMMA InvEraseKeepsPlaces == CommandsInv => EraseKeepsPlaces
<1> SUFFICES ASSUME CommandsInv, command.kind = "erase", command.at = "done",
                    command.seen = {}
             PROVE  IF command.inPlace
                    THEN /\ Len(Active) = Len(command.since)
                         /\ \A i \in DOMAIN Active :
                              /\ Active[i].place = command.since[i].place
                              /\ Active[i].who # command.subject
                              /\ command.since[i].who # command.subject =>
                                   Active[i] = command.since[i]
                    ELSE Active = command.since
  BY Zenon DEF EraseKeepsPlaces
<1>1. EraserTypes /\ Unnoticed
  BY Zenon DEF CommandsInv, EraserInv
<1>2. ~command.inPlace => Active = command.since
  BY <1>1, Zenon DEF Unnoticed
<1>3. ASSUME command.inPlace
      PROVE  /\ Len(Active) = Len(command.since)
             /\ \A i \in DOMAIN Active :
                  /\ Active[i].place = command.since[i].place
                  /\ Active[i].who # command.subject
                  /\ command.since[i].who # command.subject => Active[i] = command.since[i]
  <2> DEFINE since == command.since
             subject == command.subject
  <2>1. Active = Erased(since, subject)
    BY <1>1, <1>3, Zenon DEF Unnoticed
  <2>2. since \in Seq(Line) /\ subject \in Subjects
    BY <1>1, Zenon DEF EraserTypes
  <2> HIDE DEF since, subject
  <2>3. /\ Erased(since, subject) \in Seq(Line)
        /\ Len(Erased(since, subject)) = Len(since)
        /\ \A i \in 1..Len(since) :
             /\ Erased(since, subject)[i].place = since[i].place
             /\ Erased(since, subject)[i].who # subject
             /\ since[i].who # subject => Erased(since, subject)[i] = since[i]
    BY ONLY <2>2, ErasedFacts
  <2>4. DOMAIN Erased(since, subject) = 1..Len(since)
    BY <2>3
  <2> QED
    BY <2>1, <2>3, <2>4, Zenon DEF since, subject
<1> QED
  BY <1>2, <1>3, Zenon

\* CommandsSound: beside a server that appends and rotates, a reader without a
\* rotation between its files returns every line it found when it began, verify
\* confirms a beginning of the log, and an undisturbed erase keeps every place.
THEOREM CommandsStaySound == CommandsSpec => []CommandsSound
<1>1. CommandsInv => CommandsSound
  BY InvReadComplete, InvConfirmsBeginning, InvEraseKeepsPlaces, Zenon DEF CommandsSound
<1> QED
  BY <1>1, CommandsInitInv, CommandsStep, PTL DEF CommandsSpec
=============================================================================
