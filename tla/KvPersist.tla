----------------------------- MODULE KvPersist -----------------------------
(***************************************************************************)
(* The KV engine and its persistence: the KV_ commands that change the     *)
(* in-memory map, KV_SAVE, KV_LOAD and the load at startup                 *)
(* (core/kv/KvHandler.h, core/kv/KvExecutor.h, core/Persistance.h and      *)
(* Server::run/startupLoad).                                               *)
(*                                                                         *)
(* One thread runs every command, so a command is one action, except       *)
(* KV_SAVE: the process can die between two of its writes, so each write   *)
(* that reaches the file system is a step, and no other command runs while *)
(* a save is under way.                                                    *)
(*                                                                         *)
(* A save writes <name>/<timestamp>/md/md.json and the data files          *)
(* <name>/<timestamp>/data/<n>.  The metadata goes through an ofstream     *)
(* whose buffer reaches the file when the save seeks back to the start     *)
(* ("pending") and when the stream is closed ("complete"): a process that  *)
(* dies before that leaves md.json empty.                                  *)
(***************************************************************************)
EXTENDS KvMap, Naturals

CONSTANTS
  Name,           \* data set names used in KV_SAVE and KV_LOAD
  Timestamp,      \* readings of the system clock; bounds the number of saves
  Reparse,        \* the key that reading a data file yields for each key
  Garbled,        \* Reparse of a key whose text breaks the file's JSON
  NoName,         \* no data set: an answer without one, a start without --loadName
  Faults          \* what may go wrong, a subset of FaultKind

FaultKind ==
  { "crash",      \* the process dies at any point
    "mkdir",      \* a directory or md.json cannot be created
    "exception",  \* an exception leaves the loop that writes the data
    "write",      \* a stream write fails (nobody reads the stream's state)
    "clock" }     \* the system clock is set back

ASSUME TimestampAssumption == Timestamp \subseteq Nat \ {0}
ASSUME GarbledAssumption == Garbled \notin Key
ASSUME ReparseAssumption == Reparse \in [Key -> Key \cup {Garbled}]
ASSUME NoNameAssumption == NoName \notin Name
ASSUME FaultsAssumption == Faults \subseteq FaultKind

VARIABLES
  server,    \* "down" or "serving"
  enabled,   \* persist::enabled of the configuration the process runs with
  map,       \* KvHandler::m_map
  disk,      \* disk[n][t]: the directory <persist path>/n/t
  save,      \* progress of the KV_SAVE being executed
  rsp,       \* the last command's answer ("none" while a save runs)
  snapshot,  \* history: the map when the save of disk[n][t] began
  acked      \* history: timestamp of the last save of n answered
             \*   SaveComplete, 0 before the first

vars == <<server, enabled, map, disk, save, rsp, snapshot, acked>>

-----------------------------------------------------------------------------
(* The file system.                                                        *)

\* A data file: the entries written to it, and whether all the text got there.
File == [items : Map, whole : BOOLEAN]

\* md.json: no directory, no file, or what its text says.
MdState == {"absent", "missing", "empty", "pending", "complete"}

Dir == [md : MdState, data : BOOLEAN, files : SUBSET File]

NoDir == [md |-> "absent", data |-> FALSE, files |-> {}]

Used(n) == {t \in Timestamp : disk[n][t].md # "absent"}

\* (Plausible bug: the first directory is kept instead of the highest.)
NewestIsOldest(n) == {t \in Used(n) : \A u \in Used(n) : t <= u}

\* getLoadPaths takes the highest directory name: one element, or none.
Newest(n) == {t \in Used(n) : \A u \in Used(n) : u <= t}

\* The clock moves on between two saves unless it is set back.
ClockReadings ==
  IF "clock" \in Faults
  THEN Timestamp
  ELSE {t \in Timestamp : \A n \in Name : \A u \in Used(n) : u < t}

-----------------------------------------------------------------------------
(* Reading a save back.                                                    *)

\* njson::parse accepts the file: it is complete, and every key, written
\* between quotes without escaping, leaves valid JSON.
Readable(f) == f.whole /\ \A k \in Present(f.items) : Reparse[k] # Garbled

\* The maps that reading the files of S can build.  Two keys with one
\* reading collide; which one stays depends on the order of the files.
Readings(S) ==
  LET Read(k, v) == \E f \in S : \E j \in Present(f.items) :
                       Reparse[j] = k /\ f.items[j] = v
  IN  {m \in Map : \A k \in Key :
         \/ m[k] # Absent /\ Read(k, m[k])
         \/ m[k] = Absent /\ \A v \in Val : ~Read(k, v)}

\* loadKv reads the files in directory order, stops at the first it cannot
\* parse, and keeps what it merged before it.  With no file to read the
\* status keeps its initial value, Loading.
LoadOutcomes(files) ==
  IF files = {}
  THEN {[st |-> "Loading", read |-> EmptyMap]}
  ELSE IF \A f \in files : Readable(f)
  THEN {[st |-> "LoadComplete", read |-> m] : m \in Readings(files)}
  ELSE {[st |-> "LoadError", read |-> m] :
          m \in UNION {Readings(S) : S \in SUBSET {f \in files : Readable(f)}}}

\* (Plausible bug: the status of the metadata is not checked.)
PreLoadAnyStatus(dir) ==
  IF dir.md = "missing" \/ ~dir.data THEN "LoadError"
  ELSE IF dir.md = "empty" THEN "Unknown" ELSE "valid"

\* validatePreLoad on the newest directory of n: "valid", "LoadError" when it
\* reports a reason, "Unknown" when parsing md.json throws.
PreLoad(dir) ==
  IF dir.md = "missing" \/ ~dir.data THEN "LoadError"
  ELSE IF dir.md = "empty" THEN "Unknown"
  ELSE IF dir.md = "complete" THEN "valid" ELSE "LoadError"

\* (Plausible bug: the files of every save of n are read.)
LoadEverySave(n) ==
  LoadOutcomes(UNION {disk[n][t].files : t \in Used(n)})

\* What loading n can give: KV_LOAD and the load at startup both use it.
Load(n) ==
  IF Newest(n) = {}
  THEN {[st |-> "LoadError", read |-> EmptyMap]}
  ELSE UNION {LET dir == disk[n][t]
              IN  IF PreLoad(dir) = "valid"
                  THEN LoadOutcomes(dir.files)
                  ELSE {[st |-> PreLoad(dir), read |-> EmptyMap]}
              : t \in Newest(n)}

-----------------------------------------------------------------------------
(* The commands that change the map.                                       *)

\* Where doSave is between two of its writes.
Phase == {"idle", "opened", "writing", "closing", "completing"}

\* What doSave has in hand between two of its writes.
NoSave == [phase |-> "idle", name |-> NoName, at |-> 0,
           todo |-> {}, buffer |-> {}, st |-> "Ok"]

Ready == server = "serving" /\ save = NoSave

Answer(cmd, n, st) == rsp' = [cmd |-> cmd, name |-> n, st |-> st]

Execute(cmd, m) ==
  /\ Ready
  /\ map' = m
  /\ Answer(cmd, NoName, "Ok")
  /\ UNCHANGED <<server, enabled, disk, save, snapshot, acked>>

Refuse(cmd, n, st) ==
  /\ Ready
  /\ Answer(cmd, n, st)
  /\ UNCHANGED <<server, enabled, map, disk, save, snapshot, acked>>

KvSet == \E batch \in Map : Execute("KV_SET", SetKeys(map, batch))

KvAdd == \E batch \in Map : Execute("KV_ADD", AddKeys(map, batch))

KvClear == Execute("KV_CLEAR", EmptyMap)

KvClearSet ==
  \E batch \in Map : Execute("KV_CLEAR_SET", SetKeys(EmptyMap, batch))

\* validateRemove refuses an empty "keys".
KvRemove ==
  \/ \E keys \in SUBSET Key \ {{}} : Execute("KV_RMV", RemoveKeys(map, keys))
  \/ Refuse("KV_RMV", NoName, "ValueSize")

\* (Plausible bug: the map is emptied before anything is known of the save.)
KvLoadClears(n) ==
  /\ Ready
  /\ \E out \in Load(n) : map' = out.read /\ Answer("KV_LOAD", n, out.st)
  /\ UNCHANGED <<server, enabled, disk, save, snapshot, acked>>

\* A refused load reads nothing, an accepted one merges what it reads.
KvLoad(n) ==
  /\ Ready
  /\ \E out \in Load(n) :
       /\ map' = SetKeys(map, out.read)
       /\ Answer("KV_LOAD", n, out.st)
  /\ UNCHANGED <<server, enabled, disk, save, snapshot, acked>>

-----------------------------------------------------------------------------
(* KV_SAVE.                                                                *)

\* The directory of the save under way.
Target == disk[save.name][save.at]

WriteDir(dir) == disk' = [disk EXCEPT ![save.name][save.at] = dir]

\* (Plausible bug: a directory that exists is taken over.)
SaveBeginReuses(n) ==
  /\ Ready /\ enabled
  /\ \E t \in ClockReadings :
       /\ disk' = [disk EXCEPT ![n][t] = [NoDir EXCEPT !.md = "empty"]]
       /\ save' = [NoSave EXCEPT !.phase = "opened", !.name = n, !.at = t]
       /\ snapshot' = [snapshot EXCEPT ![n][t] = map]
  /\ Answer("KV_SAVE", n, "none")
  /\ UNCHANGED <<server, enabled, map, acked>>

\* prepareSave creates the directories and opens md.json.  createDirectories
\* of a directory that exists returns false; one that an earlier attempt
\* left without md.json may or may not be such.
SaveBegin(n) ==
  /\ Ready /\ enabled
  /\ \E t \in ClockReadings :
       /\ disk[n][t].md \in {"absent", "missing"}
       /\ disk' = [disk EXCEPT ![n][t] = [NoDir EXCEPT !.md = "empty"]]
       /\ save' = [NoSave EXCEPT !.phase = "opened", !.name = n, !.at = t]
       /\ snapshot' = [snapshot EXCEPT ![n][t] = map]
  /\ Answer("KV_SAVE", n, "none")
  /\ UNCHANGED <<server, enabled, map, acked>>

SaveRefused(n) ==
  \/ ~enabled /\ Refuse("KV_SAVE", n, "CommandDisabled")
  \/ /\ enabled
     /\ \E t \in ClockReadings : disk[n][t].md # "absent"
     /\ Refuse("KV_SAVE", n, "SaveDirWriteFail")

\* Creating the directories throws, part of them made, or md.json cannot be
\* opened.
SaveBeginFails(n) ==
  /\ Ready /\ enabled /\ "mkdir" \in Faults
  /\ \E t \in ClockReadings, made \in BOOLEAN :
       /\ disk[n][t].md = "absent"
       /\ disk' = IF made THEN [disk EXCEPT ![n][t].md = "missing"] ELSE disk
       /\ \/ Answer("KV_SAVE", n, "Unknown")
          \/ made /\ Answer("KV_SAVE", n, "SaveDirWriteFail")
  /\ UNCHANGED <<server, enabled, map, save, snapshot, acked>>

\* saveKv creates the data directory and starts over the map.
SaveCreateData ==
  /\ save.phase = "opened"
  /\ WriteDir([Target EXCEPT !.data = TRUE])
  /\ save' = [save EXCEPT !.phase = "writing", !.todo = Present(map)]
  /\ UNCHANGED <<server, enabled, map, rsp, snapshot, acked>>

\* flushKvBuffer writes one file with the buffered entries.  A failed write
\* leaves it short.
Flushed(keys) ==
  {[items |-> Only(map, keys), whole |-> w] :
     w \in {TRUE} \cup (IF "write" \in Faults THEN {FALSE} ELSE {})}

\* (Plausible bug: the buffer is flushed before the entry is added to it, and
\* emptied after.)
SaveEntryFlushesEarly ==
  /\ save.phase = "writing"
  /\ \E k \in save.todo :
       \/ /\ save' = [save EXCEPT !.todo = @ \ {k}, !.buffer = @ \cup {k}]
          /\ UNCHANGED disk
       \/ /\ save' = [save EXCEPT !.todo = @ \ {k}, !.buffer = {}]
          /\ \E f \in Flushed(save.buffer) :
               WriteDir([Target EXCEPT !.files = @ \cup {f}])
  /\ UNCHANGED <<server, enabled, map, rsp, snapshot, acked>>

\* (Plausible bug: the iteration does not advance past a flushed entry.)
SaveEntryRepeats ==
  /\ save.phase = "writing"
  /\ \E k \in save.todo :
       /\ save' = [save EXCEPT !.buffer = IF @ = {} THEN {k} ELSE {}]
       /\ \E f \in Flushed({k}) :
            WriteDir([Target EXCEPT !.files = @ \cup {f}])
  /\ UNCHANGED <<server, enabled, map, rsp, snapshot, acked>>

\* One turn of the loop: an entry goes to the buffer, which is flushed when
\* it has reached MaxDataFileSize (it depends on the sizes of the values).
SaveEntry ==
  /\ save.phase = "writing"
  /\ \E k \in save.todo :
       LET buffered == save.buffer \cup {k}
       IN  \/ /\ save' = [save EXCEPT !.todo = @ \ {k}, !.buffer = buffered]
              /\ UNCHANGED disk
           \/ /\ save' = [save EXCEPT !.todo = @ \ {k}, !.buffer = {}]
              /\ \E f \in Flushed(buffered) :
                   WriteDir([Target EXCEPT !.files = @ \cup {f}])
  /\ UNCHANGED <<server, enabled, map, rsp, snapshot, acked>>

\* (Plausible bug: what did not fill a file is not written.)
SaveLeftoversLost ==
  /\ save.phase = "writing" /\ save.todo = {}
  /\ save' = [save EXCEPT !.phase = "closing", !.buffer = {},
                          !.st = "SaveComplete"]
  /\ UNCHANGED <<server, enabled, map, disk, rsp, snapshot, acked>>

\* After the loop, what did not fill a file.
SaveLeftovers ==
  /\ save.phase = "writing" /\ save.todo = {}
  /\ save' = [save EXCEPT !.phase = "closing", !.buffer = {},
                          !.st = "SaveComplete"]
  /\ IF save.buffer = {}
     THEN UNCHANGED disk
     ELSE \E f \in Flushed(save.buffer) :
            WriteDir([Target EXCEPT !.files = @ \cup {f}])
  /\ UNCHANGED <<server, enabled, map, rsp, snapshot, acked>>

\* saveKv catches what its body throws and returns SaveError; doSave, which
\* sees a normal return, goes on to complete the metadata.
SaveException ==
  /\ "exception" \in Faults
  /\ save.phase \in {"opened", "writing"}
  /\ save' = [save EXCEPT !.phase = "closing", !.todo = {}, !.buffer = {},
                          !.st = "SaveError"]
  /\ UNCHANGED <<server, enabled, map, disk, rsp, snapshot, acked>>

\* completeSaveMetaData seeks to the start of md.json, which flushes the
\* initial metadata.
SaveFlushPending ==
  /\ save.phase = "closing"
  /\ save' = [save EXCEPT !.phase = "completing"]
  /\ \/ WriteDir([Target EXCEPT !.md = "pending"])
     \/ "write" \in Faults /\ UNCHANGED disk
  /\ UNCHANGED <<server, enabled, map, rsp, snapshot, acked>>

\* (Plausible bug: the status of one save is carried over to the next.)
SaveFinishKeepsStatus ==
  /\ save.phase = "completing"
  /\ \/ Target.md = "pending" /\ WriteDir([Target EXCEPT !.md = "complete"])
     \/ "write" \in Faults /\ UNCHANGED disk
  /\ Answer("KV_SAVE", save.name, save.st)
  /\ acked' = [acked EXCEPT ![save.name] = save.at]
  /\ save' = [NoSave EXCEPT !.st = save.st]
  /\ UNCHANGED <<server, enabled, map, snapshot>>

\* The stream is closed with the final metadata (never, once it has failed)
\* and doSave answers.
SaveFinish ==
  /\ save.phase = "completing"
  /\ \/ Target.md = "pending" /\ WriteDir([Target EXCEPT !.md = "complete"])
     \/ "write" \in Faults /\ UNCHANGED disk
  /\ Answer("KV_SAVE", save.name, save.st)
  /\ acked' = IF save.st = "SaveComplete"
              THEN [acked EXCEPT ![save.name] = save.at]
              ELSE acked
  /\ save' = NoSave
  /\ UNCHANGED <<server, enabled, map, snapshot>>

SaveStep ==
  \/ SaveCreateData \/ SaveEntry \/ SaveLeftovers \/ SaveException
  \/ SaveFlushPending \/ SaveFinish

-----------------------------------------------------------------------------
(* The process.                                                            *)

\* Server::run, with --loadName n or (NoName) without: it listens only when
\* there is nothing to load or the load is complete.
Start(n) ==
  /\ server = "down"
  /\ \/ /\ n = NoName
        /\ server' = "serving"
        /\ Answer("START", n, "Ok")
        /\ UNCHANGED map
     \/ /\ n # NoName
        /\ \E out \in Load(n) :
             /\ Answer("START", n, out.st)
             /\ IF out.st = "LoadComplete"
                THEN server' = "serving" /\ map' = out.read
                ELSE UNCHANGED <<server, map>>
  /\ enabled' \in BOOLEAN
  /\ UNCHANGED <<disk, save, snapshot, acked>>

\* init() cannot write to the persist path.
StartRefused ==
  /\ server = "down" /\ "mkdir" \in Faults
  /\ enabled' = TRUE
  /\ Answer("START", NoName, "Unknown")
  /\ UNCHANGED <<server, map, disk, save, snapshot, acked>>

\* The process ends: the map is gone, and so is what a save had buffered.  A
\* data file being written may be left short.
Exit ==
  /\ server = "serving"
  /\ save = NoSave \/ "crash" \in Faults
  /\ server' = "down"
  /\ map' = EmptyMap
  /\ save' = NoSave
  /\ \/ UNCHANGED disk
     \/ /\ save.phase = "writing" /\ save.buffer # {}
        /\ WriteDir([Target EXCEPT !.files = @ \cup
             {[items |-> Only(map, save.buffer), whole |-> FALSE]}])
  /\ Answer("EXIT", NoName, "Ok")
  /\ UNCHANGED <<enabled, snapshot, acked>>

-----------------------------------------------------------------------------
Init ==
  /\ server = "down"
  /\ enabled = FALSE
  /\ map = EmptyMap
  /\ disk = [n \in Name |-> [t \in Timestamp |-> NoDir]]
  /\ save = NoSave
  /\ rsp = [cmd |-> "EXIT", name |-> NoName, st |-> "Ok"]
  /\ snapshot = [n \in Name |-> [t \in Timestamp |-> EmptyMap]]
  /\ acked = [n \in Name |-> 0]

Next ==
  \/ KvSet \/ KvAdd \/ KvClear \/ KvClearSet \/ KvRemove
  \/ \E n \in Name : KvLoad(n) \/ SaveBegin(n) \/ SaveRefused(n)
                       \/ SaveBeginFails(n)
  \/ SaveStep
  \/ \E n \in Name \cup {NoName} : Start(n)
  \/ StartRefused
  \/ Exit

\* The thread that runs a save does nothing else until it is over.
Spec == Init /\ [][Next]_vars /\ WF_vars(SaveStep)
-----------------------------------------------------------------------------
(* Properties.                                                             *)

Status ==
  {"none", "Ok", "ValueSize", "CommandDisabled", "SaveDirWriteFail",
   "SaveComplete", "SaveError", "Loading", "LoadComplete", "LoadError",
   "Unknown"}

Command ==
  {"KV_SET", "KV_ADD", "KV_CLEAR", "KV_CLEAR_SET", "KV_RMV", "KV_LOAD",
   "KV_SAVE", "START", "EXIT"}

\* The type of every variable.
TypeOK ==
  /\ server \in {"down", "serving"}
  /\ enabled \in BOOLEAN
  /\ map \in Map
  /\ disk \in [Name -> [Timestamp -> Dir]]
  /\ save \in [phase : Phase, name : Name \cup {NoName},
               at : Timestamp \cup {0}, todo : SUBSET Key,
               buffer : SUBSET Key, st : Status]
  /\ save # NoSave => save.name \in Name /\ save.at \in Timestamp
  /\ rsp \in [cmd : Command, name : Name \cup {NoName}, st : Status]
  /\ snapshot \in [Name -> [Timestamp -> Map]]
  /\ acked \in [Name -> Timestamp \cup {0}]

\* The files hold every entry of m, no other, and can be read in full.
Exact(files, m) ==
  /\ \A f \in files : f.whole /\ \A k \in Present(f.items) : f.items[k] = m[k]
  /\ \A k \in Present(m) : \E f \in files : k \in Present(f.items)

\* A directory whose metadata says Complete holds exactly the map the save
\* was asked to write, however the entries were split into files and wherever
\* the process died: the metadata is completed last (KvHandler::doSave).
CompleteIsExact ==
  \A n \in Name, t \in Timestamp :
    disk[n][t].md = "complete" =>
      disk[n][t].data /\ Exact(disk[n][t].files, snapshot[n][t])

\* A save answered SaveComplete ("save complete without error") is on disk in
\* full, under metadata that lets it be loaded - as long as every write succeeds:
\* nothing looks at one that fails, and with a full disk this does not hold.
AckedIsKept ==
  \A n \in Name : \A t \in Timestamp : acked[n] = t =>
    disk[n][t].md = "complete" /\ Exact(disk[n][t].files, snapshot[n][t])

\* This step answers a load of n, by KV_LOAD or at startup.
LoadAnswered(n) == rsp'.cmd \in {"KV_LOAD", "START"} /\ rsp'.name = n

\* A load that answers LoadComplete merges the map of the last save of that
\* name answered SaveComplete: neither an older save nor one cut short.
LoadRestoresLastSave ==
  [][\A n \in Name : LoadAnswered(n) /\ rsp'.st = "LoadComplete" =>
       /\ acked[n] # 0
       /\ map' = SetKeys(map, snapshot[n][acked[n]])]_vars

\* A load that answers anything else leaves the map as it was.
RefusedLoadChangesNothing ==
  [][\A n \in Name : LoadAnswered(n) /\ rsp'.st # "LoadComplete" =>
       map' = map]_vars

\* Whatever fails, a value found after a load was in the map before it or in
\* the map that the newest directory of that name was to hold.
LoadNeverInvents ==
  [][\A n \in Name : LoadAnswered(n) => \A k \in Key :
       \/ map'[k] = map[k]
       \/ \E t \in Newest(n) : map'[k] = snapshot[n][t][k]]_vars

\* A complete save is never touched again, even when the clock is set back
\* and gives a later save the same timestamp: prepareSave refuses it.
CompleteNeverRewritten ==
  [][\A n \in Name, t \in Timestamp :
       disk[n][t].md = "complete" => disk'[n][t] = disk[n][t]]_vars

\* A KV_SAVE that began ends: it is answered, unless the process dies.
SaveEnds == save # NoSave ~> save = NoSave

-----------------------------------------------------------------------------
(* What the documentation says and the code does not do: each of these is  *)
(* violated by a run of its own.                                           *)

\* A save answered SaveError is refused by every load: "Cannot load: save is
\* incomplete" (validatePreLoad).
IncompleteNeverLoads ==
  [][\A n \in Name : LoadAnswered(n) /\ rsp'.st = "LoadComplete" =>
       acked[n] \in Newest(n)]_vars

\* What was saved "can be restored" after the data is deleted or the server
\* restarted (api/kv/kv-load.md).
SavedCanBeRestored ==
  [][\A n \in Name, t \in Timestamp :
       LoadAnswered(n) /\ acked[n] = t /\ snapshot[n][t] # EmptyMap =>
         rsp'.st = "LoadComplete"]_vars
=============================================================================
