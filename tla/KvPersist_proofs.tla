-------------------------- MODULE KvPersist_proofs --------------------------
(***************************************************************************)
(* Theorems about KvPersist, for every set of keys, values, names and      *)
(* timestamps, and for the faults each theorem names.                      *)
(***************************************************************************)
EXTENDS KvPersistRefinement, TLAPS

-----------------------------------------------------------------------------
(* The operators on maps.                                                  *)

\* Every operation of the map gives a map (CacheMap).
LEMMA MapTypes ==
  /\ EmptyMap \in Map
  /\ \A m, b \in Map : SetKeys(m, b) \in Map /\ AddKeys(m, b) \in Map
  /\ \A m \in Map : \A S : RemoveKeys(m, S) \in Map /\ Only(m, S) \in Map
  BY DEF Map, EmptyMap, SetKeys, AddKeys, RemoveKeys, Only

\* Restricting a map keeps its values and has no key outside the set.
LEMMA OnlyKeeps ==
  ASSUME NEW m \in Map, NEW S
  PROVE  /\ Present(Only(m, S)) = Present(m) \cap S
         /\ \A k \in Present(Only(m, S)) : Only(m, S)[k] = m[k]
  BY DEF Map, Only, Present

\* A load reads a map and answers a status of the interface (loadKv,
\* validatePreLoad).
LEMMA LoadTypes ==
  ASSUME TypeOK, NEW n \in Name, NEW out \in Load(n)
  PROVE  out.read \in Map /\ out.st \in {"Loading", "LoadComplete", "LoadError", "Unknown"}
<1>1. EmptyMap \in Map
  BY MapTypes
<1>2. \A S : Readings(S) \in SUBSET Map
  BY DEF Readings
<1>3. ASSUME NEW files, NEW o \in LoadOutcomes(files)
      PROVE  o.read \in Map /\ o.st \in {"Loading", "LoadComplete", "LoadError"}
  <2>1. CASE files = {}
    BY <1>1, <1>3, <2>1 DEF LoadOutcomes
  <2>2. CASE files # {} /\ \A f \in files : Readable(f)
    BY <1>2, <1>3, <2>2 DEF LoadOutcomes
  <2>3. CASE files # {} /\ ~ \A f \in files : Readable(f)
    <3>1. PICK m \in UNION {Readings(S) : S \in SUBSET {f \in files : Readable(f)}} :
            o = [st |-> "LoadError", read |-> m]
      BY <1>3, <2>3 DEF LoadOutcomes
    <3>2. m \in Map
      BY <1>2, <3>1
    <3>. QED  BY <3>1, <3>2
  <2>. QED  BY <2>1, <2>2, <2>3
<1>4. CASE Newest(n) = {}
  BY <1>1, <1>4 DEF Load
<1>5. CASE Newest(n) # {}
  <2>1. PICK t \in Newest(n) :
          out \in IF PreLoad(disk[n][t]) = "valid"
                  THEN LoadOutcomes(disk[n][t].files)
                  ELSE {[st |-> PreLoad(disk[n][t]), read |-> EmptyMap]}
    BY <1>5 DEF Load
  <2>2. disk[n][t] \in Dir /\ disk[n][t].md # "absent"
    BY DEF Newest, Used, TypeOK
  <2>3. PreLoad(disk[n][t]) \in {"valid", "LoadError", "Unknown"}
    BY <2>2 DEF PreLoad, Dir, MdState
  <2>. QED  BY <1>1, <1>3, <2>1, <2>3
<1>. QED  BY <1>4, <1>5

-----------------------------------------------------------------------------
(* Type correctness.                                                       *)

SaveType ==
  [phase : Phase, name : Name \cup {NoName}, at : Timestamp \cup {0},
   todo : SUBSET Key, buffer : SUBSET Key, st : Status]

\* While doSave runs, the directory it writes to is one of the data set's.
LEMMA TargetType ==
  ASSUME TypeOK, save.phase # "idle"
  PROVE  save.name \in Name /\ save.at \in Timestamp /\ Target \in Dir
  BY DEF TypeOK, NoSave, Target

\* What flushKvBuffer writes is a data file.
LEMMA FlushedType ==
  ASSUME TypeOK, NEW keys \in SUBSET Key
  PROVE  Flushed(keys) \subseteq File
<1>1. Only(map, keys) \in Map
  BY MapTypes DEF TypeOK
<1>2. ASSUME NEW f \in Flushed(keys) PROVE f \in File
  <2>1. PICK w \in BOOLEAN : f = [items |-> Only(map, keys), whole |-> w]
    BY <1>2 DEF Flushed
  <2>. QED  BY <1>1, <2>1 DEF File
<1>. QED  BY <1>2

\* Writing a directory keeps the type of the disk.
LEMMA WriteDirType ==
  ASSUME TypeOK, save.phase # "idle", NEW dir \in Dir, WriteDir(dir)
  PROVE  disk' \in [Name -> [Timestamp -> Dir]]
  BY TargetType DEF TypeOK, WriteDir

\* The state a process starts from is well typed (Server::run).
LEMMA InitType == Init => TypeOK
<1>. SUFFICES ASSUME Init PROVE TypeOK
  OBVIOUS
<1>1. EmptyMap \in Map
  BY MapTypes
<1>2. NoDir \in Dir
  BY DEF NoDir, Dir, MdState
<1>3. NoSave \in SaveType
  BY DEF NoSave, SaveType, Phase, Status
<1>. QED  BY <1>1, <1>2, <1>3 DEF Init, TypeOK, SaveType, Status, Command

\* Every command and every write of a save keeps every variable in its type.
LEMMA TypeStep == TypeOK /\ [Next]_vars => TypeOK'
<1>. SUFFICES ASSUME TypeOK, [Next]_vars PROVE TypeOK'
  OBVIOUS
<1>. USE DEF Answer
<1>1. ASSUME NEW cmd \in Command, NEW m \in Map, Execute(cmd, m) PROVE TypeOK'
  BY <1>1 DEF TypeOK, Execute, Status
<1>2. ASSUME NEW cmd \in Command, NEW n \in Name \cup {NoName}, NEW st \in Status,
             Refuse(cmd, n, st)
      PROVE  TypeOK'
  BY <1>2 DEF TypeOK, Refuse
<1>3. CASE KvSet \/ KvAdd \/ KvClear \/ KvClearSet \/ KvRemove
  BY <1>1, <1>2, <1>3, MapTypes
     DEF KvSet, KvAdd, KvClear, KvClearSet, KvRemove, TypeOK, Command, Status
<1>4. ASSUME NEW n \in Name, KvLoad(n) PROVE TypeOK'
  <2>1. PICK out \in Load(n) : map' = SetKeys(map, out.read) /\ Answer("KV_LOAD", n, out.st)
    BY <1>4 DEF KvLoad
  <2>2. out.read \in Map /\ out.st \in Status
    BY LoadTypes DEF Status
  <2>. QED  BY <1>4, <2>1, <2>2, MapTypes DEF KvLoad, TypeOK, Command
<1>5. ASSUME NEW n \in Name, SaveBegin(n) PROVE TypeOK'
  <2>1. PICK t \in ClockReadings :
          /\ disk' = [disk EXCEPT ![n][t] = [NoDir EXCEPT !.md = "empty"]]
          /\ save' = [NoSave EXCEPT !.phase = "opened", !.name = n, !.at = t]
          /\ snapshot' = [snapshot EXCEPT ![n][t] = map]
    BY <1>5 DEF SaveBegin
  <2>2. t \in Timestamp
    BY DEF ClockReadings
  <2>3. disk' \in [Name -> [Timestamp -> Dir]]
    BY <2>1, <2>2 DEF TypeOK, NoDir, Dir, MdState
  <2>4. save' \in SaveType /\ save'.name = n /\ save'.at = t
    BY <2>1, <2>2 DEF SaveType, NoSave, Phase, Status
  <2>5. snapshot' \in [Name -> [Timestamp -> Map]]
    BY <2>1, <2>2 DEF TypeOK
  <2>6. rsp' \in [cmd : Command, name : Name \cup {NoName}, st : Status]
    BY <1>5 DEF SaveBegin, Command, Status
  <2>. QED  BY <1>5, <2>2, <2>3, <2>4, <2>5, <2>6 DEF SaveBegin, TypeOK, SaveType
<1>6. ASSUME NEW n \in Name, SaveRefused(n) PROVE TypeOK'
  BY <1>2, <1>6 DEF SaveRefused, Command, Status
<1>7. ASSUME NEW n \in Name, SaveBeginFails(n) PROVE TypeOK'
  <2>1. PICK t \in ClockReadings, made \in BOOLEAN :
          /\ disk' = IF made THEN [disk EXCEPT ![n][t].md = "missing"] ELSE disk
          /\ \/ Answer("KV_SAVE", n, "Unknown")
             \/ Answer("KV_SAVE", n, "SaveDirWriteFail")
    BY <1>7 DEF SaveBeginFails
  <2>2. t \in Timestamp /\ disk[n][t] \in Dir
    BY DEF ClockReadings, TypeOK
  <2>3. [disk[n][t] EXCEPT !.md = "missing"] \in Dir
    BY <2>2 DEF Dir, MdState
  <2>4. disk' \in [Name -> [Timestamp -> Dir]]
    BY <2>1, <2>2, <2>3 DEF TypeOK
  <2>. QED  BY <1>7, <2>1, <2>4 DEF SaveBeginFails, TypeOK, Command, Status
<1>8. CASE SaveCreateData
  <2>1. save.phase # "idle" /\ [Target EXCEPT !.data = TRUE] \in Dir
    BY <1>8, TargetType DEF SaveCreateData, Dir
  <2>2. disk' \in [Name -> [Timestamp -> Dir]]
    BY <1>8, <2>1, WriteDirType DEF SaveCreateData
  <2>3. save' \in SaveType /\ save'.name = save.name /\ save'.at = save.at
    BY <1>8 DEF SaveCreateData, TypeOK, SaveType, Phase, Present
  <2>. QED  BY <1>8, <2>1, <2>2, <2>3, TargetType DEF SaveCreateData, TypeOK, SaveType
<1>9. CASE SaveEntry
  <2>1. PICK k \in save.todo :
          \/ /\ save' = [save EXCEPT !.todo = @ \ {k}, !.buffer = save.buffer \cup {k}]
             /\ UNCHANGED disk
          \/ /\ save' = [save EXCEPT !.todo = @ \ {k}, !.buffer = {}]
             /\ \E f \in Flushed(save.buffer \cup {k}) :
                  WriteDir([Target EXCEPT !.files = @ \cup {f}])
    BY <1>9 DEF SaveEntry
  <2>2. save.phase # "idle" /\ save.buffer \cup {k} \in SUBSET Key
    BY <1>9 DEF SaveEntry, TypeOK
  <2>3. \A f \in Flushed(save.buffer \cup {k}) : [Target EXCEPT !.files = @ \cup {f}] \in Dir
    BY <2>2, TargetType, FlushedType DEF Dir
  <2>4. disk' \in [Name -> [Timestamp -> Dir]]
    BY <2>1, <2>2, <2>3, WriteDirType DEF TypeOK
  <2>5. save' \in SaveType /\ save'.name = save.name /\ save'.at = save.at
    BY <2>1, <2>2 DEF TypeOK, SaveType
  <2>. QED  BY <1>9, <2>2, <2>4, <2>5, TargetType DEF SaveEntry, TypeOK, SaveType
<1>10. CASE SaveLeftovers
  <2>1. save.phase # "idle" /\ save.buffer \in SUBSET Key
    BY <1>10 DEF SaveLeftovers, TypeOK
  <2>2. \A f \in Flushed(save.buffer) : [Target EXCEPT !.files = @ \cup {f}] \in Dir
    BY <2>1, TargetType, FlushedType DEF Dir
  <2>3. disk' \in [Name -> [Timestamp -> Dir]]
    BY <1>10, <2>1, <2>2, WriteDirType DEF SaveLeftovers, TypeOK
  <2>4. save' \in SaveType /\ save'.name = save.name /\ save'.at = save.at
    BY <1>10 DEF SaveLeftovers, TypeOK, SaveType, Phase, Status
  <2>. QED  BY <1>10, <2>1, <2>3, <2>4, TargetType DEF SaveLeftovers, TypeOK, SaveType
<1>11. CASE SaveException
  <2>1. save.phase # "idle"
    BY <1>11 DEF SaveException
  <2>2. save' \in SaveType /\ save'.name = save.name /\ save'.at = save.at
    BY <1>11 DEF SaveException, TypeOK, SaveType, Phase, Status
  <2>. QED  BY <1>11, <2>1, <2>2, TargetType DEF SaveException, TypeOK, SaveType
<1>12. CASE SaveFlushPending
  <2>1. save.phase # "idle" /\ [Target EXCEPT !.md = "pending"] \in Dir
    BY <1>12, TargetType DEF SaveFlushPending, Dir, MdState
  <2>2. disk' \in [Name -> [Timestamp -> Dir]]
    BY <1>12, <2>1, WriteDirType DEF SaveFlushPending, TypeOK
  <2>3. save' \in SaveType /\ save'.name = save.name /\ save'.at = save.at
    BY <1>12 DEF SaveFlushPending, TypeOK, SaveType, Phase
  <2>. QED  BY <1>12, <2>1, <2>2, <2>3, TargetType DEF SaveFlushPending, TypeOK, SaveType
<1>13. CASE SaveFinish
  <2>1. save.phase # "idle" /\ [Target EXCEPT !.md = "complete"] \in Dir
    BY <1>13, TargetType DEF SaveFinish, Dir, MdState
  <2>2. disk' \in [Name -> [Timestamp -> Dir]]
    BY <1>13, <2>1, WriteDirType DEF SaveFinish, TypeOK
  <2>3. acked' \in [Name -> Timestamp \cup {0}]
    BY <1>13, <2>1, TargetType DEF SaveFinish, TypeOK
  <2>4. rsp' \in [cmd : Command, name : Name \cup {NoName}, st : Status]
    BY <1>13 DEF SaveFinish, TypeOK, Command
  <2>5. save' = NoSave /\ save' \in SaveType
    BY <1>13 DEF SaveFinish, SaveType, NoSave, Phase, Status
  <2>. QED  BY <1>13, <2>2, <2>3, <2>4, <2>5 DEF SaveFinish, TypeOK, SaveType
<1>14. ASSUME NEW n \in Name \cup {NoName}, Start(n) PROVE TypeOK'
  <2>1. CASE n = NoName
    BY <1>14, <2>1 DEF Start, TypeOK, Command, Status
  <2>2. CASE n # NoName
    <3>1. PICK out \in Load(n) :
            /\ Answer("START", n, out.st)
            /\ IF out.st = "LoadComplete"
               THEN server' = "serving" /\ map' = out.read
               ELSE UNCHANGED <<server, map>>
      BY <1>14, <2>2 DEF Start
    <3>2. out.read \in Map /\ out.st \in Status
      BY <2>2, LoadTypes DEF Status
    <3>. QED  BY <1>14, <3>1, <3>2 DEF Start, TypeOK, Command
  <2>. QED  BY <2>1, <2>2
<1>15. CASE StartRefused
  BY <1>15 DEF StartRefused, TypeOK, Command, Status
<1>16. CASE Exit
  <2>1. disk' \in [Name -> [Timestamp -> Dir]]
    <3>1. CASE UNCHANGED disk
      BY <3>1 DEF TypeOK
    <3>2. CASE /\ save.phase = "writing"
               /\ WriteDir([Target EXCEPT !.files = @ \cup
                    {[items |-> Only(map, save.buffer), whole |-> FALSE]}])
      <4>1. [items |-> Only(map, save.buffer), whole |-> FALSE] \in File
        BY MapTypes DEF File, TypeOK
      <4>2. [Target EXCEPT !.files = @ \cup
               {[items |-> Only(map, save.buffer), whole |-> FALSE]}] \in Dir
        BY <3>2, <4>1, TargetType DEF Dir
      <4>. QED  BY <3>2, <4>2, WriteDirType
    <3>. QED  BY <1>16, <3>1, <3>2 DEF Exit
  <2>2. save' = NoSave /\ save' \in SaveType
    BY <1>16 DEF Exit, SaveType, NoSave, Phase, Status
  <2>. QED  BY <1>16, <2>1, <2>2, MapTypes DEF Exit, TypeOK, SaveType, Command, Status
<1>17. CASE UNCHANGED vars
  BY <1>17 DEF vars, TypeOK
<1>. QED
  BY <1>3, <1>4, <1>5, <1>6, <1>7, <1>8, <1>9, <1>10, <1>11, <1>12, <1>13,
     <1>14, <1>15, <1>16, <1>17 DEF Next, SaveStep

\* Every variable of the engine, of its disk and of its saves keeps its type,
\* whatever fails.
THEOREM TypeCorrect == Spec => []TypeOK
<1>. QED  BY InitType, TypeStep, PTL DEF Spec

-----------------------------------------------------------------------------
(* What a complete save holds.                                             *)

\* No stream write fails and no exception leaves the data loop.
WritesSucceed == {"exception", "write"} \cap Faults = {}

\* The files hold entries of m only and can be read in full.
Faithful(files, m) ==
  \A f \in files : f.whole /\ \A k \in Present(f.items) : f.items[k] = m[k]

\* Where each entry of the map is while doSave runs: still to be visited, in
\* the buffer, or in a file.
SaveInv ==
  /\ server = "down" => save = NoSave
  /\ save.phase = "idle" => save = NoSave
  /\ save.phase # "idle" =>
       /\ snapshot[save.name][save.at] = map
       /\ Target.md = IF save.phase = "completing" THEN "pending" ELSE "empty"
       /\ Faithful(Target.files, map)
  /\ save.phase = "opened" => save.buffer = {}
  /\ save.phase \in {"writing", "closing", "completing"} => Target.data
  /\ save.phase = "writing" => \A k \in Present(map) :
       k \in save.todo \cup save.buffer \/ \E f \in Target.files : k \in Present(f.items)
  /\ save.phase \in {"closing", "completing"} => \A k \in Present(map) :
       \E f \in Target.files : k \in Present(f.items)

AckedInv == \A n \in Name, t \in Timestamp :
  acked[n] = t => disk[n][t].md = "complete"

IInv == TypeOK /\ SaveInv /\ CompleteIsExact /\ AckedInv

\* A step that leaves the directories, the save and the snapshots alone, and
\* the map too unless no save is under way, keeps the invariant.
LEMMA SameDisk ==
  ASSUME IInv, TypeOK', UNCHANGED <<disk, save, snapshot, acked>>,
         save = NoSave \/ (UNCHANGED map /\ UNCHANGED server)
  PROVE  IInv'
<1>1. SaveInv'
  BY DEF IInv, SaveInv, NoSave, Target, Faithful
<1>2. CompleteIsExact' /\ AckedInv'
  BY DEF IInv, CompleteIsExact, AckedInv
<1>. QED  BY <1>1, <1>2 DEF IInv

\* Writing a directory changes the one of the save and no other.
LEMMA WriteDirFrame ==
  ASSUME TypeOK, save.phase # "idle", NEW dir, WriteDir(dir)
  PROVE  /\ disk'[save.name][save.at] = dir
         /\ \A n \in Name, t \in Timestamp :
              <<n, t>> # <<save.name, save.at>> => disk'[n][t] = disk[n][t]
  BY TargetType DEF TypeOK, WriteDir

\* A file flushed without fault holds the buffered entries of the map.
LEMMA FlushedExact ==
  ASSUME TypeOK, WritesSucceed, NEW keys \in SUBSET Key, NEW f \in Flushed(keys)
  PROVE  /\ f.whole
         /\ Present(f.items) = Present(map) \cap keys
         /\ \A k \in Present(f.items) : f.items[k] = map[k]
<1>1. f = [items |-> Only(map, keys), whole |-> TRUE]
  BY DEF Flushed, WritesSucceed
<1>. QED  BY <1>1, OnlyKeeps DEF TypeOK

\* A step of a save that leaves its metadata incomplete and the history
\* alone cannot disturb a complete directory.
LEMMA OthersKept ==
  ASSUME IInv, save.phase # "idle", NEW dir, dir.md # "complete",
         UNCHANGED disk \/ WriteDir(dir), UNCHANGED <<snapshot, acked>>
  PROVE  CompleteIsExact' /\ AckedInv'
<1>1. Target.md # "complete"
  BY DEF IInv, SaveInv
<1>2. CASE UNCHANGED disk
  BY <1>2 DEF IInv, CompleteIsExact, AckedInv
<1>3. CASE WriteDir(dir)
  <2>1. \A n \in Name, t \in Timestamp :
          IF <<n, t>> = <<save.name, save.at>>
          THEN disk'[n][t].md # "complete" /\ disk[n][t].md # "complete"
          ELSE disk'[n][t] = disk[n][t]
    BY <1>1, <1>3, WriteDirFrame DEF IInv, Target
  <2>. QED  BY <2>1 DEF IInv, CompleteIsExact, AckedInv
<1>. QED  BY <1>2, <1>3

\* The fields of a directory after one of them is set.
LEMMA DirFields ==
  ASSUME NEW d \in Dir
  PROVE  /\ \A x : [d EXCEPT !.md = x] = [md |-> x, data |-> d.data, files |-> d.files]
         /\ \A x : [d EXCEPT !.data = x] = [md |-> d.md, data |-> x, files |-> d.files]
         /\ \A f : [d EXCEPT !.files = @ \cup {f}] =
                   [md |-> d.md, data |-> d.data, files |-> d.files \cup {f}]
<1>1. d = [md |-> d.md, data |-> d.data, files |-> d.files]
  BY DEF Dir
<1>. QED  BY <1>1

LEMMA InvInit == Init => IInv
<1>. SUFFICES ASSUME Init PROVE IInv
  OBVIOUS
<1>1. SaveInv
  BY DEF Init, SaveInv, NoSave
<1>2. CompleteIsExact
  BY DEF Init, CompleteIsExact, NoDir
<1>3. AckedInv
  BY TimestampAssumption DEF Init, AckedInv
<1>. QED  BY <1>1, <1>2, <1>3, InitType DEF IInv

LEMMA InvStep ==
  ASSUME WritesSucceed, IInv, [Next]_vars
  PROVE  IInv'
<1>t. TypeOK /\ TypeOK'
  BY TypeStep DEF IInv
<1>1. CASE KvSet \/ KvAdd \/ KvClear \/ KvClearSet \/ KvRemove
  BY <1>1, <1>t, SameDisk
     DEF KvSet, KvAdd, KvClear, KvClearSet, KvRemove, Execute, Refuse, Ready
<1>2. ASSUME NEW n \in Name, KvLoad(n) \/ SaveRefused(n) PROVE IInv'
  BY <1>2, <1>t, SameDisk DEF KvLoad, SaveRefused, Refuse, Ready
<1>3. ASSUME NEW n \in Name, SaveBegin(n) PROVE IInv'
  <2>1. PICK t \in ClockReadings :
          /\ disk[n][t].md \in {"absent", "missing"}
          /\ disk' = [disk EXCEPT ![n][t] = [NoDir EXCEPT !.md = "empty"]]
          /\ save' = [NoSave EXCEPT !.phase = "opened", !.name = n, !.at = t]
          /\ snapshot' = [snapshot EXCEPT ![n][t] = map]
    BY <1>3 DEF SaveBegin
  <2>2. t \in Timestamp
    BY DEF ClockReadings
  <2>3. /\ disk'[n][t] = [md |-> "empty", data |-> FALSE, files |-> {}]
        /\ snapshot'[n][t] = map
        /\ \A m \in Name, u \in Timestamp : <<m, u>> # <<n, t>> =>
             disk'[m][u] = disk[m][u] /\ snapshot'[m][u] = snapshot[m][u]
    BY <1>t, <2>1, <2>2 DEF TypeOK, NoDir
  <2>4. /\ save'.phase = "opened" /\ save'.name = n /\ save'.at = t
        /\ save'.buffer = {}
        /\ map' = map /\ server' = server /\ server = "serving" /\ acked' = acked
    BY <1>3, <2>1 DEF NoSave, SaveBegin, Ready
  <2>5. SaveInv'
    BY <2>3, <2>4 DEF SaveInv, Target, Faithful
  <2>6. CompleteIsExact' /\ AckedInv'
    BY <2>1, <2>3, <2>4 DEF IInv, CompleteIsExact, AckedInv
  <2>. QED  BY <1>t, <2>5, <2>6 DEF IInv
<1>4. ASSUME NEW n \in Name, SaveBeginFails(n) PROVE IInv'
  <2>1. PICK t \in ClockReadings :
          /\ disk[n][t].md = "absent"
          /\ disk' = [disk EXCEPT ![n][t].md = "missing"] \/ UNCHANGED disk
    BY <1>4 DEF SaveBeginFails
  <2>2. t \in Timestamp
    BY DEF ClockReadings
  <2>3. \A m \in Name, u \in Timestamp :
          \/ disk'[m][u] = disk[m][u]
          \/ disk[m][u].md = "absent" /\ disk'[m][u].md = "missing"
    <3>1. CASE UNCHANGED disk
      BY <3>1
    <3>2. CASE disk' = [disk EXCEPT ![n][t].md = "missing"]
      <4>1. disk[n][t] \in Dir
        BY <1>t, <2>2 DEF TypeOK
      <4>2. disk' = [disk EXCEPT ![n][t] =
                       [md |-> "missing", data |-> disk[n][t].data, files |-> disk[n][t].files]]
        BY <3>2, <4>1, DirFields
      <4>. QED  BY <1>t, <2>1, <2>2, <4>2 DEF TypeOK
    <3>. QED  BY <2>1, <3>1, <3>2
  <2>4. CompleteIsExact' /\ AckedInv'
    BY <1>4, <2>3 DEF IInv, CompleteIsExact, AckedInv, SaveBeginFails
  <2>5. SaveInv'
    BY <1>4 DEF SaveBeginFails, Ready, NoSave, SaveInv
  <2>. QED  BY <1>t, <2>4, <2>5 DEF IInv
<1>5. CASE SaveCreateData
  <2>1. WriteDir([Target EXCEPT !.data = TRUE]) /\ save.phase = "opened"
    BY <1>5 DEF SaveCreateData
  <2>2. [Target EXCEPT !.data = TRUE] =
          [md |-> "empty", data |-> TRUE, files |-> Target.files]
    <3>1. Target \in Dir /\ Target.md = "empty"
      BY <1>t, <2>1, TargetType DEF IInv, SaveInv
    <3>. QED  BY <3>1, DirFields
  <2>3. CompleteIsExact' /\ AckedInv'
    BY <1>5, <2>1, <2>2, OthersKept DEF SaveCreateData
  <2>4. /\ save'.phase = "writing" /\ save'.todo = Present(map)
        /\ save'.name = save.name /\ save'.at = save.at
        /\ map' = map /\ snapshot' = snapshot /\ server' = server
    BY <1>5, <1>t DEF SaveCreateData, TypeOK
  <2>5. SaveInv'
    BY <2>1, <2>2, <2>4, <1>t, WriteDirFrame DEF IInv, SaveInv, Target, Faithful, NoSave
  <2>. QED  BY <1>t, <2>3, <2>5 DEF IInv
<1>6. ASSUME NEW keys \in SUBSET Key, NEW f \in Flushed(keys),
             save.phase = "writing",
             WriteDir([Target EXCEPT !.files = @ \cup {f}])
      PROVE  /\ disk'[save.name][save.at] =
                  [md |-> "empty", data |-> TRUE, files |-> Target.files \cup {f}]
             /\ Faithful(Target.files \cup {f}, map)
             /\ Present(f.items) = Present(map) \cap keys
  <2>1. [Target EXCEPT !.files = @ \cup {f}] =
          [md |-> "empty", data |-> TRUE, files |-> Target.files \cup {f}]
    <3>1. Target \in Dir /\ Target.md = "empty" /\ Target.data
      BY <1>6, <1>t, TargetType DEF IInv, SaveInv
    <3>2. [Target EXCEPT !.files = @ \cup {f}] =
            [md |-> Target.md, data |-> Target.data, files |-> Target.files \cup {f}]
      BY <3>1, DirFields
    <3>3. Target.data = TRUE
      BY <3>1 DEF Dir
    <3>. QED  BY <3>1, <3>2, <3>3
  <2>. QED  BY <1>6, <1>t, <2>1, WriteDirFrame, FlushedExact DEF IInv, SaveInv, Faithful
<1>7. CASE SaveEntry
  <2>1. PICK k \in save.todo :
          \/ /\ save' = [save EXCEPT !.todo = @ \ {k}, !.buffer = save.buffer \cup {k}]
             /\ UNCHANGED disk
          \/ /\ save' = [save EXCEPT !.todo = @ \ {k}, !.buffer = {}]
             /\ \E f \in Flushed(save.buffer \cup {k}) :
                  WriteDir([Target EXCEPT !.files = @ \cup {f}])
    BY <1>7 DEF SaveEntry
  <2>2. /\ save.phase = "writing" /\ save.buffer \cup {k} \in SUBSET Key
        /\ map' = map /\ snapshot' = snapshot /\ server' = server /\ acked' = acked
    BY <1>7, <1>t DEF SaveEntry, TypeOK
  <2>3. /\ save'.phase = "writing" /\ save'.todo = save.todo \ {k}
        /\ save'.name = save.name /\ save'.at = save.at
    BY <2>1, <2>2, <1>t DEF TypeOK
  <2>4. CASE UNCHANGED disk /\ save'.buffer = save.buffer \cup {k}
    <3>1. SaveInv'
      BY <2>2, <2>3, <2>4 DEF IInv, SaveInv, Target, NoSave, Faithful
    <3>2. CompleteIsExact' /\ AckedInv'
      BY <2>2, <2>4 DEF IInv, CompleteIsExact, AckedInv
    <3>. QED  BY <1>t, <3>1, <3>2 DEF IInv
  <2>5. ASSUME save'.buffer = {}, NEW f \in Flushed(save.buffer \cup {k}),
               WriteDir([Target EXCEPT !.files = @ \cup {f}])
        PROVE  IInv'
    <3>1. /\ disk'[save.name][save.at] =
               [md |-> "empty", data |-> TRUE, files |-> Target.files \cup {f}]
          /\ Faithful(Target.files \cup {f}, map)
          /\ Present(f.items) = Present(map) \cap (save.buffer \cup {k})
      BY <1>6, <2>2, <2>5
    <3>2. SaveInv'
      BY <2>2, <2>3, <2>5, <3>1 DEF IInv, SaveInv, Target, NoSave
    <3>3. [Target EXCEPT !.files = @ \cup {f}].md # "complete"
      BY <1>t, <2>2, TargetType, DirFields DEF IInv, SaveInv
    <3>4. CompleteIsExact' /\ AckedInv'
      BY <2>2, <2>5, <3>3, OthersKept
    <3>. QED  BY <1>t, <3>2, <3>4 DEF IInv
  <2>. QED  BY <2>1, <2>4, <2>5, <1>t DEF TypeOK
<1>8. CASE SaveLeftovers
  <2>1. /\ save.phase = "writing" /\ save.todo = {} /\ save.buffer \in SUBSET Key
        /\ map' = map /\ snapshot' = snapshot /\ server' = server /\ acked' = acked
        /\ save'.phase = "closing" /\ save'.name = save.name /\ save'.at = save.at
    BY <1>8, <1>t DEF SaveLeftovers, TypeOK
  <2>2. CASE UNCHANGED disk /\ save.buffer = {}
    <3>1. SaveInv'
      BY <2>1, <2>2 DEF IInv, SaveInv, Target, NoSave
    <3>2. CompleteIsExact' /\ AckedInv'
      BY <2>1, <2>2 DEF IInv, CompleteIsExact, AckedInv
    <3>. QED  BY <1>t, <3>1, <3>2 DEF IInv
  <2>3. ASSUME NEW f \in Flushed(save.buffer),
               WriteDir([Target EXCEPT !.files = @ \cup {f}])
        PROVE  IInv'
    <3>1. /\ disk'[save.name][save.at] =
               [md |-> "empty", data |-> TRUE, files |-> Target.files \cup {f}]
          /\ Faithful(Target.files \cup {f}, map)
          /\ Present(f.items) = Present(map) \cap save.buffer
      BY <1>6, <2>1, <2>3
    <3>2. SaveInv'
      BY <2>1, <3>1 DEF IInv, SaveInv, Target, NoSave
    <3>3. [Target EXCEPT !.files = @ \cup {f}].md # "complete"
      BY <1>t, <2>1, TargetType, DirFields DEF IInv, SaveInv
    <3>4. CompleteIsExact' /\ AckedInv'
      BY <2>1, <2>3, <3>3, OthersKept
    <3>. QED  BY <1>t, <3>2, <3>4 DEF IInv
  <2>. QED  BY <1>8, <2>2, <2>3 DEF SaveLeftovers
<1>9. CASE SaveException
  BY <1>9 DEF SaveException, WritesSucceed
<1>10. CASE SaveFlushPending
  <2>1. /\ save.phase = "closing" /\ WriteDir([Target EXCEPT !.md = "pending"])
        /\ map' = map /\ snapshot' = snapshot /\ server' = server /\ acked' = acked
        /\ save'.phase = "completing" /\ save'.name = save.name /\ save'.at = save.at
    BY <1>10, <1>t DEF SaveFlushPending, TypeOK, WritesSucceed
  <2>2. [Target EXCEPT !.md = "pending"] =
          [md |-> "pending", data |-> TRUE, files |-> Target.files]
    BY <1>t, <2>1, TargetType, DirFields DEF IInv, SaveInv
  <2>3. SaveInv'
    BY <1>t, <2>1, <2>2, WriteDirFrame DEF IInv, SaveInv, Target, NoSave
  <2>4. CompleteIsExact' /\ AckedInv'
    BY <2>1, <2>2, OthersKept
  <2>. QED  BY <1>t, <2>3, <2>4 DEF IInv
<1>11. CASE SaveFinish
  <2>1. /\ save.phase = "completing" /\ WriteDir([Target EXCEPT !.md = "complete"])
        /\ map' = map /\ snapshot' = snapshot /\ server' = server /\ save' = NoSave
        /\ acked' = [acked EXCEPT ![save.name] = save.at] \/ acked' = acked
    BY <1>11 DEF SaveFinish, WritesSucceed
  <2>2. [Target EXCEPT !.md = "complete"] =
          [md |-> "complete", data |-> TRUE, files |-> Target.files]
    BY <1>t, <2>1, TargetType, DirFields DEF IInv, SaveInv
  <2>3. Exact(Target.files, snapshot[save.name][save.at])
    BY <2>1 DEF IInv, SaveInv, Exact, Faithful
  <2>4. SaveInv'
    BY <2>1 DEF SaveInv, NoSave
  <2>5. CompleteIsExact'
    BY <1>t, <2>1, <2>2, <2>3, WriteDirFrame DEF IInv, CompleteIsExact
  <2>6. AckedInv'
    <3>1. save.name \in Name /\ save.at \in Timestamp
      BY <1>t, <2>1, TargetType
    <3>2. \A n \in Name, t \in Timestamp : acked'[n] = t =>
            acked[n] = t \/ <<n, t>> = <<save.name, save.at>>
      BY <1>t, <2>1, <3>1 DEF TypeOK
    <3>3. \A n \in Name, t \in Timestamp :
            \/ disk'[n][t].md = "complete"
            \/ disk'[n][t] = disk[n][t] /\ <<n, t>> # <<save.name, save.at>>
      BY <1>t, <2>1, <2>2, WriteDirFrame
    <3>. QED  BY <3>2, <3>3 DEF IInv, AckedInv
  <2>. QED  BY <1>t, <2>4, <2>5, <2>6 DEF IInv
<1>12. ASSUME NEW n \in Name \cup {NoName}, Start(n) PROVE IInv'
  BY <1>12, <1>t, SameDisk DEF Start, IInv, SaveInv
<1>13. CASE StartRefused
  BY <1>13, <1>t, SameDisk DEF StartRefused
<1>14. CASE Exit
  <2>1. SaveInv'
    BY <1>14 DEF Exit, SaveInv, NoSave
  <2>2. CASE UNCHANGED disk
    BY <1>14, <1>t, <2>1, <2>2 DEF Exit, IInv, CompleteIsExact, AckedInv
  <2>3. CASE /\ save.phase = "writing"
             /\ WriteDir([Target EXCEPT !.files = @ \cup
                  {[items |-> Only(map, save.buffer), whole |-> FALSE]}])
    <3>1. [Target EXCEPT !.files = @ \cup
             {[items |-> Only(map, save.buffer), whole |-> FALSE]}].md # "complete"
      BY <1>t, <2>3, TargetType, DirFields DEF IInv, SaveInv
    <3>2. CompleteIsExact' /\ AckedInv'
      BY <1>14, <2>3, <3>1, OthersKept DEF Exit
    <3>. QED  BY <1>t, <2>1, <3>2 DEF IInv
  <2>. QED  BY <1>14, <2>2, <2>3 DEF Exit
<1>15. CASE UNCHANGED vars
  BY <1>15, <1>t, SameDisk DEF vars
<1>. QED
  BY <1>1, <1>2, <1>3, <1>4, <1>5, <1>7, <1>8, <1>9, <1>10, <1>11, <1>12,
     <1>13, <1>14, <1>15 DEF Next, SaveStep

\* Unless a write fails, a directory whose metadata says Complete holds the
\* map of its save exactly: however many entries, files, saves and crashes.
THEOREM CompleteExact ==
  ASSUME WritesSucceed
  PROVE  Spec => []CompleteIsExact
<1>1. IInv => CompleteIsExact
  BY DEF IInv
<1>2. IInv /\ [Next]_vars => IInv'
  BY InvStep
<1>. QED  BY <1>1, <1>2, InvInit, PTL DEF Spec

\* Unless a write fails, a save answered SaveComplete is on disk in full and
\* stays there.
THEOREM AckedKept ==
  ASSUME WritesSucceed
  PROVE  Spec => []AckedIsKept
<1>1. IInv => AckedIsKept
  BY DEF IInv, AckedInv, CompleteIsExact, AckedIsKept
<1>2. IInv /\ [Next]_vars => IInv'
  BY InvStep
<1>. QED  BY <1>1, <1>2, InvInit, PTL DEF Spec

-----------------------------------------------------------------------------
(* A complete save is never touched again, whatever fails.                 *)

\* The directory a save writes to is there, and not complete before its last
\* write.
Unfinished == save.phase # "idle" => Target.md \in {"empty", "pending"}

\* What a step may do to the disk: it writes the directory of the save under
\* way, or one that no complete save is in, or none.
LEMMA DiskStep ==
  ASSUME TypeOK, Unfinished, [Next]_vars
  PROVE  /\ Unfinished'
         /\ \A n \in Name, t \in Timestamp :
              disk[n][t].md = "complete" => disk'[n][t] = disk[n][t]
<1>1. ASSUME UNCHANGED disk, save' = save \/ save' = NoSave
      PROVE  /\ Unfinished'
             /\ \A n \in Name, t \in Timestamp :
                  disk[n][t].md = "complete" => disk'[n][t] = disk[n][t]
  BY <1>1 DEF Unfinished, Target, NoSave
<1>2. ASSUME save.phase # "idle", NEW dir, WriteDir(dir),
             \/ save' = NoSave
             \/ /\ dir.md \in {"empty", "pending"}
                /\ save'.name = save.name /\ save'.at = save.at
      PROVE  /\ Unfinished'
             /\ \A n \in Name, t \in Timestamp :
                  disk[n][t].md = "complete" => disk'[n][t] = disk[n][t]
  <2>1. Target.md # "complete"
    BY <1>2 DEF Unfinished
  <2>. QED  BY <1>2, <2>1, WriteDirFrame DEF Unfinished, Target, NoSave
<1>3. ASSUME save.phase # "idle", UNCHANGED disk,
             save'.name = save.name, save'.at = save.at
      PROVE  /\ Unfinished'
             /\ \A n \in Name, t \in Timestamp :
                  disk[n][t].md = "complete" => disk'[n][t] = disk[n][t]
  BY <1>3 DEF Unfinished, Target
<1>4. save.phase # "idle" =>
        \A d : [Target EXCEPT !.files = @ \cup {d}].md \in {"empty", "pending"}
  BY TargetType, DirFields DEF Unfinished
<1>5. CASE KvSet \/ KvAdd \/ KvClear \/ KvClearSet \/ KvRemove
  BY <1>1, <1>5
     DEF KvSet, KvAdd, KvClear, KvClearSet, KvRemove, Execute, Refuse
<1>6. ASSUME NEW n \in Name, KvLoad(n) \/ SaveRefused(n)
      PROVE  UNCHANGED <<disk, save>>
  BY <1>6 DEF KvLoad, SaveRefused, Refuse
<1>7. ASSUME NEW n \in Name, SaveBegin(n)
      PROVE  /\ Unfinished'
             /\ \A m \in Name, u \in Timestamp :
                  disk[m][u].md = "complete" => disk'[m][u] = disk[m][u]
  <2>1. PICK t \in ClockReadings :
          /\ disk[n][t].md \in {"absent", "missing"}
          /\ disk' = [disk EXCEPT ![n][t] = [NoDir EXCEPT !.md = "empty"]]
          /\ save' = [NoSave EXCEPT !.phase = "opened", !.name = n, !.at = t]
    BY <1>7 DEF SaveBegin
  <2>2. t \in Timestamp /\ save'.name = n /\ save'.at = t
    BY <2>1 DEF ClockReadings, NoSave
  <2>3. disk'[n][t] = [md |-> "empty", data |-> FALSE, files |-> {}]
    BY <2>1, <2>2 DEF TypeOK, NoDir
  <2>4. \A m \in Name, u \in Timestamp :
          <<m, u>> # <<n, t>> => disk'[m][u] = disk[m][u]
    BY <2>1, <2>2 DEF TypeOK
  <2>. QED  BY <2>1, <2>2, <2>3, <2>4 DEF Unfinished, Target
<1>8. ASSUME NEW n \in Name, SaveBeginFails(n)
      PROVE  /\ Unfinished'
             /\ \A m \in Name, u \in Timestamp :
                  disk[m][u].md = "complete" => disk'[m][u] = disk[m][u]
  <2>1. PICK t \in ClockReadings :
          /\ disk[n][t].md = "absent"
          /\ disk' = [disk EXCEPT ![n][t].md = "missing"] \/ UNCHANGED disk
    BY <1>8 DEF SaveBeginFails
  <2>2. \A m \in Name, u \in Timestamp :
          disk[m][u].md = "complete" => disk'[m][u] = disk[m][u]
    BY <2>1 DEF TypeOK, ClockReadings
  <2>3. save'.phase = "idle"
    BY <1>8 DEF SaveBeginFails, Ready, NoSave
  <2>. QED  BY <2>2, <2>3 DEF Unfinished
<1>9. CASE SaveCreateData
  <2>1. /\ save.phase # "idle" /\ WriteDir([Target EXCEPT !.data = TRUE])
        /\ save'.name = save.name /\ save'.at = save.at
    BY <1>9 DEF SaveCreateData, TypeOK
  <2>2. [Target EXCEPT !.data = TRUE].md \in {"empty", "pending"}
    BY <2>1, TargetType, DirFields DEF Unfinished
  <2>. QED  BY <1>2, <2>1, <2>2
<1>10. CASE SaveEntry
  <2>1. /\ save.phase # "idle"
        /\ save'.name = save.name /\ save'.at = save.at
        /\ UNCHANGED disk \/ \E f : WriteDir([Target EXCEPT !.files = @ \cup {f}])
    BY <1>10 DEF SaveEntry, TypeOK
  <2>. QED  BY <1>2, <1>3, <1>4, <2>1
<1>11. CASE SaveLeftovers
  <2>1. /\ save.phase # "idle"
        /\ save'.name = save.name /\ save'.at = save.at
        /\ UNCHANGED disk \/ \E f : WriteDir([Target EXCEPT !.files = @ \cup {f}])
    BY <1>11 DEF SaveLeftovers, TypeOK
  <2>. QED  BY <1>2, <1>3, <1>4, <2>1
<1>12. CASE SaveException
  BY <1>3, <1>12 DEF SaveException, TypeOK
<1>13. CASE SaveFlushPending
  <2>1. /\ save.phase # "idle"
        /\ save'.name = save.name /\ save'.at = save.at
        /\ UNCHANGED disk \/ WriteDir([Target EXCEPT !.md = "pending"])
    BY <1>13 DEF SaveFlushPending, TypeOK
  <2>2. [Target EXCEPT !.md = "pending"].md = "pending"
    BY <2>1, TargetType, DirFields
  <2>. QED  BY <1>2, <1>3, <2>1, <2>2
<1>14. CASE SaveFinish
  BY <1>1, <1>2, <1>14 DEF SaveFinish
<1>15. ASSUME NEW n \in Name \cup {NoName}, Start(n)
       PROVE  UNCHANGED <<disk, save>>
  BY <1>15 DEF Start
<1>16. CASE StartRefused
  BY <1>1, <1>16 DEF StartRefused
<1>17. CASE Exit
  BY <1>1, <1>2, <1>17 DEF Exit
<1>18. CASE UNCHANGED vars
  BY <1>1, <1>18 DEF vars
<1>. QED
  BY <1>1, <1>5, <1>6, <1>7, <1>8, <1>9, <1>10, <1>11, <1>12, <1>13, <1>14,
     <1>15, <1>16, <1>17, <1>18 DEF Next, SaveStep

\* Whatever fails, and even when the clock gives two saves one timestamp, no
\* step changes the directory of a complete save (prepareSave refuses a
\* directory that exists).
THEOREM CompleteKept == Spec => CompleteNeverRewritten
<1>1. Init => Unfinished
  BY DEF Init, Unfinished, NoSave
<1>2. TypeOK /\ Unfinished /\ [Next]_vars =>
        [\A n \in Name, t \in Timestamp :
           disk[n][t].md = "complete" => disk'[n][t] = disk[n][t]]_vars
  BY DiskStep
<1>3. TypeOK /\ Unfinished /\ [Next]_vars => Unfinished'
  BY DiskStep
<1>. QED
  BY <1>1, <1>2, <1>3, TypeCorrect, PTL DEF Spec, CompleteNeverRewritten

-----------------------------------------------------------------------------
(* What a load reads.                                                      *)

\* A key is read back from its file as itself, or its file cannot be parsed.
KeysReadBack == \A k \in Key : Reparse[k] \in {k, Garbled}

\* No key breaks the JSON of its file.
KeysParse == \A k \in Key : Reparse[k] # Garbled

\* Reading files that hold m and nothing else gives m (loadKv).
LEMMA ReadingIsExact ==
  ASSUME KeysReadBack, NEW files \in SUBSET File, NEW s \in Map, Exact(files, s),
         \A f \in files : Readable(f), NEW m \in Readings(files)
  PROVE  m = s
<1>1. m \in Map
  BY DEF Readings
<1>2. ASSUME NEW k \in Key, m[k] # Absent PROVE s[k] = m[k]
  <2>1. PICK f \in files :
          \E j \in Present(f.items) : Reparse[j] = k /\ f.items[j] = m[k]
    BY <1>2 DEF Readings
  <2>2. k \in Present(f.items) /\ f.items[k] = m[k]
    BY <2>1, GarbledAssumption DEF KeysReadBack, Present
  <2>. QED  BY <2>2 DEF Exact
<1>3. ASSUME NEW k \in Key, m[k] = Absent, s[k] # Absent PROVE FALSE
  <2>1. PICK f \in files : k \in Present(f.items)
    BY <1>3 DEF Exact, Present
  <2>2. f.items[k] = s[k] /\ s[k] \in Val
    BY <1>3, <2>1 DEF Exact, Map
  <2>3. Reparse[k] = k
    BY <2>1 DEF Readable, KeysReadBack
  <2>4. \A v \in Val : ~ \E g \in files : \E j \in Present(g.items) :
                            Reparse[j] = k /\ g.items[j] = v
    BY <1>3 DEF Readings
  <2>. QED  BY <2>1, <2>2, <2>3, <2>4
<1>. QED  BY <1>1, <1>2, <1>3 DEF Map

\* A load that completes has read the whole map of the newest save, and one
\* that does not has read nothing unless a file could not be parsed.
LEMMA LoadReads ==
  ASSUME TypeOK, CompleteIsExact, KeysReadBack, NEW n \in Name, NEW out \in Load(n)
  PROVE  /\ out.st = "LoadComplete" =>
              \E t \in Newest(n) :
                disk[n][t].md = "complete" /\ out.read = snapshot[n][t]
         /\ out.st # "LoadComplete" /\ KeysParse => out.read = EmptyMap
<1>1. CASE Newest(n) = {}
  BY <1>1 DEF Load
<1>2. CASE Newest(n) # {}
  <2>1. PICK t \in Newest(n) :
          out \in IF PreLoad(disk[n][t]) = "valid"
                  THEN LoadOutcomes(disk[n][t].files)
                  ELSE {[st |-> PreLoad(disk[n][t]), read |-> EmptyMap]}
    BY <1>2 DEF Load
  <2>2. t \in Timestamp /\ disk[n][t] \in Dir /\ snapshot[n][t] \in Map
    BY DEF Newest, Used, TypeOK
  <2>3. CASE PreLoad(disk[n][t]) # "valid"
    BY <2>1, <2>3 DEF PreLoad
  <2>4. CASE PreLoad(disk[n][t]) = "valid"
    <3>1. /\ disk[n][t].md = "complete" /\ disk[n][t].files \in SUBSET File
          /\ Exact(disk[n][t].files, snapshot[n][t])
      BY <2>2, <2>4 DEF PreLoad, CompleteIsExact, Dir
    <3>2. out \in LoadOutcomes(disk[n][t].files)
      BY <2>1, <2>4
    <3>3. CASE disk[n][t].files = {}
      BY <3>2, <3>3 DEF LoadOutcomes
    <3>4. CASE disk[n][t].files # {} /\ \A f \in disk[n][t].files : Readable(f)
      <4>1. out.st = "LoadComplete" /\ out.read \in Readings(disk[n][t].files)
        BY <3>2, <3>4 DEF LoadOutcomes
      <4>. QED  BY <2>2, <3>1, <3>4, <4>1, ReadingIsExact
    <3>5. CASE disk[n][t].files # {} /\ ~ \A f \in disk[n][t].files : Readable(f)
      <4>1. out.st = "LoadError"
        BY <3>2, <3>5 DEF LoadOutcomes
      <4>2. ~KeysParse
        BY <3>1, <3>5 DEF Readable, Exact, KeysParse, Present
      <4>. QED  BY <4>1, <4>2
    <3>. QED  BY <3>3, <3>4, <3>5
  <2>. QED  BY <2>3, <2>4
<1>. QED  BY <1>1, <1>2

\* A save under way is the last command; a process that is down has no map and
\* no save.
OneAtATime ==
  /\ save.phase = "idle" => save = NoSave
  /\ save # NoSave => rsp.cmd = "KV_SAVE"
  /\ server = "down" => map = EmptyMap /\ save = NoSave

\* Every step keeps that.
LEMMA OneAtATimeStep == TypeOK /\ OneAtATime /\ [Next]_vars => OneAtATime'
<1>. SUFFICES ASSUME TypeOK, OneAtATime, [Next]_vars PROVE OneAtATime'
  OBVIOUS
<1>. USE DEF OneAtATime, Answer
<1>1. CASE KvSet \/ KvAdd \/ KvClear \/ KvClearSet \/ KvRemove
  BY <1>1 DEF KvSet, KvAdd, KvClear, KvClearSet, KvRemove, Execute, Refuse, Ready
<1>2. ASSUME NEW n \in Name, KvLoad(n) \/ SaveRefused(n) \/ SaveBeginFails(n)
      PROVE  OneAtATime'
  BY <1>2 DEF KvLoad, SaveRefused, SaveBeginFails, Refuse, Ready
<1>3. ASSUME NEW n \in Name, SaveBegin(n) PROVE OneAtATime'
  BY <1>3 DEF SaveBegin, Ready, NoSave
<1>4. CASE SaveCreateData \/ SaveEntry \/ SaveLeftovers \/ SaveException
           \/ SaveFlushPending
  <2>1. save.phase # "idle" /\ save'.phase # "idle" /\ UNCHANGED <<rsp, server, map>>
    BY <1>4 DEF SaveCreateData, SaveEntry, SaveLeftovers, SaveException,
                SaveFlushPending, TypeOK
  <2>. QED  BY <2>1 DEF NoSave
<1>5. CASE SaveFinish
  BY <1>5 DEF SaveFinish, NoSave
<1>6. ASSUME NEW n \in Name \cup {NoName}, Start(n) PROVE OneAtATime'
  BY <1>6 DEF Start
<1>7. CASE StartRefused \/ Exit
  BY <1>7 DEF StartRefused, Exit
<1>8. CASE UNCHANGED vars
  BY <1>8 DEF vars
<1>. QED
  BY <1>1, <1>2, <1>3, <1>4, <1>5, <1>6, <1>7, <1>8 DEF Next, SaveStep

\* A step that answers a load loads: it merges what it has read, or, at
\* startup, begins with it (KvHandler::load, Server::startupLoad).
LEMMA LoadStep ==
  ASSUME TypeOK, OneAtATime, Next, NEW n \in Name, LoadAnswered(n)
  PROVE  /\ save = NoSave /\ UNCHANGED <<disk, snapshot, acked>>
         /\ \E out \in Load(n) :
              /\ rsp'.st = out.st
              /\ \/ map' = SetKeys(map, out.read)
                 \/ /\ map = EmptyMap
                    /\ map' = IF out.st = "LoadComplete" THEN out.read ELSE map
<1>. USE DEF LoadAnswered, Answer
<1>1. CASE KvSet \/ KvAdd \/ KvClear \/ KvClearSet \/ KvRemove
  BY <1>1 DEF KvSet, KvAdd, KvClear, KvClearSet, KvRemove, Execute, Refuse
<1>2. ASSUME NEW m \in Name, KvLoad(m)
      PROVE  /\ save = NoSave /\ UNCHANGED <<disk, snapshot, acked>>
             /\ \E out \in Load(n) :
                  rsp'.st = out.st /\ map' = SetKeys(map, out.read)
  BY <1>2 DEF KvLoad, Ready
<1>3. ASSUME NEW m \in Name, SaveBegin(m) \/ SaveRefused(m) \/ SaveBeginFails(m)
      PROVE  FALSE
  <2>1. CASE SaveBegin(m)
    BY <2>1 DEF SaveBegin
  <2>2. CASE SaveRefused(m)
    BY <2>2 DEF SaveRefused, Refuse
  <2>3. CASE SaveBeginFails(m)
    BY <2>3 DEF SaveBeginFails
  <2>. QED  BY <1>3, <2>1, <2>2, <2>3
<1>4. CASE SaveCreateData \/ SaveEntry \/ SaveLeftovers \/ SaveException
           \/ SaveFlushPending
  <2>1. save.phase # "idle" /\ rsp' = rsp
    BY <1>4 DEF SaveCreateData, SaveEntry, SaveLeftovers, SaveException,
                SaveFlushPending
  <2>. QED  BY <2>1 DEF OneAtATime, NoSave
<1>5. CASE SaveFinish
  BY <1>5 DEF SaveFinish
<1>6. ASSUME NEW m \in Name \cup {NoName}, Start(m)
      PROVE  /\ save = NoSave /\ UNCHANGED <<disk, snapshot, acked>>
             /\ \E out \in Load(n) :
                  /\ rsp'.st = out.st /\ map = EmptyMap
                  /\ map' = IF out.st = "LoadComplete" THEN out.read ELSE map
  <2>1. m = n /\ n # NoName
    BY <1>6, NoNameAssumption DEF Start
  <2>. QED  BY <1>6, <2>1 DEF Start, OneAtATime
<1>7. CASE StartRefused \/ Exit
  BY <1>7, NoNameAssumption DEF StartRefused, Exit
<1>. QED
  BY <1>1, <1>2, <1>3, <1>4, <1>5, <1>6, <1>7 DEF Next, SaveStep

\* A load that does not complete leaves the map as it was: unless a write fails
\* or a key breaks its file, nothing is merged before the load is refused.
THEOREM RefusedLoadKeeps ==
  ASSUME WritesSucceed, KeysReadBack, KeysParse
  PROVE  Spec => RefusedLoadChangesNothing
<1>1. Init => IInv /\ OneAtATime
  BY InvInit DEF Init, OneAtATime, NoSave
<1>2. IInv /\ OneAtATime /\ [Next]_vars => (IInv /\ OneAtATime)'
  BY InvStep, OneAtATimeStep DEF IInv
<1>3. IInv /\ OneAtATime /\ [Next]_vars =>
        [\A n \in Name : LoadAnswered(n) /\ rsp'.st # "LoadComplete" =>
           map' = map]_vars
  <2>. SUFFICES ASSUME IInv, OneAtATime, Next, NEW n \in Name, LoadAnswered(n),
                       rsp'.st # "LoadComplete"
                PROVE  map' = map
    OBVIOUS
  <2>1. PICK out \in Load(n) :
          /\ rsp'.st = out.st
          /\ \/ map' = SetKeys(map, out.read)
             \/ map' = IF out.st = "LoadComplete" THEN out.read ELSE map
    BY LoadStep DEF IInv
  <2>2. out.read = EmptyMap
    BY <2>1, LoadReads DEF IInv
  <2>3. SetKeys(map, EmptyMap) = map
    BY DEF SetKeys, EmptyMap, IInv, TypeOK, Map
  <2>. QED  BY <2>1, <2>2, <2>3
<1>. QED  BY <1>1, <1>2, <1>3, PTL DEF Spec, RefusedLoadChangesNothing

-----------------------------------------------------------------------------
(* The newest save.                                                        *)

\* No exception leaves the data loop, and the clock is not set back.
Told == {"exception", "clock"} \cap Faults = {}

\* The save under way is the newest of its name, and a complete newest save is
\* the one acknowledged last.
NewestInv ==
  /\ save.phase # "idle" => save.at \in Newest(save.name)
  /\ save.phase \in {"closing", "completing"} => save.st = "SaveComplete"
  /\ \A n \in Name : \A t \in Newest(n) :
       disk[n][t].md = "complete" => acked[n] = t

\* The newest save of a name is one.
LEMMA NewestIsOne ==
  ASSUME NEW n \in Name, NEW t \in Newest(n), NEW u \in Newest(n)
  PROVE  t = u
<1>1. t \in Nat /\ u \in Nat
  BY TimestampAssumption DEF Newest, Used
<1>2. t <= u /\ u <= t
  BY DEF Newest
<1>. QED  BY <1>1, <1>2

\* As long as no directory is made, the newest ones are the same.
LEMMA NewestSame ==
  ASSUME \A n \in Name, t \in Timestamp :
           disk'[n][t].md = "absent" <=> disk[n][t].md = "absent"
  PROVE  \A n \in Name : Used(n)' = Used(n) /\ Newest(n)' = Newest(n)
<1>1. \A n \in Name : Used(n)' = Used(n)
  BY DEF Used
<1>. QED  BY <1>1 DEF Newest

\* A directory made under an orderly clock is the newest of its name.
LEMMA NewestMade ==
  ASSUME Told, NEW n \in Name, NEW t \in ClockReadings, disk'[n][t].md # "absent",
         \A m \in Name, u \in Timestamp :
           <<m, u>> # <<n, t>> => disk'[m][u] = disk[m][u]
  PROVE  /\ Newest(n)' = {t} /\ Used(n)' = Used(n) \cup {t}
         /\ \A m \in Name \ {n} : Used(m)' = Used(m) /\ Newest(m)' = Newest(m)
<1>1. t \in Timestamp /\ \A u \in Used(n) : u < t
  BY DEF ClockReadings, Told
<1>2. Used(n)' = Used(n) \cup {t}
  BY <1>1 DEF Used
<1>3. \A m \in Name \ {n} : Used(m)' = Used(m)
  BY DEF Used
<1>4. Newest(n)' = {t}
  <2>1. \A u \in Used(n) \cup {t} : u <= t /\ u \in Nat
    BY <1>1, TimestampAssumption DEF Used
  <2>2. \A u \in Used(n) : ~(t <= u)
    BY <1>1, TimestampAssumption DEF Used
  <2>. QED  BY <1>2, <2>1, <2>2 DEF Newest
<1>. QED  BY <1>2, <1>3, <1>4 DEF Newest

\* A write of a save, before its last, does not touch the newest saves.
LEMMA NewestWrite ==
  ASSUME TypeOK, Unfinished, NewestInv, save.phase # "idle", NEW dir, UNCHANGED acked,
         dir.md \notin {"absent", "complete"}, WriteDir(dir) \/ UNCHANGED disk
  PROVE  /\ \A n \in Name : Used(n)' = Used(n) /\ Newest(n)' = Newest(n)
         /\ \A n \in Name : \A t \in Newest(n)' :
              disk'[n][t].md = "complete" => acked'[n] = t
<1>1. Target.md \notin {"absent", "complete"}
  BY DEF Unfinished
<1>2. \A n \in Name, t \in Timestamp :
        \/ disk'[n][t] = disk[n][t]
        \/ /\ disk'[n][t].md \notin {"absent", "complete"}
           /\ disk[n][t].md \notin {"absent", "complete"}
  <2>1. CASE WriteDir(dir)
    BY <1>1, <2>1, WriteDirFrame DEF Target
  <2>2. CASE UNCHANGED disk
    BY <2>2
  <2>. QED  BY <2>1, <2>2
<1>3. \A n \in Name : Used(n)' = Used(n) /\ Newest(n)' = Newest(n)
  BY <1>2, NewestSame
<1>4. \A n \in Name : \A t \in Newest(n) : t \in Timestamp
  BY DEF Newest, Used
<1>. QED  BY <1>2, <1>3, <1>4 DEF NewestInv

\* Every step keeps it.
LEMMA NewestStep ==
  ASSUME Told, TypeOK, OneAtATime, Unfinished, NewestInv, [Next]_vars
  PROVE  NewestInv'
<1>1. ASSUME UNCHANGED <<disk, acked>>, save' = save \/ save' = NoSave
      PROVE  NewestInv'
  <2>1. \A n \in Name : Newest(n)' = Newest(n)
    BY <1>1, NewestSame
  <2>. QED  BY <1>1, <2>1 DEF NewestInv, NoSave, TypeOK, Newest, Used
<1>2. CASE KvSet \/ KvAdd \/ KvClear \/ KvClearSet \/ KvRemove
  BY <1>1, <1>2
     DEF KvSet, KvAdd, KvClear, KvClearSet, KvRemove, Execute, Refuse
<1>3. ASSUME NEW n \in Name, KvLoad(n) \/ SaveRefused(n) PROVE NewestInv'
  <2>1. UNCHANGED <<disk, acked, save>>
    BY <1>3 DEF KvLoad, SaveRefused, Refuse
  <2>. QED  BY <1>1, <2>1
<1>4. ASSUME NEW n \in Name, SaveBegin(n) PROVE NewestInv'
  <2>1. PICK t \in ClockReadings :
          /\ disk' = [disk EXCEPT ![n][t] = [NoDir EXCEPT !.md = "empty"]]
          /\ save' = [NoSave EXCEPT !.phase = "opened", !.name = n, !.at = t]
    BY <1>4 DEF SaveBegin
  <2>2. t \in Timestamp
    BY DEF ClockReadings
  <2>3. /\ disk'[n][t].md = "empty"
        /\ \A m \in Name, u \in Timestamp :
             <<m, u>> # <<n, t>> => disk'[m][u] = disk[m][u]
    BY <2>1, <2>2 DEF TypeOK, NoDir
  <2>4. /\ Newest(n)' = {t}
        /\ \A m \in Name \ {n} : Newest(m)' = Newest(m)
    BY <2>3, NewestMade
  <2>5. /\ save'.phase = "opened" /\ save'.name = n /\ save'.at = t
        /\ acked' = acked
    BY <1>4, <2>1 DEF NoSave, SaveBegin
  <2>6. \A m \in Name : \A u \in Newest(m) : u \in Timestamp
    BY DEF Newest, Used
  <2>. QED  BY <2>3, <2>4, <2>5, <2>6 DEF NewestInv
<1>5. ASSUME NEW n \in Name, SaveBeginFails(n) PROVE NewestInv'
  <2>1. PICK t \in ClockReadings :
          disk' = [disk EXCEPT ![n][t].md = "missing"] \/ UNCHANGED disk
    BY <1>5 DEF SaveBeginFails
  <2>2. UNCHANGED <<save, acked>>
    BY <1>5 DEF SaveBeginFails
  <2>3. CASE UNCHANGED disk
    BY <1>1, <2>2, <2>3
  <2>4. CASE disk' = [disk EXCEPT ![n][t].md = "missing"]
    <3>1. t \in Timestamp /\ disk[n][t] \in Dir
      BY DEF ClockReadings, TypeOK
    <3>2. /\ disk'[n][t].md = "missing"
          /\ \A m \in Name, u \in Timestamp :
               <<m, u>> # <<n, t>> => disk'[m][u] = disk[m][u]
      BY <2>4, <3>1 DEF TypeOK, Dir
    <3>3. /\ Newest(n)' = {t}
          /\ \A m \in Name \ {n} : Newest(m)' = Newest(m)
      BY <3>2, NewestMade
    <3>4. save'.phase = "idle"
      BY <1>5 DEF SaveBeginFails, Ready, NoSave
    <3>5. \A m \in Name : \A u \in Newest(m) : u \in Timestamp
      BY DEF Newest, Used
    <3>. QED  BY <2>2, <3>2, <3>3, <3>4, <3>5 DEF NewestInv
  <2>. QED  BY <2>1, <2>3, <2>4
<1>6. ASSUME save.phase # "idle", NEW dir, dir.md \notin {"absent", "complete"},
             WriteDir(dir) \/ UNCHANGED disk, UNCHANGED acked,
             \/ save' = NoSave
             \/ /\ save'.name = save.name /\ save'.at = save.at
                /\ save'.phase \in {"closing", "completing"} =>
                     save'.st = "SaveComplete"
      PROVE  NewestInv'
  <2>1. \A n \in Name : Newest(n)' = Newest(n)
    BY <1>6, NewestWrite
  <2>2. \A n \in Name : \A t \in Newest(n)' :
          disk'[n][t].md = "complete" => acked'[n] = t
    BY <1>6, NewestWrite
  <2>3. save.name \in Name
    BY <1>6, TargetType
  <2>. QED  BY <1>6, <2>1, <2>2, <2>3 DEF NewestInv, NoSave
<1>7. save.phase # "idle" =>
        /\ Target.md \notin {"absent", "complete"}
        /\ \A d : [Target EXCEPT !.data = d].md = Target.md
        /\ \A f : [Target EXCEPT !.files = @ \cup {f}].md = Target.md
        /\ [Target EXCEPT !.md = "pending"].md = "pending"
        /\ [Target EXCEPT !.md = "complete"].md = "complete"
  BY TargetType, DirFields DEF Unfinished
<1>8. CASE SaveCreateData
  <2>1. /\ save.phase # "idle" /\ UNCHANGED acked
        /\ WriteDir([Target EXCEPT !.data = TRUE])
        /\ save'.name = save.name /\ save'.at = save.at /\ save'.phase = "writing"
    BY <1>8 DEF SaveCreateData, TypeOK
  <2>. QED  BY <1>6, <1>7, <2>1
<1>9. CASE SaveEntry
  <2>1. /\ save.phase # "idle" /\ UNCHANGED acked
        /\ save'.name = save.name /\ save'.at = save.at /\ save'.phase = "writing"
        /\ UNCHANGED disk \/ \E f : WriteDir([Target EXCEPT !.files = @ \cup {f}])
    BY <1>9 DEF SaveEntry, TypeOK
  <2>. QED  BY <1>6, <1>7, <2>1
<1>10. CASE SaveLeftovers
  <2>1. /\ save.phase # "idle" /\ UNCHANGED acked
        /\ save'.name = save.name /\ save'.at = save.at /\ save'.st = "SaveComplete"
        /\ UNCHANGED disk \/ \E f : WriteDir([Target EXCEPT !.files = @ \cup {f}])
    BY <1>10 DEF SaveLeftovers, TypeOK
  <2>. QED  BY <1>6, <1>7, <2>1
<1>11. CASE SaveException
  BY <1>11 DEF SaveException, Told
<1>12. CASE SaveFlushPending
  <2>1. /\ save.phase = "closing" /\ UNCHANGED acked
        /\ save'.name = save.name /\ save'.at = save.at /\ save'.st = save.st
        /\ UNCHANGED disk \/ WriteDir([Target EXCEPT !.md = "pending"])
    BY <1>12 DEF SaveFlushPending, TypeOK
  <2>2. save.st = "SaveComplete"
    BY <2>1 DEF NewestInv
  <2>. QED  BY <1>6, <1>7, <2>1, <2>2
<1>13. CASE SaveFinish
  <2>1. /\ save.phase = "completing" /\ save' = NoSave
        /\ WriteDir([Target EXCEPT !.md = "complete"]) \/ UNCHANGED disk
        /\ acked' = [acked EXCEPT ![save.name] = save.at]
    BY <1>13 DEF SaveFinish, NewestInv
  <2>2. save.name \in Name /\ save.at \in Newest(save.name)
    BY <2>1, TargetType DEF NewestInv
  <2>3. \A n \in Name, t \in Timestamp :
          \/ disk'[n][t] = disk[n][t] /\ <<n, t>> # <<save.name, save.at>>
          \/ /\ <<n, t>> = <<save.name, save.at>>
             /\ disk'[n][t].md # "absent" /\ disk[n][t].md # "absent"
    <3>0. CASE UNCHANGED disk
      BY <1>7, <2>1, <3>0 DEF Target
    <3>1. Target \in Dir /\ Target.md # "absent"
      BY <1>7, <2>1, TargetType
    <3>2. PICK dir : dir = [Target EXCEPT !.md = "complete"]
      OBVIOUS
    <3>3. dir.md = "complete"
      BY <3>1, <3>2, DirFields
    <3>4. CASE WriteDir(dir)
      <4>1. /\ disk'[save.name][save.at] = dir
            /\ \A n \in Name, t \in Timestamp :
                 <<n, t>> # <<save.name, save.at>> => disk'[n][t] = disk[n][t]
        BY <2>1, <3>4, WriteDirFrame
      <4>. QED  BY <3>1, <3>3, <4>1 DEF Target
    <3>. QED  BY <2>1, <3>0, <3>2, <3>4
  <2>4. \A n \in Name : Newest(n)' = Newest(n)
    BY <2>3, NewestSame
  <2>5. \A n \in Name : \A t \in Newest(n) :
          disk'[n][t].md = "complete" => acked'[n] = t
    <3>1. SUFFICES ASSUME NEW n \in Name, NEW t \in Newest(n), disk'[n][t].md = "complete"
                   PROVE  acked'[n] = t
      OBVIOUS
    <3>2. t \in Timestamp
      BY DEF Newest, Used
    <3>3. CASE n = save.name
      BY <2>1, <2>2, <3>3, NewestIsOne DEF TypeOK
    <3>4. CASE n # save.name
      BY <2>1, <2>2, <2>3, <3>1, <3>2, <3>4 DEF TypeOK, NewestInv
    <3>. QED  BY <3>3, <3>4
  <2>. QED  BY <2>1, <2>4, <2>5 DEF NewestInv, NoSave
<1>14. ASSUME NEW n \in Name \cup {NoName}, Start(n) PROVE NewestInv'
  BY <1>1, <1>14 DEF Start
<1>15. CASE StartRefused
  BY <1>1, <1>15 DEF StartRefused
<1>16. CASE Exit
  <2>1. CASE UNCHANGED disk
    BY <1>1, <1>16, <2>1 DEF Exit
  <2>2. CASE save.phase = "writing" /\ \E f : WriteDir([Target EXCEPT !.files = @ \cup {f}])
    BY <1>6, <1>7, <1>16, <2>2 DEF Exit
  <2>. QED  BY <1>16, <2>1, <2>2 DEF Exit
<1>17. CASE UNCHANGED vars
  BY <1>1, <1>17 DEF vars
<1>. QED
  BY <1>2, <1>3, <1>4, <1>5, <1>8, <1>9, <1>10, <1>11, <1>12, <1>13, <1>14,
     <1>15, <1>16, <1>17 DEF Next, SaveStep

\* Besides, no write fails.
Orderly == {"exception", "write", "clock"} \cap Faults = {}

\* What an orderly engine keeps.
OrderlyInv == IInv /\ OneAtATime /\ NewestInv

LEMMA OrderlyInit == Init => OrderlyInv
<1>. SUFFICES ASSUME Init PROVE OrderlyInv
  OBVIOUS
<1>1. OneAtATime
  BY DEF Init, OneAtATime, NoSave
<1>2. NewestInv
  BY DEF Init, NewestInv, NoSave, NoDir, Newest, Used
<1>. QED  BY <1>1, <1>2, InvInit DEF OrderlyInv

LEMMA OrderlyStep ==
  ASSUME Orderly
  PROVE  OrderlyInv /\ [Next]_vars => OrderlyInv'
<1>1. WritesSucceed /\ Told
  BY DEF Orderly, WritesSucceed, Told
<1>2. IInv => TypeOK /\ Unfinished
  BY DEF IInv, SaveInv, Unfinished
<1>. QED  BY <1>1, <1>2, InvStep, OneAtATimeStep, NewestStep DEF OrderlyInv

\* A load that completes brings back the last save of that name answered
\* SaveComplete, whatever crashed in between (getLoadPaths, validatePreLoad,
\* loadKv).
THEOREM LoadRestores ==
  ASSUME Orderly, KeysReadBack
  PROVE  Spec => LoadRestoresLastSave
<1>1. OrderlyInv /\ [Next]_vars =>
        [\A n \in Name : LoadAnswered(n) /\ rsp'.st = "LoadComplete" =>
           /\ acked[n] # 0
           /\ map' = SetKeys(map, snapshot[n][acked[n]])]_vars
  <2>. SUFFICES ASSUME OrderlyInv, Next, NEW n \in Name, LoadAnswered(n),
                       rsp'.st = "LoadComplete"
                PROVE  /\ acked[n] # 0
                       /\ map' = SetKeys(map, snapshot[n][acked[n]])
    OBVIOUS
  <2>. USE DEF OrderlyInv, IInv
  <2>1. PICK out \in Load(n) :
          /\ rsp'.st = out.st
          /\ \/ map' = SetKeys(map, out.read)
             \/ map = EmptyMap /\ map' = out.read
    BY LoadStep
  <2>2. PICK t \in Newest(n) :
          disk[n][t].md = "complete" /\ out.read = snapshot[n][t]
    BY <2>1, LoadReads
  <2>3. acked[n] = t /\ t \in Timestamp /\ snapshot[n][t] \in Map
    BY <2>2 DEF NewestInv, Newest, Used, TypeOK
  <2>4. \A m \in Map : SetKeys(EmptyMap, m) = m
    BY DEF SetKeys, EmptyMap, Map
  <2>. QED  BY <2>1, <2>2, <2>3, <2>4, TimestampAssumption
<1>. QED  BY <1>1, OrderlyInit, OrderlyStep, PTL DEF Spec, LoadRestoresLastSave

\* A load that completes has found a newest directory whose metadata says so
\* (validatePreLoad).
LEMMA LoadFindsComplete ==
  ASSUME NEW n \in Name, NEW out \in Load(n), out.st = "LoadComplete"
  PROVE  \E t \in Newest(n) : disk[n][t].md = "complete"
<1>1. Newest(n) # {}
  BY DEF Load
<1>2. PICK t \in Newest(n) :
        out \in IF PreLoad(disk[n][t]) = "valid"
                THEN LoadOutcomes(disk[n][t].files)
                ELSE {[st |-> PreLoad(disk[n][t]), read |-> EmptyMap]}
  BY <1>1 DEF Load
<1>3. PreLoad(disk[n][t]) \in {"valid", "LoadError", "Unknown"}
  BY DEF PreLoad
<1>4. PreLoad(disk[n][t]) = "valid"
  BY <1>2, <1>3
<1>. QED  BY <1>4 DEF PreLoad

\* As long as no exception leaves the data loop and the clock is not set back,
\* only a save answered SaveComplete loads: crashes, failed writes and
\* directories that could not be made never let another be read.  (Without
\* the first hypothesis it does not hold: a save answered SaveError has its
\* metadata completed as well.)
THEOREM OnlyAckedLoads ==
  ASSUME Told
  PROVE  Spec => IncompleteNeverLoads
<1>. DEFINE Inv == TypeOK /\ OneAtATime /\ Unfinished /\ NewestInv
<1>1. Init => Inv
  <2>. SUFFICES ASSUME Init PROVE Inv
    OBVIOUS
  <2>1. Unfinished
    BY DEF Init, Unfinished, NoSave
  <2>. QED  BY <2>1, OrderlyInit DEF OrderlyInv, IInv
<1>2. Inv /\ [Next]_vars => Inv'
  BY TypeStep, OneAtATimeStep, DiskStep, NewestStep
<1>3. Inv /\ [Next]_vars =>
        [\A n \in Name : LoadAnswered(n) /\ rsp'.st = "LoadComplete" =>
           acked[n] \in Newest(n)]_vars
  <2>. SUFFICES ASSUME Inv, Next, NEW n \in Name, LoadAnswered(n),
                       rsp'.st = "LoadComplete"
                PROVE  acked[n] \in Newest(n)
    OBVIOUS
  <2>1. PICK out \in Load(n) : rsp'.st = out.st
    BY LoadStep
  <2>2. PICK t \in Newest(n) : disk[n][t].md = "complete"
    BY <2>1, LoadFindsComplete
  <2>. QED  BY <2>2 DEF NewestInv
<1>. QED  BY <1>1, <1>2, <1>3, PTL DEF Spec, IncompleteNeverLoads

-----------------------------------------------------------------------------
(* Where the values of a load come from, whatever fails.                   *)

\* Every file holds entries of the map its save began with, and the save under
\* way writes the map it began with.
FilesFromSnapshot ==
  /\ \A n \in Name, t \in Timestamp : \A f \in disk[n][t].files :
       \A k \in Present(f.items) : f.items[k] = snapshot[n][t][k]
  /\ save.phase # "idle" => snapshot[save.name][save.at] = map

\* A file that is flushed, short or not, is of the buffered entries.
LEMMA FlushedItems ==
  ASSUME NEW keys, NEW f \in Flushed(keys)
  PROVE  f.items = Only(map, keys)
<1>1. PICK w : f = [items |-> Only(map, keys), whole |-> w]
  BY DEF Flushed
<1>. QED  BY <1>1

\* Writing the directory of a save: the files it had, and one with entries of
\* the map.
LEMMA WriteFromSnapshot ==
  ASSUME TypeOK, FilesFromSnapshot, save.phase # "idle", UNCHANGED snapshot,
         NEW dir, WriteDir(dir),
         \A f \in dir.files : \/ f \in Target.files
                              \/ \E keys \in SUBSET Key : f.items = Only(map, keys)
  PROVE  \A n \in Name, t \in Timestamp : \A f \in disk'[n][t].files :
           \A k \in Present(f.items) : f.items[k] = snapshot'[n][t][k]
<1>1. ASSUME NEW f \in dir.files, NEW k \in Present(f.items)
      PROVE  f.items[k] = snapshot[save.name][save.at][k]
  <2>1. CASE f \in Target.files
    BY <2>1, TargetType DEF FilesFromSnapshot, Target
  <2>2. CASE \E keys \in SUBSET Key : f.items = Only(map, keys)
    BY <2>2, OnlyKeeps DEF FilesFromSnapshot, TypeOK
  <2>. QED  BY <1>1, <2>1, <2>2
<1>. QED  BY <1>1, WriteDirFrame DEF FilesFromSnapshot

\* Every step keeps it.
LEMMA FilesStep ==
  ASSUME TypeOK, OneAtATime, FilesFromSnapshot, [Next]_vars
  PROVE  FilesFromSnapshot'
<1>1. ASSUME UNCHANGED <<disk, snapshot>>,
             save' = NoSave \/ (UNCHANGED map /\ UNCHANGED save)
      PROVE  FilesFromSnapshot'
  BY <1>1 DEF FilesFromSnapshot, NoSave
<1>2. CASE KvSet \/ KvAdd \/ KvClear \/ KvClearSet \/ KvRemove
  BY <1>1, <1>2
     DEF KvSet, KvAdd, KvClear, KvClearSet, KvRemove, Execute, Refuse, Ready
<1>3. ASSUME NEW n \in Name, KvLoad(n) \/ SaveRefused(n) PROVE FilesFromSnapshot'
  BY <1>1, <1>3 DEF KvLoad, SaveRefused, Refuse, Ready
<1>4. ASSUME NEW n \in Name, SaveBegin(n) PROVE FilesFromSnapshot'
  <2>1. PICK t \in ClockReadings :
          /\ disk' = [disk EXCEPT ![n][t] = [NoDir EXCEPT !.md = "empty"]]
          /\ save' = [NoSave EXCEPT !.phase = "opened", !.name = n, !.at = t]
          /\ snapshot' = [snapshot EXCEPT ![n][t] = map]
    BY <1>4 DEF SaveBegin
  <2>2. t \in Timestamp /\ save'.name = n /\ save'.at = t /\ map' = map
    BY <1>4, <2>1 DEF ClockReadings, NoSave, SaveBegin
  <2>3. /\ disk'[n][t].files = {} /\ snapshot'[n][t] = map
        /\ \A m \in Name, u \in Timestamp : <<m, u>> # <<n, t>> =>
             disk'[m][u] = disk[m][u] /\ snapshot'[m][u] = snapshot[m][u]
    BY <2>1, <2>2 DEF TypeOK, NoDir
  <2>. QED  BY <2>2, <2>3 DEF FilesFromSnapshot
<1>5. ASSUME NEW n \in Name, SaveBeginFails(n) PROVE FilesFromSnapshot'
  <2>1. PICK t \in ClockReadings :
          disk' = [disk EXCEPT ![n][t].md = "missing"] \/ UNCHANGED disk
    BY <1>5 DEF SaveBeginFails
  <2>2. /\ UNCHANGED <<save, snapshot, map>> /\ save.phase = "idle" /\ t \in Timestamp
    BY <1>5 DEF SaveBeginFails, Ready, NoSave, ClockReadings
  <2>3. \A m \in Name, u \in Timestamp : disk'[m][u].files = disk[m][u].files
    <3>1. CASE UNCHANGED disk
      BY <3>1
    <3>2. CASE disk' = [disk EXCEPT ![n][t].md = "missing"]
      <4>1. disk[n][t] \in Dir
        BY <2>2 DEF TypeOK
      <4>2. disk' = [disk EXCEPT ![n][t] =
               [md |-> "missing", data |-> disk[n][t].data, files |-> disk[n][t].files]]
        BY <3>2, <4>1, DirFields
      <4>. QED  BY <2>2, <4>2 DEF TypeOK
    <3>. QED  BY <2>1, <3>1, <3>2
  <2>. QED  BY <2>2, <2>3 DEF FilesFromSnapshot
<1>6. ASSUME save.phase # "idle", UNCHANGED snapshot, NEW dir,
             WriteDir(dir) \/ UNCHANGED disk,
             \A f \in dir.files : \/ f \in Target.files
                                  \/ \E keys \in SUBSET Key : f.items = Only(map, keys),
             \/ save' = NoSave
             \/ UNCHANGED map /\ save'.name = save.name /\ save'.at = save.at
      PROVE  FilesFromSnapshot'
  <2>1. CASE UNCHANGED disk
    BY <1>6, <2>1 DEF FilesFromSnapshot, NoSave
  <2>2. CASE WriteDir(dir)
    <3>1. \A n \in Name, t \in Timestamp : \A f \in disk'[n][t].files :
            \A k \in Present(f.items) : f.items[k] = snapshot'[n][t][k]
      BY <1>6, <2>2, WriteFromSnapshot
    <3>. QED  BY <1>6, <3>1 DEF FilesFromSnapshot, NoSave
  <2>. QED  BY <1>6, <2>1, <2>2
<1>7. save.phase # "idle" =>
        /\ \A d : [Target EXCEPT !.data = d].files = Target.files
        /\ \A m : [Target EXCEPT !.md = m].files = Target.files
        /\ \A f : [Target EXCEPT !.files = @ \cup {f}].files = Target.files \cup {f}
  BY TargetType, DirFields
<1>8. CASE SaveCreateData
  <2>1. /\ save.phase # "idle" /\ UNCHANGED <<snapshot, map>>
        /\ WriteDir([Target EXCEPT !.data = TRUE])
        /\ save'.name = save.name /\ save'.at = save.at
    BY <1>8 DEF SaveCreateData, TypeOK
  <2>. QED  BY <1>6, <1>7, <2>1
<1>9. ASSUME NEW f, NEW keys \in SUBSET Key, f.items = Only(map, keys),
             save.phase # "idle", UNCHANGED snapshot,
             WriteDir([Target EXCEPT !.files = @ \cup {f}]),
             \/ save' = NoSave
             \/ UNCHANGED map /\ save'.name = save.name /\ save'.at = save.at
      PROVE  FilesFromSnapshot'
  <2>1. PICK dir : dir = [Target EXCEPT !.files = @ \cup {f}]
    OBVIOUS
  <2>2. dir.files = Target.files \cup {f}
    BY <1>7, <1>9, <2>1
  <2>. QED  BY <1>6, <1>9, <2>1, <2>2
<1>10. CASE SaveEntry
  <2>1. /\ save.phase # "idle" /\ UNCHANGED <<snapshot, map>>
        /\ save'.name = save.name /\ save'.at = save.at
    BY <1>10 DEF SaveEntry, TypeOK
  <2>2. CASE UNCHANGED disk
    BY <1>6, <2>1, <2>2
  <2>3. ASSUME NEW k \in save.todo, NEW f \in Flushed(save.buffer \cup {k}),
               WriteDir([Target EXCEPT !.files = @ \cup {f}])
        PROVE  FilesFromSnapshot'
    <3>1. save.buffer \cup {k} \in SUBSET Key /\ f.items = Only(map, save.buffer \cup {k})
      BY FlushedItems DEF TypeOK
    <3>. QED  BY <1>9, <2>1, <2>3, <3>1
  <2>. QED  BY <1>10, <2>2, <2>3 DEF SaveEntry
<1>11. CASE SaveLeftovers
  <2>1. /\ save.phase # "idle" /\ UNCHANGED <<snapshot, map>>
        /\ save'.name = save.name /\ save'.at = save.at
    BY <1>11 DEF SaveLeftovers, TypeOK
  <2>2. CASE UNCHANGED disk
    BY <1>6, <2>1, <2>2
  <2>3. ASSUME NEW f \in Flushed(save.buffer),
               WriteDir([Target EXCEPT !.files = @ \cup {f}])
        PROVE  FilesFromSnapshot'
    <3>1. save.buffer \in SUBSET Key /\ f.items = Only(map, save.buffer)
      BY FlushedItems DEF TypeOK
    <3>. QED  BY <1>9, <2>1, <2>3, <3>1
  <2>. QED  BY <1>11, <2>2, <2>3 DEF SaveLeftovers
<1>12. CASE SaveException
  <2>1. /\ save.phase # "idle" /\ UNCHANGED <<disk, snapshot, map>>
        /\ save'.name = save.name /\ save'.at = save.at
    BY <1>12 DEF SaveException, TypeOK
  <2>. QED  BY <2>1 DEF FilesFromSnapshot
<1>13. CASE SaveFlushPending
  <2>1. /\ save.phase # "idle" /\ UNCHANGED <<snapshot, map>>
        /\ WriteDir([Target EXCEPT !.md = "pending"]) \/ UNCHANGED disk
        /\ save'.name = save.name /\ save'.at = save.at
    BY <1>13 DEF SaveFlushPending, TypeOK
  <2>. QED  BY <1>6, <1>7, <2>1
<1>14. CASE SaveFinish
  <2>1. /\ save.phase # "idle" /\ UNCHANGED snapshot /\ save' = NoSave
        /\ WriteDir([Target EXCEPT !.md = "complete"]) \/ UNCHANGED disk
    BY <1>14 DEF SaveFinish
  <2>. QED  BY <1>6, <1>7, <2>1
<1>15. ASSUME NEW n \in Name \cup {NoName}, Start(n) PROVE FilesFromSnapshot'
  BY <1>1, <1>15 DEF Start, OneAtATime
<1>16. CASE StartRefused
  BY <1>1, <1>16 DEF StartRefused
<1>17. CASE Exit
  <2>1. CASE UNCHANGED disk
    BY <1>1, <1>17, <2>1 DEF Exit
  <2>2. CASE /\ save.phase = "writing"
             /\ WriteDir([Target EXCEPT !.files = @ \cup
                  {[items |-> Only(map, save.buffer), whole |-> FALSE]}])
    <3>1. PICK f : f = [items |-> Only(map, save.buffer), whole |-> FALSE]
      OBVIOUS
    <3>2. save.buffer \in SUBSET Key /\ f.items = Only(map, save.buffer)
      BY <3>1 DEF TypeOK
    <3>. QED  BY <1>9, <1>17, <2>2, <3>1, <3>2 DEF Exit
  <2>. QED  BY <1>17, <2>1, <2>2 DEF Exit
<1>18. CASE UNCHANGED vars
  BY <1>1, <1>18 DEF vars
<1>. QED
  BY <1>2, <1>3, <1>4, <1>5, <1>8, <1>10, <1>11, <1>12, <1>13, <1>14, <1>15,
     <1>16, <1>17, <1>18 DEF Next, SaveStep

\* What a load reads was to be saved in the newest directory of the name.
LEMMA LoadFromNewest ==
  ASSUME TypeOK, FilesFromSnapshot, KeysReadBack, NEW n \in Name,
         NEW out \in Load(n), NEW k \in Key
  PROVE  \/ out.read[k] = Absent
         \/ \E t \in Newest(n) : out.read[k] = snapshot[n][t][k]
<1>1. EmptyMap[k] = Absent
  BY DEF EmptyMap
<1>2. ASSUME NEW t \in Newest(n), NEW S \in SUBSET disk[n][t].files,
             NEW m \in Readings(S), m[k] # Absent
      PROVE  m[k] = snapshot[n][t][k]
  <2>1. PICK f \in S : \E j \in Present(f.items) : Reparse[j] = k /\ f.items[j] = m[k]
    BY <1>2 DEF Readings
  <2>2. k \in Present(f.items) /\ f.items[k] = m[k]
    BY <2>1, GarbledAssumption DEF KeysReadBack, Present
  <2>. QED  BY <2>2 DEF FilesFromSnapshot, Newest, Used
<1>3. CASE Newest(n) = {}
  BY <1>1, <1>3 DEF Load
<1>4. CASE Newest(n) # {}
  <2>1. PICK t \in Newest(n) :
          out \in IF PreLoad(disk[n][t]) = "valid"
                  THEN LoadOutcomes(disk[n][t].files)
                  ELSE {[st |-> PreLoad(disk[n][t]), read |-> EmptyMap]}
    BY <1>4 DEF Load
  <2>2. out.read = EmptyMap \/ \E S \in SUBSET disk[n][t].files : out.read \in Readings(S)
    <3>1. CASE out \in LoadOutcomes(disk[n][t].files)
      <4>1. CASE disk[n][t].files = {}
        BY <3>1, <4>1 DEF LoadOutcomes
      <4>2. CASE disk[n][t].files # {} /\ \A f \in disk[n][t].files : Readable(f)
        BY <3>1, <4>2 DEF LoadOutcomes
      <4>3. CASE disk[n][t].files # {} /\ ~ \A f \in disk[n][t].files : Readable(f)
        <5>1. PICK m \in UNION {Readings(S) :
                            S \in SUBSET {f \in disk[n][t].files : Readable(f)}} :
                out = [st |-> "LoadError", read |-> m]
          BY <3>1, <4>3 DEF LoadOutcomes
        <5>. QED  BY <5>1
      <4>. QED  BY <4>1, <4>2, <4>3
    <3>. QED  BY <2>1, <3>1
  <2>. QED  BY <1>1, <1>2, <2>2
<1>. QED  BY <1>3, <1>4

\* Whatever fails - crashes, failed writes, a clock set back - a load puts
\* nothing into the map that the newest save of that name was not given.
THEOREM LoadInventsNothing ==
  ASSUME KeysReadBack
  PROVE  Spec => LoadNeverInvents
<1>. DEFINE Inv == TypeOK /\ OneAtATime /\ FilesFromSnapshot
<1>1. Init => Inv
  BY InitType DEF Init, OneAtATime, FilesFromSnapshot, NoSave, NoDir
<1>2. Inv /\ [Next]_vars => Inv'
  BY TypeStep, OneAtATimeStep, FilesStep
<1>3. Inv /\ [Next]_vars =>
        [\A n \in Name : LoadAnswered(n) => \A k \in Key :
           \/ map'[k] = map[k]
           \/ \E t \in Newest(n) : map'[k] = snapshot[n][t][k]]_vars
  <2>. SUFFICES ASSUME Inv, Next, NEW n \in Name, LoadAnswered(n), NEW k \in Key
                PROVE  \/ map'[k] = map[k]
                       \/ \E t \in Newest(n) : map'[k] = snapshot[n][t][k]
    OBVIOUS
  <2>1. PICK out \in Load(n) :
          \/ map' = SetKeys(map, out.read)
          \/ /\ map = EmptyMap
             /\ map' = IF out.st = "LoadComplete" THEN out.read ELSE map
    BY LoadStep
  <2>2. map'[k] = map[k] \/ (map'[k] = out.read[k] /\ map'[k] # Absent)
    BY <2>1 DEF SetKeys, EmptyMap
  <2>. QED  BY <2>2, LoadFromNewest
<1>. HIDE DEF Inv
<1>. QED  BY <1>1, <1>2, <1>3, PTL DEF Spec, LoadNeverInvents

-----------------------------------------------------------------------------
(* The engine implements KvDurable.                                        *)

\* Nothing fails but the process.
OnlyCrashes == Faults \subseteq {"crash"}

\* What is kept under a name changes only with its newest save.
LEMMA SlotSame ==
  ASSUME NEW n \in Name, Newest(n)' = Newest(n), Used(n)' = Used(n),
         acked'[n] = acked[n], snapshot'[n] = snapshot[n]
  PROVE  SlotOf(n)' = SlotOf(n)
  BY DEF SlotOf

\* A step that touches neither the disk nor the history keeps every slot.
LEMMA SlotsSame ==
  ASSUME UNCHANGED <<disk, snapshot, acked>>
  PROVE  UNCHANGED [n \in Name |-> SlotOf(n)]
  BY DEF SlotOf, Newest, Used

\* Commands and loads change the map; they save nothing.
LEMMA ChangeStep ==
  ASSUME OrderlyInv, map' \in Map, server = "serving", save = NoSave,
         UNCHANGED <<server, disk, save, snapshot, acked>>
  PROVE  Durable!Change
<1>1. UNCHANGED [n \in Name |-> SlotOf(n)]
  BY SlotsSame
<1>. QED  BY <1>1 DEF Durable!Change, NoSave, Durable!Map, Map

\* A save that begins hides what was kept under its name.
LEMMA BeginStep ==
  ASSUME OnlyCrashes, Orderly, OrderlyInv, NEW n \in Name, SaveBegin(n)
  PROVE  Durable!BeginSave(n)
<1>. USE DEF OrderlyInv, IInv
<1>1. PICK t \in ClockReadings :
        /\ disk[n][t].md \in {"absent", "missing"}
        /\ disk' = [disk EXCEPT ![n][t] = [NoDir EXCEPT !.md = "empty"]]
        /\ save' = [NoSave EXCEPT !.phase = "opened", !.name = n, !.at = t]
        /\ snapshot' = [snapshot EXCEPT ![n][t] = map]
  BY DEF SaveBegin
<1>2. t \in Timestamp
  BY DEF ClockReadings
<1>3. /\ disk'[n][t].md = "empty"
      /\ \A m \in Name, u \in Timestamp :
           <<m, u>> # <<n, t>> => disk'[m][u] = disk[m][u]
      /\ \A m \in Name \ {n} : snapshot'[m] = snapshot[m]
  BY <1>1, <1>2 DEF TypeOK, NoDir
<1>4. /\ Newest(n)' = {t} /\ Used(n)' # {}
      /\ \A m \in Name \ {n} : Used(m)' = Used(m) /\ Newest(m)' = Newest(m)
  <2>1. Told
    BY DEF Orderly, Told
  <2>. QED  BY <1>3, <2>1, NewestMade
<1>5. /\ acked' = acked /\ acked[n] # t /\ server = "serving" /\ save = NoSave
      /\ UNCHANGED <<server, map>> /\ save'.name = n
  BY <1>1, <1>2 DEF SaveBegin, Ready, AckedInv, NoSave
<1>6. SlotOf(n)' = Durable!Torn
  BY <1>4, <1>5 DEF SlotOf, Durable!Torn, Durable!EmptyMap, EmptyMap
<1>7. \A m \in Name \ {n} : SlotOf(m)' = SlotOf(m)
  BY <1>3, <1>4, <1>5, SlotSame
<1>. QED  BY <1>5, <1>6, <1>7 DEF Durable!BeginSave, NoSave

\* The last write of a save makes no directory.
LEMMA NewestFinish ==
  ASSUME Orderly, OrderlyInv, SaveFinish
  PROVE  \A n \in Name : Newest(n)' = Newest(n) /\ Used(n)' = Used(n)
<1>. USE DEF OrderlyInv, IInv
<1>1. save.phase = "completing" /\ WriteDir([Target EXCEPT !.md = "complete"])
  BY DEF SaveFinish, Orderly
<1>2. Target \in Dir /\ Target.md = "pending"
  BY <1>1, TargetType DEF SaveInv
<1>3. PICK dir : dir = [Target EXCEPT !.md = "complete"]
  OBVIOUS
<1>4. dir.md = "complete"
  BY ONLY <1>2, <1>3, DirFields
<1>5. /\ disk'[save.name][save.at] = dir
      /\ \A n \in Name, t \in Timestamp :
           <<n, t>> # <<save.name, save.at>> => disk'[n][t] = disk[n][t]
  BY <1>1, <1>3, WriteDirFrame
<1>6. \A n \in Name, t \in Timestamp :
        disk'[n][t].md = "absent" <=> disk[n][t].md = "absent"
  BY ONLY <1>2, <1>4, <1>5 DEF Target
<1>. QED  BY <1>6, NewestSame

\* The last write of a save makes it what is kept under its name.
LEMMA EndStep ==
  ASSUME Orderly, OrderlyInv, SaveFinish
  PROVE  Durable!EndSave
<1>. USE DEF OrderlyInv, IInv
<1>1. /\ save.phase = "completing" /\ save' = NoSave
      /\ acked' = [acked EXCEPT ![save.name] = save.at]
      /\ UNCHANGED <<server, map, snapshot>>
  BY DEF SaveFinish, NewestInv
<1>2. /\ save.name \in Name /\ save.at \in Newest(save.name)
      /\ snapshot[save.name][save.at] = map /\ save.name # NoName
  BY <1>1, TargetType, NoNameAssumption DEF NewestInv, SaveInv
<1>3. \A n \in Name : Newest(n)' = Newest(n) /\ Used(n)' = Used(n)
  BY NewestFinish
<1>4. PICK n \in Name : n = save.name
  BY <1>2
<1>5. SlotOf(n)' = Durable!Keep(map)
  <2>1. acked'[n] = save.at /\ save.at \in Newest(n)'
    BY <1>1, <1>2, <1>3, <1>4 DEF TypeOK
  <2>2. Used(n)' # {}
    BY <2>1 DEF Newest
  <2>3. SlotOf(n)' = [kept |-> "map", map |-> snapshot'[n][save.at]]
    BY <2>1, <2>2 DEF SlotOf
  <2>. QED  BY <1>1, <1>2, <1>4, <2>3 DEF Durable!Keep
<1>6. \A m \in Name \ {n} : SlotOf(m)' = SlotOf(m)
  <2>1. \A m \in Name \ {n} : acked'[m] = acked[m]
    BY <1>1, <1>4 DEF TypeOK
  <2>. QED  BY <1>1, <1>3, <2>1, SlotSame
<1>. QED
  BY <1>1, <1>2, <1>4, <1>5, <1>6 DEF Durable!EndSave, NoSave

\* What a save writes before that changes nothing that is kept.
LEMMA WriteKeepsSlots ==
  ASSUME OrderlyInv, save.phase # "idle", UNCHANGED <<acked, snapshot>>, NEW dir,
         dir.md \notin {"absent", "complete"}, WriteDir(dir) \/ UNCHANGED disk
  PROVE  UNCHANGED [n \in Name |-> SlotOf(n)]
<1>1. \A n \in Name : Newest(n)' = Newest(n) /\ Used(n)' = Used(n)
  BY NewestWrite DEF OrderlyInv, IInv, SaveInv, Unfinished
<1>. QED  BY <1>1, SlotSame

\* The metadata of the directory of a save, as its writes leave it.
LEMMA TargetMd ==
  ASSUME OrderlyInv, save.phase # "idle"
  PROVE  /\ \A d : [Target EXCEPT !.data = d].md \notin {"absent", "complete"}
         /\ \A f : [Target EXCEPT !.files = @ \cup {f}].md
                     \notin {"absent", "complete"}
         /\ [Target EXCEPT !.md = "pending"].md = "pending"
  BY TargetType, DirFields DEF OrderlyInv, IInv, SaveInv

LEMMA WriteStep ==
  ASSUME Orderly, OrderlyInv,
         SaveCreateData \/ SaveEntry \/ SaveLeftovers \/ SaveException
           \/ SaveFlushPending
  PROVE  UNCHANGED Durable!vars
<1>. USE DEF OrderlyInv, IInv
<1>1. /\ save.phase # "idle" /\ UNCHANGED <<server, map, acked, snapshot>>
      /\ save'.name = save.name
  BY DEF SaveCreateData, SaveEntry, SaveLeftovers, SaveException,
         SaveFlushPending, TypeOK
<1>2. \/ UNCHANGED disk
      \/ WriteDir([Target EXCEPT !.data = TRUE])
      \/ \E f : WriteDir([Target EXCEPT !.files = @ \cup {f}])
      \/ WriteDir([Target EXCEPT !.md = "pending"])
  BY DEF SaveCreateData, SaveEntry, SaveLeftovers, SaveException, SaveFlushPending
<1>3. UNCHANGED [n \in Name |-> SlotOf(n)]
  BY <1>1, <1>2, SlotsSame, WriteKeepsSlots, TargetMd
<1>. QED  BY <1>1, <1>3 DEF Durable!vars

\* A process starts with nothing, or with what is kept under the name it was
\* given, or does not start.
LEMMA BootStep ==
  ASSUME OrderlyInv, KeysReadBack, NEW n \in Name \cup {NoName}, Start(n)
  PROVE  Durable!Boot \/ UNCHANGED Durable!vars
<1>. USE DEF OrderlyInv, IInv
<1>1. /\ UNCHANGED [m \in Name |-> SlotOf(m)] /\ save' = save
      /\ server = "down" /\ map = EmptyMap
  BY SlotsSame DEF Start, OneAtATime
<1>2. CASE n = NoName
  BY <1>1, <1>2 DEF Start, Durable!Boot, Durable!EmptyMap, EmptyMap
<1>3. CASE n # NoName
  <2>1. PICK out \in Load(n) :
          IF out.st = "LoadComplete"
          THEN server' = "serving" /\ map' = out.read
          ELSE UNCHANGED <<server, map>>
    BY <1>3 DEF Start
  <2>2. CASE out.st # "LoadComplete"
    BY <1>1, <2>1, <2>2 DEF Durable!vars
  <2>3. CASE out.st = "LoadComplete"
    <3>1. PICK t \in Newest(n) :
            disk[n][t].md = "complete" /\ out.read = snapshot[n][t]
      BY <1>3, <2>3, LoadReads
    <3>2. acked[n] = t /\ Used(n) # {}
      BY <1>3, <3>1 DEF NewestInv, Newest
    <3>3. SlotOf(n) = [kept |-> "map", map |-> out.read]
      BY <3>1, <3>2 DEF SlotOf
    <3>. QED  BY <1>1, <1>3, <2>1, <2>3, <3>3 DEF Durable!Boot
  <2>. QED  BY <2>2, <2>3
<1>. QED  BY <1>2, <1>3

\* The process ends; what is kept stays.
LEMMA StopStep ==
  ASSUME OrderlyInv, Exit
  PROVE  Durable!Stop
<1>. USE DEF OrderlyInv, IInv
<1>1. /\ server = "serving" /\ server' = "down" /\ map' = EmptyMap /\ save' = NoSave
      /\ UNCHANGED <<snapshot, acked>>
  BY DEF Exit
<1>2. UNCHANGED [n \in Name |-> SlotOf(n)]
  <2>1. CASE UNCHANGED disk
    BY <1>1, <2>1, SlotsSame
  <2>2. CASE save.phase = "writing" /\ \E f : WriteDir([Target EXCEPT !.files = @ \cup {f}])
    BY <1>1, <2>2, WriteKeepsSlots, TargetMd
  <2>. QED  BY <2>1, <2>2 DEF Exit
<1>. QED  BY <1>1, <1>2 DEF Durable!Stop, NoSave, Durable!EmptyMap, EmptyMap

\* Every step of the engine is one of the abstract specification or leaves what
\* that speaks of alone.
LEMMA RefinementStep ==
  ASSUME OnlyCrashes, Orderly, KeysReadBack, OrderlyInv, TypeOK', [Next]_vars
  PROVE  [Durable!Next]_(Durable!vars)
<1>1. map' \in Map
  BY DEF TypeOK
<1>2. CASE KvSet \/ KvAdd \/ KvClear \/ KvClearSet \/ KvRemove
  <2>1. /\ server = "serving" /\ save = NoSave
        /\ UNCHANGED <<server, disk, save, snapshot, acked>>
    BY <1>2 DEF KvSet, KvAdd, KvClear, KvClearSet, KvRemove, Execute, Refuse, Ready
  <2>. QED  BY <1>1, <2>1, ChangeStep DEF Durable!Next
<1>3. ASSUME NEW n \in Name, KvLoad(n) \/ SaveRefused(n)
      PROVE  Durable!Next
  <2>1. /\ server = "serving" /\ save = NoSave
        /\ UNCHANGED <<server, disk, save, snapshot, acked>>
    BY <1>3 DEF KvLoad, SaveRefused, Refuse, Ready
  <2>. QED  BY <1>1, <2>1, ChangeStep DEF Durable!Next
<1>4. ASSUME NEW n \in Name, SaveBegin(n) PROVE Durable!Next
  BY <1>4, BeginStep DEF Durable!Next
<1>5. ASSUME NEW n \in Name, SaveBeginFails(n) PROVE FALSE
  BY <1>5 DEF SaveBeginFails, OnlyCrashes
<1>6. CASE SaveCreateData \/ SaveEntry \/ SaveLeftovers \/ SaveException
           \/ SaveFlushPending
  BY <1>6, WriteStep
<1>7. CASE SaveFinish
  BY <1>7, EndStep DEF Durable!Next
<1>8. ASSUME NEW n \in Name \cup {NoName}, Start(n)
      PROVE  [Durable!Next]_(Durable!vars)
  BY <1>8, BootStep DEF Durable!Next
<1>9. CASE StartRefused
  BY <1>9 DEF StartRefused, OnlyCrashes
<1>10. CASE Exit
  BY <1>10, StopStep DEF Durable!Next
<1>11. CASE UNCHANGED vars
  <2>1. UNCHANGED [n \in Name |-> SlotOf(n)]
    BY <1>11, SlotsSame DEF vars
  <2>. QED  BY <1>11, <2>1 DEF vars, Durable!vars
<1>. QED
  BY <1>2, <1>3, <1>4, <1>5, <1>6, <1>7, <1>8, <1>9, <1>10, <1>11 DEF Next, SaveStep

\* Saves split into any number of files, the states of their metadata and
\* crashes between any two writes are invisible to a client: it sees saves that
\* are kept in full or not at all, and starts that bring back the last one.
THEOREM ImplementsKvDurable ==
  ASSUME OnlyCrashes, KeysReadBack
  PROVE  Spec => ImplementsDurable
<1>1. Orderly
  BY DEF OnlyCrashes, Orderly
<1>2. Init => Durable!Init
  <2>. SUFFICES ASSUME Init PROVE Durable!Init
    OBVIOUS
  <2>1. \A n \in Name : SlotOf(n) = Durable!Nothing
    BY DEF Init, NoDir, SlotOf, Used, Durable!Nothing, Durable!EmptyMap, EmptyMap
  <2>. QED  BY <2>1 DEF Init, Durable!Init, NoSave, Durable!EmptyMap, EmptyMap
<1>3. OrderlyInv /\ TypeOK' /\ [Next]_vars => [Durable!Next]_(Durable!vars)
  BY <1>1, RefinementStep
<1>4. OrderlyInv /\ [Next]_vars => OrderlyInv'
  BY <1>1, OrderlyStep
<1>. QED
  BY <1>2, <1>3, <1>4, OrderlyInit, TypeCorrect, PTL
     DEF Spec, ImplementsDurable, Durable!Spec
-----------------------------------------------------------------------------
(* What was saved can be restored.                                         *)

\* The last save answered SaveComplete is the newest of its name, unless
\* another of that name is under way.
AckedNewest == \A n \in Name :
  acked[n] # 0 => acked[n] \in Newest(n) \/ (save.phase # "idle" /\ save.name = n)

\* Every step of an engine that never fails keeps that.
LEMMA AckedNewestStep ==
  ASSUME Faults = {}, OrderlyInv, AckedNewest, [Next]_vars
  PROVE  AckedNewest'
<1>. USE DEF OrderlyInv, IInv
<1>o. Orderly /\ Told
  BY DEF Orderly, Told
<1>1. ASSUME UNCHANGED <<disk, acked, save>> PROVE AckedNewest'
  BY <1>1 DEF AckedNewest, Newest, Used
<1>2. CASE KvSet \/ KvAdd \/ KvClear \/ KvClearSet \/ KvRemove
  BY <1>1, <1>2
     DEF KvSet, KvAdd, KvClear, KvClearSet, KvRemove, Execute, Refuse
<1>3. ASSUME NEW n \in Name, KvLoad(n) \/ SaveRefused(n) PROVE AckedNewest'
  <2>1. UNCHANGED <<disk, acked, save>>
    BY <1>3 DEF KvLoad, SaveRefused, Refuse
  <2>. QED  BY <1>1, <2>1
<1>4. ASSUME NEW n \in Name, SaveBegin(n) PROVE AckedNewest'
  <2>1. PICK t \in ClockReadings :
          /\ disk' = [disk EXCEPT ![n][t] = [NoDir EXCEPT !.md = "empty"]]
          /\ save' = [NoSave EXCEPT !.phase = "opened", !.name = n, !.at = t]
    BY <1>4 DEF SaveBegin
  <2>2. t \in Timestamp
    BY DEF ClockReadings
  <2>3. /\ disk'[n][t].md = "empty"
        /\ \A m \in Name, u \in Timestamp :
             <<m, u>> # <<n, t>> => disk'[m][u] = disk[m][u]
    BY <2>1, <2>2 DEF TypeOK, NoDir
  <2>4. \A m \in Name \ {n} : Newest(m)' = Newest(m)
    BY <1>o, <2>3, NewestMade
  <2>5. /\ save'.phase = "opened" /\ save'.name = n /\ acked' = acked
        /\ save.phase = "idle"
    BY <1>4, <2>1 DEF NoSave, SaveBegin, Ready
  <2>. QED  BY <2>4, <2>5 DEF AckedNewest
<1>5. ASSUME NEW n \in Name, SaveBeginFails(n) PROVE FALSE
  BY <1>5 DEF SaveBeginFails
<1>6. CASE SaveCreateData \/ SaveEntry \/ SaveLeftovers \/ SaveException
           \/ SaveFlushPending
  <2>1. /\ save.phase # "idle" /\ save'.phase # "idle" /\ UNCHANGED acked
        /\ save'.name = save.name
    BY <1>6 DEF SaveCreateData, SaveEntry, SaveLeftovers, SaveException,
                SaveFlushPending, TypeOK
  <2>2. \/ UNCHANGED disk
        \/ WriteDir([Target EXCEPT !.data = TRUE])
        \/ \E f : WriteDir([Target EXCEPT !.files = @ \cup {f}])
        \/ WriteDir([Target EXCEPT !.md = "pending"])
    BY <1>6 DEF SaveCreateData, SaveEntry, SaveLeftovers, SaveException,
                SaveFlushPending
  <2>3. ASSUME NEW dir, dir.md \notin {"absent", "complete"},
               WriteDir(dir) \/ UNCHANGED disk
        PROVE  \A n \in Name : Newest(n)' = Newest(n)
    BY <2>1, <2>3, NewestWrite DEF SaveInv, Unfinished
  <2>4. \A n \in Name : Newest(n)' = Newest(n)
    BY <2>1, <2>2, <2>3, TargetMd
  <2>. QED  BY <2>1, <2>4 DEF AckedNewest
<1>7. CASE SaveFinish
  <2>1. /\ save.phase = "completing" /\ save' = NoSave
        /\ acked' = [acked EXCEPT ![save.name] = save.at]
    BY <1>7 DEF SaveFinish, NewestInv
  <2>2. save.name \in Name /\ save.at \in Newest(save.name)
    BY <2>1, TargetType DEF NewestInv
  <2>3. \A n \in Name : Newest(n)' = Newest(n)
    BY <1>7, <1>o, NewestFinish
  <2>4. \A n \in Name : acked'[n] = IF n = save.name THEN save.at ELSE acked[n]
    BY <2>1 DEF TypeOK
  <2>. QED  BY <2>2, <2>3, <2>4 DEF AckedNewest
<1>8. ASSUME NEW n \in Name \cup {NoName}, Start(n) PROVE AckedNewest'
  BY <1>1, <1>8 DEF Start
<1>9. CASE StartRefused
  BY <1>9 DEF StartRefused
<1>10. CASE Exit
  BY <1>1, <1>10 DEF Exit, NoSave
<1>11. CASE UNCHANGED vars
  BY <1>1, <1>11 DEF vars
<1>. QED
  BY <1>2, <1>3, <1>4, <1>5, <1>6, <1>7, <1>8, <1>9, <1>10, <1>11
     DEF Next, SaveStep

\* A newest save that is complete, holds something, and has no key that breaks
\* its file, loads.
LEMMA CompleteLoads ==
  ASSUME TypeOK, CompleteIsExact, KeysParse, NEW n \in Name, NEW t \in Newest(n),
         disk[n][t].md = "complete", snapshot[n][t] # EmptyMap, NEW out \in Load(n)
  PROVE  out.st = "LoadComplete"
<1>1. t \in Timestamp /\ snapshot[n][t] \in Map
  BY DEF Newest, Used, TypeOK
<1>2. disk[n][t].data /\ Exact(disk[n][t].files, snapshot[n][t])
  BY <1>1 DEF CompleteIsExact
<1>3. PICK k \in Key : snapshot[n][t][k] # Absent
  BY <1>1 DEF EmptyMap, Map
<1>4. disk[n][t].files # {}
  BY <1>2, <1>3 DEF Exact, Present
<1>5. \A f \in disk[n][t].files : Readable(f)
  BY <1>2 DEF Exact, Readable, KeysParse, Present
<1>6. PreLoad(disk[n][t]) = "valid"
  BY <1>2 DEF PreLoad
<1>7. out \in LoadOutcomes(disk[n][t].files)
  <2>1. PICK u \in Newest(n) :
          out \in IF PreLoad(disk[n][u]) = "valid"
                  THEN LoadOutcomes(disk[n][u].files)
                  ELSE {[st |-> PreLoad(disk[n][u]), read |-> EmptyMap]}
    BY DEF Load
  <2>2. u = t
    BY NewestIsOne
  <2>. QED  BY <1>6, <2>1, <2>2
<1>. QED  BY <1>4, <1>5, <1>7 DEF LoadOutcomes

\* As long as nothing fails and no key breaks its file, what was saved can be
\* restored: after any commands and restarts, a load of a name whose last save
\* was answered SaveComplete and held an entry completes.  (One crash during
\* a later save of that name is enough to lose this.)
THEOREM SavedComesBack ==
  ASSUME Faults = {}, KeysParse
  PROVE  Spec => SavedCanBeRestored
<1>1. Orderly
  BY DEF Orderly
<1>2. Init => OrderlyInv /\ AckedNewest
  BY OrderlyInit DEF Init, AckedNewest
<1>3. OrderlyInv /\ AckedNewest /\ [Next]_vars => (OrderlyInv /\ AckedNewest)'
  BY <1>1, OrderlyStep, AckedNewestStep
<1>4. OrderlyInv /\ AckedNewest /\ [Next]_vars =>
        [\A n \in Name, t \in Timestamp :
           LoadAnswered(n) /\ acked[n] = t /\ snapshot[n][t] # EmptyMap =>
             rsp'.st = "LoadComplete"]_vars
  <2>. SUFFICES ASSUME OrderlyInv, AckedNewest, Next, NEW n \in Name,
                       NEW t \in Timestamp, LoadAnswered(n), acked[n] = t,
                       snapshot[n][t] # EmptyMap
                PROVE  rsp'.st = "LoadComplete"
    OBVIOUS
  <2>. USE DEF OrderlyInv, IInv
  <2>1. PICK out \in Load(n) : rsp'.st = out.st
    BY LoadStep
  <2>2. save.phase = "idle"
    BY LoadStep DEF NoSave
  <2>3. t \in Newest(n) /\ disk[n][t].md = "complete"
    BY <2>2, TimestampAssumption DEF AckedNewest, AckedInv
  <2>. QED  BY <2>1, <2>3, CompleteLoads
<1>. QED  BY <1>2, <1>3, <1>4, PTL DEF Spec, SavedCanBeRestored
=============================================================================
