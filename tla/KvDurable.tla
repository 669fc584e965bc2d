----------------------------- MODULE KvDurable -----------------------------
(***************************************************************************)
(* What the KV engine promises about saved data, in the terms of its       *)
(* documentation (api/kv/kv-save.md, api/kv/kv-load.md): a save keeps the  *)
(* whole map under a name, a load or a restart with that name brings back  *)
(* the last save in full, a save cut short is never loaded (and hides the  *)
(* earlier ones of its name), and the map itself does not survive the      *)
(* process.                                                                *)
(***************************************************************************)
EXTENDS KvMap

CONSTANTS Name, NoName

VARIABLES
  up,       \* the process runs
  store,    \* its map
  saving,   \* the name being saved, or NoName
  slot      \* slot[n]: what is kept under the name n

vars == <<up, store, saving, slot>>

Slot == [kept : {"nothing", "torn", "map"}, map : Map]

Nothing == [kept |-> "nothing", map |-> EmptyMap]
Torn == [kept |-> "torn", map |-> EmptyMap]
Keep(m) == [kept |-> "map", map |-> m]

Init ==
  /\ up = FALSE
  /\ store = EmptyMap
  /\ saving = NoName
  /\ slot = [n \in Name |-> Nothing]

\* A command changes the map.
Change ==
  /\ up /\ saving = NoName
  /\ store' \in Map
  /\ UNCHANGED <<up, saving, slot>>

BeginSave(n) ==
  /\ up /\ saving = NoName
  /\ saving' = n
  /\ slot' = [slot EXCEPT ![n] = Torn]
  /\ UNCHANGED <<up, store>>

EndSave ==
  /\ saving # NoName
  /\ slot' = [slot EXCEPT ![saving] = Keep(store)]
  /\ saving' = NoName
  /\ UNCHANGED <<up, store>>

\* A load merges what is kept over the map.
Restore(n) ==
  /\ up /\ saving = NoName
  /\ slot[n].kept = "map"
  /\ store' = SetKeys(store, slot[n].map)
  /\ UNCHANGED <<up, saving, slot>>

Boot ==
  /\ ~up
  /\ up' = TRUE
  /\ \/ store' = EmptyMap
     \/ \E n \in Name : slot[n].kept = "map" /\ store' = slot[n].map
  /\ UNCHANGED <<saving, slot>>

Stop ==
  /\ up
  /\ up' = FALSE
  /\ store' = EmptyMap
  /\ saving' = NoName
  /\ UNCHANGED slot

Next ==
  \/ Change \/ EndSave \/ Boot \/ Stop
  \/ \E n \in Name : BeginSave(n) \/ Restore(n)

Spec == Init /\ [][Next]_vars
=============================================================================
