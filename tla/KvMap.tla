------------------------------- MODULE KvMap -------------------------------
(***************************************************************************)
(* The key-value map of the KV engine: core/CacheMap.h and the loops of    *)
(* core/kv/KvExecutor.h that apply a request's "keys" to it.               *)
(*                                                                         *)
(* A map is a total function from Key to a value or Absent.  The "keys"    *)
(* object of a request is a map too: Absent marks a key the request does   *)
(* not name.                                                               *)
(***************************************************************************)
CONSTANTS
  Key,      \* the keys a client uses
  Val,      \* JSON values
  Absent    \* marks a key with no entry

ASSUME AbsentAssumption == Absent \notin Val

Map == [Key -> Val \cup {Absent}]

EmptyMap == [k \in Key |-> Absent]

Present(m) == {k \in Key : m[k] # Absent}

\* insert_or_assign for every key of the batch: the batch wins.
SetKeys(m, batch) ==
  [k \in Key |-> IF batch[k] # Absent THEN batch[k] ELSE m[k]]

\* try_emplace for every key of the batch: an existing entry wins.
AddKeys(m, batch) ==
  [k \in Key |-> IF m[k] # Absent THEN m[k] ELSE batch[k]]

RemoveKeys(m, S) == [k \in Key |-> IF k \in S THEN Absent ELSE m[k]]

\* The map restricted to the keys of S.
Only(m, S) == [k \in Key |-> IF k \in S THEN m[k] ELSE Absent]
=============================================================================
