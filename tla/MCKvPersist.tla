---------------------------- MODULE MCKvPersist ----------------------------
(* Instances of KvPersist for TLC.                                         *)
EXTENDS KvPersistRefinement, TLC

CONSTANTS k1, k2, v1, v2

TwoKeys == {k1, k2}

TwoVals == {v1, v2}
OneVal == {v1}

Interchangeable == Permutations(TwoKeys) \cup Permutations(TwoVals)

KeysInterchangeable == Permutations(TwoKeys)

Plain == [k \in Key |-> k]

\* A key holding a double quote: the file it is written to is not JSON.
Quoted == [k \in Key |-> IF k = k1 THEN Garbled ELSE k]

Times == 1..2

CrashOnly == {"crash"}
ExceptionOnly == {"exception"}
EveryFault == FaultKind
=============================================================================
