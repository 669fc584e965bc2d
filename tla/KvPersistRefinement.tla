------------------------ MODULE KvPersistRefinement ------------------------
(***************************************************************************)
(* The persistence of the KV engine implements KvDurable as long as        *)
(* nothing fails but the process.                                          *)
(***************************************************************************)
EXTENDS KvPersist

\* What is kept under n: the acknowledged save, while its directory is the
\* newest one of that name.
SlotOf(n) ==
  IF Used(n) = {} THEN [kept |-> "nothing", map |-> EmptyMap]
  ELSE IF acked[n] \in Newest(n)
       THEN [kept |-> "map", map |-> snapshot[n][acked[n]]]
       ELSE [kept |-> "torn", map |-> EmptyMap]

Durable == INSTANCE KvDurable WITH
  up     <- server = "serving",
  store  <- map,
  saving <- save.name,
  slot   <- [n \in Name |-> SlotOf(n)]

\* Every step of the engine is a step of the documented promise: saves split
\* into files, metadata states and crashes between two writes are invisible.
ImplementsDurable == Durable!Spec
=============================================================================
