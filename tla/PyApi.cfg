\* Every call of the Python API, and unknown commands of another client.
CONSTANTS
  c1 = c1
  c2 = c2
  Calls <- EveryCall
  PersistEnabled = TRUE
  TypeKept = TRUE
SPECIFICATION Spec
INVARIANTS NeverSilent RefusedIsResponseError WrappersAreKnown
PROPERTY CallEnds
