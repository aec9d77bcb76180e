CONSTANTS
  p1 = p1
  p2 = p2
  a = a
  b = b
  NULL = NULL
  Procs <- MCProcs2
  Names <- MCNames2
  Faults <- NoOpenFault
SPECIFICATION Spec
SYMMETRY Symmetric
INVARIANT TypeOK
INVARIANT HandleMatchesSelection
INVARIANT AtMostOneCreate
PROPERTY FailureKeepsSelection
PROPERTY WedgedForever
PROPERTY ImplementsRegistry
