CONSTANTS
  p1 = p1
  p2 = p2
  a = a
  b = b
  NULL = NULL
  Procs <- MCProcs2
  Names <- MCNames1
  Faults <- SqlFaults
SPECIFICATION FairSpec
INVARIANT OpenableIsComplete
PROPERTY CreateLeavesOpenable
