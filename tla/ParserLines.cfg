CONSTANTS
  Lines <- MCLines
  MaxArgs = 3
SPECIFICATION FairSpec
INVARIANT TypeOK
INVARIANT ArgsInOrder
INVARIANT ParsesLikeReference
PROPERTY Terminates
CHECK_DEADLOCK FALSE
