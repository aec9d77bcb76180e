SPECIFICATION CvssSpec
INVARIANT IsStandardScore
CHECK_DEADLOCK FALSE
