CONSTANT MaxReports = 6
SPECIFICATION BallotSpec
INVARIANT LoopsAgree
PROPERTY VerdictIsNotOutvoted
PROPERTY DecisionIsMonotone
CHECK_DEADLOCK FALSE
