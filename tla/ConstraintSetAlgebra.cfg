SPECIFICATION Spec
CONSTANT WordWidth = 3
INVARIANTS ValuesExact NeverFails TransformsExact AlignmentExact QueriesExact
CHECK_DEADLOCK FALSE
