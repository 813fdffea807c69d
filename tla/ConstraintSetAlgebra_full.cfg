SPECIFICATION Spec
CONSTANT WordWidth = 3
INVARIANT ChooseOfFullSet
CHECK_DEADLOCK FALSE
