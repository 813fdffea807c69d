CONSTANTS
  Flags = {"NoEscape", "Speculative", "SimOff", "NoJump", "Filler", "ReExe"}
  Cells = {c1}
  Targets = {0, 2}
  SpeculativeBntLevelLimit = 2
  SpeculativeBntInstructionLimit = 2
  BranchNotTakenLimit = 1
  MaxScripted = 4
  MaxSimulated = 8
  LastAddress = 5
  InitialPC = 1
SPECIFICATION Spec
INVARIANTS SpeculationUndone IssInStep FailsOnlyWhenExposed TakenPathKept ModesBalanced
PROPERTY RoundsFinish
CHECK_DEADLOCK FALSE
