SPECIFICATION PartsSpec
CONSTANTS
  Image = {i1, i2}
  Factory = Factory
  Blank = Blank
  AttemptLimit = 2
  CutAt = {"idle", "erase", "write"}
  FailAt = {"erase"}
  MaxCrashes = 2
  BootLimit = 3
  WordBits = 8
  Magic = 72
  Seed = 90
  Registers = 2
  Fault <- MCFault
  None = None
  Event = {e1, e2}
  Callback = {a, b}
  Priority = {0, 1}
  MaxEntries = 2
  MaxDepth = 2
  FsmState = {"A", "B", "C"}
  FsmEvent = {"go", "reset"}
  AnyState = "ANY"
  Transitions <- MCTransitions
  Nested = {"enter"}
  FsmDepth = 3
  InitFn = {f, g, h, i}
  InitPriority = {0, 1}
  Levels = 2
  MaxInits = 3
INVARIANT Remembered
