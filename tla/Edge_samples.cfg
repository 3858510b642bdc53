SPECIFICATION Spec
CONSTANTS
  DebounceOn = 2
  DebounceOff = 1
  PulseMin = 3
  PulseMax = 4
  MinInterval = 8
  HoldTime = 5
  WordDevice = TRUE
  Kind = "bit"
  SignalBit = 0
  OnValue = {0}
  Mask = {}
  Bits = {0, 1}
  Gaps = {1, 3}
  Horizon = 14
INVARIANTS
  DebouncedIsLastStable
  AuditAgrees
CHECK_DEADLOCK FALSE
