SPECIFICATION ContactSpec
CONSTANTS
  Values = {v1, v2, v3}
  NoValue = NoValue
  Fresh = 3
  Window = 1
  Hold = 2
  Telling = {v1}
INVARIANT CategoryIsCurrent
