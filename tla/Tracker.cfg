SPECIFICATION Spec
CONSTANTS
  Aircraft = {fake, real}
  Fakes = {fake}
  Slots = 2
  TTL = 1
  Keys = {key}
  rx = rx
  draw = draw
  none = none
INVARIANT OneRowEach
PROPERTIES OnlySilentDropped SilentGoes
