SPECIFICATION Spec
CONSTANTS
  Handlers = {h1, h2}
  Keys = {k1, k2}
  NoKey = nokey
  Caps = {1, 2}
  MaxSwitches = 1
INVARIANTS KeyCapHeld OrphansAreOff
CHECK_DEADLOCK FALSE
SYMMETRY Symmetric
