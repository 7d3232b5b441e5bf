SPECIFICATION Spec
CONSTANTS
  a = a
  x = x
  y = y
  Seed = {a}
  Texts = {x, y}
  Parent = Parent
  MaxPresses = 4
  None = None
SYMMETRY Symmetric
INVARIANTS SaveOnce SpinnersEnd FreshWhenQuiet CodeOfZone
PROPERTIES UntouchedKept
CHECK_DEADLOCK FALSE
