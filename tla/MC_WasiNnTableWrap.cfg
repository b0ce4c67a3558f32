\* Release build: next_key wraps to 0 after its maximum.
SPECIFICATION Spec
CONSTANTS
  g1 = g1
  g2 = g2
  NoValue = NoValue
  Values <- MC_Values
  KeyBits = 2
  OverflowChecks = FALSE
  MaxInserts = 6
INVARIANT HandleStable
CHECK_DEADLOCK FALSE
