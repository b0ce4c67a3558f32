\* Debug build: next_key += 1 panics at the maximum.
SPECIFICATION Spec
CONSTANTS
  g1 = g1
  g2 = g2
  NoValue = NoValue
  Values <- MC_Values
  KeyBits = 2
  OverflowChecks = TRUE
  MaxInserts = 6
INVARIANT TypeOK HandleStable
CHECK_DEADLOCK FALSE
