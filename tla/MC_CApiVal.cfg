\* C callers creating, copying and deleting values around host scopes and
\* collections.
SPECIFICATION Spec
CONSTANTS
  o1 = o1
  o2 = o2
  s1 = s1
  s2 = s2
  w1 = w1
  w2 = w2
  f1 = f1
  Objects <- MC_Objects
  Slots <- MC_Slots
  WSlots <- MC_WSlots
  Funcs <- MC_Funcs
  FuncBits <- MC_FuncBits
  NoRef = NoRef
  MaxScopes = 2
  MaxSteps = 7
INVARIANT OwnershipExact NoDanglingRef RoundTrip DataNeverFreed RawValidUntilGc NoDanglingVmRef
CHECK_DEADLOCK FALSE
