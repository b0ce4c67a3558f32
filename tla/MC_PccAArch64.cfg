\* Core run: the checker with every instruction shape it knows; ranges only
\* as upstream facts on results; unconstrained heap; MOVZ-style MOVK.
SPECIFICATION Spec
CONSTANTS
  heap = heap
  XLen = 8
  Regions <- MC_Regions
  RegionBase <- MC_RegionBase
  RegionSize <- MC_RegionSize
  ElemFact <- MC_NoElem
  NumArgs = 2
  MaxInsts = 2
  ArgFacts <- MC_ArgFacts
  ArgVals <- MC_ArgVals
  DeclFacts <- MC_DeclRanges
  Sizes <- MC_Sizes
  Imm12s = {1, 8}
  Offsets <- MC_Offsets
  UImm12s = {8}
  ShiftAmts = {1, 3}
  Chunks = {1, 3}
  ExtendOps = {"UXTW", "SXTW", "SXTX"}
  AModeKinds <- MC_AllModes
  LoadOps = {"ULoad8", "ULoad64"}
  LoadVals <- MC_LoadVals
  OtherTypes <- MC_OtherTypes
  AcquireDecl = FALSE
  MovKOnZero = TRUE
INVARIANT TypeOK MemorySafety FactsHold
CHECK_DEADLOCK FALSE
