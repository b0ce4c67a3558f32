\* Every call sequence of four calls, with and without the wat feature.
SPECIFICATION Spec
CONSTANTS
  binMod = binMod
  binComp = binComp
  text = text
  junk = junk
  fileOk = fileOk
  fileMissing = fileMissing
  None = None
  Bytes <- MC_Bytes
  Kind <- MC_Kind
  Files <- MC_Files
  Contents <- MC_Contents
  Readable <- MC_Readable
  WatBuilds = {TRUE, FALSE}
  MaxCalls = 4
INVARIANT SingleSource
PROPERTY FailedCallsChangeNothing
CHECK_DEADLOCK FALSE
