CONSTANTS
  a = a  b = b  p = p  q = q  s = s  t = t
  Callers <- MCCallers
  Processes <- TwoProcesses
  ProcessOf <- Apart
  Streams <- MCStreams
  StateFile <- MCStateFile
  MaxMerges = 4
  MaxFaults = 3
SPECIFICATION Spec
INVARIANTS
  TornOnlyInPlace
PROPERTIES
  LoneMergeLosesNothing
CHECK_DEADLOCK FALSE
