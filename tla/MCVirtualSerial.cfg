CONSTANTS
  Sites = {s1, s2, s3}
  Ports = {1, 2}
  Bauds = {9600, 19200}
  NoBaud = 0
  Radix = 2
  WordBytes = 2
  BufferBytes = 2
  MaxHandle = 3
  LastTime = 1
  MaxEvents = 2
  Scenarios <- MCScenarios
SPECIFICATION MCSpec
PROPERTIES
  WordsReadBack
  ReceptionIsExact
  ReadsAreComplete
CHECK_DEADLOCK FALSE
SYMMETRY MCSymmetry
