SPECIFICATION Spec
CONSTANTS
  Node = {"d", "f"}
  Dir = {"d"}
  Made = {"d"}
  NoNode = "-"
  Calls = {"c1", "c2"}
  Short = 1
  Long = 2
  MaxRefs = 4
INVARIANT UploadsAreReleased
\* The server may stop.
CHECK_DEADLOCK FALSE
