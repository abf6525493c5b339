SPECIFICATION Spec
CONSTANTS
  Lookups = {"k", "l"}
  Web = {"k"}
  None = "none"
  MaxSerial = 3
PROPERTY LookupsReturn
\* Nothing goes on when a lookup waits for itself.
CHECK_DEADLOCK FALSE
