SPECIFICATION Spec
CONSTANTS
  Empty = empty
  Root = {empty, r1}
  Writers = {w1}
  MaxMade = 2
INVARIANT StartsAgain
SYMMETRY Symmetry
\* A volume whose tree is not whole does not start again.
CHECK_DEADLOCK FALSE
