SPECIFICATION Spec
CONSTANTS
  Name = {"a"}
  Shared = {}
  Node = {m}
  NoNode = NoNode
  MaxRequests = 2
  MaxEdits = 1
  MaxHandles = 1
INVARIANT LookupsReturn
