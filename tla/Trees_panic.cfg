SPECIFICATION NodesOnly
CONSTANTS
  Addr = {a1}
  Callers = {c1, c2}
  Object = {o1, o2, o3, o4}
  Absent = Absent
  Ops <- TheOps
  Linkers = {c1, c2}
  Lookups <- TheLookups
  Batches <- TheBatches
  LockedOnly = TRUE
  Dir = Dir
  MaxSerial = 3
  RemoteLookups = {"k", "l"}
  Web = {}
  None = "none"
  Name = {"a", "b"}
  Shared = {"a"}
  Node = {m, n}
  NoNode = NoNode
  MaxRequests = 2
  MaxEdits = 1
  MaxHandles = 1
  Proc = {"p", "q"}
  Command <- Commands
  Volumes <- TheVolumes
  MailName = {"m", "n"}
  MaxAttempts = 2
INVARIANT CleanupCannotPanic
