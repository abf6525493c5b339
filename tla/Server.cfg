SPECIFICATION SpecAll
CONSTANTS
  first = first
  second = second
  bare = bare
  file = file
  dir = dir
  mixed = mixed
  twice = twice
  Node = {bare, file, dir, mixed, twice}
  Name = {first, second}
  NoNode = NoNode
  Empty = bare
  Child <- MCChild
  Rank <- MCRank
  Readers = {r1}
  Linked = {"d", "f"}
  Dir = {"d"}
  Made = {"d"}
  Calls = {"c1", "c2"}
  Short = 1
  Long = 2
  Addr = {a1, a2}
  Handles = {h1, h2}
  NoAddr = NoAddr
  Durations = {0, 1}
  MaxClock = 3
  MaxCrashes = 1
  ValidateBlobs = TRUE
  Faults = {"write", "rename", "remove", "read"}
  Getters = {"g", "h"}
  Free = "free"
  MaxSize = 1
  Target = 0
  MaxRefs = 4
  MaxCount = 3
INVARIANTS
  CountsAreNames
  AnswersAreHeld
  RefCountExact
  CacheIsSound
PROPERTIES
  OperationsEnd
  ImplementsTreeStore
  ImplementsPinStore
  GarbageIsEvicted
