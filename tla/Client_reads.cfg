SPECIFICATION SpecAll
CONSTANTS
  Path <- RootAndTwo
  Above <- UnderRoot
  ConfigPath = "b"
  Wanted = {"a"}
  Callers = {"k"}
  Config = "config"
  Linkers = {"l"}
  DefaultTimeout = 1
  ConfigTimeout = 0
  TTL = 1
  MaxLatency = 0
  Failures = TRUE
  Readables <- RootOrNot
  MaxVersion = 2
  MaxTime = 2
  Mirror = {"m1", "m2"}
  Blob = {"dir", "list"}
  Content <- DirContent
  None = "none"
  Gets = {"g"}
  Prefetcher = "prefetch"
  Threshold = 2
  MaxLoad = 2
  MaxErrors = 1
  MaxUnder = 1
INVARIANTS MiniRootsAreASnapshot FoundIsRecent OwnLinksAreSeen WaitingCanEnd InFlightIsQueued
