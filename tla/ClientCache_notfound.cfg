SPECIFICATION Spec
CONSTANTS
  Path <- RootAndTwo
  Above <- UnderRoot
  ConfigPath = "b"
  Wanted = {"a"}
  Callers = {"k"}
  Config = "config"
  Linkers = {"l"}
  DefaultTimeout = 1
  ConfigTimeout = 0
  TTL = 1
  MaxLatency = 0
  Failures = FALSE
  Readables <- RootOrNot
  MaxVersion = 2
  MaxTime = 2
INVARIANT NotFoundIsTrue
