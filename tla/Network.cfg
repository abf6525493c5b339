SPECIFICATION SpecAll
CONSTANTS
  Empty = "empty"
  Root = {"empty", "r1", "r2"}
  Writers = {"w1", "w2"}
  MaxMade = 3
  Blob = {"b1", "b2"}
  Puts = {"p"}
  Posts = {"l1"}
  Caches = TRUE
  Dir = {"d"}
  Leaf = {"d/x"}
  Above <- OneDirectory
  Value = {"1"}
  EmptyDir = "e"
  Nil = "nil"
  Linkers = {"w"}
  Listers = {"c"}
  Others = TRUE
  MaxSeq = 2
  Tab = {"t", "u"}
  MaxHash = 2
INVARIANTS PutMeansStored OwnWritesHold ServedByCurrentWorker
INVARIANTS AckedSurvives SerialNotBehind
PROPERTIES PostsEnd WaitersWake NavigationsEnd
