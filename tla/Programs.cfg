SPECIFICATION Spec
CONSTANTS
  Widget = {"v", "w"}
  NoWidget = "-"
  Toast = {"a", "b"}
  NoToast = "-"
  Depth = 1
  Names <- TheNames
  RowId = {1, 2, 3, 4, 5}
  Load = {"k", "l"}
  Tick = {"s", "t"}
  Msg = {"m", "n"}
  NoMsg = "-"
  Copies = {1, 2, 3}
  InboxTick = {"s", "t"}
  Line = {"x"}
  MaxHistory = 3
  Letters = 2
  File = {"f", "g"}
  NoFile = "-"
  Saver = {"s", "t"}
  MaxEdits = 2
  Path = {"p", "q"}
  NoPath = "-"
  Opener = {"o"}
  Writer = {"w", "x"}
  MaxVersion = 2
  Project = {"p"}
  NoProject = "-"
  Files <- TheFiles
  MaxId = 4
  Size = 3
  NoResult = 0
  Tool = {"path", "cp"}
  Word = {"text", "Escape", "InlineCode", "Comment"}
  Span = {"Emphasis", "Link", "Image"}
  Block = {"Paragraph", "Task", "ATXHeading1", "Blockquote", "FencedCode", "Table"}
  MaxPieces = 2
INVARIANTS PageIsSound TerminalIsSound
INVARIANTS CleanIsSaved AutoSaved OutlineIsSound InvokedOnce TextShownOnce
PROPERTIES FilesCatchUp InboxCatchesUp
CHECK_DEADLOCK FALSE
