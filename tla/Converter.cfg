\* All parts of the converter; a conversion may be left unfinished.
SPECIFICATION ConverterSpec
CONSTANTS
  None = None
  Junk = Junk
  Parts = {"conversion", "reading", "layout"}
  WithEmptyTensors = FALSE
  Sources = {"s1", "s2"}
  Tools = {"t1", "t2"}
  Extents = 2
  Chunks = 2
  Data <- SharedFirst
  Empty = {}
  Uuids = {"u1", "u2", "u3"}
  QuietSource = TRUE
  MaxPending = 2
  MaxKills = 1
  MaxLosses = 1
  MaxEdits = 1
INVARIANTS
  LedgerIsBacked
  SourceIsJudged
  FileDescribesSource
PROPERTIES
  ImplementsPublication
  ConversionsAreDecided
CHECK_DEADLOCK FALSE
