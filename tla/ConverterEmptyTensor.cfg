\* Sources with tensors of no elements.
SPECIFICATION ConverterSpec
CONSTANTS
  None = None
  Junk = Junk
  Parts = {"layout"}
  WithEmptyTensors = TRUE
  Sources = {"s1", "s2"}
  Tools = {"t1", "t2"}
  Extents = 2
  Chunks = 2
  Data <- SharedFirst
  Empty = {}
  Uuids = {"u1", "u2", "u3"}
  QuietSource = TRUE
  MaxPending = 2
  MaxKills = 1
  MaxLosses = 1
  MaxEdits = 1
INVARIANT OpensWhatItWrote
CHECK_DEADLOCK FALSE
