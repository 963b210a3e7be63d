CONSTANTS
  b = b
  x = x
  y = y
  Edges = {b, x, y}
  Beacon = b
  MaxVersion = 2
  Readers = {x}
  Writers = {y}
  MultiWorker = {}
  MayFail = FALSE
  Seqs = {0, 1}
  Lossy <- FinishBlockAnswers
  MaxLost = 1
  Impatient = {}
  MaxEarly = 0
SPECIFICATION TFairSpec
PROPERTY EveryRequestEnds
CHECK_DEADLOCK FALSE
