SPECIFICATION FairSpec
CONSTANTS
  p = p
  q = q
  a = a
  b = b
  c = c
  Producers = {p, q}
  Source = {p, q}
  Item = {a, b, c}
  Message = {a, b, c}
  NoItem = NoItem
  NoOne = NoOne
  BufferSize = 3
  SourceOf <- MCSourceOf
  FragmentCnt <- MCFragmentCnt
  InCapacity = 1
  Request <- MCRequest
  MaxLost = 1
CHECK_DEADLOCK FALSE
INVARIANTS
  RTypeOK
  NeverNull
  FragmentsAgree
  WholeMessagesOnce
  ArrivedIsReceived
  NoSleepOnWork
PROPERTIES
  ImplementsQueue
  ProcessorStops
  RequestsAreProcessed
