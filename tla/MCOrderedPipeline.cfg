CONSTANTS
  w1 = w1
  w2 = w2
  Workers <- MCWorkers
  MaxBatches = 6
  Hollow <- MCHollow
SPECIFICATION Spec
INVARIANTS
  TypeOK
  PublishedInOrder
  NeverBlocked
  NoSendOnClosed
  NeverStopsShort
  CauseReported
  NoWorkerOutlivesSource
PROPERTIES
  Terminates
  ImplementsOrderedBuild
