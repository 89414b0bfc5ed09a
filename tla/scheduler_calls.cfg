SPECIFICATION ResumingSpec
CONSTANTS
  t1 = t1
  t2 = t2
  t3 = t3
  Task <- MCTask
  Batch <- MCBatch
  Method <- AllMethods
  Falsy = FALSE
  Kind <- KindAny
INVARIANTS
  TypeOK
  OneAtATime
  NoLostWakeup
  OutputInOrder
PROPERTIES
  EveryTaskSettles
  PromiseSettles
  FulfilledWhenDrained
  StrictFailureDrops
  ImplementsTaskQueue
