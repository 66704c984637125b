\* Two producers, two consumers and a stopper on one queue.
SPECIFICATION FairSpec
CONSTANTS
  Producers = {p1, p2}
  Consumers = {c1, c2}
  Stoppers = {s1}
  Values = {v1, v2}
  NoThread = NoThread
  MaxPushes = 2
INVARIANTS
  TypeOK
  NoLostWakeup
PROPERTIES
  ChannelSpec
  EveryValueDelivered
  StopEndsEveryConsumer
\* All pushes done and both consumers ended: the system has stopped.
CHECK_DEADLOCK FALSE
