SPECIFICATION Spec
CONSTANTS
  p1 = p1
  p2 = p2
  d1 = d1
  d2 = d2
  i1 = i1
  i2 = i2
  i3 = i3
  Producers <- TwoProducers
  Consumers <- TwoConsumers
  Items <- ThreeItems
  Dummy = Dummy
  Null = Null
INVARIANTS
  TailLeadsToEnd
PROPERTIES
  ImplementsFifo
  EnqueuesReturn
\* What is undefined ends the behaviour.
CHECK_DEADLOCK FALSE
