\* More elements than the queue holds, and two consumers to share them.
SPECIFICATION FairSpec
CONSTANTS
  p = p
  c1 = c1
  c2 = c2
  Producer = p
  Consumers = {c1, c2}
  N = 4
  Capacity = 2
INVARIANTS
  TypeOK
  ExactlyOnceInOrder
  DrainedAtEnd
PROPERTY
  AllJoin
