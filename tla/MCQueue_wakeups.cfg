\* Two producers, two consumers and a closer on a queue of two: notify_one
\* can have several candidates on either side, and both sides can be asleep.
SPECIFICATION Spec
CONSTANTS
  p1 = p1
  p2 = p2
  c1 = c1
  c2 = c2
  k1 = k1
  a = a
  NoItem = NoItem
  Producers = {p1, p2}
  Consumers = {c1, c2}
  Closers = {k1}
  Items = {a}
  Capacity = 2
  TimeoutTakesSignal = FALSE
SYMMETRY Symmetry
INVARIANTS
  TypeOK
  CapacityBound
  NotEmptySignalled
  NotFullSignalled
  NoGridlock
  CloseCoverage
