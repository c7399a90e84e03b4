\* Two different elements and room for both, so that the order matters; a
\* condition variable that may take a signal with a timeout, which must not
\* change what a call returns.
SPECIFICATION Spec
CONSTANTS
  p1 = p1
  p2 = p2
  c1 = c1
  k1 = k1
  a = a
  b = b
  NoItem = NoItem
  Producers = {p1, p2}
  Consumers = {c1}
  Closers = {k1}
  Items = {a, b}
  Capacity = 2
  TimeoutTakesSignal = TRUE
SYMMETRY Symmetry
PROPERTY
  Linearizable
