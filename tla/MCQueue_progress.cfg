\* Three threads, of which one produces, one consumes and closes, and one does
\* both, compete for one slot; no symmetry, for the properties are temporal.
SPECIFICATION FairSpec
CONSTANTS
  t1 = t1
  t2 = t2
  t3 = t3
  a = a
  NoItem = NoItem
  Producers = {t1, t2}
  Consumers = {t2, t3}
  Closers = {t3}
  Items = {a}
  Capacity = 1
  TimeoutTakesSignal = FALSE
PROPERTIES
  CloseReleasesAll
  TimedCallsReturn
  PopProgress
  PushProgress
