\* As MCQueue_progress.cfg, on a condition variable whose timed_wait may report a
\* timeout to the very thread a notify_one has picked.
SPECIFICATION FairSpec
CONSTANTS
  t1 = t1
  t2 = t2
  t3 = t3
  a = a
  NoItem = NoItem
  Producers = {t1, t2}
  Consumers = {t2, t3}
  Closers = {t3}
  Items = {a}
  Capacity = 1
  TimeoutTakesSignal = TRUE
PROPERTY
  PopProgress
