\* Two loops on one server.
SPECIFICATION FairSpec
CONSTANTS
  Loops = {l1, l2}
  NoLoop = NoLoop
  Ids = {peer, unknown}
  MaxReady = 4
INVARIANTS
  TypeOK
  NoAcceptAfterCancel
  EndsForAReason
PROPERTY
  CancelStops
