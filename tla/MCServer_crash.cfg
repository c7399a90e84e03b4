\* A peer connects.  Expected to be violated.
SPECIFICATION Spec
CONSTANTS
  Loops = {l1}
  NoLoop = NoLoop
  Ids = {peer}
  MaxReady = 2
INVARIANT
  SurvivesConnection
