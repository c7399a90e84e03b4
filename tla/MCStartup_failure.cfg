\* A start whose input file cannot be read.  Expected to be violated.
SPECIFICATION Spec
CONSTANTS
  NoValue = NoValue
  Contents <- MCContents
  MaxChanges = 0
  MaxFrames = 4
  Crash = Crash
INVARIANT
  FailureReturnsOne
