\* Files of every kind, and two changes of the file system at any time.
SPECIFICATION Spec
CONSTANTS
  NoValue = NoValue
  Contents <- MCContents
  MaxChanges = 2
  MaxFrames = 4
  Crash = Crash
INVARIANTS
  TypeOK
  FindsInput
  RacesEndCleanly
  ConsoleRestored
  OptionsBelongTogether
  LoggedReadsBack
