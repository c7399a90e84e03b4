\* Two sessions, with peers of every kind.
SPECIFICATION Spec
CONSTANTS
  Sessions = {s1, s2}
  NoSession = NoSession
  Chars = {"%", "2", "5", "[", "]", ":", "e", "f", "1", "9"}
  Endpoints <- MCEndpoints
  Gone = Gone
INVARIANTS
  TypeOK
  NamesPeer
  IdsDiffer
