\* Two headers that are used again and again.
SPECIFICATION Spec
CONSTANTS
  Headers = {h1, h2}
  NUL = NUL
  Chars = {a, b}
  a = a
  b = b
  TypeSize = 3
  Types <- MCTypes
  Lengths <- MCLengths
  Versions <- MCVersions
  Garbage <- MCGarbage
  NoMessage = NoMessage
INVARIANTS
  TypeOK
  DataIsWhole
PROPERTY
  ReceivedAsSent
