\* Every order of initialisation, with messages created in between.
SPECIFICATION Spec
CONSTANTS
  Registers <- MCRegisters
  Classes = {"login", "text", "emoji", "ping"}
  Class <- MCClass
  Types = {"login", "text", "ping", "bye"}
  TypeOf <- MCTypeOf
  Null = Null
INVARIANTS
  TypeOK
  LastOneCounts
PROPERTIES
  CreatesNamed
  AllRegistered
