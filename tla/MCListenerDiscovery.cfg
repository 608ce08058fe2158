CONSTANTS
  A = A
  B = B
  C = C
  X = X
  Y = Y
  Unset = Unset
  Names <- MCNames
  Default <- MCDefault
  Empty <- MCEmpty
  Exports = {X, Y}
  RootCalls <- MCRootCalls
  MaxRoots = 2
  Classes = {A, B, C}
  Lineage <- MCLineage
  Prototype <- MCPrototype
  Applications <- MCApplications
SPECIFICATION StartupSpec
INVARIANTS
  StartupTypeOK
  OptionsAgree
  ExceptionIsThrown
  StartFailsOnlyFor
  FirstListenerServes
CHECK_DEADLOCK FALSE
