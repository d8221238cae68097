CONSTANTS
  alice = alice
  bob = bob
  Keys <- MCKeys
  MaxEvents <- MCMaxEvents
  Per <- MCPer
  Unit <- MCUnit
  MaxTime <- MCMaxTime
SPECIFICATION Spec
INVARIANT TypeOK
INVARIANT WindowBound
PROPERTY HonestStatus
PROPERTY ImplementsIdeal
SYMMETRY Interchangeable
