SPECIFICATION MCSpec
CONSTANTS
  Modules <- MCModules
  Orders <- MCOrders
  Objects <- MCObjects
  Inputs <- MCInputs
  MaxDepth = 3
  MaxRegisters = 8
  MaxInvokes = 2
  NoObject = NoObject
  NoValue = NoValue
INVARIANTS
  OperandsHoldValues
  RefCountsExact
  ResultsReturned
