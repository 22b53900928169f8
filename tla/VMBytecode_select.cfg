SPECIFICATION Spec
CONSTANTS
  Modules <- SelectLastUse
  Orders <- MCOrders
  Objects <- MCObjects
  Inputs <- MCInputs
  MaxDepth = 3
  MaxRegisters = 8
  MaxInvokes = 2
  NoObject = NoObject
  NoValue = NoValue
INVARIANT ResultsReturned
