CONSTANTS
  NStream = 2
  NPages = 2
  Budget = 1
SPECIFICATION Spec
INVARIANTS BlocksConserved NeverOutOfBlocks
PROPERTIES SlotMapped BudgetStep
