SPECIFICATION Spec
CONSTANTS
  Defaults = 2
  Typed <- TypedLabels
  Mails = 3
  Slots = 2
  Budget = 1
  MaxFaults = 2
INVARIANTS BudgetKept ProgressCompletes CardShowsStore
PROPERTIES OnlyActiveMatched DeletedStaysDeleted
