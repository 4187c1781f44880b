CONSTANTS
  e1 = e1
  NoOrder = NoOrder
  Orders = {e1}
  Quantity = 2
  Guarded = {e1}
  CallbackKinds = {"DEAL", "UNCERTAIN"}
  Disputed = {2}
  MaxCrashes = 0
  MaxReconnects = 1
SPECIFICATION Spec
INVARIANTS
  FillsAreReal
  SettledMeansExplained
  NothingForgotten
  OnlyDisputesConflict
