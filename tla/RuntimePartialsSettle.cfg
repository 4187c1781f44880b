CONSTANTS
  e1 = e1
  NoOrder = NoOrder
  Orders = {e1}
  Quantity = 2
  Guarded = {}
  CallbackKinds = {}
  Disputed = {}
  MaxCrashes = 1
  MaxReconnects = 0
SPECIFICATION FairSpec
PROPERTIES
  EndingBecomesKnown
