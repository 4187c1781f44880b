CONSTANTS
  e1 = e1
  NoOrder = NoOrder
  Orders = {e1}
  Quantity = 1
  Guarded = {e1}
  CallbackKinds = {"ACCEPTED", "REJECTED", "CANCEL_ACK", "UNCERTAIN", "DEAL"}
  Disputed = {}
  MaxCrashes = 1
  MaxReconnects = 1
SPECIFICATION Spec
INVARIANTS
  AtMostOneSend
  AtMostOneCancel
  NotSentMeansNotSent
  NoSilentClaim
  EndIsTrue
PROPERTIES
  UnknownNeedsEvidence
  EndsAreKept
