\* Two uploads of a queue of two receptions of two batons.
SPECIFICATION Spec
CONSTANTS
  Events = {e1, e2}
  Tokens = {t1, t2}
  Uploads = {p1, p2}
  Payloads = {"signed", "extended"}
  Refusals = TRUE
  None = None
INVARIANTS OneWorkerPerEvent AppliedIsOver PendingIsExplained KeptUntilKnown
PROPERTIES DecidedIsFinal
SYMMETRY Symmetry
CHECK_DEADLOCK FALSE
