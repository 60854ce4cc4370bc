\* A reception captured while the queue is being uploaded.
SPECIFICATION Spec
CONSTANTS
  Events = {e1, e2}
  Tokens = {t1}
  Uploads = {p1}
  Payloads = {"signed", "extended"}
  Refusals = TRUE
  None = None
INVARIANTS NobodyLosesTheLink
CHECK_DEADLOCK FALSE
