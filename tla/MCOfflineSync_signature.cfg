\* One reception captured by the page, and nothing to refuse it for.
SPECIFICATION Spec
CONSTANTS
  Events = {e1}
  Tokens = {t1}
  Uploads = {p1}
  Payloads = {"extended"}
  Refusals = FALSE
  None = None
INVARIANTS RejectedIsOver
CHECK_DEADLOCK FALSE
