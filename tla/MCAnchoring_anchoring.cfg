\* Two attempts at a time, for one event and a live anchor of another batch.
SPECIFICATION Spec
CONSTANTS
  v1 = v1  n1 = n1  x1 = x1  x2 = x2  k1 = k1  k2 = k2
  None = None
  Evidence = {v1}
  Notes = {n1}
  Hashes <- HashesAll
  BatchIds = {k1, k2}
  BatchOf <- BatchesOf
  Attempts = {x1, x2}
  MaxTx = 3
  MaxRows = 2
INVARIANTS TypeOK MatchIsOnChain RetryIsIdempotent
SYMMETRY Symmetry
CHECK_DEADLOCK FALSE
