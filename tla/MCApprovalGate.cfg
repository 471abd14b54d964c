SPECIFICATION Spec
CONSTANTS
  Proposals = {p1}
  Workers = {w1, w2}
SYMMETRY Symmetry
INVARIANTS
  ExecutedOnlyApproved
  RejectionStopsGate
  AutoNeedsMandate
PROPERTY
  LedgerSpec
