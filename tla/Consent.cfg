SPECIFICATION Spec
CONSTANTS
  Handler = {q1, q2}
  Replica = {a, b}
  narrow = narrow
  wide = wide
  Recorded <- OnPaper
  Repealable = {"consent"}
  Scopes = {narrow, wide}
  MaxConsents = 3
  MaxGrants = 2
  FaultBound = 1
  NoRow = NoRow
  NoReplica = NoReplica
  NoScopes = NoScopes
SYMMETRY Alike
INVARIANTS
  TypeOK
  WithdrawalStops
  AgreementGoverns
CHECK_DEADLOCK FALSE
