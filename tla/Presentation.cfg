SPECIFICATION Spec
CONSTANTS
  Handler = {q1, q2}
  Replica = {a, b}
  Own = {o1}
  Peers = {p1}
  VpRequest = {v1}
  MaxOverlaps = 2
  NoRow = NoRow
  NoCard = NoCard
  NoList = NoList
  NoReplica = NoReplica
  NoRequest = NoRequest
SYMMETRY Interchangeable
INVARIANTS
  TypeOK
  RevokedIsRefused
PROPERTY VerdictStands
