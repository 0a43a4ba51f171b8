SPECIFICATION Spec
CONSTANTS
  Handler = {q1}
  Replica = {a, b}
  Own = {o1}
  Peers = {p1}
  VpRequest = {v1}
  MaxOverlaps = 0
  NoRow = NoRow
  NoCard = NoCard
  NoList = NoList
  NoReplica = NoReplica
  NoRequest = NoRequest
SYMMETRY Interchangeable
INVARIANT SuspendedIsRefused
