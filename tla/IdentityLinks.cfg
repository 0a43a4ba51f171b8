SPECIFICATION Spec
CONSTANTS
  p1 = p1
  p2 = p2
  i1 = i1
  i2 = i2
  Handler = {q1, q2}
  Person = {p1, p2}
  Identifier = {i1, i2}
  Merge = {m1}
  Subject <- SubjectOf
  Established <- BothEnrolled
  MaxLinks = 5
  FaultBound = 1
  NoPerson = NoPerson
  NoMerge = NoMerge
  NoRow = NoRow
  Detached = Detached
SYMMETRY Alike
INVARIANTS
  TypeOK
  OneCurrentLink
  DisownedStaysAway
PROPERTIES
  DisputeHolds
  SplitRestores
CHECK_DEADLOCK FALSE
