SPECIFICATION Spec
CONSTANTS
  Handler = {q1, q2}
  Account = {a1}
  Key = {k1, k2, k3}
  Life = {1}
  Overlap = {0, 1}
  RequireMfa = TRUE
  MaxFailedLogins = 2
  Lockout = 1
  MaxClock = 1
  MaxWrong = 3
  MaxOverlaps = 1
  NoRow = NoRow
  NoAccount = NoAccount
  NoKey = NoKey
SYMMETRY Interchangeable
INVARIANTS
  TypeOK
  KillSwitchHolds
  GuessesBounded
