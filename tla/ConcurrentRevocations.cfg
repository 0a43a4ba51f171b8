SPECIFICATION Spec
CONSTANTS
  Handler = {p1, p2}
  Subject = {s1, s2}
  ResidentId = {r1, r2}
  NoOne = NoOne
  NoRow = NoRow
  Tombstone = Tombstone
  IndexBound = 2
  ListSize = 2
  ActivateOnDelivery = FALSE
  AllowProvisional = FALSE
  Stoppable = {}
  RelationshipTargets = {}
  CredentialTargets = {"REVOKED"}
INVARIANT BelievedDeadIsDead
