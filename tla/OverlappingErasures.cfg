SPECIFICATION FairSpec
CONSTANTS
  Handler = {p1, p2}
  Subject = {s1, s2}
  ResidentId = {r1, r2}
  NoOne = NoOne
  NoRow = NoRow
  Tombstone = Tombstone
  IndexBound = 2
  ListSize = 1
  ActivateOnDelivery = FALSE
  AllowProvisional = FALSE
  Stoppable = {p1}
  RelationshipTargets = {"ENDED"}
  CredentialTargets = {}
INVARIANT OneIndexOneResident
PROPERTY ErasureCompletes
\* Enrolments that stopped may use up the indices and leave nothing to ask for.
CHECK_DEADLOCK FALSE
