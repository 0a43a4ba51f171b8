SPECIFICATION Spec
CONSTANTS
  Handler = {p1}
  Subject = {s1, s2}
  ResidentId = {r1, r2}
  NoOne = NoOne
  NoRow = NoRow
  Tombstone = Tombstone
  IndexBound = 2
  ListSize = 2
  ActivateOnDelivery = TRUE
  AllowProvisional = TRUE
  Stoppable = {p1}
  RelationshipTargets = {"SUSPENDED", "ACTIVE", "ENDED"}
  CredentialTargets = {"SUSPENDED", "ACTIVE", "REPLACED"}
SYMMETRY Interchangeable
INVARIANTS
  TypeOK
  BelievedDeadIsDead
  RecordAndListsAgree
PROPERTIES
  SuspendedUntilReinstated
  RevokedBeforeErased
  PublishedSpec
\* Enrolments that stopped may use up the indices and leave nothing to ask for.
CHECK_DEADLOCK FALSE
