SPECIFICATION FairSpec
CONSTANTS
  Desk = {d1}
  Handler = {q1, q2}
  Notice = {n1}
  Resident = {r1}
  Policy <- Policies
  MaxAttempts = 2
  FaultBound = 1
  NoNotice = NoNotice
  NoResident = NoResident
  NoRow = NoRow
  NoCall = NoCall
INVARIANTS
  TypeOK
  SentIsReceived
  MovesOnce
  ReversalHolds
PROPERTIES
  NoticeArrives
  GraceEnds
CHECK_DEADLOCK FALSE
