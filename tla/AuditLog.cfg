SPECIFICATION Spec
CONSTANTS
  Writer = {w1, w2}
  Subject = {s1}
  Metadata = {"kept"}
  NoSubject = NoSubject
  Redacted = Redacted
  NoEvent = NoEvent
  NoCheckpoint = NoCheckpoint
  MaxEvents = 3
  OutsideBound = 1
SYMMETRY Interchangeable
INVARIANTS
  TypeOK
  UntouchedVerifies
  OutsideChangeReported
  WorkedThrough
