------------------------ MODULE ResidencyRegisterProofs ------------------------
(***************************************************************************)
(* What the register keeps for any number of residents, subjects, indices  *)
(* and handlers, and what it keeps once two of them neither hold the same  *)
(* list nor work for the same resident.                                    *)
(***************************************************************************)
EXTENDS ResidencyRegister, TLAPS

----------------------------------------------------------------------------
(* The inductive strengthening of TypeOK: what a handler holds at each of  *)
(* its steps.                                                              *)

\* The steps at which a handler holds the row it read.
HoldsRow == {"decide", "load", "store", "persist", "relationship", "confirm"}

\* The steps at which it works for a resident whose row was there.
KnowsResident == HoldsRow \cup {"find", "deliver", "erase"}

HandlerHolds ==
  \A p \in Handler :
    LET h == handler[p] IN
    /\ h.step \in KnowsResident => h.resident \in ResidentId /\ Exists(h.resident)
    /\ h.step \in {"index", "enrol", "linkFind", "linkSave"} => h.resident \in ResidentId
    /\ h.step \in IssueStep => h.subject \in Subject
    /\ h.step \in HoldsRow => h.row \in Row
    /\ h.step \in {"load", "store"} => h.queue # <<>>

TypeInv == TypeOK /\ HandlerHolds

\* A queue is read from its front, and what is left of it is a queue.
LEMMA QueueType ==
  ASSUME NEW q \in PublishQueue, q # <<>>
  PROVE  /\ Head(q) \in Change
         /\ Tail(q) \in PublishQueue
         /\ Head(q) \in {SetRevocation, SetSuspension, ClearSuspension}
         /\ Tail(q) # <<>> => q = <<SetRevocation, ClearSuspension>>
<1>1. {SetRevocation, SetSuspension, ClearSuspension} \subseteq Change
  BY DEF Change, StatusPurpose, SetRevocation, SetSuspension, ClearSuspension
<1>2. CASE q = <<SetSuspension>>
  <2>1. Head(q) = SetSuspension /\ Tail(q) = <<>>
    BY <1>2
  <2> QED BY <2>1, <1>1 DEF PublishQueue
<1>3. CASE q = <<ClearSuspension>>
  <2>1. Head(q) = ClearSuspension /\ Tail(q) = <<>>
    BY <1>3
  <2> QED BY <2>1, <1>1 DEF PublishQueue
<1>4. CASE q = <<SetRevocation, ClearSuspension>>
  <2>1. Head(q) = SetRevocation /\ Tail(q) = <<ClearSuspension>>
    BY <1>4
  <2> QED BY <2>1, <1>1, <1>4 DEF PublishQueue
<1> QED BY <1>2, <1>3, <1>4 DEF PublishQueue

\* What a transition publishes is a queue, and never an empty one for a
\* state some transition enters.
LEMMA PublishType ==
  ASSUME NEW to \in CredentialStatus
  PROVE  /\ Publish(to) \in PublishQueue
         /\ to # "ISSUED" => Publish(to) # <<>>
BY DEF Publish, PublishQueue, CredentialStatus, TerminalCredential

\* A save leaves a row.
LEMMA SavedType ==
  ASSUME NEW old \in Row, NEW new \in Row
  PROVE  Saved(old, new) \in Row
BY DEF Saved, SavedCredential, Row, CredentialStatus

LEMMA InitTypeInv == Init => TypeInv
<1> SUFFICES ASSUME Init PROVE TypeInv
  OBVIOUS
<1>1. Idle \in HandlerState
  BY RegisterAssumption DEF Idle, HandlerState, Operation, CredentialStatus, PublishQueue, Index
<1>2. TypeOK
  BY <1>1, RegisterAssumption DEF Init, TypeOK, StatusPurpose, Index
<1>3. HandlerHolds
  BY DEF Init, HandlerHolds, KnowsResident, HoldsRow, IssueStep, Idle
<1> QED BY <1>2, <1>3 DEF TypeInv

\* A step of one handler that leaves every row a row, and the handler holding
\* what its step needs, keeps the invariant for the others as well.
LEMMA HandlerMoves ==
  ASSUME TypeInv, NEW p \in Handler, NEW next \in HandlerState, Goes(p, next),
         residents' \in [ResidentId -> Row \cup {NoRow}],
         \A r \in ResidentId : Exists(r) => residents'[r] # NoRow,
         next.step \in KnowsResident
           => next.resident \in ResidentId /\ residents'[next.resident] # NoRow,
         next.step \in {"index", "enrol", "linkFind", "linkSave"} => next.resident \in ResidentId,
         next.step \in IssueStep => next.subject \in Subject,
         next.step \in HoldsRow => next.row \in Row,
         next.step \in {"load", "store"} => next.queue # <<>>
  PROVE  handler' \in [Handler -> HandlerState] /\ HandlerHolds'
<1>1. handler' \in [Handler -> HandlerState]
  BY DEF Goes, TypeInv, TypeOK
<1>2. ASSUME NEW q \in Handler
      PROVE  LET h == handler'[q] IN
             /\ h.step \in KnowsResident => h.resident \in ResidentId /\ residents'[h.resident] # NoRow
             /\ h.step \in {"index", "enrol", "linkFind", "linkSave"} => h.resident \in ResidentId
             /\ h.step \in IssueStep => h.subject \in Subject
             /\ h.step \in HoldsRow => h.row \in Row
             /\ h.step \in {"load", "store"} => h.queue # <<>>
  <2>1. CASE q = p
    <3>1. handler'[q] = next
      BY <2>1 DEF Goes, TypeInv, TypeOK
    <3> QED BY <3>1
  <2>2. CASE q # p
    <3>1. handler'[q] = handler[q]
      BY <2>2 DEF Goes, TypeInv, TypeOK
    <3> QED BY <3>1 DEF TypeInv, HandlerHolds, Exists
  <2> QED BY <2>1, <2>2
<1> QED BY <1>1, <1>2 DEF HandlerHolds, Exists

LEMMA IdleType == Idle \in HandlerState
BY RegisterAssumption DEF Idle, HandlerState, Operation, CredentialStatus, PublishQueue, Index

LEMMA HandlerFinishes ==
  ASSUME TypeInv, NEW p \in Handler, Finishes(p),
         residents' \in [ResidentId -> Row \cup {NoRow}],
         \A r \in ResidentId : Exists(r) => residents'[r] # NoRow
  PROVE  handler' \in [Handler -> HandlerState] /\ HandlerHolds'
BY IdleType, HandlerMoves
   DEF Finishes, Idle, KnowsResident, HoldsRow, IssueStep

\* Writing a row over a row leaves the table a table and loses no row.
LEMMA SavesType ==
  ASSUME TypeInv, NEW r \in ResidentId, Exists(r), NEW row \in Row, Saves(r, row)
  PROVE  /\ residents' \in [ResidentId -> Row \cup {NoRow}]
         /\ \A q \in ResidentId : Exists(q) => residents'[q] # NoRow
<1>1. residents[r] \in Row
  BY DEF TypeInv, TypeOK, Exists
<1>2. Saved(residents[r], row) \in Row
  BY <1>1, SavedType
<1> QED BY <1>2, RegisterAssumption DEF Saves, Exists, TypeInv, TypeOK

----------------------------------------------------------------------------
(* Each operation keeps the invariant.                                     *)

LEMMA RequestTypeInv ==
  ASSUME TypeInv, NEW p \in Handler, Request(p)
  PROVE  TypeInv'
<1>0. /\ UNCHANGED Store
      /\ Idle \in HandlerState
  BY IdleType DEF Request, RequestIssue, RequestTransition, RequestRelationship,
     RequestDelivery, RequestReconcile, RequestExpiry, RequestErasure
<1> SUFFICES handler' \in [Handler -> HandlerState] /\ HandlerHolds'
  BY <1>0 DEF Store, TypeInv, TypeOK
<1>a. /\ residents' \in [ResidentId -> Row \cup {NoRow}]
      /\ \A r \in ResidentId : Exists(r) => residents'[r] # NoRow
      /\ \A r \in ResidentId : Exists(r) => residents[r] \in Row
  BY <1>0 DEF Store, TypeInv, TypeOK, Exists
<1>1. ASSUME NEW s \in Subject, NEW offline \in BOOLEAN, RequestIssue(p, s, offline)
      PROVE  handler' \in [Handler -> HandlerState] /\ HandlerHolds'
  <2> DEFINE next == [Idle EXCEPT !.step = "resolve", !.op = "issue",
                                  !.subject = s, !.offline = offline]
  <2>1. next \in HandlerState /\ next.step = "resolve" /\ next.subject = s
    BY <1>0 DEF HandlerState, IssueStep, Operation, Idle
  <2> QED BY <1>1, <1>a, <2>1, HandlerMoves
          DEF RequestIssue, KnowsResident, HoldsRow, IssueStep
<1>2. ASSUME NEW r \in ResidentId, NEW to \in CredentialTargets, RequestTransition(p, r, to)
      PROVE  handler' \in [Handler -> HandlerState] /\ HandlerHolds'
  <2> DEFINE next == [Idle EXCEPT !.step = "find", !.op = "transition",
                                  !.resident = r, !.to = to]
  <2>1. next \in HandlerState /\ next.step = "find" /\ next.resident = r
    BY <1>0, RegisterAssumption DEF HandlerState, TransitionStep, Operation, Idle
  <2> QED BY <1>0, <1>2, <1>a, <2>1, HandlerMoves
          DEF RequestTransition, KnowsResident, HoldsRow, IssueStep, Store, Exists
<1>3. ASSUME NEW r \in ResidentId, NEW to \in RelationshipTargets, RequestRelationship(p, r, to)
      PROVE  handler' \in [Handler -> HandlerState] /\ HandlerHolds'
  <2> DEFINE row == [residents[r] EXCEPT !.relationship = to]
             next == [Idle EXCEPT !.step = "relationship", !.op = "relationship",
                                  !.resident = r, !.row = row]
  <2>0. row \in Row
    BY <1>a, <1>3, RegisterAssumption DEF RequestRelationship, Row
  <2>1. next \in HandlerState /\ next.step = "relationship" /\ next.resident = r /\ next.row = row
    BY <1>0, <2>0 DEF HandlerState, OwnStep, Operation, Idle
  <2> QED BY <1>0, <1>3, <1>a, <2>0, <2>1, HandlerMoves
          DEF RequestRelationship, KnowsResident, HoldsRow, IssueStep, Store, Exists
<1>4. ASSUME NEW r \in ResidentId, RequestDelivery(p, r)
      PROVE  handler' \in [Handler -> HandlerState] /\ HandlerHolds'
  <2> DEFINE next == [Idle EXCEPT !.step = "deliver", !.op = "delivery", !.resident = r]
  <2>1. next \in HandlerState /\ next.step = "deliver" /\ next.resident = r
    BY <1>0 DEF HandlerState, OwnStep, Operation, Idle
  <2> QED BY <1>0, <1>4, <1>a, <2>1, HandlerMoves
          DEF RequestDelivery, KnowsResident, HoldsRow, IssueStep, Store, Exists
<1>5. ASSUME NEW r \in ResidentId, RequestReconcile(p, r)
      PROVE  handler' \in [Handler -> HandlerState] /\ HandlerHolds'
  <2> DEFINE next == [Idle EXCEPT !.step = "confirm", !.op = "reconcile",
                                  !.resident = r, !.row = residents[r]]
  <2>0. residents[r] \in Row
    BY <1>a, <1>5 DEF RequestReconcile
  <2>1. /\ next \in HandlerState
        /\ next.step = "confirm" /\ next.resident = r /\ next.row = residents[r]
    BY <1>0, <2>0 DEF HandlerState, OwnStep, Operation, Idle
  <2> QED BY <1>0, <1>5, <1>a, <2>0, <2>1, HandlerMoves
          DEF RequestReconcile, KnowsResident, HoldsRow, IssueStep, Store, Exists
<1>6. ASSUME NEW r \in ResidentId, RequestExpiry(p, r) \/ RequestErasure(p, r)
      PROVE  handler' \in [Handler -> HandlerState] /\ HandlerHolds'
  <2>1. PICK op \in {"expire", "erase"} :
          Goes(p, [Idle EXCEPT !.step = "find", !.op = op, !.resident = r, !.to = "REVOKED"])
    BY <1>6 DEF RequestExpiry, RequestErasure
  <2> DEFINE next == [Idle EXCEPT !.step = "find", !.op = op, !.resident = r, !.to = "REVOKED"]
  <2>2. next \in HandlerState /\ next.step = "find" /\ next.resident = r
    BY <1>0 DEF HandlerState, TransitionStep, Operation, CredentialStatus, Idle
  <2>3. Exists(r)
    BY <1>6 DEF RequestExpiry, RequestErasure
  <2> QED BY <1>0, <1>a, <2>1, <2>2, <2>3, HandlerMoves
          DEF KnowsResident, HoldsRow, IssueStep, Store, Exists
<1> QED BY <1>1, <1>2, <1>3, <1>4, <1>5, <1>6 DEF Request

\* transitionCredential.
LEMMA TransitionTypeInv ==
  ASSUME TypeInv, NEW p \in Handler,
         \/ FindResident(p) \/ DecideTransition(p) \/ LoadList(p) \/ StoreList(p)
         \/ PersistTransition(p)
  PROVE  TypeInv'
<1> DEFINE h == handler[p]
<1>h. h \in HandlerState
  BY DEF TypeInv, TypeOK
<1>t. /\ residents \in [ResidentId -> Row \cup {NoRow}]
      /\ statusLists \in [StatusPurpose -> SUBSET Index]
  BY DEF TypeInv, TypeOK
<1>1. CASE FindResident(p)
  <2> DEFINE next == [h EXCEPT !.step = "decide", !.row = residents[h.resident]]
  <2>1. h.resident \in ResidentId /\ Exists(h.resident)
    BY <1>1 DEF FindResident, TypeInv, HandlerHolds, KnowsResident
  <2>2. residents[h.resident] \in Row
    BY <1>t, <2>1 DEF Exists
  <2>3. /\ next \in HandlerState
        /\ next.step = "decide" /\ next.resident = h.resident /\ next.row = residents[h.resident]
    BY <1>h, <2>2 DEF HandlerState, TransitionStep
  <2>4. handler' \in [Handler -> HandlerState] /\ HandlerHolds'
    BY <1>1, <1>t, <2>1, <2>2, <2>3, HandlerMoves
       DEF FindResident, Store, Exists, KnowsResident, HoldsRow, IssueStep
  <2> QED BY <1>1, <2>4 DEF FindResident, Store, TypeInv, TypeOK
<1>2. CASE DecideTransition(p)
  <2>1. h.step = "decide" /\ h.resident \in ResidentId /\ Exists(h.resident) /\ h.row \in Row
    BY <1>2 DEF DecideTransition, TypeInv, HandlerHolds, KnowsResident, HoldsRow
  <2>2. /\ \A r \in ResidentId : Exists(r) => residents'[r] # NoRow
        /\ residents' = residents
    BY <1>2 DEF DecideTransition, Store, Exists
  <2>3. CASE Finishes(p)
    <3>1. handler' \in [Handler -> HandlerState] /\ HandlerHolds'
      BY <1>t, <2>2, <2>3, HandlerFinishes
    <3> QED BY <1>2, <3>1 DEF DecideTransition, Store, TypeInv, TypeOK
  <2>4. CASE Goes(p, [h EXCEPT !.step = "erase"])
    <3> DEFINE next == [h EXCEPT !.step = "erase"]
    <3>1. next \in HandlerState /\ next.step = "erase" /\ next.resident = h.resident
      BY <1>h DEF HandlerState, OwnStep
    <3>2. handler' \in [Handler -> HandlerState] /\ HandlerHolds'
      BY <1>t, <2>1, <2>2, <2>4, <3>1, HandlerMoves DEF Exists, HoldsRow, IssueStep
    <3> QED BY <1>2, <3>2 DEF DecideTransition, Store, TypeInv, TypeOK
  <2>5. CASE /\ CanTransitionCredential(CurrentCredential(h.row), h.to)
             /\ Goes(p, [h EXCEPT !.step = "load", !.queue = Publish(h.to)])
    <3> DEFINE next == [h EXCEPT !.step = "load", !.queue = Publish(h.to)]
    <3>1. h.to \in CredentialStatus
      BY <1>h DEF HandlerState
    <3>2. h.to # "ISSUED"
      BY <2>5 DEF CanTransitionCredential, CredentialTransitions, TerminalCredential
    <3>3. Publish(h.to) \in PublishQueue /\ Publish(h.to) # <<>>
      BY <3>1, <3>2, PublishType
    <3>4. /\ next \in HandlerState /\ next.step = "load" /\ next.resident = h.resident
          /\ next.row = h.row /\ next.queue = Publish(h.to)
      BY <1>h, <3>3 DEF HandlerState, TransitionStep
    <3>5. handler' \in [Handler -> HandlerState] /\ HandlerHolds'
      BY <1>t, <2>1, <2>2, <2>5, <3>3, <3>4, HandlerMoves DEF Exists, IssueStep
    <3> QED BY <1>2, <3>5 DEF DecideTransition, Store, TypeInv, TypeOK
  <2> QED BY <1>2, <2>3, <2>4, <2>5 DEF DecideTransition, Returns
<1>3. CASE LoadList(p)
  <2> DEFINE list == statusLists[Head(h.queue).purpose]
             next == [h EXCEPT !.step = "store", !.list = list]
  <2>1. /\ h.step = "load" /\ h.resident \in ResidentId /\ Exists(h.resident)
        /\ h.row \in Row /\ h.queue # <<>>
    BY <1>3 DEF LoadList, TypeInv, HandlerHolds, KnowsResident, HoldsRow
  <2>2. list \in SUBSET Index
    <3>1. h.queue \in PublishQueue
      BY <1>h DEF HandlerState
    <3>2. Head(h.queue).purpose \in StatusPurpose
      BY <2>1, <3>1, QueueType DEF Change
    <3> QED BY <1>t, <3>2
  <2>3. /\ next \in HandlerState /\ next.step = "store" /\ next.resident = h.resident
        /\ next.row = h.row /\ next.queue = h.queue
    BY <1>h, <2>2 DEF HandlerState, TransitionStep
  <2>4. handler' \in [Handler -> HandlerState] /\ HandlerHolds'
    BY <1>3, <1>t, <2>1, <2>3, HandlerMoves DEF LoadList, Store, Exists, IssueStep
  <2> QED BY <1>3, <2>4 DEF LoadList, Store, TypeInv, TypeOK
<1>4. CASE StoreList(p)
  <2> DEFINE change == Head(h.queue)
             rest == Tail(h.queue)
             bits == WithBit(h.list, h.row.index, change.set)
             next == [h EXCEPT !.step = IF rest = <<>> THEN "persist" ELSE "load",
                               !.queue = rest, !.list = {}]
  <2>1. /\ h.step = "store" /\ h.resident \in ResidentId /\ Exists(h.resident)
        /\ h.row \in Row /\ h.queue # <<>>
    BY <1>4 DEF StoreList, TypeInv, HandlerHolds, KnowsResident, HoldsRow
  <2>2. h.queue \in PublishQueue /\ h.list \in SUBSET Index
    BY <1>h DEF HandlerState
  <2>3. change \in Change /\ rest \in PublishQueue
    BY <2>1, <2>2, QueueType
  <2>4. bits \in SUBSET Index
    BY <2>1, <2>2, <2>3 DEF WithBit, Row, Change
  <2>5. statusLists' \in [StatusPurpose -> SUBSET Index]
    <3>1. CASE InList(h.row.index)
      BY <1>4, <1>t, <2>3, <2>4, <3>1 DEF StoreList, Change
    <3>2. CASE ~InList(h.row.index)
      BY <1>4, <1>t, <3>2 DEF StoreList
    <3> QED BY <3>1, <3>2
  <2>6. residents' = residents
    BY <1>4 DEF StoreList
  <2>7. handler' \in [Handler -> HandlerState] /\ HandlerHolds'
    <3>1. CASE InList(h.row.index)
      <4>1. Goes(p, next)
        BY <1>4, <3>1 DEF StoreList
      <4>2. next.step \in {"persist", "load"} /\ (next.step = "load" => rest # <<>>)
        BY <1>h DEF HandlerState
      <4>3. /\ next \in HandlerState /\ next.resident = h.resident
            /\ next.row = h.row /\ next.queue = rest
        BY <1>h, <2>3 DEF HandlerState, TransitionStep
      <4> HIDE DEF next
      <4> QED BY <1>t, <2>1, <2>6, <4>1, <4>2, <4>3, HandlerMoves DEF Exists, IssueStep
    <3>2. CASE ~InList(h.row.index)
      BY <1>4, <1>t, <2>6, <3>2, HandlerFinishes DEF StoreList, Exists
    <3> QED BY <3>1, <3>2
  <2> QED BY <1>4, <2>5, <2>7 DEF StoreList, TypeInv, TypeOK
<1>5. CASE PersistTransition(p)
  <2> DEFINE row == [h.row EXCEPT !.credential = h.to]
  <2>1. /\ h.step = "persist" /\ h.resident \in ResidentId /\ Exists(h.resident)
        /\ h.row \in Row
    BY <1>5 DEF PersistTransition, TypeInv, HandlerHolds, KnowsResident, HoldsRow
  <2>2. row \in Row
    BY <1>h, <2>1 DEF HandlerState, Row
  <2>3. /\ residents' \in [ResidentId -> Row \cup {NoRow}]
        /\ \A r \in ResidentId : Exists(r) => residents'[r] # NoRow
    <3>1. CASE SubjectFree(h.resident, h.row.subject)
      BY <1>5, <2>1, <2>2, <3>1, SavesType DEF PersistTransition
    <3>2. CASE ~SubjectFree(h.resident, h.row.subject)
      BY <1>5, <1>t, <3>2 DEF PersistTransition, Exists
    <3> QED BY <3>1, <3>2
  <2>4. CASE Finishes(p)
    <3>1. handler' \in [Handler -> HandlerState] /\ HandlerHolds'
      BY <2>3, <2>4, HandlerFinishes
    <3> QED BY <1>5, <2>3, <3>1 DEF PersistTransition, TypeInv, TypeOK
  <2>5. CASE Goes(p, [h EXCEPT !.step = "erase"])
    <3> DEFINE next == [h EXCEPT !.step = "erase"]
    <3>1. next \in HandlerState /\ next.step = "erase" /\ next.resident = h.resident
      BY <1>h DEF HandlerState, OwnStep
    <3>2. handler' \in [Handler -> HandlerState] /\ HandlerHolds'
      BY <2>1, <2>3, <2>5, <3>1, HandlerMoves DEF HoldsRow, IssueStep
    <3> QED BY <1>5, <2>3, <3>2 DEF PersistTransition, TypeInv, TypeOK
  <2> QED BY <1>5, <2>4, <2>5 DEF PersistTransition, Returns
<1> QED BY <1>1, <1>2, <1>3, <1>4, <1>5

\* The saves of transitionRelationship and reconcile, and store.erase.
LEMMA OwnTypeInv ==
  ASSUME TypeInv, NEW p \in Handler,
         PersistRelationship(p) \/ RecordDelivery(p) \/ Confirm(p) \/ Erase(p)
  PROVE  TypeInv'
<1> DEFINE h == handler[p]
<1>h. h \in HandlerState
  BY DEF TypeInv, TypeOK
<1>t. residents \in [ResidentId -> Row \cup {NoRow}]
  BY DEF TypeInv, TypeOK
<1>1. ASSUME NEW row \in Row, h.resident \in ResidentId, Exists(h.resident), Finishes(p),
             Saves(h.resident, row) \/ UNCHANGED residents,
             UNCHANGED <<statusLists, nextIndex, links, owner, interrupted>>
      PROVE  TypeInv'
  <2>1. /\ residents' \in [ResidentId -> Row \cup {NoRow}]
        /\ \A r \in ResidentId : Exists(r) => residents'[r] # NoRow
    <3>1. CASE Saves(h.resident, row)
      BY <1>1, <3>1, SavesType
    <3>2. CASE UNCHANGED residents
      BY <1>t, <3>2 DEF Exists
    <3> QED BY <1>1, <3>1, <3>2
  <2>2. handler' \in [Handler -> HandlerState] /\ HandlerHolds'
    BY <1>1, <2>1, HandlerFinishes
  <2> QED BY <1>1, <2>1, <2>2 DEF TypeInv, TypeOK
<1>2. CASE PersistRelationship(p)
  <2>1. h.resident \in ResidentId /\ Exists(h.resident) /\ h.row \in Row
    BY <1>2 DEF PersistRelationship, TypeInv, HandlerHolds, KnowsResident, HoldsRow
  <2> QED BY <1>1, <1>2, <2>1 DEF PersistRelationship
<1>3. CASE Confirm(p)
  <2> DEFINE row == [h.row EXCEPT !.provisional = FALSE]
  <2>1. h.resident \in ResidentId /\ Exists(h.resident) /\ h.row \in Row
    BY <1>3 DEF Confirm, TypeInv, HandlerHolds, KnowsResident, HoldsRow
  <2>2. row \in Row
    BY <2>1 DEF Row
  <2> QED BY <1>1, <1>3, <2>1, <2>2 DEF Confirm
<1>4. CASE RecordDelivery(p)
  <2> DEFINE next == [h EXCEPT !.step = "find", !.to = "ACTIVE"]
  <2>1. h.resident \in ResidentId /\ Exists(h.resident)
    BY <1>4 DEF RecordDelivery, TypeInv, HandlerHolds, KnowsResident
  <2>2. residents' = residents /\ \A r \in ResidentId : Exists(r) => residents'[r] # NoRow
    BY <1>4 DEF RecordDelivery, Store, Exists
  <2>3. /\ next \in HandlerState
        /\ next.step = "find" /\ next.resident = h.resident
    BY <1>h DEF HandlerState, TransitionStep, CredentialStatus
  <2>4. handler' \in [Handler -> HandlerState] /\ HandlerHolds'
    <3>1. CASE Goes(p, next)
      BY <1>t, <2>1, <2>2, <2>3, <3>1, HandlerMoves DEF Exists, HoldsRow, KnowsResident, IssueStep
    <3>2. CASE Finishes(p)
      BY <1>t, <2>2, <3>2, HandlerFinishes
    <3> QED BY <1>4, <3>1, <3>2 DEF RecordDelivery
  <2> QED BY <1>4, <2>4 DEF RecordDelivery, Store, TypeInv, TypeOK
<1>5. CASE Erase(p)
  <2>1. h.resident \in ResidentId /\ Exists(h.resident)
    BY <1>5 DEF Erase, TypeInv, HandlerHolds, KnowsResident
  <2>2. residents[h.resident] \in Row
    BY <1>t, <2>1 DEF Exists
  <2>3. [residents[h.resident] EXCEPT !.subject = Tombstone, !.person = FALSE, !.erased = TRUE] \in Row
    BY <2>2 DEF Row
  <2>4. residents' = [residents EXCEPT ![h.resident] =
          [residents[h.resident] EXCEPT !.subject = Tombstone, !.person = FALSE, !.erased = TRUE]]
    BY <1>5, <1>t, <2>1, <2>2 DEF Erase, Row
  <2>5. /\ residents' \in [ResidentId -> Row \cup {NoRow}]
        /\ \A r \in ResidentId : Exists(r) => residents'[r] # NoRow
    BY <1>t, <2>1, <2>3, <2>4, RegisterAssumption DEF Exists
  <2>6. handler' \in [Handler -> HandlerState] /\ HandlerHolds'
    BY <1>5, <2>5, HandlerFinishes DEF Erase
  <2> QED BY <1>5, <2>5, <2>6 DEF Erase, TypeInv, TypeOK
<1> QED BY <1>2, <1>3, <1>4, <1>5

\* issue.
LEMMA IssueTypeInv ==
  ASSUME TypeInv, NEW p \in Handler,
         \/ ResolvePerson(p) \/ MatchPerson(p) \/ TakeIndex(p) \/ Enrol(p)
         \/ FindLink(p) \/ SaveLink(p)
  PROVE  TypeInv'
<1> DEFINE h == handler[p]
<1>h. h \in HandlerState
  BY DEF TypeInv, TypeOK
<1>t. /\ residents \in [ResidentId -> Row \cup {NoRow}]
      /\ links \in [Subject -> ResidentId \cup {NoOne}]
      /\ \A r \in ResidentId : Exists(r) => residents[r] # NoRow
  BY DEF TypeInv, TypeOK, Exists
<1>1. CASE ResolvePerson(p)
  <2> DEFINE next == [h EXCEPT !.step = "match", !.resident = links[h.subject]]
  <2>1. h.subject \in Subject
    BY <1>1 DEF ResolvePerson, TypeInv, HandlerHolds, IssueStep
  <2>2. next \in HandlerState /\ next.step = "match" /\ next.subject = h.subject
    BY <1>h, <1>t, <2>1 DEF HandlerState, IssueStep
  <2>3. handler' \in [Handler -> HandlerState] /\ HandlerHolds'
    BY <1>1, <1>t, <2>1, <2>2, HandlerMoves
       DEF ResolvePerson, Store, Exists, KnowsResident, HoldsRow
  <2> QED BY <1>1, <2>3 DEF ResolvePerson, Store, TypeInv, TypeOK
<1>2. CASE MatchPerson(p)
  <2>1. h.subject \in Subject
    BY <1>2 DEF MatchPerson, TypeInv, HandlerHolds, IssueStep
  <2>2. residents' = residents /\ \A r \in ResidentId : Exists(r) => residents'[r] # NoRow
    BY <1>2 DEF MatchPerson, Store, Exists
  <2>3. Candidates(h) \subseteq ResidentId
    BY <1>h DEF Candidates, Holder, HandlerState
  <2>4. CASE Finishes(p)
    <3>1. handler' \in [Handler -> HandlerState] /\ HandlerHolds'
      BY <1>t, <2>2, <2>4, HandlerFinishes
    <3> QED BY <1>2, <3>1 DEF MatchPerson, Store, TypeInv, TypeOK
  <2>5. ASSUME NEW r \in ResidentId,
               Goes(p, [h EXCEPT !.step = "index", !.resident = r, !.row = residents[r]])
        PROVE  TypeInv'
    <3> DEFINE next == [h EXCEPT !.step = "index", !.resident = r, !.row = residents[r]]
    <3>1. /\ next \in HandlerState
          /\ next.step = "index" /\ next.resident = r /\ next.subject = h.subject
      BY <1>h, <1>t DEF HandlerState, IssueStep
    <3>2. handler' \in [Handler -> HandlerState] /\ HandlerHolds'
      BY <1>t, <2>1, <2>2, <2>5, <3>1, HandlerMoves DEF KnowsResident, HoldsRow
    <3> QED BY <1>2, <3>2 DEF MatchPerson, Store, TypeInv, TypeOK
  <2> QED BY <1>2, <2>3, <2>4, <2>5 DEF MatchPerson
<1>3. CASE TakeIndex(p)
  <2> DEFINE next == [h EXCEPT !.step = "enrol", !.index = nextIndex]
  <2>1. /\ h.subject \in Subject /\ h.resident \in ResidentId
        /\ nextIndex \in Nat /\ nextIndex < IndexBound
    BY <1>3, RegisterAssumption DEF TakeIndex, TypeInv, TypeOK, HandlerHolds, IssueStep
  <2>2. /\ Reserved(Incremented(nextIndex)) = nextIndex
        /\ nextIndex \in Index /\ nextIndex + 1 \in 0 .. IndexBound
    BY <2>1, RegisterAssumption DEF Reserved, Incremented, Index
  <2>3. /\ next \in HandlerState
        /\ next.step = "enrol" /\ next.resident = h.resident /\ next.subject = h.subject
    BY <1>h, <2>2 DEF HandlerState, IssueStep
  <2>4. /\ Goes(p, next)
        /\ residents' = residents
        /\ \A r \in ResidentId : Exists(r) => residents'[r] # NoRow
    BY <1>3, <2>2 DEF TakeIndex, Exists
  <2>5. handler' \in [Handler -> HandlerState] /\ HandlerHolds'
    BY <1>t, <2>1, <2>3, <2>4, HandlerMoves DEF KnowsResident, HoldsRow
  <2>6. nextIndex' \in 0 .. IndexBound /\ owner' \in [Index -> ResidentId \cup {NoOne}]
    BY <1>3, <2>1, <2>2 DEF TakeIndex, Incremented, TypeInv, TypeOK
  <2> QED BY <1>3, <2>5, <2>6 DEF TakeIndex, TypeInv, TypeOK
<1>4. CASE Enrol(p)
  <2> DEFINE next == [h EXCEPT !.step = "linkFind"]
  <2>1. h.subject \in Subject /\ h.resident \in ResidentId
    BY <1>4 DEF Enrol, TypeInv, HandlerHolds, IssueStep
  <2>2. NewRow(h) \in Row
    BY <1>h, <2>1, RegisterAssumption DEF NewRow, Row, HandlerState, RelationshipStatus, CredentialStatus
  <2>3. next \in HandlerState /\ next.step = "linkFind" /\ next.resident = h.resident /\ next.subject = h.subject
    BY <1>h DEF HandlerState, IssueStep
  <2>4. CASE Finishes(p) /\ UNCHANGED residents
    <3>1. handler' \in [Handler -> HandlerState] /\ HandlerHolds'
      BY <1>t, <2>4, HandlerFinishes
    <3> QED BY <1>4, <2>4, <3>1 DEF Enrol, TypeInv, TypeOK
  <2>5. CASE /\ residents' = [residents EXCEPT ![h.resident] =
                  IF @ = NoRow THEN NewRow(h) ELSE Saved(@, NewRow(h))]
             /\ Goes(p, next)
    <3>1. (IF residents[h.resident] = NoRow THEN NewRow(h)
             ELSE Saved(residents[h.resident], NewRow(h))) \in Row
      BY <1>t, <2>1, <2>2, SavedType
    <3>2. /\ residents' \in [ResidentId -> Row \cup {NoRow}]
          /\ \A r \in ResidentId : Exists(r) => residents'[r] # NoRow
      BY <1>t, <2>1, <2>5, <3>1, RegisterAssumption DEF Exists
    <3>3. handler' \in [Handler -> HandlerState] /\ HandlerHolds'
      BY <2>1, <2>3, <2>5, <3>2, HandlerMoves DEF KnowsResident, HoldsRow
    <3> QED BY <1>4, <3>2, <3>3 DEF Enrol, TypeInv, TypeOK
  <2> QED BY <1>4, <2>4, <2>5 DEF Enrol
<1>5. CASE FindLink(p)
  <2> DEFINE next == [h EXCEPT !.step = "linkSave"]
  <2>1. h.subject \in Subject /\ h.resident \in ResidentId
    BY <1>5 DEF FindLink, TypeInv, HandlerHolds, IssueStep
  <2>2. next \in HandlerState /\ next.step = "linkSave" /\ next.resident = h.resident /\ next.subject = h.subject
    BY <1>h DEF HandlerState, IssueStep
  <2>3. residents' = residents
    BY <1>5 DEF FindLink, Store
  <2>4. handler' \in [Handler -> HandlerState] /\ HandlerHolds'
    <3>1. CASE Goes(p, next)
      BY <1>t, <2>1, <2>2, <2>3, <3>1, HandlerMoves DEF KnowsResident, HoldsRow
    <3>2. CASE Finishes(p)
      BY <1>t, <2>3, <3>2, HandlerFinishes
    <3> QED BY <1>5, <3>1, <3>2 DEF FindLink
  <2> QED BY <1>5, <2>4 DEF FindLink, Store, TypeInv, TypeOK
<1>6. CASE SaveLink(p)
  <2>1. h.resident \in ResidentId
    BY <1>6 DEF SaveLink, TypeInv, HandlerHolds
  <2>2. links' \in [Subject -> ResidentId \cup {NoOne}]
    BY <1>6, <1>t, <2>1 DEF SaveLink
  <2>3. handler' \in [Handler -> HandlerState] /\ HandlerHolds'
    BY <1>6, <1>t, HandlerFinishes DEF SaveLink
  <2> QED BY <1>6, <2>2, <2>3 DEF SaveLink, TypeInv, TypeOK
<1> QED BY <1>1, <1>2, <1>3, <1>4, <1>5, <1>6

LEMMA NextTypeInv == TypeInv /\ [Next]_vars => TypeInv'
<1> SUFFICES ASSUME TypeInv, [Next]_vars PROVE TypeInv'
  OBVIOUS
<1>1. ASSUME NEW p \in Handler, Request(p) \/ Step(p) \/ Fail(p)
      PROVE  TypeInv'
  <2>1. CASE Request(p)
    BY <2>1, RequestTypeInv
  <2>2. CASE Step(p)
    BY <2>2, TransitionTypeInv, OwnTypeInv, IssueTypeInv DEF Step
  <2>3. CASE Fail(p)
    <3>1. handler' \in [Handler -> HandlerState] /\ HandlerHolds'
      BY <2>3, HandlerFinishes DEF Fail, Tables, TypeInv, TypeOK, Exists
    <3>2. interrupted' \subseteq ResidentId
      BY <2>3 DEF Fail, TypeInv, TypeOK, HandlerHolds, KnowsResident, HoldsRow, Publishing
    <3> QED BY <2>3, <3>1, <3>2 DEF Fail, Tables, TypeInv, TypeOK
  <2> QED BY <1>1, <2>1, <2>2, <2>3
<1>2. CASE UNCHANGED vars
  BY <1>2 DEF vars, TypeInv, TypeOK, HandlerHolds, Exists
<1> QED BY <1>1, <1>2 DEF Next

\* Every variable of the register keeps its type, for any constants, however
\* many handlers run and wherever they stop: in particular the indices handed
\* out never leave their range and no row is ever lost (ResidencyService and
\* the Prisma store).
THEOREM TypeCorrect == Spec => []TypeOK
<1>1. TypeInv => TypeOK
  BY DEF TypeInv
<1> QED BY InitTypeInv, NextTypeInv, <1>1, PTL DEF Spec

----------------------------------------------------------------------------
(* Why no two rows share an index.  A row is written over and over from     *)
(* what some handler read, so the rows alone do not tell: what does is      *)
(* whom each index was taken for.  Every row, and every row or fresh index  *)
(* some handler still holds, carries an index taken for its resident.       *)

IndexInv ==
  /\ \A i \in Index : i >= nextIndex => owner[i] = NoOne
  /\ \A r \in ResidentId : Exists(r) => owner[residents[r].index] = r
  /\ \A p \in Handler :
       LET h == handler[p] IN
       /\ h.step \in HoldsRow => owner[h.row.index] = h.resident
       /\ h.step = "enrol" => owner[h.index] = h.resident

\* Saving a row over another changes its index to the saved row's.
LEMMA SavedIndex ==
  ASSUME NEW old \in Row, NEW new \in Row
  PROVE  Saved(old, new).index = new.index
BY DEF Saved, Row

LEMMA InitIndexInv == Init => IndexInv
BY DEF Init, IndexInv, Exists, Idle, HoldsRow

\* A step that takes no index keeps the invariant if the row it writes, and
\* what its handler holds next, carry their resident's index.
LEMMA IndexKept ==
  ASSUME TypeInv, IndexInv, NEW p \in Handler, NEW next, Goes(p, next),
         UNCHANGED <<nextIndex, owner>>,
         \A r \in ResidentId :
           residents'[r] # NoRow => owner[residents'[r].index] = r,
         next.step \in HoldsRow => owner[next.row.index] = next.resident,
         next.step = "enrol" => owner[next.index] = next.resident
  PROVE  IndexInv'
<1>1. ASSUME NEW q \in Handler
      PROVE  /\ handler'[q].step \in HoldsRow => owner[handler'[q].row.index] = handler'[q].resident
             /\ handler'[q].step = "enrol" => owner[handler'[q].index] = handler'[q].resident
  <2>1. CASE q = p
    <3>1. handler'[q] = next
      BY <2>1 DEF Goes, TypeInv, TypeOK
    <3> QED BY <3>1
  <2>2. CASE q # p
    <3>1. handler'[q] = handler[q]
      BY <2>2 DEF Goes, TypeInv, TypeOK
    <3> QED BY <3>1 DEF IndexInv
  <2> QED BY <2>1, <2>2
<1> QED BY <1>1 DEF IndexInv, Exists

LEMMA IndexKeptFinishing ==
  ASSUME TypeInv, IndexInv, NEW p \in Handler, Finishes(p),
         UNCHANGED <<nextIndex, owner>>,
         \A r \in ResidentId :
           residents'[r] # NoRow => owner[residents'[r].index] = r
  PROVE  IndexInv'
BY IndexKept DEF Finishes, Idle, HoldsRow

\* Saving a row that carries its resident's index.
LEMMA IndexKeptSaving ==
  ASSUME TypeInv, IndexInv, NEW r \in ResidentId, Exists(r), NEW row \in Row,
         Saves(r, row), owner[row.index] = r
  PROVE  \A q \in ResidentId : residents'[q] # NoRow => owner[residents'[q].index] = q
<1>1. residents[r] \in Row
  BY DEF TypeInv, TypeOK, Exists
<1>2. residents'[r] = Saved(residents[r], row)
  BY DEF Saves, TypeInv, TypeOK
<1>3. \A q \in ResidentId : q # r => residents'[q] = residents[q]
  BY DEF Saves, TypeInv, TypeOK
<1> QED BY <1>1, <1>2, <1>3, SavedIndex DEF IndexInv, Exists

LEMMA RequestIndexInv ==
  ASSUME TypeInv, IndexInv, NEW p \in Handler, Request(p)
  PROVE  IndexInv'
<1>1. UNCHANGED Store
  BY DEF Request, RequestIssue, RequestTransition, RequestRelationship,
     RequestDelivery, RequestReconcile, RequestExpiry, RequestErasure
<1>2. /\ UNCHANGED <<nextIndex, owner>>
      /\ \A r \in ResidentId : residents'[r] # NoRow => owner[residents'[r].index] = r
  BY <1>1 DEF Store, IndexInv, Exists
<1>3. ASSUME NEW next, Goes(p, next), next.step \notin HoldsRow \cup {"enrol"}
      PROVE  IndexInv'
  BY <1>2, <1>3, IndexKept
<1>4. ASSUME NEW s \in Subject, NEW offline \in BOOLEAN, RequestIssue(p, s, offline)
      PROVE  IndexInv'
  <2> DEFINE next == [Idle EXCEPT !.step = "resolve", !.op = "issue",
                                  !.subject = s, !.offline = offline]
  <2>1. next.step = "resolve"
    BY DEF Idle
  <2> QED BY <1>3, <1>4, <2>1 DEF RequestIssue, HoldsRow
<1>5. ASSUME NEW r \in ResidentId, NEW to \in CredentialTargets, RequestTransition(p, r, to)
      PROVE  IndexInv'
  <2> DEFINE next == [Idle EXCEPT !.step = "find", !.op = "transition",
                                  !.resident = r, !.to = to]
  <2>1. next.step = "find"
    BY DEF Idle
  <2> QED BY <1>3, <1>5, <2>1 DEF RequestTransition, HoldsRow
<1>6. ASSUME NEW r \in ResidentId, RequestExpiry(p, r) \/ RequestErasure(p, r)
      PROVE  IndexInv'
  <2>1. PICK op \in {"expire", "erase"} :
          Goes(p, [Idle EXCEPT !.step = "find", !.op = op, !.resident = r, !.to = "REVOKED"])
    BY <1>6 DEF RequestExpiry, RequestErasure
  <2> DEFINE next == [Idle EXCEPT !.step = "find", !.op = op, !.resident = r, !.to = "REVOKED"]
  <2>2. next.step = "find"
    BY DEF Idle
  <2> QED BY <1>3, <2>1, <2>2 DEF HoldsRow
<1>7. ASSUME NEW r \in ResidentId, RequestDelivery(p, r)
      PROVE  IndexInv'
  <2> DEFINE next == [Idle EXCEPT !.step = "deliver", !.op = "delivery", !.resident = r]
  <2>1. next.step = "deliver"
    BY DEF Idle
  <2> QED BY <1>3, <1>7, <2>1 DEF RequestDelivery, HoldsRow
<1>8. ASSUME NEW r \in ResidentId, NEW to \in RelationshipTargets, RequestRelationship(p, r, to)
      PROVE  IndexInv'
  <2> DEFINE row == [residents[r] EXCEPT !.relationship = to]
             next == [Idle EXCEPT !.step = "relationship", !.op = "relationship",
                                  !.resident = r, !.row = row]
  <2>1. residents[r] \in Row /\ owner[residents[r].index] = r
    BY <1>8 DEF RequestRelationship, TypeInv, TypeOK, IndexInv, Exists
  <2>2. next.step = "relationship" /\ next.row = row /\ next.resident = r
    BY DEF Idle
  <2>3. row.index = residents[r].index
    BY <2>1 DEF Row
  <2>4. Goes(p, next)
    BY <1>8 DEF RequestRelationship
  <2> HIDE DEF next, row
  <2> QED BY <1>2, <2>1, <2>2, <2>3, <2>4, IndexKept
<1>9. ASSUME NEW r \in ResidentId, RequestReconcile(p, r)
      PROVE  IndexInv'
  <2> DEFINE next == [Idle EXCEPT !.step = "confirm", !.op = "reconcile",
                                  !.resident = r, !.row = residents[r]]
  <2>1. owner[residents[r].index] = r
    BY <1>9 DEF RequestReconcile, IndexInv
  <2>2. next.step = "confirm" /\ next.row = residents[r] /\ next.resident = r
    BY DEF Idle
  <2>3. Goes(p, next)
    BY <1>9 DEF RequestReconcile
  <2> HIDE DEF next
  <2> QED BY <1>2, <2>1, <2>2, <2>3, IndexKept
<1> QED BY <1>4, <1>5, <1>6, <1>7, <1>8, <1>9 DEF Request

\* A handler reads a row, carries it from one await to the next, and writes
\* it back: the index goes with it.
LEMMA StepIndexInv ==
  ASSUME TypeInv, IndexInv, NEW p \in Handler, Step(p)
  PROVE  IndexInv'
<1> DEFINE h == handler[p]
<1>h. h \in HandlerState
  BY DEF TypeInv, TypeOK
<1>r. \A r \in ResidentId : residents[r] # NoRow => owner[residents[r].index] = r
  BY DEF IndexInv, Exists
<1>k. ASSUME h.step \in HoldsRow
      PROVE  /\ h.resident \in ResidentId /\ Exists(h.resident) /\ h.row \in Row
             /\ owner[h.row.index] = h.resident
  BY <1>k DEF TypeInv, HandlerHolds, KnowsResident, IndexInv
<1>1. CASE FindResident(p)
  <2> DEFINE next == [h EXCEPT !.step = "decide", !.row = residents[h.resident]]
  <2>1. next.step = "decide" /\ next.row = residents[h.resident] /\ next.resident = h.resident
    BY <1>h DEF HandlerState
  <2>2. owner[residents[h.resident].index] = h.resident
    BY <1>1, <1>r DEF FindResident, TypeInv, HandlerHolds, KnowsResident, Exists
  <2>3. Goes(p, next) /\ UNCHANGED Store
    BY <1>1 DEF FindResident
  <2> HIDE DEF next
  <2> QED BY <1>r, <2>1, <2>2, <2>3, IndexKept DEF Store
<1>2. CASE DecideTransition(p) \/ LoadList(p)
  <2>1. /\ UNCHANGED Store
        /\ owner[h.row.index] = h.resident
    BY <1>2, <1>k DEF DecideTransition, LoadList, HoldsRow
  <2>2. ASSUME NEW next, Goes(p, next), next.step \in {"load", "store", "erase"},
               next.row = h.row, next.resident = h.resident
        PROVE  IndexInv'
    BY <1>r, <2>1, <2>2, IndexKept DEF Store
  <2>3. CASE Finishes(p)
    BY <1>r, <2>1, <2>3, IndexKeptFinishing DEF Store
  <2>4. CASE Goes(p, [h EXCEPT !.step = "load", !.queue = Publish(h.to)])
    <3> DEFINE next == [h EXCEPT !.step = "load", !.queue = Publish(h.to)]
    <3>1. next.step = "load" /\ next.row = h.row /\ next.resident = h.resident
      BY <1>h DEF HandlerState
    <3> QED BY <2>2, <2>4, <3>1
  <2>5. CASE Goes(p, [h EXCEPT !.step = "erase"])
    <3> DEFINE next == [h EXCEPT !.step = "erase"]
    <3>1. next.step = "erase" /\ next.row = h.row /\ next.resident = h.resident
      BY <1>h DEF HandlerState
    <3> QED BY <2>2, <2>5, <3>1
  <2>6. CASE LoadList(p)
    <3> DEFINE next == [h EXCEPT !.step = "store", !.list = statusLists[Head(h.queue).purpose]]
    <3>1. next.step = "store" /\ next.row = h.row /\ next.resident = h.resident
      BY <1>h DEF HandlerState
    <3>2. Goes(p, next)
      BY <2>6 DEF LoadList
    <3> HIDE DEF next
    <3> QED BY <2>2, <3>1, <3>2
  <2> QED BY <1>2, <2>3, <2>4, <2>5, <2>6 DEF DecideTransition, Returns
<1>3. CASE StoreList(p)
  <2> DEFINE rest == Tail(h.queue)
             next == [h EXCEPT !.step = IF rest = <<>> THEN "persist" ELSE "load",
                               !.queue = rest, !.list = {}]
  <2>1. next.step \in {"persist", "load"} /\ next.row = h.row /\ next.resident = h.resident
    BY <1>h DEF HandlerState
  <2>2. owner[h.row.index] = h.resident
    BY <1>3, <1>k DEF StoreList, HoldsRow
  <2>3. Goes(p, next) \/ Finishes(p)
    BY <1>3 DEF StoreList
  <2> HIDE DEF next
  <2> QED BY <1>3, <1>r, <2>1, <2>2, <2>3, IndexKept, IndexKeptFinishing DEF StoreList
<1>4. CASE PersistTransition(p)
  <2> DEFINE row == [h.row EXCEPT !.credential = h.to]
             next == [h EXCEPT !.step = "erase"]
  <2>1. /\ h.resident \in ResidentId /\ Exists(h.resident)
        /\ row \in Row /\ owner[row.index] = h.resident
    BY <1>4, <1>h, <1>k DEF PersistTransition, HoldsRow, HandlerState, Row
  <2>2. Saves(h.resident, row) \/ UNCHANGED residents
    BY <1>4 DEF PersistTransition
  <2>3. \A r \in ResidentId : residents'[r] # NoRow => owner[residents'[r].index] = r
    BY <1>r, <2>1, <2>2, IndexKeptSaving
  <2>4. Goes(p, next) \/ Finishes(p)
    BY <1>4 DEF PersistTransition, Returns
  <2>5. next.step = "erase"
    BY <1>h DEF HandlerState
  <2> HIDE DEF next
  <2> QED BY <1>4, <2>3, <2>4, <2>5, IndexKept, IndexKeptFinishing DEF PersistTransition, HoldsRow
<1>5. CASE PersistRelationship(p) \/ Confirm(p)
  <2>1. PICK row \in {h.row, [h.row EXCEPT !.provisional = FALSE]} :
          Saves(h.resident, row) \/ UNCHANGED residents
    BY <1>5 DEF PersistRelationship, Confirm
  <2>2. /\ h.resident \in ResidentId /\ Exists(h.resident)
        /\ row \in Row /\ owner[row.index] = h.resident
    BY <1>5, <1>k, <2>1 DEF PersistRelationship, Confirm, HoldsRow, Row
  <2>3. \A r \in ResidentId : residents'[r] # NoRow => owner[residents'[r].index] = r
    BY <1>r, <2>1, <2>2, IndexKeptSaving
  <2> QED BY <1>5, <2>3, IndexKeptFinishing DEF PersistRelationship, Confirm
<1>6. CASE ResolvePerson(p) \/ MatchPerson(p) \/ FindLink(p)
  <2>1. UNCHANGED Store
    BY <1>6 DEF ResolvePerson, MatchPerson, FindLink
  <2>2. ASSUME NEW next, Goes(p, next), next.step \in {"match", "index", "linkSave"}
        PROVE  IndexInv'
    BY <1>r, <2>1, <2>2, IndexKept DEF Store, HoldsRow
  <2>3. CASE Finishes(p)
    BY <1>r, <2>1, <2>3, IndexKeptFinishing DEF Store
  <2>4. CASE ResolvePerson(p)
    <3> DEFINE next == [h EXCEPT !.step = "match", !.resident = links[h.subject]]
    <3>1. next.step = "match"
      BY <1>h DEF HandlerState
    <3> QED BY <2>2, <2>4, <3>1 DEF ResolvePerson
  <2>5. ASSUME NEW r, Goes(p, [h EXCEPT !.step = "index", !.resident = r, !.row = residents[r]])
        PROVE  IndexInv'
    <3> DEFINE next == [h EXCEPT !.step = "index", !.resident = r, !.row = residents[r]]
    <3>1. next.step = "index"
      BY <1>h DEF HandlerState
    <3> QED BY <2>2, <2>5, <3>1
  <2>6. CASE Goes(p, [h EXCEPT !.step = "linkSave"])
    <3> DEFINE next == [h EXCEPT !.step = "linkSave"]
    <3>1. next.step = "linkSave"
      BY <1>h DEF HandlerState
    <3> QED BY <2>2, <2>6, <3>1
  <2> QED BY <1>6, <2>3, <2>4, <2>5, <2>6 DEF MatchPerson, FindLink
<1>7. CASE SaveLink(p)
  BY <1>7, <1>r, IndexKeptFinishing DEF SaveLink
<1>8. CASE TakeIndex(p)
  <2>1. /\ h.step = "index" /\ h.resident \in ResidentId
        /\ nextIndex \in Nat /\ nextIndex < IndexBound /\ nextIndex \in Index
    BY <1>8, RegisterAssumption DEF TakeIndex, TypeInv, TypeOK, HandlerHolds, Index
  <2>2. Incremented(nextIndex) = nextIndex + 1 /\ Reserved(Incremented(nextIndex)) = nextIndex
    BY <2>1 DEF Incremented, Reserved
  <2>3. /\ nextIndex' = nextIndex + 1
        /\ owner' = [owner EXCEPT ![nextIndex] = h.resident]
        /\ handler' = [handler EXCEPT ![p] = [h EXCEPT !.step = "enrol", !.index = nextIndex]]
        /\ residents' = residents
    BY <1>8, <2>2 DEF TakeIndex, Goes
  <2>4. owner[nextIndex] = NoOne /\ owner \in [Index -> ResidentId \cup {NoOne}]
    BY <2>1 DEF IndexInv, TypeInv, TypeOK
  <2>5. \A i \in Index : owner[i] \in ResidentId => owner'[i] = owner[i]
    BY <2>3, <2>4, RegisterAssumption
  <2>6. \A i \in Index : i >= nextIndex' => owner'[i] = NoOne
    BY <2>1, <2>3, <2>4 DEF IndexInv, Index
  <2>7. \A r \in ResidentId : residents'[r] # NoRow => owner'[residents'[r].index] = r
    <3>1. \A r \in ResidentId : residents[r] # NoRow => residents[r].index \in Index
      BY DEF TypeInv, TypeOK, Row
    <3> QED BY <1>r, <2>3, <2>5, <3>1
  <2>8. ASSUME NEW q \in Handler
        PROVE  /\ handler'[q].step \in HoldsRow => owner'[handler'[q].row.index] = handler'[q].resident
               /\ handler'[q].step = "enrol" => owner'[handler'[q].index] = handler'[q].resident
    <3>1. CASE q = p
      <4>1. /\ handler'[q].step = "enrol" /\ handler'[q].index = nextIndex
            /\ handler'[q].resident = h.resident
        BY <1>h, <2>3, <3>1 DEF TypeInv, TypeOK, HandlerState
      <4> QED BY <2>1, <2>3, <2>4, <4>1 DEF HoldsRow
    <3>2. CASE q # p
      <4>1. handler'[q] = handler[q] /\ handler[q] \in HandlerState
        BY <2>3, <3>2 DEF TypeInv, TypeOK
      <4>2. handler[q].step \in HoldsRow
              => handler[q].row.index \in Index /\ handler[q].resident \in ResidentId
        BY DEF TypeInv, HandlerHolds, KnowsResident, Row
      <4>3. handler[q].step = "enrol"
              => handler[q].index \in Index /\ handler[q].resident \in ResidentId
        BY <4>1 DEF TypeInv, HandlerHolds, HandlerState
      <4> QED BY <2>5, <4>1, <4>2, <4>3 DEF IndexInv
    <3> QED BY <3>1, <3>2
  <2> QED BY <2>6, <2>7, <2>8 DEF IndexInv, Exists
<1>9. CASE Enrol(p)
  <2> DEFINE next == [h EXCEPT !.step = "linkFind"]
  <2>1. /\ h.resident \in ResidentId /\ h.subject \in Subject
        /\ h.index \in Index /\ owner[h.index] = h.resident
    BY <1>9, <1>h DEF Enrol, TypeInv, HandlerHolds, IndexInv, IssueStep, HandlerState
  <2>2. NewRow(h) \in Row /\ NewRow(h).index = h.index
    BY <1>h, <2>1, RegisterAssumption DEF NewRow, Row, HandlerState, RelationshipStatus, CredentialStatus
  <2>3. next.step = "linkFind"
    BY <1>h DEF HandlerState
  <2>4. CASE residents' = [residents EXCEPT ![h.resident] =
               IF @ = NoRow THEN NewRow(h) ELSE Saved(@, NewRow(h))]
    <3>1. residents'[h.resident].index = h.index
      <4>1. residents[h.resident] # NoRow => residents[h.resident] \in Row
        BY <2>1 DEF TypeInv, TypeOK
      <4>2. residents[h.resident] # NoRow
              => Saved(residents[h.resident], NewRow(h)).index = h.index
        BY <2>2, <4>1, SavedIndex
      <4> QED BY <2>1, <2>2, <2>4, <4>2 DEF TypeInv, TypeOK
    <3>2. \A q \in ResidentId : q # h.resident => residents'[q] = residents[q]
      BY <2>4 DEF TypeInv, TypeOK
    <3>3. \A r \in ResidentId : residents'[r] # NoRow => owner[residents'[r].index] = r
      BY <1>r, <2>1, <3>1, <3>2
    <3>4. /\ UNCHANGED <<nextIndex, owner>>
          /\ Goes(p, next) \/ Finishes(p)
      BY <1>9 DEF Enrol
    <3> HIDE DEF next
    <3> QED BY <2>3, <3>3, <3>4, IndexKept, IndexKeptFinishing DEF HoldsRow
  <2>5. CASE UNCHANGED residents
    BY <1>9, <1>r, <2>3, <2>5, IndexKept, IndexKeptFinishing DEF Enrol, HoldsRow
  <2> QED BY <1>9, <2>4, <2>5 DEF Enrol
<1>10. CASE RecordDelivery(p)
  <2>1. /\ UNCHANGED Store
        /\ Finishes(p) \/ Goes(p, [h EXCEPT !.step = "find", !.to = "ACTIVE"])
    BY <1>10 DEF RecordDelivery
  <2>2. [h EXCEPT !.step = "find", !.to = "ACTIVE"].step = "find"
    BY <1>h DEF HandlerState
  <2> QED BY <1>r, <2>1, <2>2, IndexKept, IndexKeptFinishing DEF Store, HoldsRow
<1>11. CASE Erase(p)
  <2>1. h.resident \in ResidentId /\ residents[h.resident] \in Row
    BY <1>11 DEF Erase, TypeInv, TypeOK, HandlerHolds, KnowsResident, Exists
  <2>2. /\ residents'[h.resident].index = residents[h.resident].index
        /\ \A q \in ResidentId : q # h.resident => residents'[q] = residents[q]
    BY <1>11, <2>1 DEF Erase, TypeInv, TypeOK, Row
  <2>3. residents[h.resident] # NoRow
    BY <2>1, RegisterAssumption
  <2>4. \A r \in ResidentId : residents'[r] # NoRow => owner[residents'[r].index] = r
    BY <1>r, <2>1, <2>2, <2>3
  <2> QED BY <1>11, <2>4, IndexKeptFinishing DEF Erase
<1> QED BY <1>1, <1>2, <1>3, <1>4, <1>5, <1>6, <1>7, <1>8, <1>9, <1>10, <1>11 DEF Step

LEMMA NextIndexInv == TypeInv /\ IndexInv /\ [Next]_vars => IndexInv'
<1> SUFFICES ASSUME TypeInv, IndexInv, [Next]_vars PROVE IndexInv'
  OBVIOUS
<1>1. ASSUME NEW p \in Handler, Fail(p) PROVE IndexInv'
  BY <1>1, IndexKeptFinishing DEF Fail, Tables, IndexInv, Exists
<1>2. CASE UNCHANGED vars
  BY <1>2 DEF vars, IndexInv, Exists
<1> QED BY <1>1, <1>2, RequestIndexInv, StepIndexInv DEF Next

\* No two rows ever share a status index, however many residents enrol and
\* re-enrol at once, however stale the rows that handlers write back, and
\* wherever they stop: nextStatusIndex's counter is enough, and no operation
\* of the service moves an index from one resident to another.
THEOREM IndicesNeverShared == Spec => []OneIndexOneResident
<1>1. TypeInv /\ IndexInv => OneIndexOneResident
  BY DEF IndexInv, OneIndexOneResident
<1> QED BY InitTypeInv, NextTypeInv, InitIndexInv, NextIndexInv, <1>1, PTL DEF Spec

----------------------------------------------------------------------------
(* What keeps handlers from spoiling each other's writes.  Nothing in the   *)
(* code does, and the run ConcurrentRevocations shows what is lost.  Two    *)
(* exclusions are enough, for any number of handlers and wherever they      *)
(* stop: of two handlers that hold a loaded bitstring of one list, and of   *)
(* two that work for one resident.  A deployment whose requests do not      *)
(* overlap has both.                                                        *)

\* No two handlers hold a loaded bitstring of the same list, between
\* loadStatusList and saveStatusList.
ListsExclusive ==
  \A p, q \in Handler :
    /\ handler[p].step = "store" /\ handler[q].step = "store"
    /\ Head(handler[p].queue).purpose = Head(handler[q].queue).purpose
    => p = q

\* No two handlers work for the same resident.
ResidentsExclusive ==
  \A p, q \in Handler :
    /\ handler[p].step # "idle" /\ handler[q].step # "idle"
    /\ handler[p].resident = handler[q].resident /\ handler[p].resident # NoOne
    => p = q

\* A single handler excludes itself from nothing: what is shown under the two
\* exclusions holds of the runs with one handler as they are.
SoleHandler == \A p, q \in Handler : p = q

LEMMA SoleIsExclusive == SoleHandler => ListsExclusive /\ ResidentsExclusive
BY DEF SoleHandler, ListsExclusive, ResidentsExclusive

\* A step of one handler moves no other.
LEMMA OthersStay ==
  ASSUME TypeInv, NEW p \in Handler, Request(p) \/ Step(p) \/ Fail(p),
         NEW q \in Handler, q # p
  PROVE  handler'[q] = handler[q]
<1>1. ASSUME NEW next, Goes(p, next) PROVE handler'[q] = handler[q]
  BY <1>1 DEF Goes, TypeInv, TypeOK
<1>2. CASE Request(p)
  BY <1>1, <1>2 DEF Request, RequestIssue, RequestTransition, RequestRelationship,
     RequestDelivery, RequestReconcile, RequestExpiry, RequestErasure
<1>3. CASE Fail(p)
  BY <1>1, <1>3 DEF Fail, Finishes
<1>4. CASE FindResident(p) \/ DecideTransition(p) \/ LoadList(p) \/ StoreList(p)
  BY <1>1, <1>4 DEF FindResident, DecideTransition, LoadList, StoreList, Returns, Finishes
<1>5. CASE PersistTransition(p) \/ PersistRelationship(p) \/ Confirm(p) \/ Erase(p)
  BY <1>1, <1>5 DEF PersistTransition, PersistRelationship, Confirm, Erase, Returns, Finishes
<1>6. CASE ResolvePerson(p) \/ MatchPerson(p) \/ TakeIndex(p) \/ Enrol(p)
  BY <1>1, <1>6 DEF ResolvePerson, MatchPerson, TakeIndex, Enrol, Finishes
<1>7. CASE FindLink(p) \/ SaveLink(p) \/ RecordDelivery(p)
  BY <1>1, <1>7 DEF FindLink, SaveLink, RecordDelivery, Finishes
<1> QED BY <1>2, <1>3, <1>4, <1>5, <1>6, <1>7 DEF Step

----------------------------------------------------------------------------
(* The published lists.  While no two handlers hold the same list, a stored *)
(* list is always the published one with one bit changed.                   *)

\* What a handler is about to store is the list as it is published, and only
\* indices that were handed out have a bit on either list.
ListInv ==
  /\ \A p \in Handler :
       handler[p].step = "store"
         => handler[p].list = statusLists[Head(handler[p].queue).purpose]
  /\ \A i \in Index : Revoked(i) \/ Suspended(i) => i < nextIndex

LEMMA InitListInv == Init => ListInv
BY DEF Init, ListInv, Idle, Revoked, Suspended, StatusPurpose

\* The row a handler works on has an index that was handed out.
LEMMA HeldIndexTaken ==
  ASSUME TypeInv, IndexInv, NEW p \in Handler, handler[p].step \in HoldsRow
  PROVE  handler[p].row.index \in Index /\ handler[p].row.index < nextIndex
<1>1. handler[p].row.index \in Index /\ handler[p].resident \in ResidentId
  BY DEF TypeInv, HandlerHolds, KnowsResident, Row
<1>2. owner[handler[p].row.index] # NoOne
  BY <1>1, RegisterAssumption DEF IndexInv
<1> QED BY <1>1, <1>2, RegisterAssumption DEF IndexInv, Index, TypeInv, TypeOK

\* What one store call does to the published lists.
LEMMA StoredBit ==
  ASSUME TypeInv, IndexInv, ListInv, NEW p \in Handler, StoreList(p)
  PROVE  \/ UNCHANGED statusLists
         \/ \E i \in Index :
              /\ i < nextIndex
              /\ \/ statusLists' = [statusLists EXCEPT !["revocation"] = @ \cup {i}]
                 \/ statusLists' = [statusLists EXCEPT !["suspension"] = @ \cup {i}]
                 \/ statusLists' = [statusLists EXCEPT !["suspension"] = @ \ {i}]
<1> DEFINE h == handler[p]
           i == h.row.index
<1>1. h.step = "store" /\ i \in Index /\ i < nextIndex
  BY HeldIndexTaken DEF StoreList, HoldsRow
<1>2. h.queue \in PublishQueue /\ h.queue # <<>>
  BY <1>1 DEF TypeInv, TypeOK, HandlerHolds, HandlerState
<1>3. Head(h.queue) \in {SetRevocation, SetSuspension, ClearSuspension}
  BY <1>2, QueueType
<1>4. h.list = statusLists[Head(h.queue).purpose]
  BY <1>1 DEF ListInv
<1>5. CASE InList(i)
  <2>1. statusLists' = [statusLists EXCEPT ![Head(h.queue).purpose] =
                          WithBit(statusLists[Head(h.queue).purpose], i, Head(h.queue).set)]
    BY <1>4, <1>5 DEF StoreList
  <2>2. CASE Head(h.queue) = SetRevocation
    <3>1. Head(h.queue).purpose = "revocation" /\ Head(h.queue).set = TRUE
      BY <2>2 DEF SetRevocation
    <3>2. statusLists' = [statusLists EXCEPT !["revocation"] = @ \cup {i}]
      BY <2>1, <3>1 DEF WithBit
    <3> QED BY <1>1, <3>2
  <2>3. CASE Head(h.queue) = SetSuspension
    <3>1. Head(h.queue).purpose = "suspension" /\ Head(h.queue).set = TRUE
      BY <2>3 DEF SetSuspension
    <3>2. statusLists' = [statusLists EXCEPT !["suspension"] = @ \cup {i}]
      BY <2>1, <3>1 DEF WithBit
    <3> QED BY <1>1, <3>2
  <2>4. CASE Head(h.queue) = ClearSuspension
    <3>1. Head(h.queue).purpose = "suspension" /\ Head(h.queue).set = FALSE
      BY <2>4 DEF ClearSuspension
    <3>2. statusLists' = [statusLists EXCEPT !["suspension"] = @ \ {i}]
      BY <2>1, <3>1 DEF WithBit
    <3> QED BY <1>1, <3>2
  <2> QED BY <1>3, <2>2, <2>3, <2>4
<1>6. CASE ~InList(i)
  BY <1>6 DEF StoreList
<1> QED BY <1>5, <1>6

\* Only StoreList writes the lists, and only TakeIndex the counter.
LEMMA WhoWrites ==
  ASSUME NEW p \in Handler, Request(p) \/ Step(p) \/ Fail(p)
  PROVE  /\ UNCHANGED statusLists \/ StoreList(p)
         /\ UNCHANGED nextIndex \/ TakeIndex(p)
<1>1. CASE Request(p)
  BY <1>1 DEF Request, RequestIssue, RequestTransition, RequestRelationship,
     RequestDelivery, RequestReconcile, RequestExpiry, RequestErasure, Store
<1>2. CASE Fail(p)
  BY <1>2 DEF Fail, Tables
<1>3. CASE Step(p)
  BY <1>3 DEF Step, FindResident, DecideTransition, LoadList, StoreList,
     PersistTransition, PersistRelationship, ResolvePerson, MatchPerson, TakeIndex, Enrol,
     FindLink, SaveLink, RecordDelivery, Confirm, Erase, Store
<1> QED BY <1>1, <1>2, <1>3

LEMMA TakenIndex ==
  ASSUME TypeInv, NEW p \in Handler, TakeIndex(p)
  PROVE  /\ nextIndex \in Index /\ nextIndex' = nextIndex + 1
         /\ UNCHANGED statusLists
BY RegisterAssumption DEF TakeIndex, Incremented, TypeInv, TypeOK, Index

\* A handler is about to store a list only when it has just loaded it.
LEMMA WhoStoresNext ==
  ASSUME TypeInv, NEW p \in Handler, Request(p) \/ Step(p) \/ Fail(p)
  PROVE  handler'[p].step # "store" \/ LoadList(p)
<1> DEFINE h == handler[p]
<1>h. h \in HandlerState
  BY DEF TypeInv, TypeOK
<1>g. ASSUME NEW next, Goes(p, next) PROVE handler'[p] = next
  BY <1>g DEF Goes, TypeInv, TypeOK
<1>f. ASSUME Finishes(p) PROVE handler'[p].step # "store"
  BY <1>f, <1>g DEF Finishes, Idle
<1>1. CASE Request(p)
  <2>1. ASSUME NEW s \in Subject, NEW offline \in BOOLEAN, RequestIssue(p, s, offline)
        PROVE  handler'[p].step = "resolve"
    BY <2>1, <1>g DEF RequestIssue, Idle
  <2>2. ASSUME NEW r \in ResidentId, NEW to \in CredentialTargets, RequestTransition(p, r, to)
        PROVE  handler'[p].step = "find"
    BY <2>2, <1>g DEF RequestTransition, Idle
  <2>3. ASSUME NEW r \in ResidentId, NEW to \in RelationshipTargets, RequestRelationship(p, r, to)
        PROVE  handler'[p].step = "relationship"
    BY <2>3, <1>g DEF RequestRelationship, Idle
  <2>4. ASSUME NEW r \in ResidentId, RequestDelivery(p, r)
        PROVE  handler'[p].step = "deliver"
    BY <2>4, <1>g DEF RequestDelivery, Idle
  <2>5. ASSUME NEW r \in ResidentId, RequestReconcile(p, r)
        PROVE  handler'[p].step = "confirm"
    <3> DEFINE next == [Idle EXCEPT !.step = "confirm", !.op = "reconcile",
                                    !.resident = r, !.row = residents[r]]
    <3>1. next.step = "confirm"
      BY DEF Idle
    <3>2. handler'[p] = next
      BY <2>5, <1>g DEF RequestReconcile
    <3> QED BY <3>1, <3>2
  <2>6. ASSUME NEW r \in ResidentId, RequestExpiry(p, r) \/ RequestErasure(p, r)
        PROVE  handler'[p].step = "find"
    <3>1. PICK op \in {"expire", "erase"} :
            Goes(p, [Idle EXCEPT !.step = "find", !.op = op, !.resident = r, !.to = "REVOKED"])
      BY <2>6 DEF RequestExpiry, RequestErasure
    <3> QED BY <3>1, <1>g DEF Idle
  <2> QED BY <1>1, <2>1, <2>2, <2>3, <2>4, <2>5, <2>6 DEF Request
<1>2. CASE Fail(p)
  BY <1>2, <1>f DEF Fail
<1>3. CASE FindResident(p)
  BY <1>3, <1>g, <1>h DEF FindResident, HandlerState
<1>8. CASE DecideTransition(p)
  <2>1. \/ Finishes(p)
        \/ Goes(p, [h EXCEPT !.step = "erase"])
        \/ Goes(p, [h EXCEPT !.step = "load", !.queue = Publish(h.to)])
    BY <1>8 DEF DecideTransition, Returns
  <2> QED BY <1>f, <1>g, <1>h, <2>1 DEF HandlerState
<1>4. CASE StoreList(p)
  BY <1>4, <1>f, <1>g, <1>h DEF StoreList, HandlerState
<1>5. CASE PersistTransition(p) \/ PersistRelationship(p) \/ Confirm(p) \/ Erase(p)
  BY <1>5, <1>f, <1>g, <1>h
     DEF PersistTransition, PersistRelationship, Confirm, Erase, Returns, HandlerState
<1>6. CASE ResolvePerson(p) \/ MatchPerson(p) \/ TakeIndex(p) \/ Enrol(p)
  BY <1>6, <1>f, <1>g, <1>h
     DEF ResolvePerson, MatchPerson, TakeIndex, Enrol, HandlerState
<1>7. CASE FindLink(p) \/ SaveLink(p) \/ RecordDelivery(p)
  BY <1>7, <1>f, <1>g, <1>h DEF FindLink, SaveLink, RecordDelivery, HandlerState
<1> QED BY <1>1, <1>2, <1>3, <1>4, <1>5, <1>6, <1>7, <1>8 DEF Step

LEMMA NextListInv ==
  ASSUME ListsExclusive, TypeInv, IndexInv, ListInv, [Next]_vars
  PROVE  ListInv'
<1>1. ASSUME NEW p \in Handler, Request(p) \/ Step(p) \/ Fail(p)
      PROVE  ListInv'
  <2>1. \A i \in Index : Revoked(i)' \/ Suspended(i)' => i < nextIndex'
    <3>1. nextIndex \in Nat /\ nextIndex' \in Nat /\ nextIndex <= nextIndex'
      BY <1>1, WhoWrites, TakenIndex, RegisterAssumption DEF TypeInv, TypeOK, Index
    <3>2. CASE UNCHANGED statusLists
      BY <3>1, <3>2 DEF ListInv, Revoked, Suspended, Index
    <3>3. CASE StoreList(p)
      <4>1. nextIndex' = nextIndex
        BY <3>3 DEF StoreList
      <4> QED BY <3>3, <4>1, StoredBit DEF ListInv, Revoked, Suspended, TypeInv, TypeOK, StatusPurpose
    <3> QED BY <1>1, <3>2, <3>3, WhoWrites
  <2>2. ASSUME NEW q \in Handler, handler'[q].step = "store"
        PROVE  handler'[q].list = statusLists'[Head(handler'[q].queue).purpose]
    <3> DEFINE h == handler[p]
               next == [h EXCEPT !.step = "store", !.list = statusLists[Head(h.queue).purpose]]
    <3>1. CASE q = p
      <4>1. LoadList(p)
        BY <1>1, <2>2, <3>1, WhoStoresNext
      <4>2. handler'[p] = next /\ statusLists' = statusLists
        BY <4>1 DEF LoadList, Goes, Store, TypeInv, TypeOK
      <4>3. next.queue = h.queue /\ next.list = statusLists[Head(h.queue).purpose]
        BY DEF TypeInv, TypeOK, HandlerState
      <4> QED BY <3>1, <4>2, <4>3
    <3>2. CASE q # p
      <4>1. handler'[q] = handler[q]
        BY <1>1, <3>2, OthersStay
      <4>2. handler[q].list = statusLists[Head(handler[q].queue).purpose]
        BY <2>2, <4>1 DEF ListInv
      <4>3. ASSUME StoreList(p)
            PROVE  statusLists'[Head(handler[q].queue).purpose]
                     = statusLists[Head(handler[q].queue).purpose]
        <5>1. handler[q].queue \in PublishQueue /\ handler[q].queue # <<>>
          BY <2>2, <4>1 DEF TypeInv, TypeOK, HandlerHolds, HandlerState
        <5>2. Head(handler[q].queue).purpose \in StatusPurpose
          BY <5>1, QueueType DEF Change
        <5>3. Head(handler[q].queue).purpose # Head(h.queue).purpose
          BY <2>2, <3>2, <4>1, <4>3 DEF ListsExclusive, StoreList
        <5> QED BY <4>3, <5>2, <5>3 DEF StoreList, TypeInv, TypeOK
      <4> QED BY <1>1, <4>1, <4>2, <4>3, WhoWrites
    <3> QED BY <3>1, <3>2
  <2> QED BY <2>1, <2>2 DEF ListInv
<1>2. CASE UNCHANGED vars
  BY <1>2 DEF vars, ListInv, Revoked, Suspended
<1> QED BY <1>1, <1>2 DEF Next

\* One step of the register is one decision about one credential, or nothing
\* a verifier can see.
LEMMA PublishedStep ==
  ASSUME TypeInv, IndexInv, ListInv, [Next]_vars
  PROVE  [Published!Next]_Standing
<1>n. nextIndex \in 0 .. IndexBound /\ IndexBound \in Nat
  BY RegisterAssumption DEF TypeInv, TypeOK
<1>1. ASSUME NEW p \in Handler, StoreList(p), UNCHANGED nextIndex
      PROVE  [Published!Next]_Standing
  <2>1. CASE UNCHANGED statusLists
    BY <1>1, <2>1 DEF Standing, Revoked, Suspended
  <2>2. ASSUME NEW i \in Index, i < nextIndex,
               \/ statusLists' = [statusLists EXCEPT !["revocation"] = @ \cup {i}]
               \/ statusLists' = [statusLists EXCEPT !["suspension"] = @ \cup {i}]
               \/ statusLists' = [statusLists EXCEPT !["suspension"] = @ \ {i}]
        PROVE  [Published!Next]_Standing
    <3>1. \A j \in Index : j # i => Standing'[j] = Standing[j]
      BY <1>1, <2>2 DEF Standing, Revoked, Suspended, TypeInv, TypeOK, StatusPurpose
    <3>2. Standing' = [Standing EXCEPT ![i] = Standing'[i]]
      BY <3>1 DEF Standing
    <3>3. \/ Standing'[i] = Standing[i]
          \/ Standing[i] = "usable" /\ Standing'[i] = "suspended"
          \/ Standing[i] = "suspended" /\ Standing'[i] = "usable"
          \/ Standing[i] \in {"usable", "suspended"} /\ Standing'[i] = "revoked"
      BY <1>1, <1>n, <2>2 DEF Standing, Revoked, Suspended, TypeInv, TypeOK, StatusPurpose, Index
    <3>4. CASE Standing'[i] = Standing[i]
      <4>1. Standing' = Standing
        BY <3>2, <3>4 DEF Standing
      <4> QED BY <4>1
    <3>5. CASE Standing'[i] # Standing[i]
      <4>1. Published!Suspend(i) \/ Published!Reinstate(i) \/ Published!Revoke(i)
        BY <3>2, <3>3, <3>5 DEF Published!Suspend, Published!Reinstate, Published!Revoke,
           Published!Becomes
      <4> QED BY <4>1 DEF Published!Next
    <3> QED BY <3>4, <3>5
  <2> QED BY <1>1, <2>1, <2>2, StoredBit
<1>2. ASSUME NEW p \in Handler, TakeIndex(p)
      PROVE  [Published!Next]_Standing
  <2>1. nextIndex \in Index /\ nextIndex' = nextIndex + 1 /\ UNCHANGED statusLists
    BY <1>2, TakenIndex
  <2>2. ~Revoked(nextIndex) /\ ~Suspended(nextIndex)
    BY <1>n, <2>1 DEF ListInv
  <2>3. \A j \in Index : j # nextIndex => Standing'[j] = Standing[j]
    BY <1>n, <2>1 DEF Standing, Revoked, Suspended, Index
  <2>4. Standing[nextIndex] = "unissued" /\ Standing'[nextIndex] = "usable"
    BY <1>n, <2>1, <2>2 DEF Standing, Revoked, Suspended
  <2>5. Standing' = [Standing EXCEPT ![nextIndex] = "usable"]
    BY <2>1, <2>3, <2>4 DEF Standing
  <2>6. Published!Issue(nextIndex)
    BY <2>4, <2>5 DEF Published!Issue, Published!Becomes
  <2> QED BY <2>1, <2>6 DEF Published!Next
<1>3. CASE UNCHANGED <<statusLists, nextIndex>>
  BY <1>3 DEF Standing, Revoked, Suspended
<1>4. UNCHANGED vars => UNCHANGED <<statusLists, nextIndex>>
  BY DEF vars
<1>5. ASSUME NEW p \in Handler, StoreList(p) PROVE UNCHANGED nextIndex
  BY <1>5 DEF StoreList
<1> QED BY <1>1, <1>2, <1>3, <1>4, <1>5, WhoWrites DEF Next

\* As long as no two handlers hold the same loaded list, the two published
\* lists keep the promise of PublishedStatus, for any number of residents,
\* indices and overlapping handlers, and wherever a handler stops: a credential
\* is usable once issued, is suspended and reinstated, and is revoked once and
\* for good, whatever the rows say meanwhile (transitionCredential,
\* applyCredentialTransition).
THEOREM PublishedImplemented == Spec /\ []ListsExclusive => PublishedSpec
<1>1. Init => Published!Init
  BY RegisterAssumption
     DEF Init, Published!Init, Standing, Revoked, Suspended, StatusPurpose, Index
<1>2. ListsExclusive /\ TypeInv /\ IndexInv /\ ListInv /\ [Next]_vars => ListInv'
  BY NextListInv
<1>3. TypeInv /\ IndexInv /\ ListInv /\ [Next]_vars => [Published!Next]_Standing
  BY PublishedStep
<1> QED BY InitTypeInv, NextTypeInv, InitIndexInv, NextIndexInv, InitListInv, <1>1, <1>2, <1>3,
           PTL DEF Spec, PublishedSpec, Published!Spec

----------------------------------------------------------------------------
(* Rows.  Two facts hold of any handlers, however they overlap: what a save *)
(* leaves of the row it wrote, and that no two rows that are not erased     *)
(* share a subject.                                                         *)

\* What a handler that moves on, or is done, holds next.
LEMMA HoldsNext ==
  ASSUME TypeInv, NEW p \in Handler
  PROVE  /\ \A next : Goes(p, next) => handler'[p] = next
         /\ Finishes(p) => handler'[p] = Idle
BY DEF Goes, Finishes, TypeInv, TypeOK

\* A save writes the saved row's columns, except the erasure date, and gives a
\* credential to a row that has one only.
LEMMA SavedRow ==
  ASSUME TypeInv, NEW r \in ResidentId, Exists(r), NEW row \in Row, Saves(r, row)
  PROVE  /\ residents'[r].index = row.index
         /\ residents'[r].subject = row.subject
         /\ residents'[r].credential = SavedCredential(residents[r].credential, row.credential)
         /\ residents'[r].erased = residents[r].erased
         /\ \A q \in ResidentId : q # r => residents'[q] = residents[q]
<1>1. residents'[r] = Saved(residents[r], row)
  BY DEF Saves, TypeInv, TypeOK
<1>2. \A q \in ResidentId : q # r => residents'[q] = residents[q]
  BY DEF Saves, TypeInv, TypeOK
<1>3. /\ Saved(residents[r], row).index = row.index
      /\ Saved(residents[r], row).subject = row.subject
      /\ Saved(residents[r], row).credential = SavedCredential(residents[r].credential, row.credential)
      /\ Saved(residents[r], row).erased = residents[r].erased
  BY DEF Saved, Row
<1> QED BY <1>1, <1>2, <1>3

\* Who writes rows.
LEMMA WhoWritesRows ==
  ASSUME NEW p \in Handler, Request(p) \/ Step(p) \/ Fail(p)
  PROVE  \/ UNCHANGED residents
         \/ PersistTransition(p) \/ PersistRelationship(p) \/ Confirm(p) \/ Enrol(p) \/ Erase(p)
<1>1. CASE Request(p)
  BY <1>1 DEF Request, RequestIssue, RequestTransition, RequestRelationship,
     RequestDelivery, RequestReconcile, RequestExpiry, RequestErasure, Store
<1>2. CASE Fail(p)
  BY <1>2 DEF Fail, Tables
<1>3. CASE Step(p)
  BY <1>3 DEF Step, FindResident, DecideTransition, LoadList, StoreList,
     ResolvePerson, MatchPerson, TakeIndex, FindLink, SaveLink, RecordDelivery, Store
<1> QED BY <1>1, <1>2, <1>3

\* What the handlers that save a whole row write: the row they hold, with its
\* credential decided or as it was read.
LEMMA SavesHeldRow ==
  ASSUME TypeInv, NEW p \in Handler,
         PersistTransition(p) \/ PersistRelationship(p) \/ Confirm(p)
  PROVE  LET h == handler[p] IN
         /\ h.step \in HoldsRow
         /\ h.resident \in ResidentId /\ Exists(h.resident) /\ h.row \in Row
         /\ \/ UNCHANGED residents
            \/ /\ SubjectFree(h.resident, h.row.subject)
               /\ residents'[h.resident].index = h.row.index
               /\ residents'[h.resident].subject = h.row.subject
               /\ residents'[h.resident].erased = residents[h.resident].erased
               /\ residents'[h.resident].credential =
                    IF PersistTransition(p) THEN h.to
                    ELSE SavedCredential(residents[h.resident].credential, h.row.credential)
               /\ \A q \in ResidentId : q # h.resident => residents'[q] = residents[q]
<1> DEFINE h == handler[p]
<1>1. /\ h.step \in HoldsRow
      /\ PersistTransition(p) <=> PersistTransition(p) /\ h.step = "persist"
  BY DEF PersistTransition, PersistRelationship, Confirm, HoldsRow
<1>2. h.resident \in ResidentId /\ Exists(h.resident) /\ h.row \in Row /\ h.to \in CredentialStatus
  BY <1>1 DEF TypeInv, TypeOK, HandlerHolds, KnowsResident, HandlerState
<1>3. ASSUME ~ UNCHANGED residents
      PROVE  SubjectFree(h.resident, h.row.subject)
  BY <1>3 DEF PersistTransition, PersistRelationship, Confirm
<1>4. CASE PersistTransition(p) /\ ~ UNCHANGED residents
  <2> DEFINE row == [h.row EXCEPT !.credential = h.to]
  <2>1. /\ row \in Row /\ row.index = h.row.index /\ row.subject = h.row.subject
        /\ row.credential = h.to
    BY <1>2 DEF Row
  <2>2. Saves(h.resident, row)
    BY <1>4 DEF PersistTransition
  <2>3. h.to # NoStatus
    BY <1>2 DEF CredentialStatus, NoStatus
  <2> HIDE DEF row, h
  <2>4. /\ residents'[h.resident].index = row.index
        /\ residents'[h.resident].subject = row.subject
        /\ residents'[h.resident].credential
             = SavedCredential(residents[h.resident].credential, row.credential)
        /\ residents'[h.resident].erased = residents[h.resident].erased
        /\ \A q \in ResidentId : q # h.resident => residents'[q] = residents[q]
    BY <1>2, <2>1, <2>2, SavedRow
  <2>5. SavedCredential(residents[h.resident].credential, row.credential) = h.to
    BY <2>1, <2>3 DEF SavedCredential
  <2> QED BY <1>1, <1>2, <1>3, <1>4, <2>1, <2>4, <2>5 DEF h
<1>5. CASE (PersistRelationship(p) \/ Confirm(p)) /\ ~ UNCHANGED residents
  <2>1. PICK row \in {h.row, [h.row EXCEPT !.provisional = FALSE]} : Saves(h.resident, row)
    BY <1>5 DEF PersistRelationship, Confirm
  <2>2. /\ row \in Row /\ row.index = h.row.index /\ row.subject = h.row.subject
        /\ row.credential = h.row.credential
    BY <1>2, <2>1 DEF Row
  <2>3. ~ PersistTransition(p)
    BY <1>5 DEF PersistTransition, PersistRelationship, Confirm
  <2> HIDE DEF h
  <2>4. /\ residents'[h.resident].index = row.index
        /\ residents'[h.resident].subject = row.subject
        /\ residents'[h.resident].credential
             = SavedCredential(residents[h.resident].credential, row.credential)
        /\ residents'[h.resident].erased = residents[h.resident].erased
        /\ \A q \in ResidentId : q # h.resident => residents'[q] = residents[q]
    BY <1>2, <2>1, <2>2, SavedRow
  <2> QED BY <1>1, <1>2, <1>3, <1>5, <2>2, <2>3, <2>4 DEF h
<1> QED BY <1>1, <1>2, <1>4, <1>5

\* What an enrolment writes: a row under the index it took, with a credential
\* that is good.
LEMMA EnrolsRow ==
  ASSUME TypeInv, NEW p \in Handler, Enrol(p)
  PROVE  LET h == handler[p] IN
         /\ h.resident \in ResidentId
         /\ \/ UNCHANGED <<residents, interrupted>>
            \/ /\ SubjectFree(h.resident, h.subject)
               /\ residents'[h.resident].index = h.index
               /\ residents'[h.resident].subject = h.subject
               /\ residents'[h.resident].credential \in {NoStatus, "ISSUED", "ACTIVE"}
               /\ Exists(h.resident) => residents'[h.resident].erased = residents[h.resident].erased
               /\ \A q \in ResidentId : q # h.resident => residents'[q] = residents[q]
<1> DEFINE h == handler[p]
<1>1. h \in HandlerState /\ h.resident \in ResidentId /\ h.subject \in Subject
  BY DEF Enrol, TypeInv, TypeOK, HandlerHolds, IssueStep
<1>2. /\ NewRow(h) \in Row /\ NewRow(h).index = h.index /\ NewRow(h).subject = h.subject
      /\ NewRow(h).credential \in {NoStatus, "ISSUED"}
  BY <1>1, RegisterAssumption
     DEF NewRow, Row, HandlerState, RelationshipStatus, CredentialStatus
<1>3. CASE ~ UNCHANGED <<residents, interrupted>>
  <2>1. /\ SubjectFree(h.resident, h.subject)
        /\ residents' = [residents EXCEPT ![h.resident] =
             IF @ = NoRow THEN NewRow(h) ELSE Saved(@, NewRow(h))]
    BY <1>3 DEF Enrol
  <2>2. \A q \in ResidentId : q # h.resident => residents'[q] = residents[q]
    BY <2>1 DEF TypeInv, TypeOK
  <2>3. CASE Exists(h.resident)
    <3>1. Saves(h.resident, NewRow(h))
      BY <2>1, <2>3 DEF Saves, Exists, TypeInv, TypeOK
    <3> HIDE DEF h
    <3>2. /\ residents'[h.resident].index = NewRow(h).index
          /\ residents'[h.resident].subject = NewRow(h).subject
          /\ residents'[h.resident].credential
               = SavedCredential(residents[h.resident].credential, NewRow(h).credential)
          /\ residents'[h.resident].erased = residents[h.resident].erased
      BY <1>1, <1>2, <2>3, <3>1, SavedRow
    <3>3. SavedCredential(residents[h.resident].credential, NewRow(h).credential)
            \in {NoStatus, "ISSUED", "ACTIVE"}
      BY <1>2 DEF SavedCredential
    <3> QED BY <1>1, <1>2, <2>1, <2>2, <3>2, <3>3 DEF h
  <2>4. CASE ~ Exists(h.resident)
    <3>1. residents'[h.resident] = NewRow(h)
      BY <1>1, <2>1, <2>4 DEF Exists, TypeInv, TypeOK
    <3> QED BY <1>1, <1>2, <2>1, <2>2, <2>4, <3>1
  <2> QED BY <2>3, <2>4
<1> QED BY <1>1, <1>3

\* What an erasure writes: the identifying columns and the date, and no others.
LEMMA ErasesRow ==
  ASSUME TypeInv, NEW p \in Handler, Erase(p)
  PROVE  LET r == handler[p].resident IN
         /\ r \in ResidentId /\ Exists(r)
         /\ residents'[r].index = residents[r].index
         /\ residents'[r].subject = Tombstone
         /\ residents'[r].credential = residents[r].credential
         /\ \A q \in ResidentId : q # r => residents'[q] = residents[q]
<1> DEFINE r == handler[p].resident
<1>1. r \in ResidentId /\ Exists(r) /\ residents[r] \in Row
  BY DEF Erase, TypeInv, TypeOK, HandlerHolds, KnowsResident, Exists
<1> QED BY <1>1 DEF Erase, TypeInv, TypeOK, Row

\* A subject has one row; erased rows have none.
SubjectsInv ==
  \A r, q \in ResidentId :
    /\ Exists(r) /\ Exists(q)
    /\ residents[r].subject = residents[q].subject
    /\ residents[r].subject # Tombstone
    => r = q

LEMMA InitSubjectsInv == Init => SubjectsInv
BY DEF Init, SubjectsInv, Exists

\* subjectRef is unique in the table, so a write under a subject that another
\* row has is refused.
LEMMA SubjectWritten ==
  ASSUME TypeInv, SubjectsInv, NEW r \in ResidentId, NEW s,
         residents'[r].subject = s, SubjectFree(r, s),
         \A q \in ResidentId : q # r => residents'[q] = residents[q]
  PROVE  SubjectsInv'
<1>1. ASSUME NEW q \in ResidentId, q # r, residents[q] # NoRow, residents[q].subject = s
      PROVE  s = Tombstone
  BY <1>1 DEF SubjectFree, Holder, Exists
<1> QED BY <1>1 DEF SubjectsInv, Exists

LEMMA NextSubjectsInv == TypeInv /\ SubjectsInv /\ [Next]_vars => SubjectsInv'
<1> SUFFICES ASSUME TypeInv, SubjectsInv, [Next]_vars PROVE SubjectsInv'
  OBVIOUS
<1>1. CASE UNCHANGED residents
  BY <1>1 DEF SubjectsInv, Exists
<1>2. ASSUME NEW p \in Handler, PersistTransition(p) \/ PersistRelationship(p) \/ Confirm(p),
             ~ UNCHANGED residents
      PROVE  SubjectsInv'
  BY <1>2, SavesHeldRow, SubjectWritten
<1>3. ASSUME NEW p \in Handler, Enrol(p), ~ UNCHANGED residents
      PROVE  SubjectsInv'
  BY <1>3, EnrolsRow, SubjectWritten
<1>4. ASSUME NEW p \in Handler, Erase(p)
      PROVE  SubjectsInv'
  BY <1>4, ErasesRow, SubjectWritten DEF SubjectFree
<1> QED BY <1>1, <1>2, <1>3, <1>4, WhoWritesRows DEF Next, vars

----------------------------------------------------------------------------
(* Decisions.  A row and its bits are written by different store calls, so  *)
(* what has to be carried from one to the next is how far the handler has   *)
(* come: the row it holds is dead only if its index is on the revocation    *)
(* list, what is left of its queue says what it has published, and it comes *)
(* to persist, or to destroy, only after the revocation is out.  None of    *)
(* this looks at the row as it is now, which others may have written since; *)
(* it needs only that nothing is taken off the revocation list.             *)

Decides(h, lists) ==
  /\ h.op = "erase" => h.to = "REVOKED"
  /\ h.step = "deliver" => h.op = "delivery"
  /\ h.step \in HoldsRow /\ h.row.credential \in TerminalCredential
       => h.row.index \in lists["revocation"]
  /\ h.step \in {"load", "store"}
       => \/ h.queue = Publish(h.to)
          \/ /\ h.to \in TerminalCredential
             /\ h.queue = <<ClearSuspension>>
             /\ h.row.index \in lists["revocation"]
  /\ h.step = "persist" /\ h.to \in TerminalCredential
       => h.row.index \in lists["revocation"]
  /\ h.step = "erase" => h.row.index \in lists["revocation"]

DecidesInv == \A p \in Handler : Decides(handler[p], statusLists)

DecisionInv == DecidesInv /\ BelievedDeadIsDead

LEMMA InitDecisionInv == Init => DecisionInv
BY DEF Init, DecisionInv, DecidesInv, Decides, Idle, HoldsRow, BelievedDeadIsDead, Exists

\* A handler that holds no row and is about to destroy none.
LEMMA DecidesFreely ==
  ASSUME NEW next, NEW lists,
         next.step \notin HoldsRow \cup {"deliver", "erase"},
         next.op = "erase" => next.to = "REVOKED"
  PROVE  Decides(next, lists)
BY DEF Decides, HoldsRow

\* What a transition to each state publishes.
LEMMA PublishedFor ==
  ASSUME NEW to \in CredentialStatus, Publish(to) # <<>>
  PROVE  \/ to = "SUSPENDED" /\ Publish(to) = <<SetSuspension>>
         \/ to = "ACTIVE" /\ Publish(to) = <<ClearSuspension>>
         \/ to \in TerminalCredential /\ Publish(to) = <<SetRevocation, ClearSuspension>>
BY DEF Publish, CredentialStatus, TerminalCredential

\* The single writes, and what is left to publish after each.
LEMMA QueueParts ==
  /\ Head(<<SetSuspension>>) = SetSuspension /\ Tail(<<SetSuspension>>) = <<>>
  /\ Head(<<ClearSuspension>>) = ClearSuspension /\ Tail(<<ClearSuspension>>) = <<>>
  /\ Head(<<SetRevocation, ClearSuspension>>) = SetRevocation
  /\ Tail(<<SetRevocation, ClearSuspension>>) = <<ClearSuspension>>
  /\ <<ClearSuspension>> # <<>>
  /\ <<ClearSuspension>> # <<SetRevocation, ClearSuspension>>
OBVIOUS

\* What a request starts a handler with: a row is the row as it is, an erasure
\* revokes.
LEMMA RequestStarts ==
  ASSUME TypeInv, NEW p \in Handler, Request(p)
  PROVE  LET g == handler'[p] IN
         /\ handler[p].step = "idle" /\ UNCHANGED <<residents, statusLists>>
         /\ g.step \in {"resolve", "find", "relationship", "deliver", "confirm"}
         /\ g.op = "erase" => g.to = "REVOKED"
         /\ g.step = "deliver" => g.op = "delivery"
         /\ g.step \in HoldsRow
              => /\ g.resident \in ResidentId /\ Exists(g.resident)
                 /\ g.row.index = residents[g.resident].index
                 /\ g.row.credential = residents[g.resident].credential
                 /\ g.row.subject = residents[g.resident].subject
<1>1. handler[p].step = "idle" /\ UNCHANGED <<residents, statusLists>>
  BY DEF Request, RequestIssue, RequestTransition, RequestRelationship,
     RequestDelivery, RequestReconcile, RequestExpiry, RequestErasure, Store
<1>2. ASSUME NEW s \in Subject, NEW offline \in BOOLEAN, RequestIssue(p, s, offline)
      PROVE  handler'[p].step = "resolve" /\ handler'[p].op = "issue"
  <2>1. handler'[p] = [Idle EXCEPT !.step = "resolve", !.op = "issue",
                                   !.subject = s, !.offline = offline]
    BY <1>2, HoldsNext DEF RequestIssue
  <2> QED BY <2>1 DEF Idle
<1>3. ASSUME NEW r \in ResidentId, NEW to \in CredentialTargets, RequestTransition(p, r, to)
      PROVE  handler'[p].step = "find" /\ handler'[p].op = "transition"
  <2>1. handler'[p] = [Idle EXCEPT !.step = "find", !.op = "transition",
                                   !.resident = r, !.to = to]
    BY <1>3, HoldsNext DEF RequestTransition
  <2> QED BY <2>1 DEF Idle
<1>4. ASSUME NEW r \in ResidentId, NEW to \in RelationshipTargets, RequestRelationship(p, r, to)
      PROVE  /\ handler'[p].step = "relationship" /\ handler'[p].op = "relationship"
             /\ handler'[p].resident = r /\ Exists(r)
             /\ handler'[p].row.index = residents[r].index
             /\ handler'[p].row.credential = residents[r].credential
             /\ handler'[p].row.subject = residents[r].subject
  <2>1. PICK row : row = [residents[r] EXCEPT !.relationship = to]
    OBVIOUS
  <2>2. handler'[p] = [Idle EXCEPT !.step = "relationship", !.op = "relationship",
                                   !.resident = r, !.row = row]
    BY <1>4, <2>1, HoldsNext DEF RequestRelationship
  <2>3. /\ handler'[p].step = "relationship" /\ handler'[p].op = "relationship"
        /\ handler'[p].resident = r /\ handler'[p].row = row
    BY <2>2 DEF Idle
  <2>4. residents[r] \in Row /\ Exists(r)
    BY <1>4 DEF RequestRelationship, TypeInv, TypeOK, Exists
  <2> QED BY <2>1, <2>3, <2>4 DEF Row
<1>5. ASSUME NEW r \in ResidentId, RequestDelivery(p, r)
      PROVE  handler'[p].step = "deliver" /\ handler'[p].op = "delivery"
  <2>1. handler'[p] = [Idle EXCEPT !.step = "deliver", !.op = "delivery", !.resident = r]
    BY <1>5, HoldsNext DEF RequestDelivery
  <2> QED BY <2>1 DEF Idle
<1>6. ASSUME NEW r \in ResidentId, RequestReconcile(p, r)
      PROVE  /\ handler'[p].step = "confirm" /\ handler'[p].op = "reconcile"
             /\ handler'[p].resident = r /\ handler'[p].row = residents[r] /\ Exists(r)
  <2>1. PICK row : row = residents[r]
    OBVIOUS
  <2>2. handler'[p] = [Idle EXCEPT !.step = "confirm", !.op = "reconcile",
                                   !.resident = r, !.row = row]
    BY <1>6, <2>1, HoldsNext DEF RequestReconcile
  <2>3. /\ handler'[p].step = "confirm" /\ handler'[p].op = "reconcile"
        /\ handler'[p].resident = r /\ handler'[p].row = row
    BY <2>2 DEF Idle
  <2> QED BY <1>6, <2>1, <2>3 DEF RequestReconcile
<1>7. ASSUME NEW r \in ResidentId, RequestExpiry(p, r) \/ RequestErasure(p, r)
      PROVE  handler'[p].step = "find" /\ handler'[p].to = "REVOKED"
  <2>1. PICK op \in {"expire", "erase"} :
          Goes(p, [Idle EXCEPT !.step = "find", !.op = op, !.resident = r, !.to = "REVOKED"])
    BY <1>7 DEF RequestExpiry, RequestErasure
  <2>2. handler'[p] = [Idle EXCEPT !.step = "find", !.op = op, !.resident = r, !.to = "REVOKED"]
    BY <2>1, HoldsNext
  <2> QED BY <2>2 DEF Idle
<1> QED BY <1>1, <1>2, <1>3, <1>4, <1>5, <1>6, <1>7 DEF Request, HoldsRow

\* Where each step leaves its handler, when it is not done.
LEMMA StepMoves ==
  ASSUME TypeInv, NEW p \in Handler, Step(p)
  PROVE  LET h == handler[p]
             g == handler'[p]
             movable == CanTransitionCredential(CurrentCredential(h.row), h.to)
             keepsRow == g.resident = h.resident /\ g.row = h.row
         IN
         \/ g = Idle
         \/ RecordDelivery(p) /\ g.step = "find" /\ g.op = h.op
         \/ /\ g.op = h.op /\ g.to = h.to
            /\ \/ /\ FindResident(p) /\ g.step = "decide"
                  /\ g.resident = h.resident /\ g.row = residents[h.resident]
               \/ /\ DecideTransition(p) /\ movable /\ keepsRow
                  /\ g.step = "load" /\ g.queue = Publish(h.to)
               \/ DecideTransition(p) /\ ~movable /\ keepsRow /\ h.op = "erase" /\ g.step = "erase"
               \/ LoadList(p) /\ keepsRow /\ g.step = "store" /\ g.queue = h.queue
               \/ /\ StoreList(p) /\ InList(h.row.index) /\ keepsRow
                  /\ g.queue = Tail(h.queue)
                  /\ g.step = IF Tail(h.queue) = <<>> THEN "persist" ELSE "load"
               \/ /\ PersistTransition(p) /\ SubjectFree(h.resident, h.row.subject)
                  /\ keepsRow /\ h.op = "erase" /\ g.step = "erase"
               \/ TakeIndex(p) /\ g.resident = h.resident /\ g.step = "enrol" /\ g.index = nextIndex
               \/ /\ ResolvePerson(p) \/ MatchPerson(p) \/ Enrol(p) \/ FindLink(p)
                  /\ g.step \in {"match", "index", "linkFind", "linkSave"}
<1> DEFINE h == handler[p]
           g == handler'[p]
<1>h. h \in HandlerState
  BY DEF TypeInv, TypeOK
<1>f. Finishes(p) => g = Idle
  BY HoldsNext
<1>1. CASE FindResident(p)
  <2>1. PICK row : row = residents[h.resident]
    OBVIOUS
  <2>2. g = [h EXCEPT !.step = "decide", !.row = row]
    BY <1>1, <2>1, HoldsNext DEF FindResident
  <2>3. /\ g.step = "decide" /\ g.row = row /\ g.op = h.op /\ g.to = h.to
        /\ g.resident = h.resident
    BY <1>h, <2>2 DEF HandlerState
  <2> QED BY <1>1, <2>1, <2>3
<1>2. CASE DecideTransition(p)
  <2>1. CASE Finishes(p)
    BY <1>f, <2>1
  <2>2. CASE /\ Goes(p, [h EXCEPT !.step = "load", !.queue = Publish(h.to)])
             /\ CanTransitionCredential(CurrentCredential(h.row), h.to)
    <3>1. PICK queue : queue = Publish(h.to)
      OBVIOUS
    <3>2. g = [h EXCEPT !.step = "load", !.queue = queue]
      BY <2>2, <3>1, HoldsNext
    <3>3. /\ g.step = "load" /\ g.queue = queue /\ g.row = h.row /\ g.op = h.op /\ g.to = h.to
          /\ g.resident = h.resident
      BY <1>h, <3>2 DEF HandlerState
    <3> QED BY <1>2, <2>2, <3>1, <3>3
  <2>3. CASE /\ h.op = "erase" /\ Goes(p, [h EXCEPT !.step = "erase"])
             /\ ~ CanTransitionCredential(CurrentCredential(h.row), h.to)
    <3>1. g = [h EXCEPT !.step = "erase"]
      BY <2>3, HoldsNext
    <3>2. /\ g.step = "erase" /\ g.row = h.row /\ g.op = h.op /\ g.to = h.to
          /\ g.resident = h.resident
      BY <1>h, <3>1 DEF HandlerState
    <3> QED BY <1>2, <2>3, <3>2
  <2> QED BY <1>2, <2>1, <2>2, <2>3 DEF DecideTransition, Returns
<1>3. CASE LoadList(p)
  <2>1. PICK list : list = statusLists[Head(h.queue).purpose]
    OBVIOUS
  <2>2. g = [h EXCEPT !.step = "store", !.list = list]
    BY <1>3, <2>1, HoldsNext DEF LoadList
  <2>3. /\ g.step = "store" /\ g.queue = h.queue /\ g.row = h.row /\ g.op = h.op /\ g.to = h.to
        /\ g.resident = h.resident
    BY <1>h, <2>2 DEF HandlerState
  <2> QED BY <1>3, <2>3
<1>4. CASE StoreList(p)
  <2>1. CASE ~ InList(h.row.index)
    BY <1>4, <1>f, <2>1 DEF StoreList
  <2>2. CASE InList(h.row.index)
    <3>1. PICK rest : rest = Tail(h.queue)
      OBVIOUS
    <3>2. g = [h EXCEPT !.step = IF rest = <<>> THEN "persist" ELSE "load",
                        !.queue = rest, !.list = {}]
      BY <1>4, <2>2, <3>1, HoldsNext DEF StoreList
    <3>3. /\ g.step = IF rest = <<>> THEN "persist" ELSE "load"
          /\ g.queue = rest /\ g.row = h.row /\ g.op = h.op /\ g.to = h.to
          /\ g.resident = h.resident
      BY <1>h, <3>2 DEF HandlerState
    <3> QED BY <1>4, <2>2, <3>1, <3>3
  <2> QED BY <2>1, <2>2
<1>5. CASE PersistTransition(p)
  <2>1. CASE Finishes(p)
    BY <1>f, <2>1
  <2>2. CASE /\ h.op = "erase" /\ Goes(p, [h EXCEPT !.step = "erase"])
             /\ SubjectFree(h.resident, h.row.subject)
    <3>1. g = [h EXCEPT !.step = "erase"]
      BY <2>2, HoldsNext
    <3>2. /\ g.step = "erase" /\ g.row = h.row /\ g.op = h.op /\ g.to = h.to
          /\ g.resident = h.resident
      BY <1>h, <3>1 DEF HandlerState
    <3> QED BY <1>5, <2>2, <3>2
  <2> QED BY <1>5, <2>1, <2>2 DEF PersistTransition, Returns
<1>6. CASE PersistRelationship(p) \/ Confirm(p) \/ Erase(p) \/ SaveLink(p)
  BY <1>6, <1>f DEF PersistRelationship, Confirm, Erase, SaveLink
<1>7. CASE ResolvePerson(p)
  <2>1. PICK r : r = links[h.subject]
    OBVIOUS
  <2>2. g = [h EXCEPT !.step = "match", !.resident = r]
    BY <1>7, <2>1, HoldsNext DEF ResolvePerson
  <2>3. g.step = "match" /\ g.op = h.op /\ g.to = h.to
    BY <1>h, <2>2 DEF HandlerState
  <2> QED BY <1>7, <2>3
<1>8. CASE MatchPerson(p)
  <2>1. ASSUME NEW r, Goes(p, [h EXCEPT !.step = "index", !.resident = r, !.row = residents[r]])
        PROVE  g.step = "index" /\ g.op = h.op /\ g.to = h.to
    <3>1. PICK row : row = residents[r]
      OBVIOUS
    <3>2. g = [h EXCEPT !.step = "index", !.resident = r, !.row = row]
      BY <2>1, <3>1, HoldsNext
    <3> QED BY <1>h, <3>2 DEF HandlerState
  <2> QED BY <1>8, <1>f, <2>1 DEF MatchPerson
<1>9. CASE TakeIndex(p)
  <2>1. Reserved(Incremented(nextIndex)) = nextIndex
    BY <1>9, TakenIndex, RegisterAssumption DEF Incremented, Reserved, TypeInv, TypeOK, Index
  <2>2. g = [h EXCEPT !.step = "enrol", !.index = nextIndex]
    BY <1>9, <2>1, HoldsNext DEF TakeIndex
  <2>3. /\ g.step = "enrol" /\ g.index = nextIndex /\ g.op = h.op /\ g.to = h.to
        /\ g.resident = h.resident
    BY <1>h, <2>2 DEF HandlerState
  <2> QED BY <1>9, <2>3
<1>10. CASE Enrol(p) \/ FindLink(p)
  <2>1. ASSUME NEW step \in {"linkFind", "linkSave"}, Goes(p, [h EXCEPT !.step = step])
        PROVE  g.step = step /\ g.op = h.op /\ g.to = h.to
    <3>1. g = [h EXCEPT !.step = step]
      BY <2>1, HoldsNext
    <3> QED BY <1>h, <3>1 DEF HandlerState
  <2> QED BY <1>10, <1>f, <2>1 DEF Enrol, FindLink
<1>11. CASE RecordDelivery(p)
  <2>1. ASSUME Goes(p, [h EXCEPT !.step = "find", !.to = "ACTIVE"])
        PROVE  g.step = "find" /\ g.op = h.op
    <3>1. g = [h EXCEPT !.step = "find", !.to = "ACTIVE"]
      BY <2>1, HoldsNext
    <3> QED BY <1>h, <3>1 DEF HandlerState
  <2> QED BY <1>11, <1>f, <2>1 DEF RecordDelivery
<1> QED BY <1>1, <1>2, <1>3, <1>4, <1>5, <1>6, <1>7, <1>8, <1>9, <1>10, <1>11 DEF Step

\* What one store call does to the lists, and where it leaves its handler: at
\* the last write of a queue it goes on to persist.
LEMMA StoresChange ==
  ASSUME TypeInv, ListInv, DecidesInv, NEW p \in Handler, StoreList(p),
         InList(handler[p].row.index)
  PROVE  LET h == handler[p]
             g == handler'[p]
             i == h.row.index
             bits == statusLists'
         IN
         /\ g.row = h.row /\ g.resident = h.resident /\ g.to = h.to /\ g.op = h.op
         /\ h.to \in CredentialStatus
         /\ \/ /\ h.queue = <<SetSuspension>> /\ h.to = "SUSPENDED" /\ g.step = "persist"
               /\ bits["revocation"] = statusLists["revocation"]
               /\ bits["suspension"] = statusLists["suspension"] \cup {i}
            \/ /\ h.queue = <<ClearSuspension>> /\ g.step = "persist"
               /\ \/ h.to = "ACTIVE" /\ h.queue = Publish(h.to)
                  \/ h.to \in TerminalCredential /\ Revoked(i)
               /\ bits["revocation"] = statusLists["revocation"]
               /\ bits["suspension"] = statusLists["suspension"] \ {i}
            \/ /\ h.queue = <<SetRevocation, ClearSuspension>> /\ g.step = "load"
               /\ h.to \in TerminalCredential /\ g.queue = <<ClearSuspension>>
               /\ bits["revocation"] = statusLists["revocation"] \cup {i}
               /\ bits["suspension"] = statusLists["suspension"]
<1> DEFINE h == handler[p]
           i == h.row.index
           rest == Tail(h.queue)
           next == [h EXCEPT !.step = IF rest = <<>> THEN "persist" ELSE "load",
                             !.queue = rest, !.list = {}]
<1>1. /\ h.step = "store" /\ h \in HandlerState /\ h.to \in CredentialStatus /\ h.queue # <<>>
      /\ h.list = statusLists[Head(h.queue).purpose]
      /\ Decides(h, statusLists)
  BY DEF StoreList, TypeInv, TypeOK, HandlerHolds, HandlerState, ListInv, DecidesInv
<1>2. handler'[p] = next
  <2>1. Goes(p, next)
    BY DEF StoreList
  <2> QED BY <2>1, HoldsNext
<1>3. /\ next.row = h.row /\ next.resident = h.resident /\ next.to = h.to /\ next.op = h.op
      /\ next.queue = rest
      /\ next.step = IF rest = <<>> THEN "persist" ELSE "load"
  BY <1>1 DEF HandlerState
<1>4. statusLists' = [statusLists EXCEPT ![Head(h.queue).purpose] =
                        WithBit(statusLists[Head(h.queue).purpose], i, Head(h.queue).set)]
  BY <1>1 DEF StoreList
<1>5. DOMAIN statusLists = StatusPurpose
  BY DEF TypeInv, TypeOK
<1>6. \/ h.queue = Publish(h.to)
      \/ h.to \in TerminalCredential /\ h.queue = <<ClearSuspension>> /\ Revoked(i)
  BY <1>1 DEF Decides, Revoked
<1>7. \/ h.queue = <<SetSuspension>> /\ h.to = "SUSPENDED"
      \/ /\ h.queue = <<ClearSuspension>>
         /\ \/ h.to = "ACTIVE" /\ h.queue = Publish(h.to)
            \/ h.to \in TerminalCredential /\ Revoked(i)
      \/ h.queue = <<SetRevocation, ClearSuspension>> /\ h.to \in TerminalCredential
  BY <1>1, <1>6, PublishedFor
<1>8. CASE h.queue = <<SetSuspension>> /\ h.to = "SUSPENDED"
  <2>1. rest = <<>> /\ Head(h.queue).purpose = "suspension" /\ Head(h.queue).set = TRUE
    BY <1>8, QueueParts DEF SetSuspension
  <2>2. /\ statusLists'["revocation"] = statusLists["revocation"]
        /\ statusLists'["suspension"] = statusLists["suspension"] \cup {i}
    BY <1>4, <1>5, <2>1 DEF WithBit, StatusPurpose
  <2> QED BY <1>1, <1>2, <1>3, <1>8, <2>1, <2>2
<1>9. CASE h.queue = <<ClearSuspension>>
  <2>1. rest = <<>> /\ Head(h.queue).purpose = "suspension" /\ Head(h.queue).set = FALSE
    BY <1>9, QueueParts DEF ClearSuspension
  <2>2. /\ statusLists'["revocation"] = statusLists["revocation"]
        /\ statusLists'["suspension"] = statusLists["suspension"] \ {i}
    BY <1>4, <1>5, <2>1 DEF WithBit, StatusPurpose
  <2>3. \/ h.to = "ACTIVE" /\ h.queue = Publish(h.to)
        \/ h.to \in TerminalCredential /\ Revoked(i)
    <3>1. Head(<<SetSuspension>>).set # Head(<<ClearSuspension>>).set
      BY QueueParts DEF SetSuspension, ClearSuspension
    <3> QED BY <1>7, <1>9, <3>1, QueueParts
  <2> QED BY <1>1, <1>2, <1>3, <1>9, <2>1, <2>2, <2>3
<1>10. CASE h.queue = <<SetRevocation, ClearSuspension>> /\ h.to \in TerminalCredential
  <2>1. rest = <<ClearSuspension>> /\ Head(h.queue).purpose = "revocation" /\ Head(h.queue).set = TRUE
    BY <1>10, QueueParts DEF SetRevocation
  <2>2. /\ statusLists'["revocation"] = statusLists["revocation"] \cup {i}
        /\ statusLists'["suspension"] = statusLists["suspension"]
    BY <1>4, <1>5, <2>1 DEF WithBit, StatusPurpose
  <2> QED BY <1>1, <1>2, <1>3, <1>10, <2>1, <2>2, QueueParts
<1> QED BY <1>7, <1>8, <1>9, <1>10

\* Nothing is taken off the revocation list.
LEMMA RevokedStays ==
  ASSUME TypeInv, IndexInv, ListInv, NEW p \in Handler, Request(p) \/ Step(p) \/ Fail(p)
  PROVE  statusLists["revocation"] \subseteq statusLists'["revocation"]
<1>1. CASE UNCHANGED statusLists
  BY <1>1
<1>2. CASE StoreList(p)
  <2>1. DOMAIN statusLists = StatusPurpose
    BY DEF TypeInv, TypeOK
  <2> QED BY <1>2, <2>1, StoredBit DEF StatusPurpose
<1> QED BY <1>1, <1>2, WhoWrites

\* A credential that is past revoking is on the list, whether its row says so
\* or never recorded a decision.
LEMMA RefusedIsRevoked ==
  ASSUME TypeInv, DecisionInv, NEW p \in Handler, handler[p].step = "decide",
         handler[p].op = "erase",
         ~ CanTransitionCredential(CurrentCredential(handler[p].row), handler[p].to)
  PROVE  Revoked(handler[p].row.index)
<1> DEFINE h == handler[p]
<1>1. h.to = "REVOKED" /\ h.row \in Row /\ Decides(h, statusLists)
  BY DEF DecisionInv, DecidesInv, Decides, TypeInv, HandlerHolds, HoldsRow
<1>2. CurrentCredential(h.row) \in CredentialStatus
  BY <1>1 DEF CurrentCredential, BackfilledCredentialStatus, Row, CredentialStatus
<1>3. CurrentCredential(h.row) \in TerminalCredential
  BY <1>1, <1>2 DEF CanTransitionCredential, CredentialTransitions, CredentialStatus,
     TerminalCredential
<1>4. CASE h.row.credential = NoStatus
  BY <1>3, <1>4
     DEF CurrentCredential, BackfilledCredentialStatus, TerminalCredential, Revoked
<1>5. CASE h.row.credential # NoStatus
  BY <1>1, <1>3, <1>5 DEF CurrentCredential, Decides, HoldsRow, Revoked
<1> QED BY <1>4, <1>5

\* Each step leaves its handler with what it holds true of the lists.
LEMMA StepDecides ==
  ASSUME TypeInv, IndexInv, ListInv, DecisionInv, NEW p \in Handler, Step(p)
  PROVE  Decides(handler'[p], statusLists')
<1> DEFINE h == handler[p]
           g == handler'[p]
           movable == CanTransitionCredential(CurrentCredential(h.row), h.to)
<1>h. Decides(h, statusLists) /\ DecidesInv
  BY DEF DecisionInv, DecidesInv
<1>s. statusLists["revocation"] \subseteq statusLists'["revocation"]
  BY RevokedStays
<1>1. CASE g = Idle
  BY <1>1, DecidesFreely DEF Idle, HoldsRow
<1>2. CASE RecordDelivery(p) /\ g.step = "find" /\ g.op = h.op
  <2>1. h.op = "delivery"
    BY <1>2, <1>h DEF RecordDelivery, Decides
  <2> QED BY <1>2, <2>1, DecidesFreely DEF HoldsRow
<1>3. CASE /\ FindResident(p) /\ g.op = h.op /\ g.to = h.to /\ g.step = "decide"
           /\ g.row = residents[h.resident]
  <2>1. h.resident \in ResidentId /\ Exists(h.resident)
    BY <1>3 DEF FindResident, TypeInv, HandlerHolds, KnowsResident
  <2>2. g.row.credential \in TerminalCredential => g.row.index \in statusLists["revocation"]
    BY <1>3, <2>1 DEF DecisionInv, BelievedDeadIsDead, Revoked
  <2> QED BY <1>3, <1>h, <1>s, <2>2 DEF Decides
<1>4. CASE /\ DecideTransition(p) /\ g.op = h.op /\ g.to = h.to /\ g.row = h.row
           /\ g.step = "load" /\ g.queue = Publish(h.to)
  BY <1>4, <1>h, <1>s DEF DecideTransition, Decides, HoldsRow
<1>5. CASE /\ DecideTransition(p) /\ g.op = h.op /\ g.to = h.to /\ g.row = h.row
           /\ ~movable /\ h.op = "erase" /\ g.step = "erase"
  <2>1. Revoked(h.row.index)
    BY <1>5, RefusedIsRevoked DEF DecideTransition
  <2> QED BY <1>5, <1>h, <1>s, <2>1 DEF Decides, HoldsRow, Revoked
<1>6. CASE /\ LoadList(p) /\ g.op = h.op /\ g.to = h.to /\ g.row = h.row
           /\ g.step = "store" /\ g.queue = h.queue
  BY <1>6, <1>h, <1>s DEF LoadList, Decides, HoldsRow
<1>7. CASE StoreList(p) /\ InList(h.row.index) /\ g.op = h.op
  <2>1. /\ h.step = "store" /\ g.row = h.row /\ g.to = h.to
        /\ \/ g.step = "persist" /\ h.to \in {"SUSPENDED", "ACTIVE"}
           \/ g.step = "persist" /\ h.to \in TerminalCredential /\ Revoked(h.row.index)
           \/ /\ g.step = "load" /\ g.queue = <<ClearSuspension>> /\ h.to \in TerminalCredential
              /\ h.row.index \in statusLists'["revocation"]
    BY <1>7, <1>h, StoresChange DEF StoreList
  <2>2. h.row.credential \in TerminalCredential => h.row.index \in statusLists'["revocation"]
    BY <1>h, <1>s, <2>1 DEF Decides, HoldsRow
  <2>3. g.step = "persist" /\ h.to \in TerminalCredential
          => h.row.index \in statusLists'["revocation"]
    BY <1>s, <2>1 DEF Revoked, TerminalCredential
  <2>4. g.op = "erase" => g.to = "REVOKED"
    BY <1>7, <1>h, <2>1 DEF Decides
  <2> QED BY <2>1, <2>2, <2>3, <2>4 DEF Decides
<1>8. CASE /\ PersistTransition(p) /\ g.op = h.op /\ g.to = h.to /\ g.row = h.row
           /\ h.op = "erase" /\ g.step = "erase"
  BY <1>8, <1>h, <1>s DEF PersistTransition, Decides, HoldsRow, TerminalCredential
<1>9. CASE /\ g.op = h.op /\ g.to = h.to
           /\ g.step \in {"enrol", "match", "index", "linkFind", "linkSave"}
  BY <1>9, <1>h, DecidesFreely DEF Decides, HoldsRow
<1> QED BY StepMoves, <1>1, <1>2, <1>3, <1>4, <1>5, <1>6, <1>7, <1>8, <1>9

\* A step that leaves the lists alone, and the index and credential of every
\* row, leaves what the register believes true.
LEMMA BelievedKept ==
  ASSUME BelievedDeadIsDead, \A i \in Index : Revoked(i) => i \in statusLists'["revocation"],
         TypeInv,
         \A r \in ResidentId :
           residents'[r] # NoRow
             => \/ /\ Exists(r) /\ residents'[r].index = residents[r].index
                   /\ residents'[r].credential = residents[r].credential
                \/ residents'[r].credential \notin TerminalCredential
                \/ residents'[r].index \in statusLists'["revocation"]
  PROVE  BelievedDeadIsDead'
<1>1. \A r \in ResidentId : Exists(r) => residents[r].index \in Index
  BY DEF TypeInv, TypeOK, Exists, Row
<1> QED BY <1>1 DEF BelievedDeadIsDead, Exists, Revoked

\* No step makes the register believe a credential dead that is not.
LEMMA StepBelieved ==
  ASSUME TypeInv, IndexInv, ListInv, DecisionInv, NEW p \in Handler,
         Request(p) \/ Step(p) \/ Fail(p)
  PROVE  BelievedDeadIsDead'
<1> DEFINE h == handler[p]
<1>h. Decides(h, statusLists) /\ BelievedDeadIsDead
  BY DEF DecisionInv, DecidesInv
<1>s. \A i \in Index : Revoked(i) => i \in statusLists'["revocation"]
  BY RevokedStays DEF Revoked
<1>1. CASE UNCHANGED residents
  BY <1>1, <1>h, <1>s, BelievedKept DEF Exists
<1>2. CASE /\ PersistTransition(p) \/ PersistRelationship(p) \/ Confirm(p)
           /\ ~ UNCHANGED residents
  <2>1. /\ h.resident \in ResidentId /\ h.step \in HoldsRow
        /\ residents'[h.resident].index = h.row.index
        /\ residents'[h.resident].credential =
             IF PersistTransition(p) THEN h.to
             ELSE SavedCredential(residents[h.resident].credential, h.row.credential)
        /\ \A q \in ResidentId : q # h.resident => residents'[q] = residents[q]
    BY <1>2, SavesHeldRow
  <2>2. h.row.index \in Index
    BY <2>1, HeldIndexTaken
  <2>3. PersistTransition(p) /\ h.to \in TerminalCredential => Revoked(h.row.index)
    BY <1>h DEF PersistTransition, Decides, Revoked
  <2>4. h.row.credential \in TerminalCredential => Revoked(h.row.index)
    BY <1>h, <2>1 DEF Decides, Revoked
  <2>5. \/ SavedCredential(residents[h.resident].credential, h.row.credential) = h.row.credential
        \/ SavedCredential(residents[h.resident].credential, h.row.credential) \notin TerminalCredential
    BY DEF SavedCredential, TerminalCredential, NoStatus
  <2>6. \/ residents'[h.resident].credential \notin TerminalCredential
        \/ residents'[h.resident].index \in statusLists'["revocation"]
    BY <1>s, <2>1, <2>2, <2>3, <2>4, <2>5
  <2> QED BY <1>h, <1>s, <2>1, <2>6, BelievedKept DEF Exists
<1>3. CASE Enrol(p) /\ ~ UNCHANGED residents
  <2>1. /\ h.resident \in ResidentId
        /\ residents'[h.resident].credential \in {NoStatus, "ISSUED", "ACTIVE"}
        /\ \A q \in ResidentId : q # h.resident => residents'[q] = residents[q]
    BY <1>3, EnrolsRow
  <2>2. residents'[h.resident].credential \notin TerminalCredential
    BY <2>1 DEF TerminalCredential, NoStatus
  <2> QED BY <1>h, <1>s, <2>1, <2>2, BelievedKept DEF Exists
<1>4. CASE Erase(p)
  <2>1. /\ h.resident \in ResidentId /\ Exists(h.resident)
        /\ residents'[h.resident].index = residents[h.resident].index
        /\ residents'[h.resident].credential = residents[h.resident].credential
        /\ \A q \in ResidentId : q # h.resident => residents'[q] = residents[q]
    BY <1>4, ErasesRow
  <2> QED BY <1>h, <1>s, <2>1, BelievedKept DEF Exists
<1> QED BY <1>1, <1>2, <1>3, <1>4, WhoWritesRows

LEMMA NextDecisionInv ==
  ASSUME TypeInv, IndexInv, ListInv, DecisionInv, [Next]_vars
  PROVE  DecisionInv'
<1>1. ASSUME NEW p \in Handler, Request(p) \/ Step(p) \/ Fail(p)
      PROVE  DecisionInv'
  <2>1. statusLists["revocation"] \subseteq statusLists'["revocation"]
    BY <1>1, RevokedStays
  <2>2. Decides(handler'[p], statusLists')
    <3>1. CASE Request(p)
      BY <3>1, RequestStarts DEF Decides, HoldsRow, DecisionInv, BelievedDeadIsDead, Revoked
    <3>2. CASE Fail(p)
      <4>1. handler'[p] = Idle
        BY <3>2, HoldsNext DEF Fail
      <4> QED BY <4>1, DecidesFreely DEF Idle, HoldsRow
    <3> QED BY <1>1, <3>1, <3>2, StepDecides
  <2>3. ASSUME NEW q \in Handler, q # p
        PROVE  Decides(handler'[q], statusLists')
    <3>1. handler'[q] = handler[q] /\ Decides(handler[q], statusLists)
      BY <1>1, <2>3, OthersStay DEF DecisionInv, DecidesInv
    <3> QED BY <2>1, <3>1 DEF Decides
  <2> QED BY <1>1, <2>2, <2>3, StepBelieved DEF DecisionInv, DecidesInv
<1>2. CASE UNCHANGED vars
  BY <1>2 DEF vars, DecisionInv, DecidesInv, BelievedDeadIsDead, Exists, Revoked
<1> QED BY <1>1, <1>2 DEF Next

\* The invariants that hold together while no two handlers hold the same list.
LEMMA DecisionInvariants ==
  Spec /\ []ListsExclusive => [](TypeInv /\ IndexInv /\ ListInv /\ DecisionInv)
<1>1. ListsExclusive /\ TypeInv /\ IndexInv /\ ListInv /\ [Next]_vars => ListInv'
  BY NextListInv
<1>2. TypeInv /\ IndexInv /\ ListInv /\ DecisionInv /\ [Next]_vars => DecisionInv'
  BY NextDecisionInv
<1> QED BY InitTypeInv, NextTypeInv, InitIndexInv, NextIndexInv, InitListInv, InitDecisionInv,
           <1>1, <1>2, PTL DEF Spec

\* As long as no two handlers hold the same loaded list, however else they
\* overlap, whatever stale rows they write back, wherever they stop, and
\* whether or not an index is on the list at all, the register believes no
\* credential dead that the published list still calls good
\* (transitionCredential publishes first, then persists).
THEOREM DeadIsPublished == Spec /\ []ListsExclusive => []BelievedDeadIsDead
<1>1. DecisionInv => BelievedDeadIsDead
  BY DEF DecisionInv
<1> QED BY DecisionInvariants, <1>1, PTL

\* A step that takes an index off the suspension list revoked it before, or
\* reinstates it.
LEMMA SuspensionStep ==
  ASSUME TypeInv, ListInv, DecisionInv, [Next]_vars, NEW i \in Index,
         Suspended(i), i \notin statusLists'["suspension"]
  PROVE  \/ i \in statusLists'["revocation"]
         \/ \E p \in Handler : /\ handler[p].step = "store"
                               /\ handler[p].to = "ACTIVE"
                               /\ handler[p].row.index = i
<1>1. ~ UNCHANGED statusLists /\ ~ UNCHANGED vars
  BY DEF vars, Suspended
<1>2. PICK p \in Handler : StoreList(p)
  BY <1>1, WhoWrites DEF Next
<1>3. InList(handler[p].row.index) /\ handler[p].step = "store" /\ DecidesInv
  BY <1>1, <1>2 DEF StoreList, DecisionInv
<1> QED BY <1>2, <1>3, StoresChange DEF Suspended, Revoked

\* As long as no two handlers hold the same loaded list, a suspended credential
\* becomes usable again only by a reinstatement: a revocation, an expiry or a
\* replacement has its bit set before the suspension is lifted, wherever the
\* handler stops (applyCredentialTransition, the order of `publish`).
THEOREM SuspensionHolds == Spec /\ []ListsExclusive => SuspendedUntilReinstated
<1>1. TypeInv /\ IndexInv /\ ListInv /\ DecisionInv /\ [Next]_vars
        => [\A i \in Index :
              Suspended(i) /\ i \notin statusLists'["suspension"]
                => \/ i \in statusLists'["revocation"]
                   \/ \E p \in Handler : /\ handler[p].step = "store"
                                         /\ handler[p].to = "ACTIVE"
                                         /\ handler[p].row.index = i]_vars
  BY SuspensionStep
<1> QED BY DecisionInvariants, <1>1, PTL DEF Spec, SuspendedUntilReinstated

----------------------------------------------------------------------------
(* The row a handler works on.  While no two handlers work for the same     *)
(* resident, what a handler holds is its row as it is, so that the row it   *)
(* destroys is the one whose credential it saw revoked.                     *)

Follows(h, rows) ==
  /\ h.step \in HoldsRow \cup {"erase"} => h.row.index = rows[h.resident].index
  /\ h.step \in HoldsRow => /\ h.row.credential = rows[h.resident].credential
                            /\ h.row.subject = rows[h.resident].subject

FollowsInv == \A p \in Handler : Follows(handler[p], residents)

LEMMA InitFollowsInv == Init => FollowsInv
BY DEF Init, FollowsInv, Follows, Idle, HoldsRow

\* Two handlers that work for residents work for different ones.
LEMMA OneEach ==
  ASSUME TypeInv, ResidentsExclusive, NEW p \in Handler, NEW q \in Handler, q # p,
         handler[p].step # "idle", handler[p].resident \in ResidentId,
         handler[q].step # "idle"
  PROVE  handler[q].resident # handler[p].resident
BY RegisterAssumption DEF ResidentsExclusive

\* A step writes no row but the one its handler works on.
LEMMA OtherRowsStay ==
  ASSUME TypeInv, NEW p \in Handler, Request(p) \/ Step(p) \/ Fail(p), ~ UNCHANGED residents
  PROVE  LET r == handler[p].resident IN
         /\ handler[p].step # "idle" /\ r \in ResidentId
         /\ \A q \in ResidentId : q # r => residents'[q] = residents[q]
<1>1. CASE PersistTransition(p) \/ PersistRelationship(p) \/ Confirm(p)
  BY <1>1, SavesHeldRow DEF HoldsRow
<1>2. CASE Enrol(p)
  BY <1>2, EnrolsRow DEF Enrol
<1>3. CASE Erase(p)
  BY <1>3, ErasesRow DEF Erase
<1> QED BY <1>1, <1>2, <1>3, WhoWritesRows

\* Each step leaves its handler with its row as it is.
LEMMA StepFollows ==
  ASSUME TypeInv, FollowsInv, NEW p \in Handler, Step(p)
  PROVE  Follows(handler'[p], residents')
<1> DEFINE h == handler[p]
           g == handler'[p]
<1>h. Follows(h, residents)
  BY DEF FollowsInv
<1>1. CASE g.step \notin HoldsRow \cup {"erase"}
  BY <1>1 DEF Follows
<1>2. CASE /\ FindResident(p) /\ g.resident = h.resident /\ g.row = residents[h.resident]
  BY <1>2 DEF FindResident, Store, Follows
<1>3. CASE /\ DecideTransition(p) \/ LoadList(p) \/ StoreList(p)
           /\ g.resident = h.resident /\ g.row = h.row
  BY <1>3, <1>h DEF DecideTransition, LoadList, StoreList, Store, Follows, HoldsRow
<1>4. CASE /\ PersistTransition(p) /\ g.resident = h.resident /\ g.row = h.row /\ g.step = "erase"
  <2>1. h.step = "persist" /\ h.row.index = residents[h.resident].index
    BY <1>4, <1>h DEF PersistTransition, Follows, HoldsRow
  <2>2. residents'[h.resident].index = h.row.index
    BY <1>4, <2>1, SavesHeldRow
  <2> QED BY <1>4, <2>2 DEF Follows, HoldsRow
<1>5. CASE g = Idle
  BY <1>5 DEF Idle, Follows, HoldsRow
<1> QED BY StepMoves, <1>1, <1>2, <1>3, <1>4, <1>5 DEF HoldsRow

LEMMA NextFollowsInv ==
  ASSUME ResidentsExclusive, TypeInv, FollowsInv, [Next]_vars
  PROVE  FollowsInv'
<1>1. ASSUME NEW p \in Handler, Request(p) \/ Step(p) \/ Fail(p)
      PROVE  FollowsInv'
  <2>1. Follows(handler'[p], residents')
    <3>1. CASE Request(p)
      BY <3>1, RequestStarts DEF Follows, HoldsRow
    <3>2. CASE Fail(p)
      <4>1. handler'[p] = Idle
        BY <3>2, HoldsNext DEF Fail
      <4> QED BY <4>1 DEF Idle, Follows, HoldsRow
    <3> QED BY <1>1, <3>1, <3>2, StepFollows
  <2>2. ASSUME NEW q \in Handler, q # p
        PROVE  Follows(handler'[q], residents')
    <3>1. handler'[q] = handler[q] /\ Follows(handler[q], residents)
      BY <1>1, <2>2, OthersStay DEF FollowsInv
    <3>2. ASSUME handler[q].step \in HoldsRow \cup {"erase"}
          PROVE  residents'[handler[q].resident] = residents[handler[q].resident]
      <4>1. handler[q].resident \in ResidentId /\ handler[q].step # "idle"
        BY <3>2 DEF TypeInv, HandlerHolds, KnowsResident, HoldsRow
      <4> QED BY <1>1, <2>2, <4>1, OtherRowsStay, OneEach
    <3> QED BY <3>1, <3>2 DEF Follows
  <2> QED BY <2>1, <2>2 DEF FollowsInv
<1>2. CASE UNCHANGED vars
  BY <1>2 DEF vars, FollowsInv
<1> QED BY <1>1, <1>2 DEF Next

\* The invariants that hold together under both exclusions.
LEMMA ExclusiveInvariants ==
  Spec /\ []ListsExclusive /\ []ResidentsExclusive
    => [](TypeInv /\ IndexInv /\ ListInv /\ DecisionInv /\ FollowsInv)
<1>1. ResidentsExclusive /\ TypeInv /\ FollowsInv /\ [Next]_vars => FollowsInv'
  BY NextFollowsInv
<1> QED BY DecisionInvariants, InitFollowsInv, <1>1, PTL DEF Spec

\* A step that destroys a row finds its credential revoked.
LEMMA ErasureStep ==
  ASSUME TypeInv, DecisionInv, FollowsInv, [Next]_vars, NEW r \in ResidentId,
         Exists(r), ~ residents[r].erased, residents'[r].erased
  PROVE  Revoked(residents[r].index)
<1>1. ~ UNCHANGED residents /\ ~ UNCHANGED vars
  BY DEF vars
<1>2. PICK p \in Handler : Request(p) \/ Step(p) \/ Fail(p)
  BY <1>1 DEF Next
<1>3. ~ (PersistTransition(p) \/ PersistRelationship(p) \/ Confirm(p))
  BY <1>1, SavesHeldRow
<1>4. ~ Enrol(p)
  BY <1>1, EnrolsRow
<1>5. Erase(p)
  BY <1>1, <1>2, <1>3, <1>4, WhoWritesRows
<1>6. handler[p].resident = r
  BY <1>5, ErasesRow
<1>7. /\ Follows(handler[p], residents) /\ Decides(handler[p], statusLists)
      /\ handler[p].step = "erase"
  BY <1>5 DEF Erase, DecisionInv, DecidesInv, FollowsInv
<1> QED BY <1>6, <1>7 DEF Follows, Decides, Revoked

\* As long as no two handlers hold the same loaded list, and no two work for
\* the same resident, no row is destroyed whose credential is not already dead
\* on the published list: not after a refused revocation, one that stopped and
\* was asked for again, nor for a row that never recorded a decision (erase,
\* "Revocation happens FIRST and the order is load-bearing").
THEOREM ErasedIsRevoked ==
  Spec /\ []ListsExclusive /\ []ResidentsExclusive => RevokedBeforeErased
<1>1. TypeInv /\ IndexInv /\ ListInv /\ DecisionInv /\ FollowsInv /\ [Next]_vars
        => [\A r \in ResidentId :
              Exists(r) /\ ~residents[r].erased /\ residents'[r].erased
                => Revoked(residents[r].index)]_vars
  BY ErasureStep
<1> QED BY ExclusiveInvariants, <1>1, PTL DEF Spec, RevokedBeforeErased

----------------------------------------------------------------------------
(* Row and bits differ only for the resident a handler is publishing about, *)
(* or stopped publishing about; in the first case by as much as it has      *)
(* published; what could leave them apart for good, a list that ends before *)
(* the index or a subject that another row has taken, does so only before   *)
(* the first write, or never.                                               *)

Agrees(row, lists) ==
  /\ row.index \in lists["revocation"] <=> row.credential \in TerminalCredential
  /\ row.index \in lists["suspension"] <=> row.credential = "SUSPENDED"

PublishesAbout(h, r) == h.step \in Publishing /\ h.resident = r

RowsInv ==
  \A r \in ResidentId :
    Exists(r) => \/ Agrees(residents[r], statusLists)
                 \/ r \in interrupted
                 \/ \E p \in Handler : PublishesAbout(handler[p], r)

Tells(h, rows, lists, cut) ==
  /\ h.step = "enrol" => h.index \notin lists["revocation"] \cup lists["suspension"]
  /\ h.step \in {"load", "store"} /\ h.queue # Publish(h.to) => InList(h.row.index)
  /\ h.step \in {"load", "store"} /\ h.resident \notin cut
       => /\ h.queue = Publish(h.to) => Agrees(rows[h.resident], lists)
          /\ h.to \notin TerminalCredential => h.row.index \notin lists["revocation"]
  /\ h.step = "persist" /\ h.resident \notin cut
       => /\ h.row.index \in lists["revocation"] <=> h.to \in TerminalCredential
          /\ h.row.index \in lists["suspension"] <=> h.to = "SUSPENDED"

TellsInv == RowsInv /\ \A p \in Handler : Tells(handler[p], residents, statusLists, interrupted)

\* What the steps below start from.
RegisterInv ==
  /\ TypeInv /\ IndexInv /\ ListInv /\ SubjectsInv
  /\ DecisionInv /\ FollowsInv /\ ResidentsExclusive

LEMMA InitTellsInv == Init => TellsInv
BY DEF Init, TellsInv, RowsInv, Exists, Tells, Idle

\* A stop is held against the resident it was worked for, a new enrolment
\* forgives it, and nothing else does either.
LEMMA CutShort ==
  ASSUME NEW p \in Handler, Request(p) \/ Step(p) \/ Fail(p)
  PROVE  /\ \A r \in ResidentId :
              r # handler[p].resident => (r \in interrupted' <=> r \in interrupted)
         /\ ~ Enrol(p) /\ ~ Fail(p) => interrupted' = interrupted
         /\ Fail(p) => /\ UNCHANGED <<residents, statusLists>>
                       /\ interrupted \subseteq interrupted'
                       /\ handler[p].step \in Publishing => handler[p].resident \in interrupted'
<1>1. ASSUME Fail(p)
      PROVE  /\ UNCHANGED <<residents, statusLists>>
             /\ interrupted \subseteq interrupted'
             /\ handler[p].step \in Publishing => handler[p].resident \in interrupted'
             /\ \A r \in ResidentId :
                  r # handler[p].resident => (r \in interrupted' <=> r \in interrupted)
  BY <1>1 DEF Fail, Tables
<1>2. ASSUME Request(p) PROVE interrupted' = interrupted
  BY <1>2 DEF Request, RequestIssue, RequestTransition, RequestRelationship, RequestDelivery,
     RequestReconcile, RequestExpiry, RequestErasure, Store
<1>3. ASSUME FindResident(p) \/ DecideTransition(p) \/ LoadList(p) \/ StoreList(p)
             \/ PersistTransition(p) \/ PersistRelationship(p) \/ RecordDelivery(p)
             \/ Confirm(p) \/ Erase(p)
      PROVE  interrupted' = interrupted
  BY <1>3 DEF FindResident, DecideTransition, LoadList, StoreList, PersistTransition,
     PersistRelationship, RecordDelivery, Confirm, Erase, Store
<1>4. ASSUME ResolvePerson(p) \/ MatchPerson(p) \/ TakeIndex(p) \/ FindLink(p) \/ SaveLink(p)
      PROVE  interrupted' = interrupted
  BY <1>4 DEF ResolvePerson, MatchPerson, TakeIndex, FindLink, SaveLink, Store
<1>5. ASSUME Enrol(p)
      PROVE  \A r \in ResidentId :
               r # handler[p].resident => (r \in interrupted' <=> r \in interrupted)
  BY <1>5 DEF Enrol
<1> QED BY <1>1, <1>2, <1>3, <1>4, <1>5 DEF Step

\* A row agrees with the lists when no transition was cut short for it and the
\* handler that works for its resident is not publishing about it, and also
\* before its first write is stored.
LEMMA OwnAgrees ==
  ASSUME RegisterInv, TellsInv, NEW p \in Handler, handler[p].resident \notin interrupted,
         handler[p].step # "idle", handler[p].resident \in ResidentId, Exists(handler[p].resident),
         \/ handler[p].step \notin Publishing
         \/ handler[p].step \in {"load", "store"} /\ handler[p].queue = Publish(handler[p].to)
  PROVE  Agrees(residents[handler[p].resident], statusLists)
<1>1. Tells(handler[p], residents, statusLists, interrupted)
  BY DEF TellsInv
<1>2. ASSUME NEW q \in Handler, PublishesAbout(handler[q], handler[p].resident)
      PROVE  q = p
  BY <1>2, OneEach DEF PublishesAbout, Publishing, RegisterInv
<1> QED BY <1>1, <1>2 DEF TellsInv, RowsInv, PublishesAbout, Tells, Publishing

\* A store call changes no bit of an index taken for another resident.
LEMMA OtherBitsStay ==
  ASSUME RegisterInv, NEW p \in Handler, Request(p) \/ Step(p) \/ Fail(p),
         NEW j \in Index, ~ UNCHANGED statusLists => owner[j] # handler[p].resident
  PROVE  /\ j \in statusLists'["revocation"] <=> j \in statusLists["revocation"]
         /\ j \in statusLists'["suspension"] <=> j \in statusLists["suspension"]
<1>1. CASE UNCHANGED statusLists
  BY <1>1
<1>2. CASE ~ UNCHANGED statusLists
  <2>1. StoreList(p) /\ InList(handler[p].row.index)
    BY <1>2, WhoWrites DEF StoreList
  <2>2. owner[handler[p].row.index] = handler[p].resident
    BY <2>1 DEF StoreList, RegisterInv, IndexInv, HoldsRow
  <2>3. TypeInv /\ ListInv /\ DecidesInv
    BY DEF RegisterInv, DecisionInv
  <2> QED BY <1>2, <2>1, <2>2, <2>3, StoresChange
<1> QED BY <1>1, <1>2

\* Only a step at "store" writes a list, and a handler there works for a
\* resident.
LEMMA ListWriter ==
  ASSUME RegisterInv, NEW p \in Handler, Request(p) \/ Step(p) \/ Fail(p), ~ UNCHANGED statusLists
  PROVE  handler[p].step = "store" /\ handler[p].resident \in ResidentId
<1>1. StoreList(p)
  BY WhoWrites
<1> QED BY <1>1 DEF StoreList, RegisterInv, TypeInv, HandlerHolds, KnowsResident, HoldsRow

\* What the other handlers hold stays true: neither their rows nor their bits
\* are written.
LEMMA OthersTell ==
  ASSUME RegisterInv, TellsInv, NEW p \in Handler, Request(p) \/ Step(p) \/ Fail(p),
         NEW q \in Handler, q # p
  PROVE  Tells(handler'[q], residents', statusLists', interrupted')
<1> DEFINE h == handler[q]
<1>i. TypeInv /\ IndexInv /\ ResidentsExclusive
  BY DEF RegisterInv
<1>1. handler'[q] = h /\ Tells(h, residents, statusLists, interrupted)
  BY <1>i, OthersStay DEF TellsInv
<1>2. CASE h.step \notin Publishing \cup {"enrol"}
  BY <1>1, <1>2 DEF Tells, Publishing
<1>3. ASSUME h.step # "idle", h.resident \in ResidentId
      PROVE  /\ residents'[h.resident] = residents[h.resident]
             /\ ~ UNCHANGED statusLists => h.resident # handler[p].resident
             /\ h.resident \in interrupted => h.resident \in interrupted'
  <2>1. ASSUME handler[p].step # "idle", handler[p].resident \in ResidentId
        PROVE  h.resident # handler[p].resident
    BY <1>3, <1>i, <2>1, OneEach
  <2>2. CASE h.resident = handler[p].resident
    <3>1. ~ Enrol(p)
      BY <1>3, <2>1, <2>2 DEF Enrol
    <3> QED BY <1>3, <1>i, <2>1, <2>2, <3>1, OtherRowsStay, ListWriter, CutShort
  <2> QED BY <1>3, <1>i, <2>1, <2>2, OtherRowsStay, ListWriter, CutShort
<1>4. CASE h.step = "enrol"
  <2>1. h.resident \in ResidentId /\ h.index \in Index /\ owner[h.index] = h.resident
    BY <1>4, <1>i DEF TypeInv, TypeOK, HandlerHolds, HandlerState, IndexInv
  <2>2. /\ h.index \in statusLists'["revocation"] <=> h.index \in statusLists["revocation"]
        /\ h.index \in statusLists'["suspension"] <=> h.index \in statusLists["suspension"]
    BY <1>3, <1>4, <2>1, OtherBitsStay
  <2> QED BY <1>1, <1>4, <2>2 DEF Tells
<1>5. CASE h.step \in Publishing
  <2>1. /\ h.resident \in ResidentId /\ h.row \in Row /\ h.row.index \in Index
        /\ owner[h.row.index] = h.resident /\ residents[h.resident].index = h.row.index
    BY <1>5, <1>i DEF TypeInv, HandlerHolds, KnowsResident, HoldsRow, Publishing, IndexInv, Row,
       RegisterInv, FollowsInv, Follows
  <2>2. /\ h.row.index \in statusLists'["revocation"] <=> h.row.index \in statusLists["revocation"]
        /\ h.row.index \in statusLists'["suspension"] <=> h.row.index \in statusLists["suspension"]
    BY <1>3, <1>5, <2>1, OtherBitsStay DEF Publishing
  <2>3. /\ residents'[h.resident] = residents[h.resident]
        /\ h.resident \in interrupted => h.resident \in interrupted'
    BY <1>3, <1>5, <2>1 DEF Publishing
  <2>4. Agrees(residents'[h.resident], statusLists') <=> Agrees(residents[h.resident], statusLists)
    BY <2>1, <2>2, <2>3 DEF Agrees
  <2> QED BY <1>1, <1>5, <2>2, <2>3, <2>4 DEF Tells, Publishing
<1> QED BY <1>2, <1>4, <1>5

\* A step keeps the rows told if its handler leaves its own row so: agreeing,
\* or still to be finished.
LEMMA RowsTold ==
  ASSUME RegisterInv, TellsInv, NEW p \in Handler, Request(p) \/ Step(p) \/ Fail(p),
         handler[p].step # "idle" /\ handler[p].resident \in ResidentId
           => LET r == handler[p].resident IN
              \/ /\ UNCHANGED <<residents, statusLists>> /\ handler[p].step \notin Publishing
                 /\ interrupted \subseteq interrupted'
              \/ r \in interrupted'
              \/ residents'[r] = NoRow
              \/ Agrees(residents'[r], statusLists')
              \/ PublishesAbout(handler'[p], r)
  PROVE  RowsInv'
<1>i. TypeInv /\ IndexInv
  BY DEF RegisterInv
<1> SUFFICES ASSUME NEW r \in ResidentId, residents'[r] # NoRow, r \notin interrupted'
             PROVE  \/ Agrees(residents'[r], statusLists')
                    \/ \E q \in Handler : PublishesAbout(handler'[q], r)
  BY DEF RowsInv, Exists
<1>1. ASSUME NEW q \in Handler, q # p, PublishesAbout(handler[q], r)
      PROVE  PublishesAbout(handler'[q], r)
  BY <1>i, <1>1, OthersStay
<1>2. CASE /\ UNCHANGED <<residents, statusLists>> /\ ~ PublishesAbout(handler[p], r)
           /\ r \notin interrupted
  BY <1>1, <1>2 DEF TellsInv, RowsInv, Exists
<1>3. CASE r # handler[p].resident
  <2>1. residents'[r] = residents[r]
    BY <1>i, <1>3, OtherRowsStay
  <2>2. Exists(r) /\ residents[r].index \in Index /\ owner[residents[r].index] = r
    BY <1>i, <2>1 DEF Exists, TypeInv, TypeOK, Row, IndexInv
  <2>3. Agrees(residents'[r], statusLists') <=> Agrees(residents[r], statusLists)
    BY <1>3, <2>1, <2>2, OtherBitsStay DEF Agrees
  <2>4. ~ PublishesAbout(handler[p], r)
    BY <1>3 DEF PublishesAbout
  <2>5. r \notin interrupted
    BY <1>3, CutShort
  <2> QED BY <1>1, <2>2, <2>3, <2>4, <2>5 DEF TellsInv, RowsInv
<1>4. CASE r = handler[p].resident /\ handler[p].step # "idle"
  BY <1>2, <1>4 DEF PublishesAbout
<1>5. CASE handler[p].step = "idle"
  <2>1. UNCHANGED <<residents, statusLists>>
    BY <1>i, <1>5, OtherRowsStay, ListWriter
  <2>2. ~ Enrol(p) /\ ~ Fail(p)
    BY <1>5 DEF Enrol, Fail
  <2>3. r \notin interrupted
    BY <2>2, CutShort
  <2> QED BY <1>2, <1>5, <2>1, <2>3 DEF PublishesAbout, Publishing
<1> QED BY <1>3, <1>4, <1>5

\* The two together.
LEMMA TellsKept ==
  ASSUME RegisterInv, TellsInv, NEW p \in Handler, Request(p) \/ Step(p) \/ Fail(p),
         Tells(handler'[p], residents', statusLists', interrupted'), RowsInv'
  PROVE  TellsInv'
BY OthersTell DEF TellsInv

\* A credential that may still be moved is not on the revocation list.
LEMMA MovableIsGood ==
  ASSUME RegisterInv, TellsInv, NEW p \in Handler, handler[p].step = "decide",
         handler[p].resident \notin interrupted,
         CanTransitionCredential(CurrentCredential(handler[p].row), handler[p].to)
  PROVE  handler[p].row.index \notin statusLists["revocation"]
<1> DEFINE h == handler[p]
           r == h.resident
<1>1. /\ r \in ResidentId /\ Exists(r)
      /\ h.row.index = residents[r].index /\ h.row.credential = residents[r].credential
  BY DEF RegisterInv, FollowsInv, Follows, TypeInv, HandlerHolds, KnowsResident, HoldsRow
<1>2. Agrees(residents[r], statusLists)
  BY <1>1, OwnAgrees DEF Publishing
<1>3. CurrentCredential(h.row) \notin TerminalCredential
  BY DEF CanTransitionCredential, CredentialTransitions, TerminalCredential
<1>4. CASE h.row.credential = NoStatus
  BY <1>3, <1>4 DEF CurrentCredential, BackfilledCredentialStatus, TerminalCredential
<1>5. CASE h.row.credential # NoStatus
  BY <1>1, <1>2, <1>3, <1>5 DEF CurrentCredential, Agrees
<1> QED BY <1>4, <1>5

\* A save of a row that is as it was read is not refused: nobody else has its
\* subject.
LEMMA NotRefused ==
  ASSUME RegisterInv, NEW p \in Handler, handler[p].step \in HoldsRow
  PROVE  SubjectFree(handler[p].resident, handler[p].row.subject)
<1> DEFINE h == handler[p]
<1>1. /\ h.resident \in ResidentId /\ Exists(h.resident)
      /\ h.row.subject = residents[h.resident].subject
  BY DEF RegisterInv, FollowsInv, Follows, TypeInv, HandlerHolds, KnowsResident
<1> QED BY <1>1 DEF RegisterInv, SubjectsInv, SubjectFree, Holder

\* The step of a transition that saves the row, and the saves of the others:
\* what is written is what the lists say.
LEMMA SavesTold ==
  ASSUME RegisterInv, TellsInv, NEW p \in Handler, handler[p].resident \notin interrupted,
         PersistTransition(p) \/ PersistRelationship(p) \/ Confirm(p)
  PROVE  Agrees(residents'[handler[p].resident], statusLists')
<1> DEFINE h == handler[p]
           r == h.resident
<1>i. TypeInv /\ Tells(h, residents, statusLists, interrupted)
  BY DEF RegisterInv, TellsInv
<1>1. r \in ResidentId /\ Exists(r) /\ h.row \in Row /\ h.step \in HoldsRow
  BY <1>i, SavesHeldRow
<1>2. h.row.index = residents[r].index /\ h.row.credential = residents[r].credential
  BY <1>1 DEF RegisterInv, FollowsInv, Follows
<1>3. SubjectFree(r, h.row.subject) /\ statusLists' = statusLists
  BY <1>1, NotRefused DEF PersistTransition, PersistRelationship, Confirm
<1>4. CASE PersistTransition(p)
  <2>1. PICK row : row = [h.row EXCEPT !.credential = h.to]
    OBVIOUS
  <2>2. h.to \in CredentialStatus /\ h.step = "persist"
    BY <1>i, <1>4 DEF PersistTransition, TypeInv, TypeOK, HandlerState
  <2>3. row \in Row /\ row.index = h.row.index /\ row.credential = h.to
    BY <1>1, <2>1, <2>2 DEF Row
  <2>4. Saves(r, row)
    BY <1>3, <1>4, <2>1 DEF PersistTransition
  <2>5. /\ residents'[r].index = h.row.index
        /\ residents'[r].credential = SavedCredential(residents[r].credential, h.to)
    BY <1>i, <1>1, <2>3, <2>4, SavedRow
  <2>6. SavedCredential(residents[r].credential, h.to) = h.to
    BY <2>2 DEF SavedCredential, CredentialStatus, NoStatus
  <2> QED BY <1>i, <1>3, <2>2, <2>5, <2>6 DEF Tells, Agrees
<1>5. CASE ~ PersistTransition(p)
  <2>1. h.step # "idle" /\ h.step \notin Publishing
    BY <1>5 DEF PersistRelationship, Confirm, Publishing
  <2>2. Agrees(residents[r], statusLists)
    BY <1>1, <2>1, OwnAgrees
  <2>3. SavedCredential(h.row.credential, h.row.credential) = h.row.credential
    BY DEF SavedCredential
  <2>4. /\ residents'[r].index = residents[r].index
        /\ residents'[r].credential = residents[r].credential
    BY <1>i, <1>1, <1>2, <1>5, <2>3, SavesHeldRow
  <2> QED BY <1>3, <2>2, <2>4 DEF Agrees
<1> QED BY <1>4, <1>5

\* Each store call about a list brings the lists nearer to what the row will
\* say, and is the last that could be refused.
LEMMA StoreTells ==
  ASSUME RegisterInv, TellsInv, NEW p \in Handler, StoreList(p), InList(handler[p].row.index)
  PROVE  Tells(handler'[p], residents', statusLists', interrupted')
<1> DEFINE h == handler[p]
           g == handler'[p]
           i == h.row.index
<1>i. TypeInv /\ ListInv /\ DecidesInv /\ Tells(h, residents, statusLists, interrupted) /\ h.step = "store"
  BY DEF RegisterInv, DecisionInv, TellsInv, StoreList
<1>1. g.row = h.row /\ g.resident = h.resident /\ g.to = h.to
  BY <1>i, StoresChange
<1>2. \/ /\ h.to = "SUSPENDED" /\ g.step = "persist"
         /\ statusLists'["revocation"] = statusLists["revocation"]
         /\ statusLists'["suspension"] = statusLists["suspension"] \cup {i}
      \/ /\ g.step = "persist"
         /\ h.to = "ACTIVE" \/ (h.to \in TerminalCredential /\ i \in statusLists["revocation"])
         /\ statusLists'["revocation"] = statusLists["revocation"]
         /\ statusLists'["suspension"] = statusLists["suspension"] \ {i}
      \/ /\ g.step = "load" /\ h.to \in TerminalCredential
         /\ g.queue = <<ClearSuspension>>
  BY <1>i, StoresChange DEF Revoked
<1>3. h.resident \notin interrupted /\ h.to \notin TerminalCredential
        => i \notin statusLists["revocation"]
  BY <1>i DEF Tells
<1>4. h.to \in TerminalCredential => Publish(h.to) # <<ClearSuspension>>
  BY QueueParts DEF Publish, TerminalCredential
<1>5. interrupted' = interrupted
  BY DEF StoreList
<1> QED BY <1>1, <1>2, <1>3, <1>4, <1>5 DEF Tells, TerminalCredential

LEMMA StepTells ==
  ASSUME RegisterInv, TellsInv, NEW p \in Handler, Step(p)
  PROVE  Tells(handler'[p], residents', statusLists', interrupted')
<1> DEFINE h == handler[p]
           g == handler'[p]
<1>i. TypeInv /\ ListInv /\ Tells(h, residents, statusLists, interrupted)
  BY DEF RegisterInv, TellsInv
<1>1. CASE g.step \notin Publishing \cup {"enrol"}
  BY <1>1 DEF Tells, Publishing
<1>2. CASE /\ DecideTransition(p) /\ CanTransitionCredential(CurrentCredential(h.row), h.to)
           /\ g.to = h.to /\ g.resident = h.resident /\ g.row = h.row
           /\ g.step = "load" /\ g.queue = Publish(h.to)
  <2>1. h.step = "decide" /\ UNCHANGED <<residents, statusLists, interrupted>>
    BY <1>2 DEF DecideTransition, Store
  <2>2. h.resident \in ResidentId /\ Exists(h.resident)
    BY <1>i, <2>1 DEF TypeInv, HandlerHolds, KnowsResident, HoldsRow
  <2>3. h.resident \notin interrupted
          => /\ Agrees(residents[h.resident], statusLists)
             /\ h.row.index \notin statusLists["revocation"]
    BY <1>2, <2>1, <2>2, OwnAgrees, MovableIsGood DEF Publishing
  <2> QED BY <1>2, <2>1, <2>3 DEF Tells
<1>3. CASE /\ LoadList(p) /\ g.to = h.to /\ g.resident = h.resident /\ g.row = h.row
           /\ g.step = "store" /\ g.queue = h.queue
  <2>1. h.step = "load" /\ UNCHANGED <<residents, statusLists, interrupted>>
    BY <1>3 DEF LoadList, Store
  <2> QED BY <1>i, <1>3, <2>1 DEF Tells
<1>4. CASE StoreList(p) /\ InList(h.row.index)
  BY <1>4, StoreTells
<1>5. CASE TakeIndex(p) /\ g.step = "enrol" /\ g.index = nextIndex
  <2>1. nextIndex \in Index /\ nextIndex \in Nat /\ statusLists' = statusLists
    BY <1>i, <1>5, TakenIndex, RegisterAssumption DEF TypeInv, TypeOK, Index
  <2>2. nextIndex \notin statusLists["revocation"] \cup statusLists["suspension"]
    BY <1>i, <2>1 DEF ListInv, Revoked, Suspended
  <2> QED BY <1>5, <2>1, <2>2 DEF Tells
<1>6. g = Idle => g.step = "idle"
  BY DEF Idle
<1> QED BY <1>i, <1>1, <1>2, <1>3, <1>4, <1>5, <1>6, StepMoves DEF Publishing

\* Each step leaves its handler's row agreeing, or to be finished.
LEMMA StepRowsTold ==
  ASSUME RegisterInv, TellsInv, NEW p \in Handler, Step(p)
  PROVE  RowsInv'
<1> DEFINE h == handler[p]
           g == handler'[p]
           r == h.resident
           told == \/ /\ UNCHANGED <<residents, statusLists>> /\ h.step \notin Publishing
                      /\ interrupted \subseteq interrupted'
                   \/ r \in interrupted'
                   \/ residents'[r] = NoRow
                   \/ Agrees(residents'[r], statusLists')
                   \/ PublishesAbout(g, r)
<1>i. TypeInv /\ Tells(h, residents, statusLists, interrupted)
  BY DEF RegisterInv, TellsInv
<1> SUFFICES ASSUME h.step # "idle", r \in ResidentId, r \notin interrupted'
             PROVE  told
  BY RowsTold
<1>1. CASE FindResident(p) \/ DecideTransition(p) \/ ResolvePerson(p) \/ MatchPerson(p)
           \/ TakeIndex(p) \/ FindLink(p) \/ SaveLink(p) \/ RecordDelivery(p)
  BY <1>1 DEF FindResident, DecideTransition, ResolvePerson, MatchPerson, TakeIndex,
     FindLink, SaveLink, RecordDelivery, Store, Publishing
<1>2. CASE LoadList(p)
  <2>1. handler'[p].step = "store" /\ handler'[p].resident = r
    <3>1. PICK list : list = statusLists[Head(h.queue).purpose]
      OBVIOUS
    <3>2. g = [h EXCEPT !.step = "store", !.list = list]
      BY <1>i, <1>2, <3>1, HoldsNext DEF LoadList
    <3> QED BY <1>i, <3>2 DEF TypeInv, TypeOK, HandlerState
  <2> QED BY <2>1 DEF PublishesAbout, Publishing
<1>3. CASE StoreList(p)
  <2>1. h.step = "store" /\ residents' = residents /\ Exists(r)
    BY <1>i, <1>3 DEF StoreList, TypeInv, HandlerHolds, KnowsResident, HoldsRow
  <2>2. CASE ~ InList(h.row.index)
    <3>1. statusLists' = statusLists
      BY <1>3, <2>2 DEF StoreList
    <3>2. h.queue = Publish(h.to)
      BY <1>i, <2>1, <2>2 DEF Tells
    <3>3. r \notin interrupted
      BY <1>3 DEF StoreList
    <3> QED BY <2>1, <3>1, <3>2, <3>3, OwnAgrees
  <2>3. CASE InList(h.row.index)
    <3>1. g.resident = r /\ g.step \in {"load", "persist"}
      BY <1>3, <2>3, StoresChange DEF RegisterInv, DecisionInv
    <3> QED BY <3>1 DEF PublishesAbout, Publishing
  <2> QED BY <2>2, <2>3
<1>4. CASE PersistTransition(p) \/ PersistRelationship(p) \/ Confirm(p)
  <2>1. r \notin interrupted
    BY <1>4 DEF PersistTransition, PersistRelationship, Confirm
  <2> QED BY <1>4, <2>1, SavesTold
<1>5. CASE Enrol(p)
  <2>1. h.step = "enrol" /\ statusLists' = statusLists
    BY <1>5 DEF Enrol
  <2>2. CASE UNCHANGED <<residents, interrupted>>
    BY <2>1, <2>2 DEF Publishing
  <2>3. CASE ~ UNCHANGED <<residents, interrupted>>
    <3>1. /\ residents'[r].index = h.index
          /\ residents'[r].credential \in {NoStatus, "ISSUED", "ACTIVE"}
      BY <1>i, <1>5, <2>3, EnrolsRow
    <3>2. h.index \notin statusLists["revocation"] \cup statusLists["suspension"]
      BY <1>i, <2>1 DEF Tells
    <3>3. Agrees(residents'[r], statusLists')
      BY <2>1, <3>1, <3>2 DEF Agrees, TerminalCredential, NoStatus
    <3> QED BY <3>3
  <2> QED BY <2>2, <2>3
<1>6. CASE Erase(p)
  <2>1. h.step = "erase" /\ statusLists' = statusLists
    BY <1>6 DEF Erase
  <2>2. /\ Exists(r) /\ residents'[r].index = residents[r].index
        /\ residents'[r].credential = residents[r].credential
    BY <1>i, <1>6, ErasesRow
  <2>3. Agrees(residents[r], statusLists)
    <3>1. r \notin interrupted
      BY <1>6 DEF Erase
    <3> QED BY <2>1, <2>2, <3>1, OwnAgrees DEF Publishing
  <2>4. Agrees(residents'[r], statusLists')
    BY <2>1, <2>2, <2>3 DEF Agrees
  <2> QED BY <2>4
<1> QED BY <1>1, <1>2, <1>3, <1>4, <1>5, <1>6 DEF Step

\* A request writes nothing and holds nothing yet, and no more does a handler
\* that stopped.
LEMMA OutsideTells ==
  ASSUME RegisterInv, TellsInv, NEW p \in Handler, Request(p) \/ Fail(p)
  PROVE  TellsInv'
<1>1. Tells(handler'[p], residents', statusLists', interrupted')
  <2>1. CASE Request(p)
    BY <2>1, RequestStarts DEF Tells, RegisterInv
  <2>2. CASE Fail(p)
    <3>1. handler'[p] = Idle
      BY <2>2, HoldsNext DEF Fail, RegisterInv
    <3> QED BY <3>1 DEF Tells, Idle
  <2> QED BY <2>1, <2>2
<1>2. RowsInv'
  <2>1. CASE Request(p)
    BY <2>1, RequestStarts, RowsTold DEF RegisterInv
  <2>2. CASE Fail(p)
    BY <2>2, CutShort, RowsTold
  <2> QED BY <2>1, <2>2
<1> QED BY <1>1, <1>2, TellsKept

\* As long as no two handlers hold the same loaded list and no two work for the
\* same resident, the row and both lists tell the same story whenever nothing
\* runs, of every resident but those a transition was cut short for since they
\* last enrolled: every decision made is published in full, every bit set has
\* its decision recorded, and neither a full list, a refused save nor a stop in
\* anybody else's transition ever leaves one without the other
\* (transitionCredential, "The record and the bitstring are updated together").
THEOREM RowTellsTheList ==
  Spec /\ []ListsExclusive /\ []ResidentsExclusive => []RecordAndListsAgree
<1>1. RegisterInv /\ TellsInv /\ [Next]_vars => TellsInv'
  <2> SUFFICES ASSUME RegisterInv, TellsInv, [Next]_vars PROVE TellsInv'
    OBVIOUS
  <2>1. ASSUME NEW p \in Handler, Step(p) PROVE TellsInv'
    BY <2>1, StepTells, StepRowsTold, TellsKept
  <2>2. ASSUME NEW p \in Handler, Request(p) \/ Fail(p) PROVE TellsInv'
    BY <2>2, OutsideTells
  <2>3. CASE UNCHANGED vars
    BY <2>3 DEF vars, TellsInv, RowsInv, Exists
  <2> QED BY <2>1, <2>2, <2>3 DEF Next
<1>2. TellsInv => RecordAndListsAgree
  BY DEF TellsInv, RowsInv, PublishesAbout, Publishing, RecordAndListsAgree, Quiet, Agrees,
     Revoked, Suspended
<1>3. TypeInv /\ IndexInv /\ ListInv /\ SubjectsInv /\ DecisionInv /\ FollowsInv
        /\ ResidentsExclusive => RegisterInv
  BY DEF RegisterInv
<1> QED BY ExclusiveInvariants, InitSubjectsInv, NextSubjectsInv, InitTellsInv, <1>1, <1>2, <1>3,
           PTL DEF Spec

=============================================================================
