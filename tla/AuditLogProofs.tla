---------------------------- MODULE AuditLogProofs ----------------------------
(***************************************************************************)
(* What the audit log keeps for any number of handlers, residents and      *)
(* events: its types, that a log nothing else touched verifies, that an    *)
(* erasure leaves nothing it listed, and that a change from outside shows. *)
(***************************************************************************)
EXTENDS AuditLog, FiniteSetTheorems, WellFoundedInduction, TLAPS

----------------------------------------------------------------------------
(* Sets of seqs.                                                            *)

LEMMA BoundType == MaxEvents \in Nat
BY AuditAssumption

\* A set of seqs has a last one.
LEMMA LastIsLast ==
  ASSUME NEW S \in SUBSET Seqs, S # {}
  PROVE  /\ Last(S) \in S
         /\ \A j \in S : j <= Last(S)
<1> DEFINE T == {MaxEvents - i : i \in S}
<1>1. T \subseteq Nat /\ T # {}
  <2>1. T \subseteq Nat
    BY BoundType DEF Seqs
  <2> QED BY <2>1
<1>2. PICK x \in T : \A y \in T : ~ (<<y, x>> \in OpToRel(<, Nat))
  <2> HIDE DEF T
  <2> QED BY <1>1, NatLessThanWellFounded, WFMin
<1>3. \A y \in T : x <= y
  <2> TAKE y \in T
  <2>1. x \in Nat /\ y \in Nat
    BY <1>1
  <2>2. ~ (y < x)
    BY <1>2, <2>1 DEF OpToRel
  <2> QED BY <2>1, <2>2
<1>4. PICK i \in S : x = MaxEvents - i
  OBVIOUS
<1>5. \A j \in S : j <= i
  <2> TAKE j \in S
  <2>1. x <= MaxEvents - j
    BY <1>3
  <2> QED BY <2>1, <1>4, BoundType DEF Seqs
<1> QED BY <1>4, <1>5 DEF Last

\* The rows of a log are finitely many, and no more than it can hold.
LEMMA PresentFinite ==
  ASSUME NEW log
  PROVE  /\ Present(log) \in SUBSET Seqs
         /\ IsFiniteSet(Present(log))
         /\ Cardinality(Present(log)) \in 0 .. MaxEvents
<1>1. IsFiniteSet(Seqs) /\ Cardinality(Seqs) = MaxEvents
  BY FS_Interval, BoundType DEF Seqs
<1>2. Present(log) \in SUBSET Seqs
  BY DEF Present
<1>3. IsFiniteSet(Present(log)) /\ Cardinality(Present(log)) <= MaxEvents
  BY <1>1, <1>2, FS_Subset
<1>4. Cardinality(Present(log)) \in Nat
  BY <1>3, FS_CardinalityType
<1> QED BY <1>2, <1>3, <1>4, BoundType

----------------------------------------------------------------------------
(* Types.                                                                   *)

LEMMA HashType ==
  ASSUME NEW h \in Hash, NEW c \in Commitment
  PROVE  Append(h, c) \in Hash
BY DEF Hash

LEMMA GenesisType == Genesis \in Hash
BY DEF Genesis, Hash

\* tail gives the last row of the log, if there is one.
LEMMA TailIsLast ==
  ASSUME TypeOK
  PROVE  /\ TailOf(events) \in [seq : Seqs \cup {NoSeq}, hash : Hash]
         /\ Present(events) = {} => TailOf(events) = NoTail
         /\ Present(events) # {} =>
              /\ TailOf(events).seq \in Present(events)
              /\ TailOf(events).hash = events[TailOf(events).seq].hash
              /\ \A j \in Present(events) : j <= TailOf(events).seq
<1>1. CASE Present(events) = {}
  BY <1>1, GenesisType DEF TailOf, NoTail
<1>2. CASE Present(events) # {}
  <2>1. /\ Last(Present(events)) \in Present(events)
        /\ \A j \in Present(events) : j <= Last(Present(events))
    BY <1>2, PresentFinite, LastIsLast
  <2>2. TailOf(events) = [seq |-> Last(Present(events)), hash |-> events[Last(Present(events))].hash]
    BY <1>2 DEF TailOf
  <2>3. events[Last(Present(events))] \in Event
    BY <2>1 DEF TypeOK, Present
  <2>4. events[Last(Present(events))].hash \in Hash
    BY <2>3 DEF Event
  <2> QED BY <1>2, <2>1, <2>2, <2>4 DEF Present
<1> QED BY <1>1, <1>2

\* What a handler holds at each of its steps.
WriterHolds ==
  \A p \in Writer :
    /\ writer[p].step = "append" => writer[p].tail.seq + 1 \in Seqs
    /\ writer[p].step = "replace" => writer[p].found \in Seqs
    /\ writer[p].step \in {"count", "put"} => writer[p].tail.seq \in Seqs

TypeInv == TypeOK /\ WriterHolds

LEMMA IdleType == Idle \in WriterState
BY GenesisType, AuditAssumption DEF Idle, WriterState, WriterStep, NoTail

LEMMA InitTypeInv == Init => TypeInv
<1> SUFFICES ASSUME Init PROVE TypeInv
  OBVIOUS
<1>1. TypeOK
  BY IdleType DEF Init, TypeOK
<1>2. WriterHolds
  BY DEF Init, WriterHolds, Idle
<1> QED BY <1>1, <1>2 DEF TypeInv

\* The new event is an event, linked to the tail it was made for; if its
\* metadata is stored as given, its hash is the hash of what is stored.
LEMMA NewEventType ==
  ASSUME TypeOK, NEW w \in WriterState, w.tail.seq + 1 \in Seqs
  PROVE  /\ NewEvent(w) \in Event
         /\ NewEvent(w).prevHash = w.tail.hash
         /\ NewEvent(w).meta = "kept" => NewEvent(w).hash = HashEvent(NewEvent(w))
<1> DEFINE base == [id |-> FreshId, seq |-> w.tail.seq + 1, about |-> w.about,
                    subject |-> IF w.about = NoSeq THEN w.subject ELSE NoSubject,
                    meta |-> IF w.about = NoSeq THEN w.meta ELSE "kept",
                    redacted |-> FALSE, prevHash |-> w.tail.hash, hash |-> Genesis]
<1>1. NewEvent(w) = [base EXCEPT !.hash = HashEvent(base), !.meta = AsStored(@)]
  BY DEF NewEvent
<1>2. FreshId \in {"first", "second"}
  BY DEF FreshId
<1>3. base \in Event
  BY <1>2, GenesisType DEF WriterState, Event
<1>4. Content(base) \in Commitment
  <2> HIDE DEF base
  <2> QED BY <1>3 DEF Content, Commitment, Event
<1>5. HashEvent(base) \in Hash
  <2>1. base.prevHash \in Hash
    BY <1>3 DEF Event
  <2> HIDE DEF base
  <2> QED BY <2>1, <1>4, HashType DEF HashEvent
<1>6. NewEvent(w) \in Event
  <2>1. base.meta \in {"kept", "given", "sorted"}
    BY <1>3 DEF Event
  <2> HIDE DEF base
  <2> QED BY <1>1, <1>3, <1>5, <2>1 DEF Event, AsStored
<1>7. NewEvent(w).prevHash = w.tail.hash
  <2>1. base.prevHash = w.tail.hash
    OBVIOUS
  <2>2. base \in Event
    BY <1>3
  <2> HIDE DEF base
  <2> QED BY <1>1, <2>1, <2>2 DEF Event
<1>8. ASSUME NewEvent(w).meta = "kept"
      PROVE  NewEvent(w).hash = HashEvent(NewEvent(w))
  <2>1. base \in Event
    BY <1>3
  <2> HIDE DEF base
  <2>2. NewEvent(w).meta = AsStored(base.meta) /\ NewEvent(w).hash = HashEvent(base)
    BY <1>1, <2>1 DEF Event
  <2>3. base.meta = "kept"
    BY <1>8, <2>2 DEF AsStored
  <2>4. HashEvent(NewEvent(w)) = HashEvent(base)
    BY <1>1, <2>1, <2>2, <2>3, <1>8 DEF HashEvent, Content, Event
  <2> QED BY <2>2, <2>4
<1> QED BY <1>6, <1>7, <1>8

\* A redacted event is an event with the hash and the link it had.
LEMMA RedactedEventType ==
  ASSUME NEW e \in Event
  PROVE  /\ RedactedEvent(e) \in Event
         /\ RedactedEvent(e).hash = e.hash
         /\ RedactedEvent(e).prevHash = e.prevHash
         /\ RedactedEvent(e).redacted
BY DEF RedactedEvent, Event

\* A handler that moves to a state in which it holds what it needs.
LEMMA WriterMoves ==
  ASSUME TypeInv, NEW p \in Writer, NEW next \in WriterState, Goes(p, next),
         next.step = "append" => next.tail.seq + 1 \in Seqs,
         next.step = "replace" => next.found \in Seqs,
         next.step \in {"count", "put"} => next.tail.seq \in Seqs
  PROVE  /\ writer' \in [Writer -> WriterState]
         /\ WriterHolds'
<1>1. writer' = [writer EXCEPT ![p] = next] /\ writer \in [Writer -> WriterState]
  BY DEF Goes, TypeInv, TypeOK
<1>2. writer' \in [Writer -> WriterState]
  BY <1>1
<1>3. ASSUME NEW q \in Writer
      PROVE  /\ writer'[q].step = "append" => writer'[q].tail.seq + 1 \in Seqs
             /\ writer'[q].step = "replace" => writer'[q].found \in Seqs
             /\ writer'[q].step \in {"count", "put"} => writer'[q].tail.seq \in Seqs
  <2>1. CASE q = p
    <3>1. writer'[q] = next
      BY <1>1, <2>1
    <3> QED BY <3>1
  <2>2. CASE q # p
    <3>1. writer'[q] = writer[q]
      BY <1>1, <2>2
    <3> QED BY <3>1 DEF TypeInv, WriterHolds
  <2> QED BY <2>1, <2>2
<1> QED BY <1>2, <1>3 DEF WriterHolds

LEMMA WriterFinishes ==
  ASSUME TypeInv, NEW p \in Writer, Finishes(p)
  PROVE  /\ writer' \in [Writer -> WriterState]
         /\ WriterHolds'
<1>1. Idle.step = "idle"
  BY DEF Idle
<1> QED BY <1>1, IdleType, WriterMoves DEF Finishes

\* What a request, a failure or a read by one handler leaves alone.
LEMMA TablesKeepType ==
  ASSUME TypeInv, UNCHANGED <<events, checkpoints, outside>>,
         writer' \in [Writer -> WriterState], WriterHolds'
  PROVE  TypeInv'
BY DEF TypeInv, TypeOK

LEMMA RequestTypeInv ==
  ASSUME TypeInv, NEW p \in Writer, Request(p)
  PROVE  TypeInv'
<1>1. \A s \in Subject, meta \in Metadata :
        [Idle EXCEPT !.step = "tail", !.op = "record", !.subject = s, !.meta = meta] \in WriterState
  BY IdleType, AuditAssumption DEF WriterState, WriterStep
<1>2. \A s \in Subject :
        [Idle EXCEPT !.step = "tail", !.op = "erase", !.subject = s, !.meta = "given"] \in WriterState
  BY IdleType DEF WriterState, WriterStep
<1>3. [Idle EXCEPT !.step = "head", !.op = "checkpoint"] \in WriterState
  BY IdleType DEF WriterState, WriterStep
<1>4. CASE \E s \in Subject, meta \in Metadata : RequestRecord(p, s, meta)
  <2> PICK s \in Subject, meta \in Metadata : RequestRecord(p, s, meta)
    BY <1>4
  <2> DEFINE next == [Idle EXCEPT !.step = "tail", !.op = "record", !.subject = s, !.meta = meta]
  <2>1. next \in WriterState /\ next.step = "tail" /\ Goes(p, next)
    BY <1>1 DEF RequestRecord, Idle
  <2>2. writer' \in [Writer -> WriterState] /\ WriterHolds'
    <3> HIDE DEF next
    <3> QED BY <2>1, WriterMoves
  <2> QED BY <2>2, TablesKeepType DEF RequestRecord
<1>5. CASE \E s \in Subject : RequestErasure(p, s)
  <2> PICK s \in Subject : RequestErasure(p, s)
    BY <1>5
  <2> DEFINE next == [Idle EXCEPT !.step = "tail", !.op = "erase", !.subject = s, !.meta = "given"]
  <2>1. next \in WriterState /\ next.step = "tail" /\ Goes(p, next)
    BY <1>2 DEF RequestErasure, Idle
  <2>2. writer' \in [Writer -> WriterState] /\ WriterHolds'
    <3> HIDE DEF next
    <3> QED BY <2>1, WriterMoves
  <2> QED BY <2>2, TablesKeepType DEF RequestErasure
<1>6. CASE RequestCheckpoint(p)
  <2> DEFINE next == [Idle EXCEPT !.step = "head", !.op = "checkpoint"]
  <2>1. next \in WriterState /\ next.step = "head" /\ Goes(p, next)
    BY <1>3, <1>6 DEF RequestCheckpoint, Idle
  <2>2. writer' \in [Writer -> WriterState] /\ WriterHolds'
    <3> HIDE DEF next
    <3> QED BY <2>1, WriterMoves
  <2> QED BY <1>6, <2>2, TablesKeepType DEF RequestCheckpoint
<1> QED BY <1>4, <1>5, <1>6 DEF Request

\* The steps that only read.
LEMMA ReadTypeInv ==
  ASSUME TypeInv, NEW p \in Writer,
         Fail(p) \/ ReadTail(p) \/ SelectEvents(p) \/ FindEvent(p)
           \/ ReadHead(p) \/ CountEvents(p)
  PROVE  TypeInv'
<1>0. writer[p] \in WriterState
  BY DEF TypeInv, TypeOK
<1>1. UNCHANGED <<events, checkpoints, outside>>
  BY DEF Fail, ReadTail, SelectEvents, FindEvent, ReadHead, CountEvents
<1> SUFFICES writer' \in [Writer -> WriterState] /\ WriterHolds'
  BY <1>1, TablesKeepType
<1>2. CASE Fail(p)
  BY <1>2, WriterFinishes DEF Fail
<1>3. CASE ReadTail(p)
  <2> DEFINE next == [writer[p] EXCEPT !.step = "append", !.tail = TailOf(events)]
  <2>1. TailOf(events) \in [seq : Seqs \cup {NoSeq}, hash : Hash]
    BY TailIsLast DEF TypeInv
  <2>2. TailOf(events).seq + 1 \in Seqs
    BY <1>3, <2>1, BoundType DEF ReadTail, Seqs, NoSeq
  <2>3. next \in WriterState /\ next.step = "append" /\ next.tail = TailOf(events)
    BY <1>0, <2>1 DEF WriterState, WriterStep
  <2>4. Goes(p, next)
    BY <1>3 DEF ReadTail
  <2> HIDE DEF next
  <2> QED BY <2>2, <2>3, <2>4, WriterMoves
<1>4. CASE SelectEvents(p)
  <2> DEFINE named == {i \in Present(events) : ~events[i].redacted /\ events[i].subject = writer[p].subject}
             next == [writer[p] EXCEPT !.step = "find", !.listed = named, !.todo = named]
  <2>1. named \in SUBSET Seqs
    BY DEF Present
  <2>2. Goes(p, next)
    BY <1>4 DEF SelectEvents
  <2>3. next \in WriterState /\ next.step = "find"
    <3> HIDE DEF named
    <3> QED BY <1>0, <2>1 DEF WriterState, WriterStep
  <2> HIDE DEF next
  <2> QED BY <2>2, <2>3, WriterMoves
<1>5. CASE FindEvent(p)
  <2>1. CASE Finishes(p)
    BY <2>1, WriterFinishes
  <2>2. ASSUME NEW i \in writer[p].todo, Goes(p, [writer[p] EXCEPT !.todo = Skips(@, i)]),
               writer[p].step = "find"
        PROVE  writer' \in [Writer -> WriterState] /\ WriterHolds'
    <3> DEFINE next == [writer[p] EXCEPT !.todo = Skips(@, i)]
    <3>1. next \in WriterState /\ next.step = "find"
      BY <1>0, <2>2 DEF WriterState, Skips
    <3> HIDE DEF next
    <3>2. Goes(p, next)
      BY <2>2 DEF next
    <3> QED BY <3>1, <3>2, WriterMoves
  <2>3. ASSUME NEW i \in writer[p].todo, Goes(p, [writer[p] EXCEPT !.step = "replace", !.found = i])
        PROVE  writer' \in [Writer -> WriterState] /\ WriterHolds'
    <3> DEFINE next == [writer[p] EXCEPT !.step = "replace", !.found = i]
    <3>1. i \in Seqs
      BY <1>0 DEF WriterState
    <3>2. next \in WriterState /\ next.step = "replace" /\ next.found \in Seqs
      BY <1>0, <3>1 DEF WriterState, WriterStep
    <3>3. Goes(p, next)
      BY <2>3
    <3> HIDE DEF next
    <3> QED BY <3>2, <3>3, WriterMoves
  <2> QED BY <1>5, <2>1, <2>2, <2>3 DEF FindEvent
<1>6. CASE ReadHead(p)
  <2>1. CASE Finishes(p)
    BY <2>1, WriterFinishes
  <2>2. CASE Present(events) # {} /\ Goes(p, [writer[p] EXCEPT !.step = "count", !.tail = TailOf(events)])
    <3> DEFINE next == [writer[p] EXCEPT !.step = "count", !.tail = TailOf(events)]
    <3>1. TailOf(events) \in [seq : Seqs \cup {NoSeq}, hash : Hash]
      BY TailIsLast DEF TypeInv
    <3>2. TailOf(events).seq \in Seqs
      BY <2>2, TailIsLast, PresentFinite DEF TypeInv
    <3>3. next \in WriterState /\ next.step = "count" /\ next.tail = TailOf(events)
      BY <1>0, <3>1 DEF WriterState, WriterStep
    <3>4. Goes(p, next)
      BY <2>2
    <3> HIDE DEF next
    <3> QED BY <3>2, <3>3, <3>4, WriterMoves
  <2> QED BY <1>6, <2>1, <2>2 DEF ReadHead
<1>7. CASE CountEvents(p)
  <2> DEFINE next == [writer[p] EXCEPT !.step = "put", !.count = Counted(events)]
  <2>1. Counted(events) \in 0 .. MaxEvents
    BY PresentFinite DEF Counted
  <2>2. next \in WriterState /\ next.step = "put" /\ next.tail = writer[p].tail
    BY <1>0, <2>1 DEF WriterState, WriterStep
  <2>3. writer[p].tail.seq \in Seqs
    BY <1>7 DEF CountEvents, TypeInv, WriterHolds
  <2>4. Goes(p, next)
    BY <1>7 DEF CountEvents
  <2> HIDE DEF next
  <2> QED BY <2>2, <2>3, <2>4, WriterMoves
<1> QED BY <1>2, <1>3, <1>4, <1>5, <1>6, <1>7

LEMMA AppendTypeInv ==
  ASSUME TypeInv, NEW p \in Writer, AppendEvent(p)
  PROVE  TypeInv'
<1> DEFINE w == writer[p]
           seq == w.tail.seq + 1
<1>1. w \in WriterState /\ seq \in Seqs
  BY DEF TypeInv, TypeOK, WriterHolds, AppendEvent
<1>2. events' \in [Seqs -> Event \cup {NoEvent}]
  <2>1. NewEvent(w) \in Event
    BY <1>1, NewEventType DEF TypeInv
  <2>2. events' = events \/ events' = [events EXCEPT ![seq] = NewEvent(w)]
    BY DEF AppendEvent
  <2> HIDE DEF w
  <2> QED BY <1>1, <2>1, <2>2 DEF TypeInv, TypeOK
<1>3. writer' \in [Writer -> WriterState] /\ WriterHolds'
  <2>1. CASE Finishes(p)
    BY <2>1, WriterFinishes
  <2>2. CASE Goes(p, Appended(w))
    <3>1. /\ Appended(w) \in WriterState
          /\ Appended(w).step \in {"select", "find"}
      BY <1>1, GenesisType DEF Appended, WriterState, WriterStep, NoTail
    <3> HIDE DEF w
    <3> QED BY <2>2, <3>1, WriterMoves
  <2> QED BY <2>1, <2>2 DEF AppendEvent
<1>4. UNCHANGED <<checkpoints, outside>>
  BY DEF AppendEvent
<1> QED BY <1>2, <1>3, <1>4 DEF TypeInv, TypeOK

LEMMA ReplaceTypeInv ==
  ASSUME TypeInv, NEW p \in Writer, ReplaceEvent(p)
  PROVE  TypeInv'
<1> DEFINE w == writer[p]
<1>1. w \in WriterState /\ w.found \in Seqs
  BY DEF TypeInv, TypeOK, WriterHolds, ReplaceEvent
<1>2. events' \in [Seqs -> Event \cup {NoEvent}]
  <2>1. CASE events' = events
    BY <2>1 DEF TypeInv, TypeOK
  <2>2. CASE /\ events[w.found] # NoEvent
             /\ events' = [events EXCEPT ![w.found] = RedactedEvent(@)]
    <3>1. RedactedEvent(events[w.found]) \in Event
      BY <1>1, <2>2, RedactedEventType DEF TypeInv, TypeOK
    <3> HIDE DEF w
    <3> QED BY <1>1, <2>2, <3>1 DEF TypeInv, TypeOK
  <2> QED BY <2>1, <2>2 DEF ReplaceEvent
<1>3. writer' \in [Writer -> WriterState] /\ WriterHolds'
  <2>1. CASE Finishes(p)
    BY <2>1, WriterFinishes
  <2>2. CASE Goes(p, [w EXCEPT !.step = "tail", !.about = w.found, !.found = NoSeq])
    <3> DEFINE next == [w EXCEPT !.step = "tail", !.about = w.found, !.found = NoSeq]
    <3>1. next \in WriterState /\ next.step = "tail"
      BY <1>1 DEF WriterState, WriterStep
    <3>2. Goes(p, next)
      BY <2>2
    <3> HIDE DEF next, w
    <3> QED BY <3>1, <3>2, WriterMoves
  <2> QED BY <2>1, <2>2 DEF ReplaceEvent
<1>4. UNCHANGED <<checkpoints, outside>>
  BY DEF ReplaceEvent
<1> QED BY <1>2, <1>3, <1>4 DEF TypeInv, TypeOK

LEMMA PutTypeInv ==
  ASSUME TypeInv, NEW p \in Writer, PutCheckpoint(p)
  PROVE  TypeInv'
<1> DEFINE w == writer[p]
           cp == [hash |-> w.tail.hash, count |-> w.count]
<1>1. w \in WriterState
  BY DEF TypeInv, TypeOK
<1>2. cp \in Checkpoint
  BY <1>1, BoundType DEF WriterState, Checkpoint
<1>3. checkpoints' \in [Seqs -> Checkpoint \cup {NoCheckpoint}]
  <2>1. checkpoints' = [checkpoints EXCEPT ![w.tail.seq] = cp]
    BY DEF PutCheckpoint
  <2> HIDE DEF cp, w
  <2> QED BY <1>2, <2>1 DEF TypeInv, TypeOK
<1>4. writer' \in [Writer -> WriterState] /\ WriterHolds'
  BY WriterFinishes DEF PutCheckpoint
<1>5. outside' = [outside EXCEPT !.anchored = FALSE] /\ UNCHANGED events
  BY DEF PutCheckpoint
<1> QED BY <1>3, <1>4, <1>5 DEF TypeInv, TypeOK

LEMMA OutsideTypeInv ==
  ASSUME TypeInv, Outside
  PROVE  TypeInv'
<1>1. UNCHANGED <<checkpoints, writer>>
  BY DEF Outside, CutTail, DropRow, EditRow
<1>2. events' \in [Seqs -> Event \cup {NoEvent}]
  <2>1. ASSUME NEW i \in Seqs, CutTail(i)
        PROVE  events' \in [Seqs -> Event \cup {NoEvent}]
    BY <2>1 DEF CutTail, TypeInv, TypeOK
  <2>2. ASSUME NEW i \in Seqs, DropRow(i)
        PROVE  events' \in [Seqs -> Event \cup {NoEvent}]
    BY <2>2 DEF DropRow, TypeInv, TypeOK
  <2>3. ASSUME NEW i \in Seqs, NEW s \in Subject \cup {NoSubject}, EditRow(i, s)
        PROVE  events' \in [Seqs -> Event \cup {NoEvent}]
    <3>1. events[i] \in Event
      BY <2>3 DEF EditRow, Present, TypeInv, TypeOK
    <3>2. [events[i] EXCEPT !.subject = s] \in Event
      BY <3>1 DEF Event
    <3>3. events' = [events EXCEPT ![i] = [events[i] EXCEPT !.subject = s]]
      BY <2>3 DEF EditRow, TypeInv, TypeOK
    <3> QED BY <3>2, <3>3 DEF TypeInv, TypeOK
  <2> QED BY <2>1, <2>2, <2>3 DEF Outside
<1>3. outside' \in [kind : {"none", "cut", "drop", "edit"}, at : Seqs \cup {NoSeq},
                   anchored : BOOLEAN]
  <2>1. PICK i \in Seqs : CutTail(i) \/ DropRow(i) \/ \E s \in Subject \cup {NoSubject} : EditRow(i, s)
    BY DEF Outside
  <2>2. CASE CutTail(i)
    <3> DEFINE anchored == \E j \in Anchors : i <= j
    <3>1. anchored \in BOOLEAN
      OBVIOUS
    <3>2. outside' = [kind |-> "cut", at |-> i, anchored |-> anchored]
      BY <2>2 DEF CutTail
    <3> HIDE DEF anchored
    <3> QED BY <3>1, <3>2
  <2>3. CASE DropRow(i)
    BY <2>3 DEF DropRow
  <2>4. CASE \E s \in Subject \cup {NoSubject} : EditRow(i, s)
    BY <2>4 DEF EditRow
  <2> QED BY <2>1, <2>2, <2>3, <2>4
<1> QED BY <1>1, <1>2, <1>3 DEF TypeInv, TypeOK, WriterHolds

LEMMA NextTypeInv == TypeInv /\ [Next]_vars => TypeInv'
<1> SUFFICES ASSUME TypeInv, [Next]_vars PROVE TypeInv'
  OBVIOUS
<1>1. CASE UNCHANGED vars
  BY <1>1 DEF vars, TypeInv, TypeOK, WriterHolds
<1>2. CASE Outside
  BY <1>2, OutsideTypeInv
<1>3. ASSUME NEW p \in Writer, Request(p) \/ Step(p) \/ Fail(p)
      PROVE  TypeInv'
  BY <1>3, RequestTypeInv, ReadTypeInv, AppendTypeInv, ReplaceTypeInv, PutTypeInv DEF Step
<1> QED BY <1>1, <1>2, <1>3 DEF Next

\* Every variable of the log keeps its type, for any number of handlers and
\* any length of the log (record, redact, checkpoint).
THEOREM TypeCorrect == Spec => []TypeOK
<1>1. TypeInv => TypeOK
  BY DEF TypeInv
<1> QED BY <1>1, InitTypeInv, NextTypeInv, PTL DEF Spec

----------------------------------------------------------------------------
(* A log nothing else touched verifies.  Verifying is not inductive: it     *)
(* says nothing of gaps, of the tail a handler goes by, nor of any but the  *)
(* latest checkpoint.                                                       *)

\* The rows of the log have no gap.
Contiguous == \A i \in Present(events), j \in Seqs : j < i => j \in Present(events)

\* Each event is linked to the one before.
EachLinked ==
  \A i \in Present(events) :
    events[i].prevHash = IF i = 0 THEN Genesis ELSE events[i - 1].hash

\* Each hash is that of what is stored, unless that is redacted or did not
\* come back as it was given.
EachCommitted ==
  \A i \in Present(events) :
    events[i].redacted \/ events[i].meta # "kept" \/ events[i].hash = HashEvent(events[i])

\* A tail, or a checkpoint, that names an event of the log by its hash.
Names(log, seq, hash) == seq \in Present(log) /\ log[seq].hash = hash

\* Every checkpoint holds of the log, not only the latest.
EachAnchorHolds ==
  \A i \in Anchors :
    /\ Names(events, i, checkpoints[i].hash)
    /\ checkpoints[i].count <= Cardinality(Present(events))

\* What a handler was told of the log is still so.
StillSo(log, w) ==
  /\ w.step = "append" => w.tail = NoTail \/ Names(log, w.tail.seq, w.tail.hash)
  /\ w.step \in {"count", "put"} => Names(log, w.tail.seq, w.tail.hash)
  /\ w.step = "put" => w.count <= Cardinality(Present(log))

LogInv ==
  /\ Contiguous
  /\ EachLinked
  /\ EachCommitted
  /\ EachAnchorHolds
  /\ \A p \in Writer : StillSo(events, writer[p])

UntouchedInv == TypeInv /\ (Untouched => LogInv)

\* The log keeps every row, with its hash.
Extends(log, longer) ==
  \A i \in Present(log) : i \in Present(longer) /\ longer[i].hash = log[i].hash

\* What a handler was told stays so however the log is extended.
LEMMA ExtendedStillSo ==
  ASSUME NEW log, NEW longer, Extends(log, longer), NEW w, StillSo(log, w),
         w.count \in Nat
  PROVE  StillSo(longer, w)
<1>1. \A seq, hash : Names(log, seq, hash) => Names(longer, seq, hash)
  BY DEF Names, Extends
<1>2. Cardinality(Present(log)) <= Cardinality(Present(longer))
  BY PresentFinite, FS_Subset DEF Extends
<1>3. Cardinality(Present(log)) \in Nat /\ Cardinality(Present(longer)) \in Nat
  BY PresentFinite
<1> QED BY <1>1, <1>2, <1>3 DEF StillSo

\* So does what its checkpoints say of it.
LEMMA ExtendedAnchors ==
  ASSUME TypeOK, EachAnchorHolds, UNCHANGED checkpoints, Extends(events, events')
  PROVE  EachAnchorHolds'
<1>1. Cardinality(Present(events)) <= Cardinality(Present(events'))
  BY PresentFinite, FS_Subset DEF Extends
<1>2. Cardinality(Present(events)) \in Nat /\ Cardinality(Present(events')) \in Nat
  BY PresentFinite
<1>3. \A i \in Anchors : checkpoints[i].count \in Nat
  BY DEF Anchors, TypeOK, Checkpoint
<1> QED BY <1>1, <1>2, <1>3 DEF EachAnchorHolds, Anchors, Names, Extends

\* An empty log.
LEMMA InitLogInv == Init => LogInv
<1> SUFFICES ASSUME Init PROVE LogInv
  OBVIOUS
<1>1. Present(events) = {} /\ Anchors = {}
  BY DEF Init, Present, Anchors
<1>2. \A p \in Writer : writer[p].step = "idle"
  BY DEF Init, Idle
<1> QED BY <1>1, <1>2 DEF LogInv, Contiguous, EachLinked, EachCommitted, EachAnchorHolds, StillSo

\* A handler that moves knowing what is so, while the log stays as it is.
LEMMA MovesLogInv ==
  ASSUME TypeInv, LogInv, NEW p \in Writer, NEW next, Goes(p, next),
         StillSo(events, next), UNCHANGED <<events, checkpoints>>
  PROVE  LogInv'
<1>1. \A q \in Writer : writer'[q] = IF q = p THEN next ELSE writer[q]
  BY DEF Goes, TypeInv, TypeOK
<1>2. \A q \in Writer : StillSo(events', writer'[q])
  BY <1>1 DEF LogInv
<1>3. (Contiguous /\ EachLinked /\ EachCommitted /\ EachAnchorHolds)'
  BY DEF LogInv, Contiguous, EachLinked, EachCommitted, EachAnchorHolds, Anchors
<1> QED BY <1>2, <1>3 DEF LogInv

LEMMA ReadLogInv ==
  ASSUME TypeInv, LogInv, NEW p \in Writer,
         Request(p) \/ Fail(p) \/ ReadTail(p) \/ SelectEvents(p) \/ FindEvent(p)
           \/ ReadHead(p) \/ CountEvents(p)
  PROVE  LogInv'
<1>0. writer[p] \in WriterState /\ StillSo(events, writer[p])
  BY DEF TypeInv, TypeOK, LogInv
<1>1. UNCHANGED <<events, checkpoints>>
  BY DEF Request, RequestRecord, RequestErasure, RequestCheckpoint,
         Fail, ReadTail, SelectEvents, FindEvent, ReadHead, CountEvents
<1>2. ASSUME NEW next, Goes(p, next), next.step \notin {"append", "count", "put"}
      PROVE  LogInv'
  <2>1. StillSo(events, next)
    BY <1>2 DEF StillSo
  <2> QED BY <1>1, <1>2, <2>1, MovesLogInv
<1>8. CASE Finishes(p)
  <2>1. Idle.step = "idle"
    BY DEF Idle
  <2> QED BY <1>2, <1>8, <2>1 DEF Finishes
<1>3. CASE Request(p) \/ Fail(p)
  <2>1. CASE RequestCheckpoint(p)
    <3>1. [Idle EXCEPT !.step = "head", !.op = "checkpoint"].step = "head"
      BY DEF Idle
    <3> QED BY <1>2, <2>1, <3>1 DEF RequestCheckpoint
  <2>2. ASSUME NEW s, NEW meta, RequestRecord(p, s, meta)
        PROVE  LogInv'
    <3>1. [Idle EXCEPT !.step = "tail", !.op = "record", !.subject = s, !.meta = meta].step = "tail"
      BY DEF Idle
    <3> QED BY <1>2, <2>2, <3>1 DEF RequestRecord
  <2>3. ASSUME NEW s, RequestErasure(p, s)
        PROVE  LogInv'
    <3>1. [Idle EXCEPT !.step = "tail", !.op = "erase", !.subject = s, !.meta = "given"].step = "tail"
      BY DEF Idle
    <3> QED BY <1>2, <2>3, <3>1 DEF RequestErasure
  <2> QED BY <1>3, <1>8, <2>1, <2>2, <2>3 DEF Request, Fail
<1>4. CASE SelectEvents(p) \/ FindEvent(p)
  <2>1. ASSUME NEW named, Goes(p, [writer[p] EXCEPT !.step = "find", !.listed = named, !.todo = named])
        PROVE  LogInv'
    <3>1. [writer[p] EXCEPT !.step = "find", !.listed = named, !.todo = named].step = "find"
      BY <1>0 DEF WriterState
    <3> QED BY <1>2, <2>1, <3>1
  <2>2. ASSUME NEW todo, writer[p].step = "find", Goes(p, [writer[p] EXCEPT !.todo = todo])
        PROVE  LogInv'
    <3>1. [writer[p] EXCEPT !.todo = todo].step = "find"
      BY <1>0, <2>2 DEF WriterState
    <3> QED BY <1>2, <2>2, <3>1
  <2>3. ASSUME NEW i, Goes(p, [writer[p] EXCEPT !.step = "replace", !.found = i])
        PROVE  LogInv'
    <3>1. [writer[p] EXCEPT !.step = "replace", !.found = i].step = "replace"
      BY <1>0 DEF WriterState
    <3> QED BY <1>2, <2>3, <3>1
  <2>4. CASE SelectEvents(p)
    BY <2>1, <2>4 DEF SelectEvents
  <2>5. CASE FindEvent(p)
    BY <1>8, <2>2, <2>3, <2>5 DEF FindEvent
  <2> QED BY <1>4, <2>4, <2>5
<1>5. CASE ReadTail(p)
  <2> DEFINE next == [writer[p] EXCEPT !.step = "append", !.tail = TailOf(events)]
  <2>1. next.step = "append" /\ next.tail = TailOf(events)
    BY <1>0 DEF WriterState
  <2>2. Goes(p, next)
    BY <1>5 DEF ReadTail
  <2> HIDE DEF next
  <2>3. StillSo(events, next)
    BY <2>1, TailIsLast DEF StillSo, Names, TypeInv
  <2> QED BY <1>1, <2>2, <2>3, MovesLogInv
<1>6. CASE ReadHead(p)
  <2>1. CASE Finishes(p)
    <3>1. Idle.step = "idle"
      BY DEF Idle
    <3> QED BY <1>2, <2>1, <3>1 DEF Finishes
  <2>2. CASE Present(events) # {} /\ Goes(p, [writer[p] EXCEPT !.step = "count", !.tail = TailOf(events)])
    <3> DEFINE next == [writer[p] EXCEPT !.step = "count", !.tail = TailOf(events)]
    <3>1. next.step = "count" /\ next.tail = TailOf(events)
      BY <1>0 DEF WriterState
    <3>2. Goes(p, next)
      BY <2>2
    <3> HIDE DEF next
    <3>3. StillSo(events, next)
      BY <2>2, <3>1, TailIsLast DEF StillSo, Names, TypeInv
    <3> QED BY <1>1, <3>2, <3>3, MovesLogInv
  <2> QED BY <1>6, <2>1, <2>2 DEF ReadHead
<1>7. CASE CountEvents(p)
  <2> DEFINE next == [writer[p] EXCEPT !.step = "put", !.count = Counted(events)]
  <2>1. /\ next.step = "put" /\ next.tail = writer[p].tail
        /\ next.count = Cardinality(Present(events))
    BY <1>0 DEF WriterState, Counted
  <2>2. Goes(p, next)
    BY <1>7 DEF CountEvents
  <2>3. Names(events, writer[p].tail.seq, writer[p].tail.hash)
    BY <1>0, <1>7 DEF CountEvents, StillSo
  <2>4. Cardinality(Present(events)) \in Nat
    BY PresentFinite
  <2> HIDE DEF next
  <2>5. StillSo(events, next)
    BY <2>1, <2>3, <2>4 DEF StillSo
  <2> QED BY <1>1, <2>2, <2>5, MovesLogInv
<1> QED BY <1>3, <1>4, <1>5, <1>6, <1>7

\* An append that throws leaves the log alone; one that does not comes right
\* after the last event, because the tail it was made for is still the last.
LEMMA AppendLogInv ==
  ASSUME TypeInv, LogInv, NEW p \in Writer, AppendEvent(p)
  PROVE  LogInv'
<1> DEFINE w == writer[p]
           seq == w.tail.seq + 1
           e == NewEvent(w)
<1>1. /\ w \in WriterState /\ w.step = "append" /\ seq \in Seqs
      /\ w.tail = NoTail \/ Names(events, w.tail.seq, w.tail.hash)
  BY DEF TypeInv, TypeOK, WriterHolds, AppendEvent, LogInv, StillSo
<1>2. UNCHANGED checkpoints
  BY DEF AppendEvent
<1>3. CASE Finishes(p) /\ UNCHANGED events
  <2>1. StillSo(events, Idle)
    BY DEF StillSo, Idle
  <2> QED BY <1>2, <1>3, <2>1, MovesLogInv DEF Finishes
<1>4. CASE ~Taken(seq) /\ events' = [events EXCEPT ![seq] = e]
           /\ (Finishes(p) \/ Goes(p, Appended(w)))
  <2>1. e \in Event /\ e # NoEvent /\ e.prevHash = w.tail.hash
        /\ (e.meta = "kept" => e.hash = HashEvent(e))
    BY <1>1, NewEventType, AuditAssumption DEF TypeInv
  <2> HIDE DEF e
  <2>2. /\ events'[seq] = e
        /\ \A i \in Seqs : i # seq => events'[i] = events[i]
        /\ Present(events') = Present(events) \cup {seq}
        /\ seq \notin Present(events)
    BY <1>1, <1>4, <2>1 DEF TypeInv, TypeOK, Present, Taken
  <2>3. \A i \in Present(events) : i < seq
    <3>1. \A i \in Present(events) : i \in Seqs /\ ~ (seq < i)
      BY <1>1, <2>2 DEF LogInv, Contiguous, Present
    <3> QED BY <1>1, <2>2, <3>1 DEF Seqs
  <2>4. \A j \in Seqs : j < seq => j \in Present(events)
    <3>1. CASE w.tail = NoTail
      BY <3>1 DEF NoTail, NoSeq, Seqs
    <3>2. CASE Names(events, w.tail.seq, w.tail.hash)
      <4> TAKE j \in Seqs
      <4>1. w.tail.seq \in Present(events) /\ w.tail.seq \in Seqs
        BY <3>2 DEF Names, Present
      <4>2. j < seq => j = w.tail.seq \/ j < w.tail.seq
        BY <4>1, BoundType DEF Seqs
      <4> QED BY <4>1, <4>2 DEF LogInv, Contiguous
    <3> QED BY <1>1, <3>1, <3>2
  <2>5. Contiguous'
    <3> SUFFICES ASSUME NEW i \in Present(events'), NEW j \in Seqs, j < i
                 PROVE  j \in Present(events')
      BY DEF Contiguous
    <3>1. CASE i = seq
      BY <2>2, <2>4, <3>1
    <3>2. CASE i \in Present(events)
      BY <2>2, <3>2 DEF LogInv, Contiguous
    <3> QED BY <2>2, <3>1, <3>2
  <2>6. EachLinked'
    <3> SUFFICES ASSUME NEW i \in Present(events')
                 PROVE  events'[i].prevHash = IF i = 0 THEN Genesis ELSE events'[i - 1].hash
      BY DEF EachLinked
    <3>1. CASE i = seq
      <4>1. CASE w.tail = NoTail
        BY <2>1, <2>2, <3>1, <4>1 DEF NoTail, NoSeq
      <4>2. CASE Names(events, w.tail.seq, w.tail.hash)
        <5>1. w.tail.seq \in Seqs /\ events[w.tail.seq].hash = w.tail.hash
          BY <4>2 DEF Names, Present
        <5>2. i # 0 /\ i - 1 = w.tail.seq /\ i - 1 # seq
          BY <3>1, <5>1, BoundType DEF Seqs
        <5> QED BY <2>1, <2>2, <3>1, <5>1, <5>2
      <4> QED BY <1>1, <4>1, <4>2
    <3>2. CASE i \in Present(events)
      <4>1. i \in Seqs /\ i < seq
        BY <2>3, <3>2 DEF Present
      <4>2. i = 0 \/ (i - 1 \in Seqs /\ i - 1 # seq /\ i # seq)
        BY <1>1, <4>1, BoundType DEF Seqs
      <4>3. events[i].prevHash = IF i = 0 THEN Genesis ELSE events[i - 1].hash
        BY <3>2 DEF LogInv, EachLinked
      <4> QED BY <1>1, <2>2, <4>1, <4>2, <4>3 DEF Seqs
    <3> QED BY <2>2, <3>1, <3>2
  <2>7. EachCommitted'
    <3> SUFFICES ASSUME NEW i \in Present(events')
                 PROVE  events'[i].redacted \/ events'[i].meta # "kept"
                          \/ events'[i].hash = HashEvent(events'[i])
      BY DEF EachCommitted, HashEvent, Content
    <3>1. CASE i = seq
      BY <2>1, <2>2, <3>1
    <3>2. CASE i \in Present(events)
      <4>1. events'[i] = events[i]
        BY <2>2, <3>2 DEF Present
      <4> QED BY <3>2, <4>1 DEF LogInv, EachCommitted
    <3> QED BY <2>2, <3>1, <3>2
  <2>8. Extends(events, events')
    <3>1. \A i \in Present(events) : i \in Seqs /\ i # seq
      BY <2>2 DEF Present
    <3> QED BY <2>2, <3>1 DEF Extends
  <2>9. EachAnchorHolds'
    BY <1>2, <2>8, ExtendedAnchors DEF LogInv, TypeInv
  <2>10. \A q \in Writer : StillSo(events', writer'[q])
    <3> TAKE q \in Writer
    <3>1. CASE q = p
      <4>1. Idle.step = "idle" /\ Appended(w).step \in {"select", "find"}
        BY <1>1 DEF Idle, Appended, WriterState
      <4>2. writer'[q] \in {Idle, Appended(w)}
        BY <1>4, <3>1 DEF Finishes, Goes, TypeInv, TypeOK
      <4> QED BY <4>1, <4>2 DEF StillSo
    <3>2. CASE q # p
      <4>1. writer'[q] = writer[q] /\ writer[q].count \in Nat
        BY <1>4, <3>2, BoundType DEF Finishes, Goes, TypeInv, TypeOK, WriterState
      <4> QED BY <2>8, <4>1, ExtendedStillSo DEF LogInv
    <3> QED BY <3>1, <3>2
  <2> QED BY <2>5, <2>6, <2>7, <2>9, <2>10 DEF LogInv
<1> QED BY <1>3, <1>4 DEF AppendEvent

\* A redaction keeps the hash and the link, so every chain through it holds.
LEMMA ReplaceLogInv ==
  ASSUME TypeInv, LogInv, NEW p \in Writer, ReplaceEvent(p)
  PROVE  LogInv'
<1> DEFINE w == writer[p]
           k == w.found
           next == [w EXCEPT !.step = "tail", !.about = k, !.found = NoSeq]
<1>1. w \in WriterState /\ k \in Seqs
  BY DEF TypeInv, TypeOK, WriterHolds, ReplaceEvent
<1>2. UNCHANGED checkpoints
  BY DEF ReplaceEvent
<1>3. CASE Finishes(p) /\ UNCHANGED events
  <2>1. StillSo(events, Idle)
    BY DEF StillSo, Idle
  <2> QED BY <1>2, <1>3, <2>1, MovesLogInv DEF Finishes
<1>4. CASE /\ events[k] # NoEvent
           /\ events' = [events EXCEPT ![k] = RedactedEvent(@)]
           /\ Goes(p, next)
  <2>1. /\ events[k] \in Event
        /\ RedactedEvent(events[k]) # NoEvent
        /\ RedactedEvent(events[k]).hash = events[k].hash
        /\ RedactedEvent(events[k]).prevHash = events[k].prevHash
        /\ RedactedEvent(events[k]).redacted
    BY <1>1, <1>4, RedactedEventType, AuditAssumption DEF TypeInv, TypeOK
  <2>2. next.step = "tail"
    BY <1>1 DEF WriterState
  <2> HIDE DEF next, w
  <2>3. /\ events'[k] = RedactedEvent(events[k])
        /\ \A i \in Seqs : i # k => events'[i] = events[i]
    BY <1>1, <1>4 DEF TypeInv, TypeOK
  <2>4. /\ Present(events') = Present(events)
        /\ \A i \in Seqs : /\ events'[i].hash = events[i].hash
                          /\ events'[i].prevHash = events[i].prevHash
    BY <1>1, <1>4, <2>1, <2>3 DEF Present
  <2>5. Contiguous'
    BY <2>4 DEF LogInv, Contiguous
  <2>6. EachLinked'
    <3>1. \A i \in Present(events) : i \in Seqs /\ (i # 0 => i - 1 \in Seqs)
      BY BoundType DEF Present, Seqs
    <3> QED BY <2>4, <3>1 DEF LogInv, EachLinked
  <2>7. EachCommitted'
    <3> SUFFICES ASSUME NEW i \in Present(events')
                 PROVE  events'[i].redacted \/ events'[i].meta # "kept"
                          \/ events'[i].hash = HashEvent(events'[i])
      BY DEF EachCommitted, HashEvent, Content
    <3>1. i \in Present(events) /\ i \in Seqs
      BY <2>4 DEF Present
    <3>2. CASE i = k
      BY <2>1, <2>3, <3>2
    <3>3. CASE i # k
      BY <2>3, <3>1, <3>3 DEF LogInv, EachCommitted
    <3> QED BY <3>2, <3>3
  <2>8. Extends(events, events')
    BY <2>4 DEF Extends, Present
  <2>9. EachAnchorHolds'
    BY <1>2, <2>8, ExtendedAnchors DEF LogInv, TypeInv
  <2>10. \A q \in Writer : StillSo(events', writer'[q])
    <3> TAKE q \in Writer
    <3>1. CASE q = p
      <4>1. writer'[q] = next
        BY <1>4, <3>1 DEF Goes, TypeInv, TypeOK
      <4> QED BY <2>2, <4>1 DEF StillSo
    <3>2. CASE q # p
      <4>1. writer'[q] = writer[q] /\ writer[q].count \in Nat
        BY <1>4, <3>2, BoundType DEF Goes, TypeInv, TypeOK, WriterState
      <4> QED BY <2>8, <4>1, ExtendedStillSo DEF LogInv
    <3> QED BY <3>1, <3>2
  <2> QED BY <2>5, <2>6, <2>7, <2>9, <2>10 DEF LogInv
<1> QED BY <1>3, <1>4 DEF ReplaceEvent

\* A checkpoint says what its handler was told, which is still so.
LEMMA PutLogInv ==
  ASSUME TypeInv, LogInv, NEW p \in Writer, PutCheckpoint(p)
  PROVE  LogInv'
<1> DEFINE w == writer[p]
           cp == [hash |-> w.tail.hash, count |-> w.count]
<1>1. /\ Names(events, w.tail.seq, w.tail.hash)
      /\ w.count <= Cardinality(Present(events))
  BY DEF PutCheckpoint, LogInv, StillSo
<1>2. /\ UNCHANGED events
      /\ Finishes(p)
      /\ checkpoints' = [checkpoints EXCEPT ![w.tail.seq] = cp]
  BY DEF PutCheckpoint
<1>3. (Contiguous /\ EachLinked /\ EachCommitted)'
  BY <1>2 DEF LogInv, Contiguous, EachLinked, EachCommitted
<1>4. EachAnchorHolds'
  <2> SUFFICES ASSUME NEW i \in Anchors'
               PROVE  /\ Names(events, i, checkpoints'[i].hash)
                      /\ checkpoints'[i].count <= Cardinality(Present(events))
    BY <1>2 DEF EachAnchorHolds
  <2>1. CASE i = w.tail.seq
    <3>1. checkpoints'[i] = cp
      BY <1>2, <2>1 DEF Anchors, TypeInv, TypeOK
    <3> QED BY <1>1, <2>1, <3>1
  <2>2. CASE i # w.tail.seq
    <3>1. checkpoints'[i] = checkpoints[i] /\ i \in Anchors
      BY <1>2, <2>2 DEF Anchors, TypeInv, TypeOK
    <3> QED BY <3>1 DEF LogInv, EachAnchorHolds
  <2> QED BY <2>1, <2>2
<1>5. \A q \in Writer : StillSo(events', writer'[q])
  <2>1. \A q \in Writer : writer'[q] = IF q = p THEN Idle ELSE writer[q]
    BY <1>2 DEF Finishes, Goes, TypeInv, TypeOK
  <2>2. StillSo(events, Idle)
    BY DEF StillSo, Idle
  <2> QED BY <1>2, <2>1, <2>2 DEF LogInv
<1> QED BY <1>3, <1>4, <1>5 DEF LogInv

LEMMA NextUntouchedInv == UntouchedInv /\ [Next]_vars => UntouchedInv'
<1> SUFFICES ASSUME UntouchedInv, [Next]_vars PROVE UntouchedInv'
  OBVIOUS
<1>1. TypeInv'
  BY NextTypeInv DEF UntouchedInv
<1> SUFFICES ASSUME Untouched' PROVE LogInv'
  BY <1>1 DEF UntouchedInv
<1>2. CASE UNCHANGED vars
  <2>1. Untouched
    BY <1>2 DEF vars, Untouched
  <2>2. LogInv
    BY <2>1 DEF UntouchedInv
  <2> QED BY <1>2, <2>2
       DEF vars, LogInv, Contiguous, EachLinked, EachCommitted, EachAnchorHolds, Anchors
<1>3. CASE Outside
  BY <1>3 DEF Outside, CutTail, DropRow, EditRow, Untouched
<1>4. ASSUME NEW p \in Writer, Request(p) \/ Step(p) \/ Fail(p)
      PROVE  LogInv'
  <2>1. outside'.kind = outside.kind
    BY <1>4 DEF Request, RequestRecord, RequestErasure, RequestCheckpoint, Fail,
                Step, ReadTail, AppendEvent, SelectEvents, FindEvent, ReplaceEvent,
                ReadHead, CountEvents, PutCheckpoint, UntouchedInv, TypeInv, TypeOK
  <2>2. LogInv /\ TypeInv
    BY <2>1 DEF Untouched, UntouchedInv
  <2> QED BY <1>4, <2>2, ReadLogInv, AppendLogInv, ReplaceLogInv, PutLogInv DEF Step
<1> QED BY <1>2, <1>3, <1>4 DEF Next

\* A log without gaps, broken links or broken anchors is what verifyChain
\* accepts.
LEMMA LogVerifies ==
  ASSUME TypeInv, LogInv, \A i \in Present(events) : ReadsBack(i)
  PROVE  VerifyChain
<1>1. ASSUME NEW i \in Present(events)
      PROVE  Linked(events, i)
  <2>1. i \in Seqs /\ events[i].prevHash = IF i = 0 THEN Genesis ELSE events[i - 1].hash
    BY DEF Present, LogInv, EachLinked
  <2>2. CASE i = 0
    <3>1. Before(events, i) = {}
      BY <2>2 DEF Before, Present, Seqs
    <3> QED BY <2>1, <2>2, <3>1 DEF Linked
  <2>3. CASE i # 0
    <3>1. i - 1 \in Seqs /\ i - 1 < i
      BY <2>1, <2>3, BoundType DEF Seqs
    <3>2. i - 1 \in Before(events, i)
      BY <3>1 DEF Before, LogInv, Contiguous
    <3>3. Before(events, i) \in SUBSET Seqs
      BY DEF Before, Present
    <3>4. /\ Last(Before(events, i)) \in Before(events, i)
          /\ i - 1 <= Last(Before(events, i))
      BY <3>2, <3>3, LastIsLast
    <3>5. Last(Before(events, i)) = i - 1
      BY <2>1, <3>3, <3>4, BoundType DEF Before, Seqs
    <3> QED BY <2>1, <2>3, <3>2, <3>5 DEF Linked
  <2> QED BY <2>2, <2>3
<1>2. ASSUME NEW i \in Present(events)
      PROVE  events[i].redacted \/ events[i].hash = HashEvent(events[i])
  BY DEF LogInv, EachCommitted, ReadsBack
<1>3. ChainIntact(events)
  BY <1>1, <1>2 DEF ChainIntact
<1>4. AnchorHolds
  <2> SUFFICES ASSUME Anchors # {}
               PROVE  LET cp == checkpoints[Last(Anchors)] IN
                      /\ events[Last(Anchors)] # NoEvent
                      /\ events[Last(Anchors)].hash = cp.hash
                      /\ Cardinality(Present(events)) >= cp.count
    BY DEF AnchorHolds
  <2>1. Last(Anchors) \in Anchors
    BY LastIsLast DEF Anchors
  <2>2. /\ Names(events, Last(Anchors), checkpoints[Last(Anchors)].hash)
        /\ checkpoints[Last(Anchors)].count <= Cardinality(Present(events))
    BY <2>1 DEF LogInv, EachAnchorHolds
  <2>3. Cardinality(Present(events)) \in Nat /\ checkpoints[Last(Anchors)].count \in Nat
    BY <2>1, PresentFinite DEF Anchors, TypeInv, TypeOK, Checkpoint
  <2> QED BY <2>2, <2>3 DEF Names, Present
<1> QED BY <1>3, <1>4 DEF VerifyChain

\* No false alarm: for any number of handlers recording, redacting and
\* checkpointing at once and stopping anywhere, a log nothing else touched,
\* and whose events read back as they were hashed, verifies.
THEOREM NeverAFalseAlarm == Spec => []UntouchedVerifies
<1>1. Init => UntouchedInv
  BY InitTypeInv, InitLogInv DEF UntouchedInv
<1>2. UntouchedInv => UntouchedVerifies
  BY LogVerifies DEF UntouchedInv, UntouchedVerifies
<1> QED BY <1>1, <1>2, NextUntouchedInv, PTL DEF Spec

----------------------------------------------------------------------------
(* An erasure's list.  In a log nobody else touched a row never goes and a  *)
(* redaction is never taken back, so whoever redacted a listed event, it    *)
(* stays redacted until the erasure is done with it.                        *)

Worked(w, log) ==
  /\ w.op = "erase" => /\ \A i \in w.listed : log[i] # NoEvent
                       /\ \A i \in w.listed \ w.todo : log[i].subject = Redacted
  /\ w.step \in {"tail", "append"} /\ w.about # NoSeq
       => log[w.about] # NoEvent /\ log[w.about].subject = Redacted

RedactedInv == \A i \in Present(events) : events[i].redacted => events[i].subject = Redacted

WorkInv == Untouched => RedactedInv /\ \A p \in Writer : Worked(writer[p], events)

LEMMA InitWorkInv == Init => WorkInv
BY DEF Init, WorkInv, RedactedInv, Present, Worked, Idle

\* What the log's own writes do to the rows that are there: nothing, or redact.
OnlyRedacts(log, next) ==
  \A i \in Seqs :
    log[i] # NoEvent => /\ next[i] # NoEvent
                        /\ log[i].subject = Redacted => next[i].subject = Redacted

LEMMA WorkedStays ==
  ASSUME NEW w \in WriterState, NEW log, NEW next, OnlyRedacts(log, next), Worked(w, log)
  PROVE  Worked(w, next)
<1>1. w.listed \in SUBSET Seqs /\ w.about \in Seqs \cup {NoSeq}
  BY DEF WriterState
<1> QED BY <1>1 DEF Worked, OnlyRedacts

\* A handler that moves on knowing what it is done with, in a log that lost
\* no row and no redaction.
LEMMA MovesWorkInv ==
  ASSUME TypeInv, WorkInv, Untouched, NEW p \in Writer, NEW next, Goes(p, next),
         Worked(next, events'), OnlyRedacts(events, events'), RedactedInv'
  PROVE  WorkInv'
<1>1. ASSUME NEW q \in Writer PROVE Worked(writer'[q], events')
  <2>1. CASE q = p
    BY <2>1 DEF Goes, TypeInv, TypeOK
  <2>2. CASE q # p
    <3>1. writer'[q] = writer[q] /\ writer[q] \in WriterState
      BY <2>2 DEF Goes, TypeInv, TypeOK
    <3>2. Worked(writer[q], events)
      BY DEF WorkInv
    <3> QED BY <3>1, <3>2, WorkedStays
  <2> QED BY <2>1, <2>2
<1> QED BY <1>1 DEF WorkInv

\* The same where the table is only read.
LEMMA ReadsWorkInv ==
  ASSUME TypeInv, WorkInv, Untouched, NEW p \in Writer, NEW next, Goes(p, next),
         Worked(next, events), UNCHANGED events
  PROVE  WorkInv'
<1>1. OnlyRedacts(events, events')
  BY DEF OnlyRedacts
<1>2. RedactedInv'
  BY DEF WorkInv, RedactedInv, Present
<1> QED BY <1>1, <1>2, MovesWorkInv

LEMMA WorkedIdle ==
  ASSUME NEW log PROVE Worked(Idle, log)
BY DEF Worked, Idle

LEMMA RequestWorkInv ==
  ASSUME TypeInv, WorkInv, Untouched, NEW p \in Writer, Request(p)
  PROVE  WorkInv'
<1>1. ASSUME NEW s, NEW meta, RequestRecord(p, s, meta)
      PROVE  WorkInv'
  <2>1. PICK next : next = [Idle EXCEPT !.step = "tail", !.op = "record", !.subject = s, !.meta = meta]
    OBVIOUS
  <2>2. Worked(next, events)
    BY <2>1 DEF Worked, Idle
  <2> QED BY <1>1, <2>1, <2>2, ReadsWorkInv DEF RequestRecord
<1>2. ASSUME NEW s, RequestErasure(p, s)
      PROVE  WorkInv'
  <2>1. PICK next : next = [Idle EXCEPT !.step = "tail", !.op = "erase", !.subject = s, !.meta = "given"]
    OBVIOUS
  <2>2. Worked(next, events)
    BY <2>1 DEF Worked, Idle
  <2> QED BY <1>2, <2>1, <2>2, ReadsWorkInv DEF RequestErasure
<1>3. CASE RequestCheckpoint(p)
  <2>1. PICK next : next = [Idle EXCEPT !.step = "head", !.op = "checkpoint"]
    OBVIOUS
  <2>2. Worked(next, events)
    BY <2>1 DEF Worked, Idle
  <2> QED BY <1>3, <2>1, <2>2, ReadsWorkInv DEF RequestCheckpoint
<1> QED BY <1>1, <1>2, <1>3 DEF Request

\* The steps that only read: an event that is gone or already redacted is one
\* an erasure is done with.
LEMMA ReadWorkInv ==
  ASSUME TypeInv, WorkInv, Untouched, NEW p \in Writer,
         Fail(p) \/ ReadTail(p) \/ SelectEvents(p) \/ FindEvent(p)
           \/ ReadHead(p) \/ CountEvents(p) \/ PutCheckpoint(p)
  PROVE  WorkInv'
<1> DEFINE w == writer[p]
<1>w. w \in WriterState /\ Worked(w, events) /\ RedactedInv
  BY DEF TypeInv, TypeOK, WorkInv
<1>1. UNCHANGED events
  BY DEF Fail, ReadTail, SelectEvents, FindEvent, ReadHead, CountEvents, PutCheckpoint
<1>f. ASSUME Finishes(p) PROVE WorkInv'
  BY <1>1, <1>f, WorkedIdle, ReadsWorkInv DEF Finishes
<1>2. CASE ReadTail(p)
  <2>1. PICK next : next = [w EXCEPT !.step = "append", !.tail = TailOf(events)]
    OBVIOUS
  <2>2. Worked(next, events)
    BY <1>2, <1>w, <2>1 DEF Worked, ReadTail, WriterState
  <2> QED BY <1>1, <1>2, <2>1, <2>2, ReadsWorkInv DEF ReadTail
<1>3. CASE SelectEvents(p)
  <2>1. PICK named : named = {i \in Present(events) : ~events[i].redacted /\ events[i].subject = w.subject}
    OBVIOUS
  <2>2. PICK next : next = [w EXCEPT !.step = "find", !.listed = named, !.todo = named]
    OBVIOUS
  <2>3. next.step = "find" /\ next.listed = named /\ next.todo = named
    BY <1>w, <2>2 DEF WriterState
  <2>4. Worked(next, events)
    BY <2>1, <2>3 DEF Worked, Present
  <2>5. Goes(p, next)
    BY <1>3, <2>1, <2>2 DEF SelectEvents
  <2> QED BY <1>1, <2>4, <2>5, ReadsWorkInv
<1>4. CASE FindEvent(p)
  <2>1. ASSUME NEW i \in w.todo, events[i] = NoEvent \/ events[i].redacted,
               Goes(p, [w EXCEPT !.todo = Skips(w.todo, i)])
        PROVE  WorkInv'
    <3>1. PICK todo : todo = w.todo \ {i}
      OBVIOUS
    <3>2. PICK next : next = [w EXCEPT !.todo = todo]
      OBVIOUS
    <3>3. /\ next.step = w.step /\ next.op = w.op /\ next.listed = w.listed
          /\ next.about = w.about /\ next.todo = todo
      BY <1>w, <3>2 DEF WriterState
    <3>4. i \in Seqs
      BY <1>w DEF WriterState
    <3>5. w.op = "erase" /\ i \in w.listed => events[i].subject = Redacted
      BY <1>w, <2>1, <3>4 DEF Worked, RedactedInv, Present
    <3>6. Worked(next, events)
      BY <1>w, <3>1, <3>3, <3>5 DEF Worked
    <3>7. Goes(p, next)
      BY <2>1, <3>1, <3>2 DEF Skips
    <3> QED BY <1>1, <3>6, <3>7, ReadsWorkInv
  <2>2. ASSUME NEW i, Goes(p, [w EXCEPT !.step = "replace", !.found = i])
        PROVE  WorkInv'
    <3>1. PICK next : next = [w EXCEPT !.step = "replace", !.found = i]
      OBVIOUS
    <3>2. /\ next.step = "replace" /\ next.op = w.op /\ next.listed = w.listed
          /\ next.todo = w.todo
      BY <1>w, <3>1 DEF WriterState
    <3>3. Worked(next, events)
      BY <1>w, <3>2 DEF Worked
    <3> QED BY <1>1, <2>2, <3>1, <3>3, ReadsWorkInv
  <2> QED BY <1>4, <1>f, <2>1, <2>2 DEF FindEvent
<1>5. CASE ReadHead(p)
  <2>1. CASE Goes(p, [w EXCEPT !.step = "count", !.tail = TailOf(events)])
    <3>1. PICK next : next = [w EXCEPT !.step = "count", !.tail = TailOf(events)]
      OBVIOUS
    <3>2. Worked(next, events)
      BY <1>w, <3>1 DEF Worked, WriterState
    <3> QED BY <1>1, <2>1, <3>1, <3>2, ReadsWorkInv
  <2> QED BY <1>5, <1>f, <2>1 DEF ReadHead
<1>6. CASE CountEvents(p)
  <2>1. PICK next : next = [w EXCEPT !.step = "put", !.count = Counted(events)]
    OBVIOUS
  <2>2. Worked(next, events)
    BY <1>w, <2>1 DEF Worked, WriterState
  <2> QED BY <1>1, <1>6, <2>1, <2>2, ReadsWorkInv DEF CountEvents
<1> QED BY <1>2, <1>3, <1>4, <1>5, <1>6, <1>f DEF Fail, PutCheckpoint

\* An append takes a seq that is free, and an erasure that recorded a
\* redaction is done with the event it redacted.
LEMMA AppendWorkInv ==
  ASSUME TypeInv, WorkInv, Untouched, NEW p \in Writer, AppendEvent(p)
  PROVE  WorkInv'
<1> DEFINE w == writer[p]
           seq == w.tail.seq + 1
<1>w. w \in WriterState /\ Worked(w, events) /\ RedactedInv /\ w.step = "append" /\ seq \in Seqs
  BY DEF TypeInv, TypeOK, WorkInv, WriterHolds, AppendEvent
<1>1. CASE Taken(seq)
  BY <1>1, WorkedIdle, ReadsWorkInv DEF AppendEvent, Finishes
<1>2. CASE ~ Taken(seq)
  <2>1. PICK e : e = NewEvent(w)
    OBVIOUS
  <2>2. e \in Event /\ e # NoEvent /\ ~ e.redacted
    <3>1. NewEvent(w) \in Event
      BY <1>w, NewEventType DEF TypeInv
    <3>2. ~ NewEvent(w).redacted
      BY DEF NewEvent
    <3> QED BY <2>1, <3>1, <3>2, AuditAssumption
  <2>3. events' = [events EXCEPT ![seq] = e]
    BY <1>2, <2>1 DEF AppendEvent
  <2>4. /\ events'[seq] = e /\ events[seq] = NoEvent
        /\ \A i \in Seqs : i # seq => events'[i] = events[i]
    BY <1>2, <1>w, <2>3 DEF TypeInv, TypeOK, Taken
  <2>5. OnlyRedacts(events, events')
    BY <2>2, <2>4 DEF OnlyRedacts
  <2>6. RedactedInv'
    BY <1>w, <2>2, <2>4 DEF RedactedInv, Present
  <2>7. CASE Finishes(p)
    BY <2>5, <2>6, <2>7, WorkedIdle, MovesWorkInv DEF Finishes
  <2>8. CASE Goes(p, Appended(w))
    <3>1. PICK next : next = Appended(w)
      OBVIOUS
    <3>2. ASSUME w.about = NoSeq PROVE Worked(next, events)
      <4>1. /\ next.step = "select" /\ next.op = w.op /\ next.listed = w.listed
            /\ next.todo = w.todo
        BY <1>w, <3>1, <3>2 DEF Appended, WriterState
      <4> QED BY <1>w, <4>1 DEF Worked
    <3>3. ASSUME w.about # NoSeq PROVE Worked(next, events)
      <4>1. /\ next.step = "find" /\ next.op = w.op /\ next.listed = w.listed
            /\ next.todo = w.todo \ {w.about}
        BY <1>w, <3>1, <3>3 DEF Appended, WriterState
      <4>2. events[w.about].subject = Redacted
        BY <1>w, <3>3 DEF Worked
      <4> QED BY <1>w, <4>1, <4>2 DEF Worked
    <3>4. Worked(next, events)
      BY <3>2, <3>3
    <3>5. next \in WriterState
      BY <1>w, <3>1, GenesisType DEF Appended, WriterState, WriterStep, NoTail
    <3>6. Worked(next, events')
      BY <2>5, <3>4, <3>5, WorkedStays
    <3> QED BY <2>5, <2>6, <2>8, <3>1, <3>6, MovesWorkInv
  <2> QED BY <1>2, <2>7, <2>8 DEF AppendEvent
<1> QED BY <1>1, <1>2

\* A redaction names nobody.
LEMMA ReplaceWorkInv ==
  ASSUME TypeInv, WorkInv, Untouched, NEW p \in Writer, ReplaceEvent(p)
  PROVE  WorkInv'
<1> DEFINE w == writer[p]
           k == w.found
<1>w. w \in WriterState /\ Worked(w, events) /\ RedactedInv /\ k \in Seqs
  BY DEF TypeInv, TypeOK, WorkInv, WriterHolds, ReplaceEvent
<1>1. CASE events[k] = NoEvent
  BY <1>1, WorkedIdle, ReadsWorkInv DEF ReplaceEvent, Finishes
<1>2. CASE events[k] # NoEvent
  <2>1. PICK e : e = RedactedEvent(events[k])
    OBVIOUS
  <2>2. e # NoEvent /\ e.subject = Redacted
    <3>1. events[k] \in Event
      BY <1>2, <1>w DEF TypeInv, TypeOK
    <3>2. RedactedEvent(events[k]) \in Event
      BY <3>1, RedactedEventType
    <3>3. RedactedEvent(events[k]).subject = Redacted
      BY <3>1 DEF RedactedEvent, Event
    <3> QED BY <2>1, <3>2, <3>3, AuditAssumption
  <2>3. /\ events'[k] = e
        /\ \A i \in Seqs : i # k => events'[i] = events[i]
    BY <1>2, <1>w, <2>1 DEF ReplaceEvent, TypeInv, TypeOK
  <2>4. OnlyRedacts(events, events')
    BY <2>2, <2>3 DEF OnlyRedacts
  <2>5. RedactedInv'
    BY <1>w, <2>2, <2>3 DEF RedactedInv, Present
  <2>6. PICK next : next = [w EXCEPT !.step = "tail", !.about = k, !.found = NoSeq]
    OBVIOUS
  <2>7. /\ next.op = w.op /\ next.listed = w.listed /\ next.todo = w.todo /\ next.about = k
    BY <1>w, <2>6 DEF WriterState
  <2>8. \A i \in w.listed : i \in Seqs
    BY <1>w DEF WriterState
  <2>9. Worked(next, events')
    BY <1>w, <2>2, <2>3, <2>4, <2>7, <2>8 DEF Worked, OnlyRedacts
  <2>10. Goes(p, next)
    BY <1>2, <2>6 DEF ReplaceEvent
  <2> QED BY <2>4, <2>5, <2>9, <2>10, MovesWorkInv
<1> QED BY <1>1, <1>2

\* The log's own steps never say that somebody else changed it.
LEMMA OwnStepsKeepKind ==
  ASSUME TypeInv, NEW p \in Writer, Request(p) \/ Step(p) \/ Fail(p)
  PROVE  /\ outside'.kind = outside.kind /\ outside'.at = outside.at
         /\ outside' # outside => outside'.anchored = FALSE /\ PutCheckpoint(p)
BY DEF Request, RequestRecord, RequestErasure, RequestCheckpoint, Fail,
       Step, ReadTail, AppendEvent, SelectEvents, FindEvent, ReplaceEvent,
       ReadHead, CountEvents, PutCheckpoint, TypeInv, TypeOK

LEMMA NextWorkInv == TypeInv /\ WorkInv /\ [Next]_vars => WorkInv'
<1> SUFFICES ASSUME TypeInv, WorkInv, [Next]_vars, Untouched' PROVE WorkInv'
  BY DEF WorkInv
<1>1. CASE UNCHANGED vars
  BY <1>1 DEF vars, WorkInv, RedactedInv, Present, Untouched
<1>2. CASE Outside
  BY <1>2 DEF Outside, CutTail, DropRow, EditRow, Untouched
<1>3. ASSUME NEW p \in Writer, Request(p) \/ Step(p) \/ Fail(p)
      PROVE  WorkInv'
  <2>1. Untouched
    BY <1>3, OwnStepsKeepKind DEF Untouched
  <2> QED BY <1>3, <2>1, RequestWorkInv, ReadWorkInv, AppendWorkInv, ReplaceWorkInv DEF Step
<1> QED BY <1>1, <1>2, <1>3 DEF Next

\* For any number of handlers, erasures, residents and events: in a log nobody
\* else touched, each event an erasure listed and is done with names nobody
\* any more, whether it redacted the event itself or found another erasure had,
\* and whatever was appended meanwhile (redactSubject, redact).
THEOREM ErasureLeavesNobody == Spec => []WorkedThrough
<1>1. TypeInv /\ WorkInv => WorkedThrough
  BY DEF WorkInv, Worked, WorkedThrough
<1> QED BY InitTypeInv, NextTypeInv, InitWorkInv, NextWorkInv, <1>1, PTL DEF Spec

----------------------------------------------------------------------------
(* What a change from outside leaves behind.  A hash commits to the events  *)
(* before and ends in its own event's content, its stamp.  So a row after a *)
(* deleted one carries a link longer than what is left before it, an edited *)
(* row names another than its stamp does, and a row written where one was   *)
(* lost has another stamp than the checkpoint that committed to the loss.   *)

Stamp(hash) == hash[Len(hash)]

\* The log as its own writers leave it.
Stamped(log) ==
  \A i \in Present(log) :
    /\ Len(log[i].hash) = i + 1
    /\ Stamp(log[i].hash).id = "first"
    /\ log[i].redacted \/ Stamp(log[i].hash).subject = log[i].subject

Dropped(log, at) ==
  /\ at \in Seqs /\ at + 1 \in Seqs
  /\ log[at] = NoEvent /\ log[at + 1] # NoEvent
  /\ Len(log[at + 1].prevHash) = at + 1
  /\ \A j \in Present(log) : j < at => Len(log[j].hash) = j + 1

Edited(log, at) ==
  /\ at \in Seqs /\ log[at] # NoEvent
  /\ log[at].redacted \/ Stamp(log[at].hash).subject # log[at].subject

Cut(log, cps, at) ==
  /\ \E j \in Seqs : cps[j] # NoCheckpoint /\ at <= j
  /\ \A j \in Seqs : cps[j] # NoCheckpoint /\ at <= j =>
       /\ Stamp(cps[j].hash).id = "first"
       /\ log[j] # NoEvent => Stamp(log[j].hash).id = "second"

\* Handlers that append after a deletion append past it.
Beyond(w, at) == w.step = "append" => w.tail.seq > at

ChangedInv ==
  /\ outside.kind = "none" => Stamped(events)
  /\ outside.kind = "drop" => Dropped(events, outside.at)
                              /\ \A p \in Writer : Beyond(writer[p], outside.at)
  /\ outside.kind = "edit" => Edited(events, outside.at)
  /\ outside.kind = "cut" /\ outside.anchored => Cut(events, checkpoints, outside.at)

LEMMA InitChangedInv == Init => ChangedInv
BY DEF Init, ChangedInv, Stamped, Present

\* The stamp of a new event is its own content, whatever its column stores.
LEMMA NewEventStamp ==
  ASSUME TypeOK, NEW w \in WriterState, w.tail.seq + 1 \in Seqs
  PROVE  /\ Len(NewEvent(w).hash) = Len(w.tail.hash) + 1
         /\ Stamp(NewEvent(w).hash).id = FreshId
         /\ Stamp(NewEvent(w).hash).subject = NewEvent(w).subject
<1> DEFINE base == [id |-> FreshId, seq |-> w.tail.seq + 1, about |-> w.about,
                    subject |-> IF w.about = NoSeq THEN w.subject ELSE NoSubject,
                    meta |-> IF w.about = NoSeq THEN w.meta ELSE "kept",
                    redacted |-> FALSE, prevHash |-> w.tail.hash, hash |-> Genesis]
<1>1. NewEvent(w) = [base EXCEPT !.hash = HashEvent(base), !.meta = AsStored(@)]
  BY DEF NewEvent
<1>2. NewEvent(w).hash = Append(w.tail.hash, Content(base)) /\ NewEvent(w).subject = base.subject
  <2>1. PICK hash : hash = HashEvent(base)
    OBVIOUS
  <2>2. PICK meta : meta = AsStored(base.meta)
    OBVIOUS
  <2>3. NewEvent(w) = [base EXCEPT !.hash = hash, !.meta = meta]
    BY <1>1, <2>1, <2>2
  <2>4. NewEvent(w).hash = hash /\ NewEvent(w).subject = base.subject
    BY <2>3
  <2>5. hash = Append(w.tail.hash, Content(base))
    BY <2>1 DEF HashEvent
  <2> QED BY <2>4, <2>5
<1>3. Content(base).id = FreshId /\ Content(base).subject = base.subject
  BY DEF Content
<1>4. w.tail.hash \in Seq(Commitment)
  BY DEF WriterState, Hash
<1>5. PICK c : c = Content(base)
  OBVIOUS
<1>6. c \in Commitment
  <2>1. FreshId \in {"first", "second"}
    BY DEF FreshId
  <2> QED BY <1>5, <2>1 DEF Content, Commitment, WriterState
<1>7. PICK s : s = Append(w.tail.hash, c)
  OBVIOUS
<1>8. Len(s) = Len(w.tail.hash) + 1 /\ s[Len(s)] = c
  BY <1>4, <1>6, <1>7
<1> QED BY <1>2, <1>3, <1>5, <1>7, <1>8 DEF Stamp


\* What the log's own writes do to a row that is there: nothing, or redact it
\* and keep its hash and its link.
KeepsHashes(log, next) ==
  \A i \in Seqs :
    log[i] # NoEvent =>
      /\ next[i] # NoEvent /\ next[i].hash = log[i].hash /\ next[i].prevHash = log[i].prevHash
      /\ next[i].redacted \/ next[i] = log[i]

\* Where no row is added, all that was left behind stays.
LEMMA KeptChange ==
  ASSUME NEW log, NEW next, KeepsHashes(log, next),
         \A i \in Seqs : log[i] = NoEvent => next[i] = NoEvent
  PROVE  /\ Stamped(log) => Stamped(next)
         /\ \A at : Dropped(log, at) => Dropped(next, at)
         /\ \A at : Edited(log, at) => Edited(next, at)
         /\ \A cps, at : Cut(log, cps, at) => Cut(next, cps, at)
<1>1. Present(next) = Present(log)
  BY DEF Present, KeepsHashes
<1>2. Stamped(log) => Stamped(next)
  BY <1>1 DEF Stamped, KeepsHashes, Present
<1>3. \A at : Dropped(log, at) => Dropped(next, at)
  BY <1>1 DEF Dropped, KeepsHashes, Present
<1>4. \A at : Edited(log, at) => Edited(next, at)
  BY DEF Edited, KeepsHashes
<1>5. \A cps, at : Cut(log, cps, at) => Cut(next, cps, at)
  BY DEF Cut, KeepsHashes
<1> QED BY <1>2, <1>3, <1>4, <1>5

\* A handler that moves leaves the others where they were.
LEMMA StaysBeyond ==
  ASSUME TypeInv, NEW p \in Writer, NEW next, Goes(p, next), NEW at,
         \A q \in Writer : Beyond(writer[q], at), Beyond(next, at)
  PROVE  \A q \in Writer : Beyond(writer'[q], at)
BY DEF Goes, TypeInv, TypeOK

\* After a deletion the tail is past it, as a row was left there.
LEMMA MovesBeyond ==
  ASSUME TypeInv, NEW p \in Writer, Request(p) \/ Step(p) \/ Fail(p),
         NEW at, Dropped(events, at), \A q \in Writer : Beyond(writer[q], at)
  PROVE  \A q \in Writer : Beyond(writer'[q], at)
<1> DEFINE w == writer[p]
<1>w. w \in WriterState
  BY DEF TypeInv, TypeOK
<1>a. ASSUME NEW next, Goes(p, next), next.step # "append"
      PROVE  \A q \in Writer : Beyond(writer'[q], at)
  BY <1>a, StaysBeyond DEF Beyond
<1>f. ASSUME Finishes(p)
      PROVE  \A q \in Writer : Beyond(writer'[q], at)
  <2>1. Idle.step # "append"
    BY DEF Idle
  <2> QED BY <1>a, <1>f, <2>1 DEF Finishes
<1>1. CASE Request(p)
  <2>1. \A s, meta : [Idle EXCEPT !.step = "tail", !.op = "record", !.subject = s, !.meta = meta].step # "append"
    BY DEF Idle
  <2>2. \A s : [Idle EXCEPT !.step = "tail", !.op = "erase", !.subject = s, !.meta = "given"].step # "append"
    BY DEF Idle
  <2>3. [Idle EXCEPT !.step = "head", !.op = "checkpoint"].step # "append"
    BY DEF Idle
  <2> QED BY <1>1, <1>a, <2>1, <2>2, <2>3 DEF Request, RequestRecord, RequestErasure, RequestCheckpoint
<1>2. CASE ReadTail(p)
  <2>1. PICK tail : tail = TailOf(events)
    OBVIOUS
  <2>2. PICK next : next = [w EXCEPT !.step = "append", !.tail = tail]
    OBVIOUS
  <2>3. next.tail = tail
    BY <1>w, <2>2 DEF WriterState
  <2>4. at + 1 \in Present(events) /\ at \in Int
    BY DEF Dropped, Present, Seqs
  <2>5. at + 1 <= tail.seq /\ tail.seq \in Present(events)
    BY <2>1, <2>4, TailIsLast DEF TypeInv
  <2>6. at < tail.seq
    BY <2>4, <2>5 DEF Present, Seqs
  <2>7. Beyond(next, at)
    BY <2>3, <2>6 DEF Beyond
  <2>8. Goes(p, next)
    BY <1>2, <2>1, <2>2 DEF ReadTail
  <2> QED BY <2>7, <2>8, StaysBeyond
<1>3. CASE AppendEvent(p)
  <2>1. CASE Goes(p, Appended(w))
    <3>1. Appended(w).step # "append"
      BY <1>w DEF Appended, WriterState
    <3> QED BY <1>a, <2>1, <3>1
  <2> QED BY <1>3, <1>f, <2>1 DEF AppendEvent
<1>4. CASE SelectEvents(p) \/ FindEvent(p)
  <2>1. ASSUME NEW named, Goes(p, [w EXCEPT !.step = "find", !.listed = named, !.todo = named])
        PROVE  \A q \in Writer : Beyond(writer'[q], at)
    <3>1. [w EXCEPT !.step = "find", !.listed = named, !.todo = named].step # "append"
      BY <1>w DEF WriterState
    <3> QED BY <1>a, <2>1, <3>1
  <2>2. ASSUME NEW todo, w.step = "find", Goes(p, [w EXCEPT !.todo = todo])
        PROVE  \A q \in Writer : Beyond(writer'[q], at)
    <3>1. [w EXCEPT !.todo = todo].step # "append"
      BY <1>w, <2>2 DEF WriterState
    <3> QED BY <1>a, <2>2, <3>1
  <2>3. ASSUME NEW i, Goes(p, [w EXCEPT !.step = "replace", !.found = i])
        PROVE  \A q \in Writer : Beyond(writer'[q], at)
    <3>1. [w EXCEPT !.step = "replace", !.found = i].step # "append"
      BY <1>w DEF WriterState
    <3> QED BY <1>a, <2>3, <3>1
  <2>4. CASE SelectEvents(p)
    BY <2>1, <2>4 DEF SelectEvents
  <2>5. CASE FindEvent(p)
    BY <1>f, <2>2, <2>3, <2>5 DEF FindEvent
  <2> QED BY <1>4, <2>4, <2>5
<1>5. CASE ReplaceEvent(p)
  <2>1. [w EXCEPT !.step = "tail", !.about = w.found, !.found = NoSeq].step # "append"
    BY <1>w DEF WriterState
  <2> QED BY <1>5, <1>a, <1>f, <2>1 DEF ReplaceEvent
<1>6. CASE ReadHead(p) \/ CountEvents(p)
  <2>1. [w EXCEPT !.step = "count", !.tail = TailOf(events)].step # "append"
    BY <1>w DEF WriterState
  <2>2. [w EXCEPT !.step = "put", !.count = Counted(events)].step # "append"
    BY <1>w DEF WriterState
  <2> QED BY <1>6, <1>a, <1>f, <2>1, <2>2 DEF ReadHead, CountEvents
<1> QED BY <1>1, <1>2, <1>3, <1>4, <1>5, <1>6, <1>f DEF Step, Fail, PutCheckpoint

\* A row the log adds: nobody else's change is healed by it.
LEMMA AddedChange ==
  ASSUME TypeInv, ChangedInv, Untouched => LogInv, NEW p \in Writer, AppendEvent(p),
         ~ Taken(writer[p].tail.seq + 1)
  PROVE  /\ Untouched => Stamped(events')
         /\ outside.kind = "drop" => Dropped(events', outside.at)
         /\ outside.kind = "edit" => Edited(events', outside.at)
         /\ outside.kind = "cut" /\ outside.anchored => Cut(events', checkpoints, outside.at)
<1> DEFINE w == writer[p]
           seq == w.tail.seq + 1
<1>w. /\ w \in WriterState /\ w.step = "append" /\ seq \in Seqs
      /\ w.tail.seq \in Int /\ w.tail.hash \in Hash
  BY DEF TypeInv, TypeOK, WriterHolds, AppendEvent, WriterState, Seqs, NoSeq
<1>1. PICK e : e = NewEvent(w)
  OBVIOUS
<1>2. /\ e \in Event /\ e # NoEvent /\ Len(e.hash) = Len(w.tail.hash) + 1
      /\ Stamp(e.hash).id = FreshId /\ Stamp(e.hash).subject = e.subject
  BY <1>1, <1>w, NewEventType, NewEventStamp, AuditAssumption DEF TypeInv
<1>3. events' = [events EXCEPT ![seq] = e]
  BY <1>1 DEF AppendEvent
<1>4. /\ events'[seq] = e /\ events[seq] = NoEvent
      /\ \A i \in Seqs : i # seq => events'[i] = events[i]
  BY <1>w, <1>3 DEF TypeInv, TypeOK, Taken
<1>5. ASSUME Untouched PROVE Stamped(events')
  <2>1. Stamped(events) /\ Stamp(e.hash).id = "first"
    BY <1>2, <1>5 DEF ChangedInv, Untouched, FreshId
  <2>2. StillSo(events, w) /\ (w.tail = NoTail \/ Names(events, w.tail.seq, w.tail.hash))
    BY <1>5, <1>w DEF LogInv, StillSo
  <2>3. Len(e.hash) = seq + 1
    <3>1. CASE w.tail = NoTail
      BY <1>2, <3>1 DEF NoTail, Genesis, NoSeq
    <3>2. CASE Names(events, w.tail.seq, w.tail.hash)
      BY <1>2, <1>w, <2>1, <3>2 DEF Names, Stamped
    <3> QED BY <2>2, <3>1, <3>2
  <2> QED BY <1>2, <1>4, <2>1, <2>3 DEF Stamped, Present
<1>6. ASSUME outside.kind = "drop" PROVE Dropped(events', outside.at)
  <2>1. PICK at : at = outside.at
    OBVIOUS
  <2>2. Dropped(events, at) /\ w.tail.seq > at
    BY <1>6, <1>w, <2>1 DEF ChangedInv, Beyond
  <2>3. at \in Int /\ seq # at /\ seq # at + 1
    BY <1>4, <1>w, <2>2 DEF Dropped, Seqs
  <2>4. \A j \in Seqs : j < at => events'[j] = events[j]
    BY <1>4, <1>w, <2>2, <2>3 DEF Seqs
  <2>5. Dropped(events', at)
    BY <1>4, <2>2, <2>3, <2>4 DEF Dropped, Present
  <2> QED BY <2>1, <2>5
<1>7. ASSUME outside.kind = "edit" PROVE Edited(events', outside.at)
  BY <1>4, <1>7 DEF ChangedInv, Edited
<1>8. ASSUME outside.kind = "cut", outside.anchored PROVE Cut(events', checkpoints, outside.at)
  <2>1. Cut(events, checkpoints, outside.at) /\ Stamp(e.hash).id = "second"
    BY <1>2, <1>8 DEF ChangedInv, FreshId
  <2> QED BY <1>4, <2>1 DEF Cut
<1> QED BY <1>5, <1>6, <1>7, <1>8

\* The rows after a step that adds none.
LEMMA OtherwiseKept ==
  ASSUME TypeInv, NEW p \in Writer, Request(p) \/ Step(p) \/ Fail(p),
         AppendEvent(p) => Taken(writer[p].tail.seq + 1)
  PROVE  /\ KeepsHashes(events, events')
         /\ \A i \in Seqs : events[i] = NoEvent => events'[i] = NoEvent
<1>1. CASE UNCHANGED events
  BY <1>1 DEF KeepsHashes
<1>2. CASE ReplaceEvent(p) /\ events[writer[p].found] # NoEvent
  <2>1. PICK k \in Seqs : k = writer[p].found
    BY <1>2 DEF ReplaceEvent, TypeInv, WriterHolds
  <2>2. PICK e : e = RedactedEvent(events[k])
    OBVIOUS
  <2>3. /\ e # NoEvent /\ e.redacted
        /\ e.hash = events[k].hash /\ e.prevHash = events[k].prevHash
    <3>1. events[k] \in Event
      BY <1>2, <2>1 DEF TypeInv, TypeOK
    <3> QED BY <2>2, <3>1, RedactedEventType, AuditAssumption
  <2>4. /\ events'[k] = e
        /\ \A i \in Seqs : i # k => events'[i] = events[i]
    BY <1>2, <2>1, <2>2 DEF ReplaceEvent, TypeInv, TypeOK
  <2> QED BY <1>2, <2>1, <2>3, <2>4 DEF KeepsHashes
<1> QED BY <1>1, <1>2 DEF Request, RequestRecord, RequestErasure, RequestCheckpoint, Fail,
       Step, ReadTail, AppendEvent, SelectEvents, FindEvent, ReplaceEvent,
       ReadHead, CountEvents, PutCheckpoint

LEMMA OwnChangedInv ==
  ASSUME TypeInv, ChangedInv, Untouched => LogInv,
         NEW p \in Writer, Request(p) \/ Step(p) \/ Fail(p)
  PROVE  ChangedInv'
<1>1. /\ outside'.kind = outside.kind /\ outside'.at = outside.at
      /\ outside'.anchored => outside.anchored /\ UNCHANGED checkpoints
  <2>1. ~ PutCheckpoint(p) => UNCHANGED checkpoints
    BY DEF Request, RequestRecord, RequestErasure, RequestCheckpoint, Fail,
       Step, ReadTail, AppendEvent, SelectEvents, FindEvent, ReplaceEvent,
       ReadHead, CountEvents
  <2>2. PutCheckpoint(p) => ~ outside'.anchored
    BY DEF PutCheckpoint, TypeInv, TypeOK
  <2> QED BY <2>1, <2>2, OwnStepsKeepKind
<1>2. /\ Untouched => Stamped(events')
      /\ outside.kind = "drop" => Dropped(events', outside.at)
      /\ outside.kind = "edit" => Edited(events', outside.at)
      /\ outside.kind = "cut" /\ outside.anchored => Cut(events', checkpoints, outside.at)
  <2>1. CASE AppendEvent(p) /\ ~ Taken(writer[p].tail.seq + 1)
    BY <2>1, AddedChange
  <2>2. CASE AppendEvent(p) => Taken(writer[p].tail.seq + 1)
    <3>1. /\ KeepsHashes(events, events')
          /\ \A i \in Seqs : events[i] = NoEvent => events'[i] = NoEvent
      BY <2>2, OtherwiseKept
    <3> QED BY <3>1, KeptChange DEF ChangedInv, Untouched
  <2> QED BY <2>1, <2>2
<1>3. ASSUME outside.kind = "drop"
      PROVE  \A q \in Writer : Beyond(writer'[q], outside.at)
  BY <1>3, MovesBeyond DEF ChangedInv
<1> QED BY <1>1, <1>2, <1>3 DEF ChangedInv, Untouched

\* A change from outside comes to a log its own writers left as they do.
LEMMA OutsideChangedInv ==
  ASSUME TypeInv, ChangedInv, Untouched => LogInv, Outside
  PROVE  ChangedInv'
<1>1. /\ Untouched /\ LogInv /\ Stamped(events) /\ UNCHANGED <<checkpoints, writer>>
      /\ \A p \in Writer : writer[p].step = "idle"
  BY DEF Outside, CutTail, DropRow, EditRow, MayChange, Quiet, Untouched, ChangedInv, Idle
<1>2. ASSUME NEW i \in Seqs, CutTail(i)
      PROVE  ChangedInv'
  <2>1. outside'.kind = "cut" /\ outside'.at = i /\ (outside'.anchored <=> \E j \in Anchors : i <= j)
    BY <1>2 DEF CutTail
  <2>2. \A j \in Seqs : i <= j => events'[j] = NoEvent
    BY <1>2 DEF CutTail, Seqs
  <2>3. \A j \in Anchors : Stamp(checkpoints[j].hash).id = "first"
    BY <1>1 DEF LogInv, EachAnchorHolds, Names, Stamped
  <2>4. outside'.anchored => Cut(events', checkpoints', i)
    BY <1>1, <2>1, <2>2, <2>3 DEF Cut, Anchors
  <2> QED BY <2>1, <2>4 DEF ChangedInv
<1>3. ASSUME NEW i \in Seqs, DropRow(i)
      PROVE  ChangedInv'
  <2>1. outside'.kind = "drop" /\ outside'.at = i
    BY <1>3 DEF DropRow
  <2>2. /\ events'[i] = NoEvent
        /\ \A j \in Seqs : j # i => events'[j] = events[j]
    BY <1>3 DEF DropRow, TypeInv, TypeOK
  <2>3. PICK j \in Present(events) : i < j
    BY <1>3 DEF DropRow
  <2>4. i + 1 \in Seqs /\ i + 1 <= j
    BY <2>3, BoundType DEF Present, Seqs
  <2>5. i + 1 \in Present(events)
    BY <1>1, <2>3, <2>4 DEF LogInv, Contiguous, Seqs, Present
  <2>6. events[i + 1].prevHash = events[i].hash
    <3>1. i + 1 # 0 /\ (i + 1) - 1 = i
      BY DEF Seqs
    <3> QED BY <1>1, <2>5, <3>1 DEF LogInv, EachLinked
  <2>7. Len(events[i].hash) = i + 1
    BY <1>1, <1>3 DEF DropRow, Stamped
  <2>8. \A k \in Seqs : events'[k] # NoEvent => events'[k] = events[k]
    BY <2>2
  <2>9. i + 1 # i
    BY DEF Seqs
  <2>10. Dropped(events', i)
    BY <1>1, <2>2, <2>4, <2>5, <2>6, <2>7, <2>8, <2>9 DEF Dropped, Stamped, Present
  <2>11. \A p \in Writer : Beyond(writer'[p], i)
    BY <1>1 DEF Beyond
  <2> QED BY <2>1, <2>10, <2>11 DEF ChangedInv
<1>4. ASSUME NEW i \in Seqs, NEW s \in Subject \cup {NoSubject}, EditRow(i, s)
      PROVE  ChangedInv'
  <2>1. outside'.kind = "edit" /\ outside'.at = i
    BY <1>4 DEF EditRow
  <2>2. events[i] \in Event /\ ~ events[i].redacted /\ events[i].subject # s /\ i \in Present(events)
    BY <1>4 DEF EditRow, TypeInv, TypeOK, Present
  <2>3. PICK e : e = [events[i] EXCEPT !.subject = s]
    OBVIOUS
  <2>4. e.hash = events[i].hash /\ e.subject = s
    BY <2>2, <2>3 DEF Event
  <2>5. events'[i] = e
    BY <1>4, <2>3 DEF EditRow, TypeInv, TypeOK
  <2>6. e # NoEvent
    <3>1. e \in Event
      BY <2>2, <2>3 DEF Event
    <3> QED BY <3>1, AuditAssumption
  <2>7. Stamp(e.hash).subject # e.subject
    BY <1>1, <2>2, <2>4 DEF Stamped
  <2>8. Edited(events', i)
    BY <2>5, <2>6, <2>7 DEF Edited
  <2> QED BY <2>1, <2>8 DEF ChangedInv
<1> QED BY <1>2, <1>3, <1>4 DEF Outside

LEMMA NextChangedInv ==
  TypeInv /\ ChangedInv /\ (Untouched => LogInv) /\ [Next]_vars => ChangedInv'
<1> SUFFICES ASSUME TypeInv, ChangedInv, Untouched => LogInv, [Next]_vars PROVE ChangedInv'
  OBVIOUS
<1>1. CASE UNCHANGED vars
  BY <1>1 DEF vars, ChangedInv
<1> QED BY <1>1, OutsideChangedInv, OwnChangedInv DEF Next

\* The stamp of an event that was hashed as it reads.
LEMMA StampOfContent ==
  ASSUME NEW e \in Event, e.hash = HashEvent(e)
  PROVE  Stamp(e.hash).subject = e.subject
<1>1. PICK c : c = Content(e)
  OBVIOUS
<1>2. c \in Commitment /\ c.subject = e.subject
  BY <1>1 DEF Content, Commitment, Event
<1>3. PICK h : h = e.prevHash
  OBVIOUS
<1>4. h \in Seq(Commitment) /\ e.hash = Append(h, c)
  BY <1>1, <1>3 DEF HashEvent, Event, Hash
<1>5. e.hash[Len(e.hash)] = c
  BY <1>2, <1>4
<1> QED BY <1>2, <1>5 DEF Stamp

LEMMA DroppedIsReported ==
  ASSUME TypeInv, NEW at, Dropped(events, at)
  PROVE  ~ VerifyChain
<1>1. at + 1 \in Present(events) /\ at \in Int
  BY DEF Dropped, Present, Seqs
<1>2. events[at + 1].prevHash # IF Before(events, at + 1) = {} THEN Genesis
                               ELSE events[Last(Before(events, at + 1))].hash
  <2>1. CASE Before(events, at + 1) = {}
    BY <2>1 DEF Dropped, Genesis, Seqs
  <2>2. CASE Before(events, at + 1) # {}
    <3>1. PICK j : j = Last(Before(events, at + 1))
      OBVIOUS
    <3>2. j \in Present(events) /\ j < at + 1
      <4>1. Before(events, at + 1) \in SUBSET Seqs
        BY DEF Before, Present
      <4>2. j \in Before(events, at + 1)
        BY <2>2, <3>1, <4>1, LastIsLast
      <4> QED BY <4>2 DEF Before
    <3>3. j # at /\ j \in Int
      BY <3>2 DEF Dropped, Present, Seqs
    <3>4. j < at
      BY <1>1, <3>2, <3>3
    <3>5. Len(events[j].hash) = j + 1
      BY <3>2, <3>4 DEF Dropped
    <3>6. Len(events[at + 1].prevHash) = at + 1
      BY DEF Dropped
    <3>7. events[at + 1].prevHash # events[j].hash
      BY <1>1, <3>3, <3>5, <3>6
    <3> QED BY <2>2, <3>1, <3>7
  <2> QED BY <2>1, <2>2
<1> QED BY <1>1, <1>2 DEF VerifyChain, ChainIntact, Linked

LEMMA CutIsReported ==
  ASSUME TypeInv, NEW at, at \in Seqs \cup {NoSeq}, Cut(events, checkpoints, at)
  PROVE  ~ VerifyChain
<1>1. PICK k \in Seqs : checkpoints[k] # NoCheckpoint /\ at <= k
  BY DEF Cut
<1>2. PICK last : last = Last(Anchors)
  OBVIOUS
<1>3. last \in Anchors /\ k <= last
  <2>1. k \in Anchors /\ Anchors \in SUBSET Seqs
    BY <1>1 DEF Anchors
  <2> QED BY <1>2, <2>1, LastIsLast
<1>4. last \in Seqs /\ checkpoints[last] # NoCheckpoint /\ at <= last
  BY <1>1, <1>3 DEF Anchors, Seqs, NoSeq
<1>5. events[last] # NoEvent => events[last].hash # checkpoints[last].hash
  BY <1>4 DEF Cut
<1> QED BY <1>2, <1>3, <1>5 DEF VerifyChain, AnchorHolds

\* For any number of handlers, residents and events, and whatever they record,
\* redact and checkpoint after the change: a row deleted from the middle is
\* reported for good, an edited one until it is redacted, and rows lost from
\* the end that a checkpoint committed to until another checkpoint is written
\* (verifyChain, AuditCheckpoint).
THEOREM TamperingShows == Spec => []OutsideChangeReported
<1>1. ASSUME TypeInv, ChangedInv PROVE OutsideChangeReported
  <2>1. ASSUME outside.kind = "drop" PROVE ~ VerifyChain
    BY <1>1, <2>1, DroppedIsReported DEF ChangedInv
  <2>2. ASSUME outside.kind = "edit", events[outside.at] # NoEvent, ~ events[outside.at].redacted
        PROVE  ~ VerifyChain
    <3>1. PICK i : i = outside.at
      OBVIOUS
    <3>2. i \in Seqs /\ events[i] \in Event /\ i \in Present(events)
      BY <1>1, <2>2, <3>1 DEF ChangedInv, Edited, TypeInv, TypeOK, Present
    <3>3. Stamp(events[i].hash).subject # events[i].subject
      BY <1>1, <2>2, <3>1 DEF ChangedInv, Edited
    <3>4. events[i].hash # HashEvent(events[i])
      BY <3>2, <3>3, StampOfContent
    <3> QED BY <2>2, <3>1, <3>2, <3>4 DEF VerifyChain, ChainIntact
  <2>3. ASSUME outside.kind = "cut", outside.anchored PROVE ~ VerifyChain
    <3>1. Cut(events, checkpoints, outside.at) /\ outside.at \in Seqs \cup {NoSeq}
      BY <1>1, <2>3 DEF ChangedInv, TypeInv, TypeOK
    <3> QED BY <1>1, <3>1, CutIsReported
  <2> QED BY <2>1, <2>2, <2>3 DEF OutsideChangeReported
<1>2. UntouchedInv => TypeInv /\ (Untouched => LogInv)
  BY DEF UntouchedInv
<1>3. Init => UntouchedInv
  BY InitTypeInv, InitLogInv DEF UntouchedInv
<1> QED BY <1>3, NextUntouchedInv, InitChangedInv, NextChangedInv, <1>1, <1>2, PTL DEF Spec
=============================================================================
