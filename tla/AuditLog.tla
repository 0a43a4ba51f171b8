------------------------------- MODULE AuditLog -------------------------------
(***************************************************************************)
(* The audit log (core/audit/audit-log.ts): a table of events, each chained *)
(* to the one before it by a hash, the signed checkpoints that bind its     *)
(* end, and the redactions an erasure makes in it.                          *)
(*                                                                          *)
(* Every request handler records, and each store call is a step: record     *)
(* reads the tail and then appends; redact replaces an event and then       *)
(* records that it did; checkpoint reads the tail and then counts.  `seq`   *)
(* is the table's primary key, so one of two appends at one seq throws.     *)
(* Beside the log, rows may be changed by something that is not the log: a  *)
(* table restored from an older backup, a row deleted, a row edited.        *)
(***************************************************************************)
EXTENDS Integers, FiniteSets, Sequences

CONSTANTS
  Writer,          \* concurrently running handlers
  Subject,         \* the residents events can name
  Metadata,        \* what an operation's event carries: "kept" or "given" keys
  NoSubject,       \* an event that names nobody
  Redacted,        \* the value substituted for a redacted field
  NoEvent,         \* no row at this seq
  NoCheckpoint,    \* no checkpoint at this seq
  MaxEvents,       \* bound: how far the log grows
  OutsideBound     \* bound: at most one outside change, or none

Seqs == 0 .. MaxEvents - 1

\* No event: what tail returns on an empty table.
NoSeq == -1

\* What a hash commits to, and an event (AuditEvent).
Commitment ==
  [id : {"first", "second"}, seq : Seqs, subject : Subject \cup {NoSubject, Redacted},
   about : Seqs \cup {NoSeq}, meta : {"kept", "given", "sorted"}]

Hash == Seq(Commitment)

Event ==
  [id : {"first", "second"}, seq : Seqs, subject : Subject \cup {NoSubject, Redacted},
   about : Seqs \cup {NoSeq}, meta : {"kept", "given", "sorted"},
   redacted : BOOLEAN, prevHash : Hash, hash : Hash]

Checkpoint == [hash : Hash, count : Nat]

ASSUME AuditAssumption ==
  /\ MaxEvents \in Nat \ {0}
  /\ OutsideBound \in 0 .. 1
  /\ Metadata \subseteq {"kept", "given"}
  /\ {NoSubject, Redacted} \cap Subject = {}
  /\ NoSubject # Redacted
  /\ NoEvent \notin Event
  /\ NoCheckpoint \notin Checkpoint

VARIABLES
  events,       \* the event table, by seq
  checkpoints,  \* the checkpoint table, by seq
  writer,       \* what each running handler holds
  outside       \* history: the change made outside the log, if any

vars == <<events, checkpoints, writer, outside>>

----------------------------------------------------------------------------
(* The chain.  A hash is what it commits to: the event's own content after  *)
(* the hash of the event before.                                            *)

Genesis == <<>>

Content(e) ==
  [id |-> e.id, seq |-> e.seq, subject |-> e.subject, about |-> e.about, meta |-> e.meta]

\* hashEvent: the fields that are chained, the metadata as its keys come.
HashEvent(e) == Append(e.prevHash, Content(e))

\* The metadata column is JSONB, which gives an object's keys back by length
\* and then by bytes: some metadata ("kept", or no metadata at all) comes back
\* as it was hashed, some ("given") comes back in another order ("sorted").
AsStored(meta) == IF meta = "given" THEN "sorted" ELSE meta

Present(log) == {i \in Seqs : log[i] # NoEvent}

Last(S) == CHOOSE i \in S : \A j \in S : j <= i

NoTail == [seq |-> NoSeq, hash |-> Genesis]

\* store.tail.
TailOf(log) == IF Present(log) = {} THEN NoTail
              ELSE LET i == Last(Present(log)) IN [seq |-> i, hash |-> log[i].hash]

\* The event before i in all().
Before(log, i) == {j \in Present(log) : j < i}

Linked(log, i) ==
  log[i].prevHash = IF Before(log, i) = {} THEN Genesis
                    ELSE log[Last(Before(log, i))].hash

\* The links of verifyChain: a redacted event's own hash cannot be recomputed.
ChainIntact(log) ==
  \A i \in Present(log) :
    /\ Linked(log, i)
    /\ log[i].redacted \/ log[i].hash = HashEvent(log[i])

Anchors == {i \in Seqs : checkpoints[i] # NoCheckpoint}

\* A slip: the length alone is compared.
OnlyTheLengthHolds ==
  Anchors # {} => Cardinality(Present(events)) >= checkpoints[Last(Anchors)].count

\* The latest checkpoint, checked against the chain.
AnchorHolds ==
  Anchors # {} =>
    LET latest == Last(Anchors)
        cp == checkpoints[latest]
    IN /\ events[latest] # NoEvent
       /\ events[latest].hash = cp.hash
       /\ Cardinality(Present(events)) >= cp.count

\* verifyChain with the deployment's own keys, which every checkpoint here
\* was signed with.
VerifyChain == ChainIntact(events) /\ AnchorHolds

----------------------------------------------------------------------------
(* The handlers.                                                            *)

Idle == [step |-> "idle", op |-> "none", subject |-> NoSubject, meta |-> "kept",
         about |-> NoSeq, tail |-> NoTail, found |-> NoSeq,
         listed |-> {}, todo |-> {}, count |-> 0]

Goes(p, next) == writer' = [writer EXCEPT ![p] = next]

Finishes(p) == Goes(p, Idle)

\* An exception, or the process stopping, at any await.
Fail(p) ==
  /\ writer[p].step # "idle"
  /\ Finishes(p)
  /\ UNCHANGED <<events, checkpoints, outside>>

\* An operation that records one event about a resident, once it is done.
RequestRecord(p, s, meta) ==
  /\ writer[p].step = "idle"
  /\ Goes(p, [Idle EXCEPT !.step = "tail", !.op = "record", !.subject = s, !.meta = meta])
  /\ UNCHANGED <<events, checkpoints, outside>>

\* The erase route: record the erasure, then redactSubject.
RequestErasure(p, s) ==
  /\ writer[p].step = "idle"
  /\ Goes(p, [Idle EXCEPT !.step = "tail", !.op = "erase", !.subject = s, !.meta = "given"])
  /\ UNCHANGED <<events, checkpoints, outside>>

\* The checkpoint job's interval.
RequestCheckpoint(p) ==
  /\ writer[p].step = "idle"
  /\ Goes(p, [Idle EXCEPT !.step = "head", !.op = "checkpoint"])
  /\ UNCHANGED <<events, checkpoints, outside>>

\* record, first half: the tail the new event is chained to.
ReadTail(p) ==
  /\ writer[p].step = "tail"
  /\ TailOf(events).seq + 1 < MaxEvents
  /\ Goes(p, [writer[p] EXCEPT !.step = "append", !.tail = TailOf(events)])
  /\ UNCHANGED <<events, checkpoints, outside>>

\* A random id: no two events written at one seq have the same, because one
\* of them was lost to an outside change before the other was written.
FreshId == IF outside.kind = "none" THEN "first" ELSE "second"

\* The event a handler appends: about the resident, or about a redaction.
NewEvent(w) ==
  LET base == [id |-> FreshId, seq |-> w.tail.seq + 1, about |-> w.about,
               subject |-> IF w.about = NoSeq THEN w.subject ELSE NoSubject,
               meta |-> IF w.about = NoSeq THEN w.meta ELSE "kept",
               redacted |-> FALSE, prevHash |-> w.tail.hash, hash |-> Genesis]
  IN [base EXCEPT !.hash = HashEvent(base), !.meta = AsStored(@)]

\* A slip: an append that does not mind what is there.
NeverTaken(i) == FALSE

Taken(i) == events[i] # NoEvent

\* What an erasure goes on with: the first event is the erasure's own.
Appended(w) ==
  IF w.about = NoSeq
    THEN [w EXCEPT !.step = "select", !.tail = NoTail]
    ELSE [w EXCEPT !.step = "find", !.tail = NoTail, !.about = NoSeq,
                   !.todo = @ \ {w.about}]

\* record, second half.  A seq somebody else took meanwhile throws.
AppendEvent(p) ==
  LET w == writer[p]
      seq == w.tail.seq + 1
  IN
  /\ w.step = "append"
  /\ IF Taken(seq)
       THEN /\ Finishes(p)
            /\ UNCHANGED events
       ELSE /\ events' = [events EXCEPT ![seq] = NewEvent(w)]
            /\ IF w.op = "record" THEN Finishes(p) ELSE Goes(p, Appended(w))
  /\ UNCHANGED <<checkpoints, outside>>

\* redactSubject: the events to redact, read once.
SelectEvents(p) ==
  LET w == writer[p]
      named == {i \in Present(events) : ~events[i].redacted /\ events[i].subject = w.subject}
  IN
  /\ w.step = "select"
  /\ Goes(p, [w EXCEPT !.step = "find", !.listed = named, !.todo = named])
  /\ UNCHANGED <<events, checkpoints, outside>>

\* A slip: the loop left at the first event that needs nothing.
StopsThere(todo, i) == {}

Skips(todo, i) == todo \ {i}

\* redact: an event that is gone or already redacted needs nothing.
FindEvent(p) ==
  LET w == writer[p] IN
  /\ w.step = "find"
  /\ \/ /\ w.todo = {}
        /\ Finishes(p)
     \/ \E i \in w.todo :
          /\ \A j \in w.todo : i <= j
          /\ IF events[i] = NoEvent \/ events[i].redacted
               THEN Goes(p, [w EXCEPT !.todo = Skips(w.todo, i)])
               ELSE Goes(p, [w EXCEPT !.step = "replace", !.found = i])
  /\ UNCHANGED <<events, checkpoints, outside>>

\* A slip: the replaced row hashed anew.
Rehashed(e) ==
  LET r == [e EXCEPT !.subject = Redacted, !.meta = "kept", !.redacted = TRUE] IN
  [r EXCEPT !.hash = HashEvent(r)]

\* The personal fields and the metadata go, the hash and the link stay.
RedactedEvent(e) == [e EXCEPT !.subject = Redacted, !.meta = "kept", !.redacted = TRUE]

\* store.replace, and on to recording the redaction.
ReplaceEvent(p) ==
  LET w == writer[p] IN
  /\ w.step = "replace"
  /\ IF events[w.found] = NoEvent
       THEN /\ Finishes(p)
            /\ UNCHANGED events
       ELSE /\ events' = [events EXCEPT ![w.found] = RedactedEvent(@)]
            /\ Goes(p, [w EXCEPT !.step = "tail", !.about = w.found, !.found = NoSeq])
  /\ UNCHANGED <<checkpoints, outside>>

\* checkpoint: nothing to commit to on an empty log.
ReadHead(p) ==
  /\ writer[p].step = "head"
  /\ IF Present(events) = {}
       THEN Finishes(p)
       ELSE Goes(p, [writer[p] EXCEPT !.step = "count", !.tail = TailOf(events)])
  /\ UNCHANGED <<events, checkpoints, outside>>

\* A slip: the length the chain is about to have.
CountedAhead(log) == Cardinality(Present(log)) + 1

Counted(log) == Cardinality(Present(log))

CountEvents(p) ==
  /\ writer[p].step = "count"
  /\ Goes(p, [writer[p] EXCEPT !.step = "put", !.count = Counted(events)])
  /\ UNCHANGED <<events, checkpoints, outside>>

\* One row per seq: a checkpoint of the same seq is written over.
PutCheckpoint(p) ==
  LET w == writer[p] IN
  /\ w.step = "put"
  /\ checkpoints' = [checkpoints EXCEPT ![w.tail.seq] = [hash |-> w.tail.hash, count |-> w.count]]
  /\ outside' = [outside EXCEPT !.anchored = FALSE]
  /\ Finishes(p)
  /\ UNCHANGED events

----------------------------------------------------------------------------
(* Changes to the table that the log did not make.                          *)

Quiet == \A p \in Writer : writer[p] = Idle

\* A bound: while no handler is under way.
MayChange == OutsideBound = 1 /\ outside.kind = "none" /\ Quiet

\* The rows from i on are gone: the table as an older backup had it.
CutTail(i) ==
  /\ MayChange
  /\ i \in Present(events)
  /\ events' = [j \in Seqs |-> IF j < i THEN events[j] ELSE NoEvent]
  /\ outside' = [kind |-> "cut", at |-> i,
                 anchored |-> \E j \in Anchors : i <= j]
  /\ UNCHANGED <<checkpoints, writer>>

\* A row with others after it is deleted.
DropRow(i) ==
  /\ MayChange
  /\ i \in Present(events)
  /\ \E j \in Present(events) : i < j
  /\ events' = [events EXCEPT ![i] = NoEvent]
  /\ outside' = [kind |-> "drop", at |-> i, anchored |-> FALSE]
  /\ UNCHANGED <<checkpoints, writer>>

\* A row is edited to name somebody else.
EditRow(i, s) ==
  /\ MayChange
  /\ i \in Present(events)
  /\ ~events[i].redacted
  /\ events[i].subject # s
  /\ events' = [events EXCEPT ![i].subject = s]
  /\ outside' = [kind |-> "edit", at |-> i, anchored |-> FALSE]
  /\ UNCHANGED <<checkpoints, writer>>

----------------------------------------------------------------------------
Init ==
  /\ events = [i \in Seqs |-> NoEvent]
  /\ checkpoints = [i \in Seqs |-> NoCheckpoint]
  /\ writer = [p \in Writer |-> Idle]
  /\ outside = [kind |-> "none", at |-> NoSeq, anchored |-> FALSE]

Step(p) ==
  \/ ReadTail(p) \/ AppendEvent(p) \/ SelectEvents(p) \/ FindEvent(p)
  \/ ReplaceEvent(p) \/ ReadHead(p) \/ CountEvents(p) \/ PutCheckpoint(p)

\* A bound: handlers overlap until the outside change, and not after it.
Request(p) ==
  /\ outside.kind = "none" \/ Quiet
  /\ \/ \E s \in Subject :
          \/ \E meta \in Metadata : RequestRecord(p, s, meta)
          \/ RequestErasure(p, s)
     \/ RequestCheckpoint(p)

Outside ==
  \E i \in Seqs :
    \/ CutTail(i)
    \/ DropRow(i)
    \/ \E s \in Subject \cup {NoSubject} : EditRow(i, s)

Next == Outside \/ \E p \in Writer : Request(p) \/ Step(p) \/ Fail(p)

Spec == Init /\ [][Next]_vars

----------------------------------------------------------------------------
(* What the log promises.                                                   *)

WriterStep ==
  {"idle", "tail", "append", "select", "find", "replace", "head", "count", "put"}

WriterState ==
  [step : WriterStep, op : {"none", "record", "erase", "checkpoint"},
   subject : Subject \cup {NoSubject}, meta : {"kept", "given"},
   about : Seqs \cup {NoSeq}, tail : [seq : Seqs \cup {NoSeq}, hash : Hash],
   found : Seqs \cup {NoSeq}, listed : SUBSET Seqs, todo : SUBSET Seqs,
   count : 0 .. MaxEvents]

\* Every variable keeps its type; a checkpoint never counts more events than
\* the log can hold.
TypeOK ==
  /\ events \in [Seqs -> Event \cup {NoEvent}]
  /\ checkpoints \in [Seqs -> Checkpoint \cup {NoCheckpoint}]
  /\ writer \in [Writer -> WriterState]
  /\ outside \in [kind : {"none", "cut", "drop", "edit"}, at : Seqs \cup {NoSeq},
                  anchored : BOOLEAN]

Untouched == outside.kind = "none"

ReadsBack(i) == events[i].redacted \/ events[i].meta = "kept"

\* However many handlers record, redact and checkpoint at once, and wherever
\* they stop, a log nobody else touched verifies, as long as every event on it
\* reads back as it was hashed: no false alarm (record, redact, checkpoint,
\* verifyChain).
UntouchedVerifies ==
  Untouched /\ (\A i \in Present(events) : ReadsBack(i)) => VerifyChain

\* A row deleted from the middle or edited is reported ever after, and so are
\* rows lost from the end that the latest checkpoint committed to, until
\* another checkpoint is written (verifyChain, AuditCheckpoint).
OutsideChangeReported ==
  /\ outside.kind = "drop" => ~VerifyChain
  /\ outside.kind = "edit" /\ events[outside.at] # NoEvent /\ ~events[outside.at].redacted
       => ~VerifyChain
  /\ outside.kind = "cut" /\ outside.anchored => ~VerifyChain

\* An erasure works through everything it listed: each event it is done with
\* no longer names anybody, whoever redacted it (redactSubject).  Of a log
\* nobody else touched: a row written where another was lost is not the one
\* listed.
WorkedThrough ==
  Untouched => \A p \in Writer :
    writer[p].op = "erase" =>
      \A i \in writer[p].listed \ writer[p].todo :
        events[i] # NoEvent => events[i].subject = Redacted

=============================================================================
