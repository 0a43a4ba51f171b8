----------------------------- MODULE IdentityLinks -----------------------------
(***************************************************************************)
(* Which person an identifier belongs to (core/identity/identity-link.ts),  *)
(* and what the register does about it (the identity-link operations of     *)
(* core/residency/residency-service.ts).                                    *)
(*                                                                          *)
(* A link is never deleted: it is disputed, closed, or superseded by a      *)
(* link on another person.  An operation on links is several writes, none   *)
(* of them in a transaction, and nothing in the database says that an       *)
(* identifier has one current link.                                         *)
(***************************************************************************)
EXTENDS Integers, FiniteSets, Lifecycle

CONSTANTS
  Handler,      \* requests in progress
  Person,       \* rows of the register
  Identifier,   \* tokenized identifiers
  Merge,        \* merge ids
  Subject,      \* the identifier each row was enrolled under
  Established,  \* the links written by the enrolments that had the registry
  MaxLinks,     \* bound: links ever opened
  FaultBound,   \* bound: requests that cross another, and handlers that stop
  NoPerson, NoMerge, NoRow, Detached

Link == 1..MaxLinks

NoLink == 0

ASSUME IdentityLinksAssumption ==
  /\ MaxLinks \in Nat
  /\ FaultBound \in Nat
  /\ Subject \in [Person -> Identifier]
  /\ Len(Established) <= MaxLinks
  /\ NoPerson \notin Person
  /\ NoMerge \notin Merge
  /\ Detached \notin Identifier

LinkStatus == {"ACTIVE", "DISPUTED", "UNLINKED"}

LinkRow ==
  [person       : Person,
   identifier   : Identifier,
   status       : LinkStatus,
   foundational : BOOLEAN,
   supersedes   : Link \cup {NoLink},
   supersededBy : Link \cup {NoLink}]

RegisterRow ==
  [subject      : Identifier \cup {Detached},
   relationship : {"ACTIVE", "SUSPENDED", "ENDED"},
   credential   : {"live", "replaced"}]

MergeRow ==
  [survivor  : Person,
   duplicate : Person,
   moved     : SUBSET (Link \X Link),
   split     : BOOLEAN]

\* What stands for an absent row is not one.
ASSUME NoRowAssumption == NoRow \notin LinkRow \cup RegisterRow \cup MergeRow

VARIABLES
  links,     \* the link table
  opened,    \* links whose opening is in the event table
  merges,    \* the merge table
  register,  \* of each row: its subjectRef, relationship and credential
  issued,    \* link ids drawn so far
  handler,   \* what each handler holds
  crossed,   \* history: persons and identifiers two handlers worked on at once,
             \* or one that stopped did
  disowned,  \* history: the foundational identifiers unlinked from a person
  faults     \* history: requests that crossed another, and handlers stopped

tables == <<links, opened, merges, register>>

vars == <<tables, issued, handler, crossed, disowned, faults>>

HandlerState ==
  [op     : {"idle", "link", "backfill", "dispute", "resolve", "unlink",
             "relink", "merge", "split"},
   step   : {"idle", "save", "detach", "find", "close", "open", "record",
             "restore", "conclude", "end", "replace"},
   keys   : SUBSET (Person \cup Identifier),  \* what the request is about
   link   : Link \cup {NoLink},               \* the link in hand
   copy   : LinkRow \cup {NoRow},             \* ... as it was read
   rest   : SUBSET (Link \X LinkRow),         \* links still to move, as read
   to     : Link \cup {NoLink},               \* the id of the link to open
   target : Person \cup {NoPerson},           \* ... and its person
   record : RegisterRow \cup {NoRow},         \* the register row, as read
   merge  : Merge \cup {NoMerge},
   moved  : SUBSET (Link \X Link)]

Idle ==
  [op |-> "idle", step |-> "idle", keys |-> {}, link |-> NoLink, copy |-> NoRow,
   rest |-> {}, to |-> NoLink, target |-> NoPerson, record |-> NoRow,
   merge |-> NoMerge, moved |-> {}]

Init ==
  /\ links = [l \in Link |-> IF l <= Len(Established) THEN Established[l] ELSE NoRow]
  /\ opened = 1..Len(Established)
  /\ merges = [m \in Merge |-> NoRow]
  /\ register = [p \in Person |-> [subject |-> Subject[p], relationship |-> "ACTIVE",
                                   credential |-> "live"]]
  /\ issued = Len(Established)
  /\ handler = [q \in Handler |-> Idle]
  /\ crossed = {}
  /\ disowned = {}
  /\ faults = 0

----------------------------------------------------------------------------
(* What the registry answers.                                               *)

Written == {l \in Link : links[l] # NoRow}

InForce(l) == links[l] # NoRow /\ links[l].status # "UNLINKED"

\* findCurrentByIdentifier answers any one of these.
Current(i) == {l \in Written : InForce(l) /\ links[l].identifier = i}

CurrentOf(p) == {l \in Written : InForce(l) /\ links[l].person = p}

Restricted(p) == \E l \in CurrentOf(p) : links[l].status = "DISPUTED"

\* findPersonFor: through the registry, and failing that by the subjectRef of a
\* row.
Finds(i) ==
  IF Current(i) # {} THEN {links[l].person : l \in Current(i)}
                     ELSE {p \in Person : register[p].subject = i}

\* ensureFoundationalLink has nothing to do: the row disowned its identifier, or
\* the identifier is somebody's.
Backed(p) == register[p].subject = Detached \/ Current(register[p].subject) # {}

----------------------------------------------------------------------------
(* One request: it starts by reading, and each later step is one write.     *)

Busy(key) == {r \in Handler : key \in handler[r].keys}

\* Handler q takes a request about these keys.  Whatever another handler has in
\* hand of them is crossed, for both.  (Bounds: nothing is claimed of what was
\* crossed, and a request about nothing else is not taken; one that shares no key
\* with what is in hand reads and writes nothing of it, and waits.)
Start(q, request) ==
  LET rivals == UNION {Busy(key) : key \in request.keys} IN
  /\ ~(request.keys \subseteq crossed)
  /\ handler' = [handler EXCEPT ![q] = request]
  /\ \/ /\ \A r \in Handler : handler[r].step = "idle"
        /\ UNCHANGED <<crossed, faults>>
     \/ /\ rivals # {}
        /\ faults < FaultBound
        /\ faults' = faults + 1
        /\ crossed' = crossed \cup request.keys \cup UNION {handler[r].keys : r \in rivals}

Goes(q, h) == handler' = [handler EXCEPT ![q] = h]

Fresh(n) == issued + n <= MaxLinks

Draw == Fresh(1) /\ issued' = issued + 1

Opening(p, i, foundational) ==
  [person |-> p, identifier |-> i, status |-> "ACTIVE", foundational |-> foundational,
   supersedes |-> NoLink, supersededBy |-> NoLink]

\* An enrolment links the identifier it was made under, if nobody has it.
ASSUME EstablishedAssumption ==
  /\ Established \in Seq({Opening(p, Subject[p], TRUE) : p \in Person})
  /\ \A j, k \in DOMAIN Established :
       Established[j].identifier = Established[k].identifier => j = k

\* link: refused when somebody else has the identifier, nothing to do when the
\* person has it.
RequestLink(q, p, i) ==
  /\ Backed(p)
  /\ Current(i) = {}
  /\ Start(q, [Idle EXCEPT !.op = "link", !.step = "open", !.keys = {p, i}, !.to = issued + 1,
                           !.target = p, !.copy = Opening(p, i, FALSE)])
  /\ Draw
  /\ UNCHANGED <<tables, disowned>>

\* ensureFoundationalLink, which every request below begins with; the one that
\* does nothing else is the reading of a person's links.
Backfill(q, p) ==
  LET i == register[p].subject IN
  /\ ~Backed(p)
  /\ Start(q, [Idle EXCEPT !.op = "backfill", !.step = "open", !.keys = {p, i},
                           !.to = issued + 1, !.target = p, !.copy = Opening(p, i, TRUE)])
  /\ Draw
  /\ UNCHANGED <<tables, disowned>>

KeysOf(l) == {links[l].person, links[l].identifier}

RequestDispute(q, l) ==
  /\ l \in Written /\ links[l].status = "ACTIVE"
  /\ Start(q, [Idle EXCEPT !.op = "dispute", !.step = "save", !.keys = KeysOf(l), !.link = l,
                           !.copy = [links[l] EXCEPT !.status = "DISPUTED"]])
  /\ UNCHANGED <<tables, issued, disowned>>

RequestResolveDispute(q, l) ==
  /\ l \in Written /\ links[l].status = "DISPUTED"
  /\ Start(q, [Idle EXCEPT !.op = "resolve", !.step = "save", !.keys = KeysOf(l), !.link = l,
                           !.copy = [links[l] EXCEPT !.status = "ACTIVE"]])
  /\ UNCHANGED <<tables, issued, disowned>>

\* A slip: the row keeps matching the identifier it disowned.
NothingToDetach(l, row) == FALSE

\* The identifier being unlinked is the one the row is found by.
Detaches(l, row) ==
  links[l].foundational /\ links[l].identifier = row.subject /\ InForce(l)

RequestUnlink(q, l) ==
  LET p == links[l].person
      row == register[p] IN
  /\ l \in Written /\ InForce(l) /\ Backed(p)
  /\ LET request == [Idle EXCEPT !.op = "unlink", !.keys = KeysOf(l), !.link = l] IN
       Start(q, IF Detaches(l, row)
                THEN [request EXCEPT !.step = "detach", !.target = p, !.record = row]
                ELSE [request EXCEPT !.step = "close", !.copy = links[l]])
  /\ UNCHANGED <<tables, issued, disowned>>

\* A slip: only the link itself is looked at, not where the identifier went.
StillThere(l) == TRUE

\* The identifier has not moved on since this link was closed.
NotMovedOn(l) == Current(links[l].identifier) \subseteq {l}

RequestRelink(q, l, p) ==
  /\ l \in Written /\ links[l].person # p /\ Backed(p)
  /\ NotMovedOn(l)
  /\ Start(q, [Idle EXCEPT !.op = "relink", !.step = "close", !.keys = KeysOf(l) \cup {p},
                           !.link = l, !.copy = links[l], !.to = issued + 1, !.target = p,
                           !.record = IF register[p].subject = Detached THEN register[p]
                                      ELSE NoRow])
  /\ Draw
  /\ UNCHANGED <<tables, disowned>>

Oldest(pairs) == CHOOSE pair \in pairs : \A other \in pairs : pair[1] <= other[1]

\* A slip: the successor of a moved link is given no id.
MovingUnnamed(request, pairs) ==
  LET first == Oldest(pairs) IN
  [request EXCEPT !.step = "close", !.link = first[1], !.copy = first[2],
                  !.to = NoLink, !.rest = pairs \ {first}]

\* The links a request moves one after the other, in the order they are listed.
Moving(request, pairs) ==
  LET first == Oldest(pairs) IN
  [request EXCEPT !.step = "close", !.link = first[1], !.copy = first[2],
                  !.to = issued + 1, !.rest = pairs \ {first}]

KeysOfAll(ids) == UNION {KeysOf(l) : l \in ids}

\* A slip: a link in dispute is moved with the others.
NoObjection(d) == TRUE

Undisputed(d) == ~Restricted(d)

RequestMerge(q, m, s, d) ==
  LET pairs == {<<l, links[l]>> : l \in CurrentOf(d)} IN
  /\ Backed(s) /\ Backed(d)
  /\ merges[m] = NoRow /\ \A r \in Handler : handler[r].merge # m
  /\ pairs # {}
  /\ Undisputed(d)
  /\ Fresh(Cardinality(pairs))
  /\ Start(q, Moving([Idle EXCEPT !.op = "merge", !.merge = m, !.target = s,
                                  !.keys = {s, d} \cup KeysOfAll(CurrentOf(d)),
                                  !.record = register[d]], pairs))
  /\ Draw
  /\ UNCHANGED <<tables, disowned>>

\* A slip: a split that does not look where the links are now.
AllAreThere(moved) == TRUE

NoneMovedSince(moved) == \A pair \in moved : InForce(pair[2])

RequestSplit(q, m) ==
  LET row == merges[m]
      ids == {pair[2] : pair \in row.moved}
      pairs == {<<l, links[l]>> : l \in ids} IN
  /\ row # NoRow /\ ~row.split
  /\ NoneMovedSince(row.moved)
  /\ Fresh(Cardinality(pairs))
  /\ Start(q, Moving([Idle EXCEPT !.op = "split", !.merge = m, !.target = row.duplicate,
                                  !.keys = {row.survivor, row.duplicate} \cup KeysOfAll(ids)],
                     pairs))
  /\ Draw
  /\ UNCHANGED <<tables, disowned>>

----------------------------------------------------------------------------
(* The writes.                                                              *)

\* The last write of a dispute or of its resolution.
SaveDispute(q) ==
  LET h == handler[q] IN
  /\ h.step = "save"
  /\ links' = [links EXCEPT ![h.link] = h.copy]
  /\ Goes(q, Idle)
  /\ UNCHANGED <<opened, merges, register, issued, crossed, disowned, faults>>

\* unlinkIdentity saves the row it read, detached and suspended, before the
\* link is touched.
Detach(q) ==
  LET h == handler[q] IN
  /\ h.step = "detach"
  /\ register' = [register EXCEPT ![h.target] =
                    [h.record EXCEPT !.subject = Detached,
                                     !.relationship = IF @ = "ACTIVE" THEN "SUSPENDED" ELSE @]]
  /\ Goes(q, [h EXCEPT !.step = "find", !.record = NoRow, !.target = NoPerson])
  /\ UNCHANGED <<links, opened, merges, issued, crossed, disowned, faults>>

\* unlink reads the link again, and refuses one that is already closed.  With
\* no row to save in between, its read is the request's.
FindToUnlink(q) ==
  LET h == handler[q] IN
  /\ h.step = "find"
  /\ Goes(q, IF InForce(h.link) THEN [h EXCEPT !.step = "close", !.copy = links[h.link]]
             ELSE Idle)
  /\ UNCHANGED <<tables, issued, crossed, disowned, faults>>

Closed(row, to) ==
  [row EXCEPT !.status = "UNLINKED", !.supersededBy = IF to = NoLink THEN @ ELSE to]

\* close, and the same write for the closed link a relink starts from.  An
\* unlinking ends with it.
Close(q) ==
  LET h == handler[q]
      ends == h.op = "unlink" IN
  /\ h.step = "close"
  /\ links' = [links EXCEPT ![h.link] = Closed(h.copy, h.to)]
  /\ Goes(q, IF ends THEN Idle ELSE [h EXCEPT !.step = "open"])
  /\ disowned' = IF ends /\ h.copy.foundational
                 THEN disowned \cup {<<h.copy.person, h.copy.identifier>>} ELSE disowned
  /\ UNCHANGED <<opened, merges, register, issued, crossed, faults>>

\* The new link, which points back at the one it supersedes.
Successor(h) ==
  [Opening(h.target, h.copy.identifier, h.copy.foundational) EXCEPT !.supersedes = h.link]

OpenLink(q) ==
  LET h == handler[q]
      row == Successor(h) IN
  /\ h.step = "open"
  /\ links' = [links EXCEPT ![h.to] = row]
  /\ disowned' = disowned \ {<<row.person, row.identifier>>}
  /\ Goes(q, [h EXCEPT !.step = "record"])
  /\ UNCHANGED <<opened, merges, register, issued, crossed, faults>>

\* A relink gives the identifier back to a row that had disowned one, and needs
\* the row as it was read only for that.
Restores(h) == h.op = "relink" /\ h.copy.foundational /\ h.record # NoRow

\* The event, and what comes after it.
RecordEvent(q) ==
  LET h == handler[q]
      on == [h EXCEPT !.moved = @ \cup {<<h.link, h.to>>}] IN
  /\ h.step = "record"
  /\ opened' = opened \cup {h.to}
  /\ \/ /\ h.rest # {} /\ Draw
        /\ Goes(q, Moving(on, h.rest))
     \/ /\ h.rest = {} /\ h.op \in {"merge", "split"}
        /\ Goes(q, [on EXCEPT !.step = "conclude"])
        /\ UNCHANGED issued
     \/ /\ h.op \notin {"merge", "split"}
        /\ Goes(q, IF Restores(h) THEN [h EXCEPT !.step = "restore"] ELSE Idle)
        /\ UNCHANGED issued
  /\ UNCHANGED <<links, merges, register, crossed, disowned, faults>>

\* ... provided no other row now holds it: the whole row is saved as it was read.
Restore(q) ==
  LET h == handler[q] IN
  /\ h.step = "restore"
  /\ register' = IF \E p \in Person : register[p].subject = h.copy.identifier THEN register
                 ELSE [register EXCEPT ![h.target] =
                         [h.record EXCEPT !.subject = h.copy.identifier]]
  /\ Goes(q, Idle)
  /\ UNCHANGED <<links, opened, merges, issued, crossed, disowned, faults>>

\* The merge record is saved last, by the merge and again by the split.
SaveMerge(q) ==
  LET h == handler[q] IN
  /\ h.step = "conclude"
  /\ merges' = [merges EXCEPT ![h.merge] =
                  IF h.op = "split" THEN [@ EXCEPT !.split = TRUE]
                  ELSE [survivor |-> h.target, duplicate |-> h.copy.person,
                        moved |-> h.moved, split |-> FALSE]]
  /\ Goes(q, IF h.op = "split" THEN Idle ELSE [h EXCEPT !.step = "end"])
  /\ UNCHANGED <<links, opened, register, issued, crossed, disowned, faults>>

NotOver(status) == status \notin TerminalRelationship

\* mergeResidents ends the duplicate's relationship, unless it was over when
\* the request read it; one that ended meanwhile is refused, and the request
\* with it.
EndDuplicate(q) ==
  LET h == handler[q]
      d == h.copy.person IN
  /\ h.step = "end"
  /\ \/ /\ NotOver(h.record.relationship)
        /\ CanTransition(register[d].relationship, "ENDED")
        /\ register' = [register EXCEPT ![d].relationship = "ENDED"]
        /\ Goes(q, [h EXCEPT !.step = "replace"])
     \/ /\ NotOver(h.record.relationship)
        /\ ~CanTransition(register[d].relationship, "ENDED")
        /\ Goes(q, Idle)
        /\ UNCHANGED register
     \/ /\ ~NotOver(h.record.relationship)
        /\ Goes(q, [h EXCEPT !.step = "replace"])
        /\ UNCHANGED register
  /\ UNCHANGED <<links, opened, merges, issued, crossed, disowned, faults>>

ReplaceCredential(q) ==
  LET h == handler[q] IN
  /\ h.step = "replace"
  /\ register' = [register EXCEPT ![h.copy.person].credential = "replaced"]
  /\ Goes(q, Idle)
  /\ UNCHANGED <<links, opened, merges, issued, crossed, disowned, faults>>

Stop(q) ==
  /\ handler[q].step # "idle"
  /\ faults < FaultBound
  /\ Goes(q, Idle)
  /\ crossed' = crossed \cup handler[q].keys
  /\ faults' = faults + 1
  /\ UNCHANGED <<tables, issued, disowned>>

Request(q) ==
  /\ handler[q].step = "idle"
  /\ \/ \E p \in Person :
          \/ Backfill(q, p)
          \/ \E i \in Identifier : RequestLink(q, p, i)
          \/ \E l \in Link : RequestRelink(q, l, p)
          \/ \E m \in Merge, d \in Person \ {p} : RequestMerge(q, m, p, d)
     \/ \E l \in Link : \/ RequestDispute(q, l)
                       \/ RequestResolveDispute(q, l)
                       \/ RequestUnlink(q, l)
     \/ \E m \in Merge : RequestSplit(q, m)

Step(q) ==
  \/ SaveDispute(q) \/ Detach(q) \/ FindToUnlink(q) \/ Close(q) \/ OpenLink(q) \/ RecordEvent(q)
  \/ Restore(q) \/ SaveMerge(q) \/ EndDuplicate(q) \/ ReplaceCredential(q)

Next == \E q \in Handler : Request(q) \/ Step(q) \/ Stop(q)

Spec == Init /\ [][Next]_vars

----------------------------------------------------------------------------
\* The rows, the tables and the handlers are as declared, and the ids drawn are
\* the ids in use.
TypeOK ==
  /\ links \in [Link -> LinkRow \cup {NoRow}]
  /\ opened \subseteq Written
  /\ merges \in [Merge -> MergeRow \cup {NoRow}]
  /\ register \in [Person -> RegisterRow]
  /\ handler \in [Handler -> HandlerState]
  /\ issued \in 0..MaxLinks
  /\ \A l \in Written : l <= issued

\* "An identifier belongs to one person": whatever is linked, relinked, merged
\* and split in turn, it never has two current links.
OneCurrentLink ==
  \A i \in Identifier \ crossed : Cardinality(Current(i)) <= 1

\* Once a person's foundational identifier has been unlinked, the register no
\* longer finds that person by it, until somebody links it to them again:
\* neither through the registry nor by the reference on the row.
DisownedStaysAway ==
  \A pair \in disowned :
    pair[1] \notin crossed /\ pair[2] \notin crossed => pair[1] \notin Finds(pair[2])

\* A person under dispute stays restricted until somebody settles the dispute,
\* unlinks or relinks: moving the person's links in a merge is no way round it.
DisputeHolds ==
  [][\A p \in Person \ crossed' :
       Restricted(p) /\ ~Restricted(p)' =>
         \E q \in Handler : /\ handler[q].op \in {"resolve", "unlink", "relink", "split"}
                            /\ handler'[q] # handler[q]]_vars

\* A split gives back what its merge took: each identifier that moved leads to
\* the duplicate again, and to nobody else.
SplitRestores ==
  [][\A m \in Merge :
       merges[m] # NoRow /\ merges[m].split # merges'[m].split =>
         \A pair \in merges[m].moved :
           LET i == links[pair[1]].identifier IN
           i \in crossed \/ Finds(i)' = {merges[m].duplicate}]_vars

=============================================================================
