------------------------- MODULE ResidencyRegister -------------------------
(***************************************************************************)
(* The residency register: the resident rows, the two published status     *)
(* lists, the link an enrolment resolves a person through, and the request *)
(* handlers of ResidencyService that read and write them.                  *)
(*                                                                         *)
(* A handler holds no lock and opens no transaction.  Every `await` on the *)
(* store is a point where another handler, of this replica or of another,  *)
(* may run, and what a handler read before it is used after it.  So each   *)
(* store call is an action of its own, and what a handler carries from one *)
(* to the next is in handler[p].  A constant Handler with one element is a *)
(* register whose operations never overlap; with two, they interleave.     *)
(*                                                                         *)
(* The row store is the Prisma one: save writes the whole row from the     *)
(* record the handler holds, except the erasure date, which no save        *)
(* carries; subjectRef and residentId are unique.                          *)
(***************************************************************************)
EXTENDS Naturals, FiniteSets, Lifecycle

CONSTANTS
  Subject,              \* tokenised foundational identities (subjectRef)
  ResidentId,           \* the resident ids the generator can return
  Handler,              \* concurrently running request handlers
  NoOne, NoRow,         \* absent resident id or subject; absent row
  Tombstone,            \* the subjectRef of an erased row
  IndexBound,           \* bound: how many status indices are handed out
  ListSize,             \* bits of a status list (131072 in the code)
  ActivateOnDelivery,   \* cfg.credential.activateOn = 'first_delivery'
  AllowProvisional,     \* cfg.residency.allowProvisional
  Stoppable,            \* the handlers that may stop at an await
  RelationshipTargets,  \* the states operators ask relationships to enter
  CredentialTargets     \* the states operators ask credentials to enter

Index == 0 .. IndexBound - 1

\* NoStatus is the row whose credentialStatusAt is null.
NoStatus == "NONE"

Row == [subject      : Subject \cup {Tombstone},
        relationship : RelationshipStatus,
        credential   : CredentialStatus \cup {NoStatus},
        index        : Index,
        provisional  : BOOLEAN,
        person       : BOOLEAN,     \* does the row carry personal data?
        erased       : BOOLEAN]     \* is erasedAt set?

ASSUME RegisterAssumption ==
  /\ IndexBound \in Nat \ {0}
  /\ ListSize \in Nat
  /\ {ActivateOnDelivery, AllowProvisional} \subseteq BOOLEAN
  /\ Stoppable \subseteq Handler
  /\ RelationshipTargets \subseteq RelationshipStatus
  /\ CredentialTargets \subseteq CredentialStatus
  /\ NoOne \notin ResidentId \cup Subject
  /\ Tombstone \notin Subject
  /\ NoRow \notin Row

VARIABLES
  residents,    \* the resident table
  statusLists,  \* the bits set on each published list
  nextIndex,    \* the counter on the revocation row
  links,        \* the person each identifier currently belongs to
  handler,      \* what each running handler holds
  owner,        \* history: the resident each index was taken for
  interrupted   \* history: the residents a transition was cut short for

vars == <<residents, statusLists, nextIndex, links, handler, owner, interrupted>>

----------------------------------------------------------------------------
(* The state a handler carries between two awaits.                         *)

TransitionStep == {"find", "decide", "load", "store", "persist"}
IssueStep      == {"resolve", "match", "index", "enrol", "linkFind", "linkSave"}
OwnStep        == {"relationship", "deliver", "confirm", "erase"}

Operation == {"transition", "issue", "delivery", "reconcile", "expire",
              "erase", "relationship", "none"}

HandlerState ==
  [step    : TransitionStep \cup IssueStep \cup OwnStep \cup {"idle"},
   op      : Operation,
   resident: ResidentId \cup {NoOne},
   subject : Subject \cup {NoOne},
   offline : BOOLEAN,
   to      : CredentialStatus,
   row     : Row \cup {NoRow},     \* the record it read, and will write back
   queue   : PublishQueue,         \* the changes it has still to publish
   list    : SUBSET Index,         \* the bitstring it loaded
   index   : Index]                \* the index it took

Idle == [step |-> "idle", op |-> "none", resident |-> NoOne, subject |-> NoOne,
         offline |-> FALSE, to |-> "ACTIVE", row |-> NoRow, queue |-> <<>>,
         list |-> {}, index |-> 0]

Exists(r) == residents[r] # NoRow

Holder(s) == {r \in ResidentId : Exists(r) /\ residents[r].subject = s}

(***************************************************************************)
(* store.save: the whole row, over whatever is there now.  An absent       *)
(* credentialStatus writes ACTIVE and leaves the column that dates it      *)
(* alone, so a row that never had a status still has none.                 *)
(***************************************************************************)
SavedCredential(old, new) ==
  IF new # NoStatus THEN new
  ELSE IF old = NoStatus THEN NoStatus ELSE "ACTIVE"

Saved(old, new) ==
  [new EXCEPT !.erased = old.erased,
              !.credential = SavedCredential(old.credential, new.credential)]

\* @unique on subjectRef; every tombstone is a fresh random value.
SubjectFree(r, s) == s = Tombstone \/ Holder(s) \subseteq {r}

Saves(r, row) == residents' = [residents EXCEPT ![r] = Saved(@, row)]

----------------------------------------------------------------------------
(* Leaving a handler, or moving it on.                                     *)

Goes(p, next) == handler' = [handler EXCEPT ![p] = next]

Finishes(p) == Goes(p, Idle)

Tables == <<residents, statusLists, nextIndex, links, owner>>

Store == <<residents, statusLists, nextIndex, links, owner, interrupted>>

\* A slip: an erasure that stops when there was nothing left to revoke.
ReturnsOnlyIfMoved(p, moved) ==
  IF handler[p].op = "erase" /\ moved
    THEN Goes(p, [handler[p] EXCEPT !.step = "erase"])
    ELSE Finishes(p)

(***************************************************************************)
(* transitionCredential returned, having moved the credential or refused   *)
(* to.  An erasure goes on to destroy the row whichever it was; every      *)
(* other caller is done.                                                   *)
(***************************************************************************)
Returns(p, moved) ==
  IF handler[p].op = "erase"
    THEN Goes(p, [handler[p] EXCEPT !.step = "erase"])
    ELSE Finishes(p)

\* The steps at which a transition may have published what no row says yet.
Publishing == {"load", "store", "persist"}

\* A refusal or an exception that reaches the caller, or a crash: the
\* handler is gone and what it wrote stays.
Fail(p) ==
  LET h == handler[p] IN
  /\ p \in Stoppable
  /\ h.step # "idle"
  /\ Finishes(p)
  /\ interrupted' = interrupted \cup {r \in {h.resident} : h.step \in Publishing}
  /\ UNCHANGED Tables

----------------------------------------------------------------------------
(* transitionCredential.                                                   *)

RequestTransition(p, r, to) ==
  /\ handler[p].step = "idle"
  /\ Exists(r)
  /\ Goes(p, [Idle EXCEPT !.step = "find", !.op = "transition",
                          !.resident = r, !.to = to])
  /\ UNCHANGED Store

\* store.findByResidentId.  The row was there when the call was made, and no
\* operation deletes one.
FindResident(p) ==
  LET h == handler[p] IN
  /\ h.step = "find"
  /\ Goes(p, [h EXCEPT !.step = "decide", !.row = residents[h.resident]])
  /\ UNCHANGED Store

\* The status a handler takes the credential to have: the recorded one, or
\* for a row with none what the revocation list it just loaded says.
CurrentCredential(row) ==
  IF row.credential # NoStatus THEN row.credential
  ELSE BackfilledCredentialStatus(row.index \in statusLists["revocation"])

\* isRevoked and set throw outside the list.
InList(i) == i < ListSize

DecideTransition(p) ==
  LET h == handler[p]
      current == CurrentCredential(h.row)
      readable == h.row.credential # NoStatus \/ InList(h.row.index)
  IN
  /\ h.step = "decide"
  /\ \/ /\ ~readable
        /\ Finishes(p)
     \/ /\ readable
        /\ ~CanTransitionCredential(current, h.to)
        /\ Returns(p, FALSE)
     \/ /\ readable
        /\ CanTransitionCredential(current, h.to)
        /\ Goes(p, [h EXCEPT !.step = "load", !.queue = Publish(h.to)])
  /\ UNCHANGED Store

LoadList(p) ==
  LET h == handler[p] IN
  /\ h.step = "load"
  /\ Goes(p, [h EXCEPT !.step = "store",
                       !.list = statusLists[Head(h.queue).purpose]])
  /\ UNCHANGED Store

\* A slip: the bit set on a new list instead of the loaded one.
WithOnlyBit(list, i, set) == IF set THEN {i} ELSE {}

\* StatusList.set.
WithBit(list, i, set) == IF set THEN list \cup {i} ELSE list \ {i}

\* list.set, then saveStatusList: the whole bitstring, over whatever is
\* published now.
StoreList(p) ==
  LET h == handler[p]
      change == Head(h.queue)
      bits == WithBit(h.list, h.row.index, change.set)
      rest == Tail(h.queue)
  IN
  /\ h.step = "store"
  /\ IF InList(h.row.index)
       THEN /\ statusLists' = [statusLists EXCEPT ![change.purpose] = bits]
            /\ Goes(p, [h EXCEPT !.step = IF rest = <<>> THEN "persist" ELSE "load",
                                 !.queue = rest, !.list = {}])
       ELSE /\ Finishes(p)
            /\ UNCHANGED statusLists
  /\ UNCHANGED <<residents, nextIndex, links, owner, interrupted>>

PersistTransition(p) ==
  LET h == handler[p] IN
  /\ h.step = "persist"
  /\ IF SubjectFree(h.resident, h.row.subject)
       THEN /\ Saves(h.resident, [h.row EXCEPT !.credential = h.to])
            /\ Returns(p, TRUE)
       ELSE /\ Finishes(p)
            /\ UNCHANGED residents
  /\ UNCHANGED <<statusLists, nextIndex, links, owner, interrupted>>

----------------------------------------------------------------------------
(* transitionRelationship: read, decide, write the row back.  A refused    *)
(* transition changes nothing.  The credential is not touched.             *)

RequestRelationship(p, r, to) ==
  /\ handler[p].step = "idle"
  /\ Exists(r)
  /\ CanTransition(residents[r].relationship, to)
  /\ Goes(p, [Idle EXCEPT !.step = "relationship", !.op = "relationship",
                          !.resident = r,
                          !.row = [residents[r] EXCEPT !.relationship = to]])
  /\ UNCHANGED Store

PersistRelationship(p) ==
  LET h == handler[p] IN
  /\ h.step = "relationship"
  /\ Finishes(p)
  /\ IF SubjectFree(h.resident, h.row.subject)
       THEN Saves(h.resident, h.row)
       ELSE UNCHANGED residents
  /\ UNCHANGED <<statusLists, nextIndex, links, owner, interrupted>>

----------------------------------------------------------------------------
(* issue.  Everything before the existing record is looked up (the unit,   *)
(* the foundational verification, assurance, binding) either refuses the   *)
(* application, and then nothing here changes, or lets it through with the *)
(* verified subject.  Only the second is a step of the register.           *)

RequestIssue(p, s, offline) ==
  /\ handler[p].step = "idle"
  /\ nextIndex + Cardinality({q \in Handler : handler[q].op = "issue"}) < IndexBound
  /\ offline => AllowProvisional
  /\ Goes(p, [Idle EXCEPT !.step = "resolve", !.op = "issue",
                          !.subject = s, !.offline = offline])
  /\ UNCHANGED Store

\* findPersonFor: the link registry answers first.
ResolvePerson(p) ==
  LET h == handler[p] IN
  /\ h.step = "resolve"
  /\ Goes(p, [h EXCEPT !.step = "match", !.resident = links[h.subject]])
  /\ UNCHANGED Store

\* The record the subject is found under, if any.
Candidates(h) ==
  IF h.resident # NoOne /\ Exists(h.resident) THEN {h.resident} ELSE Holder(h.subject)

\* A record whose relationship still holds is returned as it is; one whose
\* relationship is over is enrolled again onto the same row; a stranger
\* gets a resident id nobody has.
MatchPerson(p) ==
  LET h == handler[p]
      found == Candidates(h)
      onto(r) == Goes(p, [h EXCEPT !.step = "index", !.resident = r,
                                   !.row = residents[r]])
  IN
  /\ h.step = "match"
  /\ \/ /\ \E r \in found : residents[r].relationship \notin TerminalRelationship
        /\ Finishes(p)
     \/ \E r \in found :
          /\ residents[r].relationship \in TerminalRelationship
          /\ onto(r)
     \/ /\ found = {}
        /\ \E r \in ResidentId : ~Exists(r) /\ onto(r)
  /\ UNCHANGED Store

\* Slips: the counter taken for the reserved slot, and an upsert that increments
\* only when it creates the row.
ReservedPastTheSlot(n) == n

IncrementedOnce(n) == 1

\* store.nextStatusIndex: one atomic increment, and the reserved index is the
\* one before the counter it left.
Incremented(n) == n + 1

Reserved(n) == n - 1

\* The credential is signed under the index it returned.
TakeIndex(p) ==
  LET h == handler[p]
      counter == Incremented(nextIndex)
      index == Reserved(counter)
  IN
  /\ h.step = "index"
  /\ nextIndex < IndexBound
  /\ nextIndex' = counter
  /\ owner' = [owner EXCEPT ![index] = h.resident]
  /\ Goes(p, [h EXCEPT !.step = "enrol", !.index = index])
  /\ UNCHANGED <<residents, statusLists, links, interrupted>>

NewRow(h) ==
  [subject      |-> h.subject,
   relationship |-> "ACTIVE",
   credential   |-> IF ActivateOnDelivery THEN "ISSUED" ELSE NoStatus,
   index        |-> h.index,
   provisional  |-> h.offline,
   person       |-> TRUE,
   erased       |-> FALSE]

\* store.save.  The row id is the existing one's or new, so a row somebody
\* else wrote since, for this subject or this resident id, is a conflict.
Enrol(p) ==
  LET h == handler[p]
      conflict == \/ ~SubjectFree(h.resident, h.subject)
                  \/ h.row = NoRow /\ Exists(h.resident)
  IN
  /\ h.step = "enrol"
  /\ IF conflict
       THEN /\ Finishes(p)
            /\ UNCHANGED <<residents, interrupted>>
       ELSE /\ residents' = [residents EXCEPT ![h.resident] =
                  IF @ = NoRow THEN NewRow(h) ELSE Saved(@, NewRow(h))]
            /\ interrupted' = interrupted \ {h.resident}
            /\ Goes(p, [h EXCEPT !.step = "linkFind"])
  /\ UNCHANGED <<statusLists, nextIndex, links, owner>>

\* identityLinks.link: an identifier that has a current link keeps it.
FindLink(p) ==
  LET h == handler[p] IN
  /\ h.step = "linkFind"
  /\ IF links[h.subject] # NoOne
       THEN Finishes(p)
       ELSE Goes(p, [h EXCEPT !.step = "linkSave"])
  /\ UNCHANGED Store

SaveLink(p) ==
  LET h == handler[p] IN
  /\ h.step = "linkSave"
  /\ links' = [links EXCEPT ![h.subject] = h.resident]
  /\ Finishes(p)
  /\ UNCHANGED <<residents, statusLists, nextIndex, owner, interrupted>>

----------------------------------------------------------------------------
(* recordDelivery, by an operator or after a wallet's credential was minted *)
(* from the row.                                                           *)

RequestDelivery(p, r) ==
  /\ handler[p].step = "idle"
  /\ Exists(r)
  /\ Goes(p, [Idle EXCEPT !.step = "deliver", !.op = "delivery", !.resident = r])
  /\ UNCHANGED Store

\* recordDelivery: the first delivery of a credential that waits in ISSUED
\* activates it, through the ordinary transition.
RecordDelivery(p) ==
  LET h == handler[p] IN
  /\ h.step = "deliver"
  /\ IF ActivateOnDelivery /\ residents[h.resident].credential = "ISSUED"
       THEN Goes(p, [h EXCEPT !.step = "find", !.to = "ACTIVE"])
       ELSE Finishes(p)
  /\ UNCHANGED Store

----------------------------------------------------------------------------
(* reconcile and expireProvisional.                                        *)

RequestReconcile(p, r) ==
  /\ handler[p].step = "idle"
  /\ Exists(r)
  /\ residents[r].provisional
  /\ ~residents[r].erased
  /\ Goes(p, [Idle EXCEPT !.step = "confirm", !.op = "reconcile", !.resident = r,
                          !.row = residents[r]])
  /\ UNCHANGED Store

\* The authority verified the same subject: the record read before asking is
\* written back confirmed.
Confirm(p) ==
  LET h == handler[p] IN
  /\ h.step = "confirm"
  /\ Finishes(p)
  /\ IF SubjectFree(h.resident, h.row.subject)
       THEN Saves(h.resident, [h.row EXCEPT !.provisional = FALSE])
       ELSE UNCHANGED residents
  /\ UNCHANGED <<statusLists, nextIndex, links, owner, interrupted>>

\* One record of the sweep's listing, past its window.
RequestExpiry(p, r) ==
  /\ handler[p].step = "idle"
  /\ Exists(r)
  /\ residents[r].provisional
  /\ ~residents[r].erased
  /\ Goes(p, [Idle EXCEPT !.step = "find", !.op = "expire", !.resident = r,
                          !.to = "REVOKED"])
  /\ UNCHANGED Store

----------------------------------------------------------------------------
(* erase: revoke, whatever revoke answers, then destroy.                   *)

RequestErasure(p, r) ==
  /\ handler[p].step = "idle"
  /\ Exists(r)
  /\ ~residents[r].erased
  /\ Goes(p, [Idle EXCEPT !.step = "find", !.op = "erase", !.resident = r,
                          !.to = "REVOKED"])
  /\ UNCHANGED Store

\* store.erase writes the identifying columns and the date, and no others.
Erase(p) ==
  LET h == handler[p] IN
  /\ h.step = "erase"
  /\ residents' = [residents EXCEPT ![h.resident].subject = Tombstone,
                                    ![h.resident].person = FALSE,
                                    ![h.resident].erased = TRUE]
  /\ Finishes(p)
  /\ UNCHANGED <<statusLists, nextIndex, links, owner, interrupted>>

----------------------------------------------------------------------------
Init ==
  /\ residents = [r \in ResidentId |-> NoRow]
  /\ statusLists = [purpose \in StatusPurpose |-> {}]
  /\ nextIndex = 0
  /\ links = [s \in Subject |-> NoOne]
  /\ handler = [p \in Handler |-> Idle]
  /\ owner = [i \in Index |-> NoOne]
  /\ interrupted = {}

Request(p) ==
  \/ \E s \in Subject, offline \in BOOLEAN : RequestIssue(p, s, offline)
  \/ \E r \in ResidentId :
       \/ \E to \in CredentialTargets : RequestTransition(p, r, to)
       \/ \E to \in RelationshipTargets : RequestRelationship(p, r, to)
       \/ RequestDelivery(p, r)
       \/ RequestReconcile(p, r)
       \/ RequestExpiry(p, r)
       \/ RequestErasure(p, r)

Step(p) ==
  \/ FindResident(p) \/ DecideTransition(p) \/ LoadList(p) \/ StoreList(p)
  \/ PersistTransition(p) \/ PersistRelationship(p)
  \/ ResolvePerson(p) \/ MatchPerson(p) \/ TakeIndex(p) \/ Enrol(p)
  \/ FindLink(p) \/ SaveLink(p)
  \/ RecordDelivery(p) \/ Confirm(p) \/ Erase(p)

Next == \E p \in Handler : Request(p) \/ Step(p) \/ Fail(p)

Spec == Init /\ [][Next]_vars

\* A handler that started runs on: its awaits are answered.  Nobody is obliged
\* to make a request, and no handler is obliged to fail.
FairSpec == Spec /\ \A p \in Handler : WF_vars(Step(p))

----------------------------------------------------------------------------
(* What the register must keep.                                            *)

TypeOK ==
  /\ residents \in [ResidentId -> Row \cup {NoRow}]
  /\ statusLists \in [StatusPurpose -> SUBSET Index]
  /\ nextIndex \in 0 .. IndexBound
  /\ links \in [Subject -> ResidentId \cup {NoOne}]
  /\ handler \in [Handler -> HandlerState]
  /\ owner \in [Index -> ResidentId \cup {NoOne}]
  /\ interrupted \subseteq ResidentId

Quiet == \A p \in Handler : handler[p].step = "idle"

Revoked(i)   == i \in statusLists["revocation"]
Suspended(i) == i \in statusLists["suspension"]

\* A status index belongs to one resident for good, however enrolments and
\* write-backs of old records interleave: two rows never share one, so no
\* decision about one person is published about another (the counter of
\* nextStatusIndex, and the comment that a shared index "is the worst failure
\* this table can produce").
OneIndexOneResident ==
  \A r, q \in ResidentId :
    r # q /\ Exists(r) /\ Exists(q) => residents[r].index # residents[q].index

\* The register never believes a credential is dead while the list still
\* says it is good: the bit is published before the row records the decision
\* (transitionCredential, "Publish first, then persist").
BelievedDeadIsDead ==
  \A r \in ResidentId :
    Exists(r) /\ residents[r].credential \in TerminalCredential
      => Revoked(residents[r].index)

\* The row and both lists tell the same story whenever nothing is running, of
\* every resident but those a transition was cut short for and who have not
\* enrolled again since: neither a stop in somebody else's transition, nor one
\* anywhere else in one's own operations, nor a refusal, a write-back or an
\* erasure on the way leaves a bit without its decision or a decision without
\* its bit (transitionCredential: "The record and the bitstring are updated
\* together").
RecordAndListsAgree ==
  Quiet => \A r \in ResidentId \ interrupted : Exists(r) =>
    LET row == residents[r] IN
    /\ Revoked(row.index) <=> row.credential \in TerminalCredential
    /\ Suspended(row.index) <=> row.credential = "SUSPENDED"

\* A suspended credential becomes usable again only by a reinstatement: on its
\* way to revoked it is never, not for one write, on neither list
\* (applyCredentialTransition, the order of `publish`).
SuspendedUntilReinstated ==
  [][\A i \in Index :
       Suspended(i) /\ i \notin statusLists'["suspension"]
         => \/ i \in statusLists'["revocation"]
            \/ \E p \in Handler : /\ handler[p].step = "store"
                                  /\ handler[p].to = "ACTIVE"
                                  /\ handler[p].row.index = i]_vars

\* When a row is destroyed, the credential it carried is already dead
\* (erase: "Revocation happens FIRST and the order is load-bearing").
RevokedBeforeErased ==
  [][\A r \in ResidentId :
       Exists(r) /\ ~residents[r].erased /\ residents'[r].erased
         => Revoked(residents[r].index)]_vars

\* An erasure that was asked for ends with the row destroyed, unless a stop cuts
\* it short: whatever another handler does to the row or the lists meanwhile and
\* wherever that one stops, after erasures that stopped, and whether the
\* revocation inside is made, refused or overtaken.  The one way out is a row
\* whose index is past the end of the list: there the revocation throws, and
\* the erasure with it (erase: "a retried request or a re-run sweep cannot fail
\* halfway", which does not speak of that row).
ErasureCompletes ==
  \A p \in Handler \ Stoppable, r \in ResidentId :
    handler[p].step = "find" /\ handler[p].op = "erase" /\ handler[p].resident = r
      ~> Exists(r) /\ (residents[r].erased \/ ~InList(residents[r].index))

----------------------------------------------------------------------------
(* What the published lists say about each credential, as the abstract     *)
(* specification reads it.                                                 *)

Standing ==
  [i \in Index |->
     IF i >= nextIndex THEN "unissued"
     ELSE IF Revoked(i) THEN "revoked"
     ELSE IF Suspended(i) THEN "suspended"
     ELSE "usable"]

Published == INSTANCE PublishedStatus WITH standing <- Standing

\* Each step of the handlers is one decision about one credential, or changes
\* nothing a verifier can see.
PublishedSpec == Published!Spec

=============================================================================
