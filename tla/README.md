# Verification of open-residency

TLA+ models of the residency register in `src/`, checked with TLC on small
instances and, for the facts that matter most, proved with TLAPS for every
value of the constants. Paths below are relative to the repository.

open-residency issues residency credentials on top of a foundational identity:
an applicant is verified against a national register, given a residency record
and a signed credential whose standing is published as bits on status lists.
The same deployment keeps identity links, an audit log, consents, a sign-in
service for residents and operators, and exchanges notices with peer
jurisdictions. It is a NestJS service over PostgreSQL, run with **two or more
replicas** (`deploy/k8s/app.yaml`), and takes **no locks and opens no
transactions** around its handlers: every `await` on a store is a point at which
another request, on this replica or another, may run, and at which the process
may stop. That is the source of almost everything hard about it, and it is why
every model below has one action per store call.

## Inventory

| component | state it keeps | operations | interacts with |
|---|---|---|---|
| Residency register (`core/residency/residency-service.ts`, `lifecycle.ts`, `prisma.service.ts`) | resident rows, status-index counter | issue, reconcile, provisional sweep, both transitions, delivery, erase, merge/unlink/relink/split | links, lists, audit, providers |
| Credential lifecycle and status lists (`core/credentials/credential-lifecycle.ts`, `status-list.ts`) | two bitstrings per list, status on the row | load, set/clear a bit, store, publish | register, verifiers |
| Status distribution (`status-list-publisher.ts`, `vc-verifier.ts`, `platform.service.ts`) | per-replica cache of signed lists | refresh, serve, verify | register, verifiers, peers |
| Identity links (`core/identity/identity-link.ts`) | append-only links, merges | link, dispute, resolve, unlink, relink, merge, split, close | register |
| Audit log (`core/audit/audit-log.ts`) | hash-chained events, signed checkpoints | record, redact, redactSubject, checkpoint, verifyChain | every controller, erasure |
| OID4VCI (`core/oid4vci`) | offers, nonces | createOffer, token, nonce, credential | register, wallets |
| Arrival notices (`core/residency/arrival-notice.ts`) | sent and received notices | notify, receive, applyDue, retryFailed, resolve | register, peers |
| OID4VP (`core/oid4vp`) | presentation requests | create, respond, result | verifiers, wallets |
| Consent and legal basis (`core/consent`) | consents, bases | grant, revoke, authorize, deactivate | relying parties |
| Resident sign-in (`core/sso`) | OTP challenges, passkeys, OIDC grants | issue/verify code, register/assert passkey, rotate tokens | residents, relying parties |
| Operators (`core/operator`) | accounts, API keys, sessions | login, lockout, issue/rotate/revoke key | every guarded route |
| Upstream OIDC (`core/oidc`) | authorization requests | start, callback | external providers |
| Federation (`core/credentials/federation.ts`) | peers, cached peer lists | sync, cross-check | peers |
| Providers and retry (`core/foundational`) | none | verify, retry | national registers |
| Privacy (`core/privacy`) | breach register | record, due, retention selection | register, audit |
| Proofing, refusal, decision mode (`core/proofing`, `core/residency`) | refusals, reviews | decide | register |

Hard behaviours, and what makes each component correct:

- **Register and lists.** A decision about a credential is a bit, then a row;
  the bit is a read-modify-write of the whole list, and the row is written back
  whole from an old read. Correct means: what the register believes dead is
  dead, revocation is for good, a suspended credential never becomes usable on
  its way to revoked, no two people share a bit, erasure revokes first and is
  finished once started, what has ended stays ended.
- **Audit log.** Each event is chained to a tail read earlier. Correct means: an
  untouched log verifies whatever interleaved, a changed one does not, and an
  erasure leaves nothing it listed.
- **Identity links.** Merges and splits move many links one store call at a
  time. Correct means: one current link per identifier, a merge can be undone
  exactly, a dispute restricts until it is resolved.
- **OID4VCI.** A code is used once, a PIN guessed a bounded number of times, a
  nonce is good for one request.
- **Arrival notices.** Delivered at least once, applied at most once, never after
  an operator refused it.
- **Status distribution.** A revocation reaches every verifier within a bounded
  age, whichever replica serves it.
- **Sign-in and operators.** Attempts are bounded, a refresh token is used once,
  a lockout comes on time.

The full list of hazards, with the line each one bites at and the properties
that cover it, is in `PROJECT.json`.

## Modules

| module | models | composed of |
|---|---|---|
| `Lifecycle` | the two transition tables and what each credential transition publishes | |
| `ResidencyRegister` | the register: rows, lists, counter, links as the register uses them, handlers | `Lifecycle`, `PublishedStatus` |
| `PublishedStatus` | what the published lists promise a verifier | |
| `ResidencyRegisterProofs` | theorems about the register | `ResidencyRegister` |
| `AuditLog` | the event table, checkpoints, handlers, changes from outside | |
| `AuditLogProofs` | theorems about the log | `AuditLog` |
| `Oid4vci` | offers, codes, tokens, nonces and the handlers of the token, nonce and credential endpoints | |
| `Oid4vciProofs` | theorems about issuance to wallets | `Oid4vci` |
| `IdentityLinks` | links, merges, what the register does around them, requests that stop or cross | `Lifecycle` |
| `ArrivalNotices` | the deployment that sends notices, the calls, the deployment that receives them | `Lifecycle` |
| `Consent` | consent records, the grants and tokens under them, legal bases per replica | |
| `Operators` | staff accounts and keys, handlers that write whole rows back, a clock | |
| `OneTimeCodes` | one resident's challenges, their limits, handlers | |
| `Presentation` | each replica's cached status lists, a peer's list, presentation requests | |
| `IdentityLinksProofs`, `ArrivalNoticesProofs`, `ConsentProofs`, `PresentationProofs` | theorems about each | the module of that name |
| `SignInProofs` | theorems about operators and about one-time codes | `Operators`, `OneTimeCodes` |
| `MC...` | one for each of the above: values and symmetry for TLC | |

Definitions introduced as "a slip" are not part of any specification: each is a
plausible mistake in the definition after it, kept to show that a property
notices it.

### ResidencyRegister

`residents` is the resident table (one `Row` per id, or `NoRow`), `statusLists`
the two bitstrings as sets of set bits, `nextIndex` the counter, `links` the
subject-to-resident link the registry resolves. `handler` is what a running
request holds in its local variables: its step, the row it read, the queue of
list changes it still has to publish. `owner` is a history variable: which
resident each index was handed to. `interrupted` is another: the residents of
whom a transition was cut short (`Fail` between deciding and the row), until a new
enrolment gives them a new index. `Stoppable` are the handlers that may stop.

Each handler of the code is a path of actions: `transitionCredential` is
`RequestTransition`, `FindResident`, `DecideTransition`, then `LoadList` and
`StoreList` for each publish, then `PersistTransition`; `issue` is
`RequestIssue`, `ResolvePerson`, `MatchPerson`, `TakeIndex`, `Enrol`,
`FindLink`, `SaveLink`; `erase` is `RequestErasure`, the transition it makes
inside, then `Erase`. `recordDelivery`, `reconcile`, `transitionRelationship`
and the provisional sweep are built the same way. `Fail` is an exception or a
stopped process at any of those awaits. `PersistTransition`, `Confirm`,
`PersistRelationship` and `Enrol` write back the whole row as the handler read
it, as `save` does.

`PublishedStatus` is the abstract specification: an index is unissued, usable,
suspended or revoked; one index changes per step; revoked is for good. The
register implements it through `Standing`.

### AuditLog

`events` and `checkpoints` are the two tables by `seq`; `writer` is what a
handler holds. A hash is represented by what it commits to (a sequence ending
in the event's own content), so equal hashes are equal histories. `AsStored`
is the JSONB column: some metadata comes back with its keys in another order
than they were hashed in. `CutTail`, `DropRow` and `EditRow` are changes the
log did not make: a table restored from an older backup, a row deleted, a row
edited; `outside` records the one that happened. Not modelled: the signature on
a checkpoint (taken as good, as with the deployment's own keys) and the wording
of events.

### Oid4vci

`offers` is the offer table (a record per offer: its resident, whether it has
expired, was redeemed, and how many wrong codes were counted), `nonces` the nonces
a proof can still consume, `bearers` the offers with an access token that is
still good. `handler` is what a request holds: its step, the copy of the offer
it is about to write back, the proofs of its batch still to verify and the
nonces it consumed (`paid`).

`token` is `RequestToken`, `FindOffer` (every refusal in the order of the code),
then `CountGuess`, or `RedeemOffer` and `MintNonce`; `nonce` is `RequestNonce`,
`MintNonce`; `credential` is `RequestCredential`, one `VerifyProof` per proof,
`CheckResident`, `MintForHolders` and, in the Draft 13 dialect, `MintNonce`.
`UpdateOffer` writes both columns from the handler's copy, as `updateOffer` does;
`Consumed` is the one conditional delete of `consumeNonce`. A `Proof` is the
nonce it signs over and whether everything else about it verifies.
`MintForHolders` is the loop over the holders in one step: nothing it writes
is read by another handler. Time is `ExpireOffer`, `ExpireToken`, `ExpireNonce`;
disputes come from the link registry. `issued`, `served`, `tokens`, `wrong` and
`raced` are history: `raced` marks an offer that a handler read while another
had read it and not yet written it.

### IdentityLinks

`links` is the link table, `merges` the merge table, `register` what the
operations touch of each row (`subjectRef`, relationship, credential), `opened`
the links whose opening event was appended. An operation begins with a request
action that makes all its reads and checks (`RequestRelink`, `RequestMerge`,
`RequestSplit`, ...), and then takes one action per write: `Close`, `OpenLink`
and `RecordEvent` for each link that moves, `SaveMerge`, and around them what
`ResidencyService` does to the row: `Detach` before an unlink, `Restore` after a
relink, `EndDuplicate` and `ReplaceCredential` after a merge. A record older
than the registry gets its link by `Backfill`, which every operation starts
with. `crossed` marks the people and identifiers that two requests worked on at
once, or that a request which stopped was working on: the properties speak of the
others, because of those the code promises nothing it keeps (see below).

Simplifications, each of which leaves out interleavings and no outcome of a
request alone: a request's reads are one step; the backfill is finished before
its request begins; the relationship and credential transitions of a merge are
single steps, their own steps being in `ResidencyRegister`; requests wholly about
crossed people and identifiers are not made; a request that shares no person and
no identifier with the one in hand waits for it, since neither reads or writes
anything of the other's.

### ArrivalNotices

Two deployments. `outbound` is the sender's table and `desk` its handlers:
`Notify` signs, calls and later saves (`Await`), `RetryFailed` is the sweep over
failed rows. `network` is the calls on their way: `Lose` drops one and `Arrive`
takes one, so that a notice comes twice only when the sender, whose answer was lost
or late, calls again. A peer that has no notice address, which `retryFailed` skips,
is left out. `inbound` is the
receiver's table, `handler` its handlers: `Arrive`, `FindRepeat` (a known `jti`
is answered as a replay), `MatchCredential` (the rule declared for the peer),
then the transition (`ReadRelationship`, `WriteRelationship`) and `SaveInbound`;
`Sweep` works through the rows that were due when it read them; `RequestResolve`
and `FindToResolve` are the operator's decision. `TransitionRelationship` is a
registrar who knows nothing of notices. `Ripen` is the end of the grace period.

### Consent

One resident and one relying party. `consents` is the table, `grants` and
`tokens` the provider's, `memory` the legal bases each replica holds withdrawn
and `withdrawn` the same in the database. `confirm` (the consent prompt) is
`RequestConfirm`, `Expire`, `Mint`, then `grant`: `Check`, and `Reuse` or
`Create` and `Replace`, then `Finish` or, refused, `Undo`. An operator's
recording of a consent is the same without the grant. `revoke` is
`RequestRevoke`, `Revoke`, `DestroyGrant`, `RevokeTokens`. `Releases` is what the
userinfo endpoint decides on one replica. `lastWord` is history: what the
resident last said in a request that nothing overlapped.

### Operators

`accounts` and `keys` are the tables, `clock` the time. Every handler reads a
row, decides on its copy and writes every column back (`WriteAccount`,
`WriteKey`): `login` is `RequestLogin` then `FailLogin`, `AskForCode` or
`PassLogin`, with the password's scrypt an await in between; a rotation is
`RequestRotation`, `FindOwner`, `MintKey`, `RetireKey`; a key presented is
`PresentKey`, `FindOwner`, `UseKey`. `letIn` records what was let in after a
decision against it, `lost` what was written back from a copy older than
another's write. Which operator may ask for what is abstracted to "some
operator asks"; reads that write nothing (`resolveSession`) are left out.

### OneTimeCodes

`challenges` is the table for one resident, in the order they were made; `request` what each
request in progress holds. `issue`
is `RequestIssue` (the window's limit), `SaveChallenge`, and `RecordChannel`,
which writes the whole row back after the gateway answered; `verify` is
`RequestVerify`, `CountWindow`, then `CountFailure` or `ConsumeChallenge`.
`Expire` and `LeaveWindow` are time.

### Presentation

`revoked` and `suspended` are the published lists, ours and the peer's; `cache`
what each replica holds in its trust map; `requests` the presentation requests.
Every refresh is `LoadList` then `AssignList`, so two on one replica may be
assigned out of order; a peer's list is `FetchPeer` then `KeepPeer`. `answer` is
`PostAnswer`, the refresh, `FindRequest`, `CheckPresentation` and
`CompleteRequest`, which writes only over a pending row. `Restart` empties a
replica's lists. A revocation here is one step with the refresh after it: the
steps of the decision itself are in `ResidencyRegister`.

## Runs

| run | shows | bounds |
|---|---|---|
| `RegisterSequential` | one handler at a time, stopping anywhere: `BelievedDeadIsDead`, `RecordAndListsAgree` but for those a transition was cut short for, `SuspendedUntilReinstated`, `RevokedBeforeErased`, and that the lists implement `PublishedStatus` | two residents, two subjects, two indices |
| `OverlappingErasures` | handlers that overlap as they like: an erasure that no stop interrupts destroys its row, or finds it past the end of the list; no index is shared | two handlers, one of which stops anywhere, two residents, two subjects, two indices on a list of one |
| `AuditLog` | an untouched log verifies, an outside change is reported, an erasure works through its list | two handlers, one resident, three events, one outside change |
| `Oid4vci` | a nonce serves one request; second tokens and extra guesses come only from two handlers holding one offer; a bad proof spends nothing | two handlers, one offer, two nonces, two proofs a request, two attempts |
| `IdentityLinks` | one current link per identifier, an unlinked identifier stays away, a dispute is not merged away, a split gives back what its merge took | two people, two identifiers, five links, one merge, one overlap or stop |
| `ArrivalNotices` | sent means received, a notice moves a relationship once, a reversal is not held; every notice arrives and no grace period hangs | one sender, two receiving handlers, one notice, two attempts, one lost call or stop |
| `Consent` | a withdrawal stops the release and ends the session; what was agreed last governs | two handlers, two replicas, three records, two grants, one overlap, stop or restart |
| `Operators` | after a disabling, a revocation or a rotation nobody is let in, but by a stale write; guesses are bounded | two handlers, one account, three keys, two failures to the lock, one overlap |
| `OneTimeCodes` | a code works once; guesses and codes in a window are bounded | two handlers, four codes, limits of two, two overlaps |
| `Presentation` | a revoked credential is refused on either replica; a verdict stands | two handlers, two replicas, one own and one peer credential, one request, two overlaps or restarts |
| `ConcurrentRevocations` | *violation*: two revocations of different residents, one lost | two handlers |
| `SuspendedIsRefused` | *violation*: a suspended credential is presented and accepted | one handler |

Why the bounds are enough: each hazard needs at most two handlers (a reader and
the writer it misses), two residents (the one acted on and the one whose bit or
row is lost), and two indices, which are either two residents' or, where only one
enrols, the old one and the one of the new enrolment. In `OverlappingErasures` the
second index is past the end of the list, which is where the real list ends after
131072 of them; operators ask for no transition there but the end of a relationship,
so that overlapping erasures, enrolments and write-backs of whole rows fit in the
bounds, and the revocations that race are those inside the erasures. Three events let an
erasure list an event and its own, and redact one while another handler holds
the same list. In `AuditLog` the outside change comes while no handler runs and
handlers do not overlap after it; before it they overlap freely. Both are bounds
named in the module (`MayChange`, `Request`). In `Oid4vci` one offer is enough
because handlers meet only on one, and two nonces allow a batch that repeats a
nonce, mixes two, or meets another batch on one of them; four wrong codes
(`GuessBound`) are two more than the lock allows. `MayMint` keeps a nonce for
each running request that will mint one.

In `IdentityLinks` five links are both enrolments', the two that a merge of two
links opens, or a relink and its return, and one more. In `ArrivalNotices` one
notice is enough because notices meet only on a relationship, which the
registrar's transitions move in every way another notice could. `Operators`
needs three keys for a rotation of a rotated key, and `OneTimeCodes` one code
more than the window and an overlap allow. Every counter of overlaps, stops and
losses is a bound named in its module (`FaultBound`, `MaxOverlaps`): the first
overlap is what a hazard needs, and the properties hold of every behaviour with
that many.

The runs that say `CHECK_DEADLOCK FALSE` really stop: their tables fill (links,
consents, codes, indices), which stands for the length of a list or a trace.

Symmetry is over handlers, replicas, subjects and residents that no definition
tells apart; the runs that check liveness (`OverlappingErasures`,
`ArrivalNotices`) use none.

**Fairness.** `FairSpec` of the register assumes weak fairness of each running
handler's next step: an `await` on the database is answered. Requests are never
assumed to come. A handler of `Stoppable` may stop at any await; `ErasureCompletes`
is about the erasures of the others, which run beside it and after it: no process
can promise to finish what it was stopped in, and what it can promise is that asking
again finishes it.

`FairSpec` of `ArrivalNotices` adds the timers, which `background-jobs.ts` sets with
`setInterval` on every replica: the retry and the sweep run again and again, and
a call that is not lost is taken by some replica. These have strong fairness
because in the code a timer or a call never waits for a free handler; that there
are few handlers is the model's bound, and weak fairness would let that bound
starve them. Nothing is assumed of operators, of registrars or of a new notice.
`NoticeArrives` holds because fewer calls and handlers are lost (`FaultBound`)
than there are attempts (`MaxAttempts`): with as many, the row is left `failed`, as
the code says. Nothing in the safety properties needs fairness.

## Proofs

`ResidencyRegisterProofs`, for any number of residents, subjects, indices and
handlers:

- `TypeCorrect` (`Spec => []TypeOK`). Inductive invariant `TypeInv`: `TypeOK` and
  `HandlerHolds`, what each step of a handler needs to hold for the next write to
  be of its type.
- `IndicesNeverShared` (`Spec => []OneIndexOneResident`), with handlers that
  overlap and write back stale rows. The property is not inductive, because a row
  somebody still holds can be written back: the strengthening `IndexInv` ties
  every row in the table *and in a handler's hands* to the history of who each
  index was handed to.
- What the rest needs is that handlers do not spoil each other's writes, which nothing in the
  code sees to (`ConcurrentRevocations` is the counterexample). Two exclusions are enough, for
  any number of overlapping handlers: `ListsExclusive`, no two of them hold a loaded bitstring
  of the same list, between `loadStatusList` and `saveStatusList`; `ResidentsExclusive`, no two
  work for the same resident. They are hypotheses about the behaviour, `[]ListsExclusive`; a
  single handler has both (`SoleIsExclusive`), so the theorems cover the runs as they are. Read
  the other way, they say which two locks the register would need, and which promise rests
  on which.
- `PublishedImplemented` (`Spec /\ []ListsExclusive => PublishedSpec`): refinement, by
  `ListInv`, that what a handler is about to store differs from the stored list by its own
  decision.
- `DeadIsPublished` (`Spec /\ []ListsExclusive => []BelievedDeadIsDead`), by `DecisionInv`:
  a dead row a handler holds is on the revocation list, what is left in its queue of changes
  tells what it has published, and it comes to write or destroy the row only when the
  revocation bit is out (`Decides`). None of this looks at the row as it is now, so handlers
  may write back rows as stale as they like. The row comes last, so a stop in between leaves
  the register believing too little and never too much. `SuspensionHolds`
  (`SuspendedUntilReinstated`) is an action property of the same invariant.
- `ErasedIsRevoked` (`Spec /\ []ListsExclusive /\ []ResidentsExclusive =>
  RevokedBeforeErased`) also needs `FollowsInv`, that the row a handler works on is the row as
  it is: where two handlers work for one resident, a new enrolment gives the row another index
  between the revocation and the erasure, and what is destroyed was never revoked.
- `RowTellsTheList` (`Spec /\ []ListsExclusive /\ []ResidentsExclusive =>
  []RecordAndListsAgree`), by `TellsInv`: a row disagrees with the lists only while some
  handler is publishing about it, and by what that handler holds, or after one was stopped
  at that (`interrupted`). It needs that no two rows have one subject, `SubjectsInv`, which
  holds for any handlers. Of the residents in `interrupted` nothing is said: the second and
  third points under *What the models found* are how row and list come to differ for good.

`AuditLogProofs`, for any number of handlers, residents and events:

- `TypeCorrect`.
- `NeverAFalseAlarm` (`Spec => []UntouchedVerifies`). Verification looks only at
  the links present and the latest checkpoint, so the inductive invariant
  `LogInv` adds that the log has no gap, that every checkpoint holds of it, and
  that the tail and length each handler was told are still so. An append at a
  stale tail is impossible because `seq` is the primary key; a redaction keeps
  hash and link, so every chain through it holds.

- `ErasureLeavesNobody` (`Spec => []WorkedThrough`), by `WorkInv`: a redaction is never
  taken back and a row never goes, so what another erasure redacted meanwhile is as good
  as one's own.
- `TamperingShows` (`Spec => []OutsideChangeReported`), whatever the handlers do after
  the change, by `ChangedInv`. Before it every hash is as long as its row's place and
  ends in its row's own content (`Stamped`). After it, a deleted row leaves behind it a
  link longer than anything before it, and all appends are past it (`Beyond`); an edited
  row does not name whom its stamp names; a row written where one was lost has a new id
  in its stamp, and every checkpoint from there on the old one. Each is something
  `verifyChain` compares, and nothing the log does afterwards repairs it, except
  redacting the edited row or writing a checkpoint over the loss.

`Oid4vciProofs`, for any number of handlers, offers, nonces and batch sizes:

- `TypeCorrect`.
- `NonceIsGoodOnce` (`Spec => []NonceServesOnce`). By `NonceInv`: a nonce that was
  consumed has at most one holder, either a request in flight or the requests
  served, and one that can be consumed has none; a minted nonce is never minted
  again.
- `SecondTokenIsARace` and `GuessesAreBounded`, by `RaceInv`: while nobody has raced
  for an offer at most one handler holds it, the copy it holds is the row but
  for its own change, tokens answered or on their way are counted by
  `redeemed`, and wrong codes by `failed`.
- `GarbageBurnsNothing` (`Spec => OnlyProofsSpend`), an action property.

`PresentationProofs`, for any number of replicas, credentials, requests and handlers:

- `TypeCorrect`.
- `RevokedCredentialRefused` (`Spec => []RevokedIsRefused`). A late answer is `Doomed` from
  its first step: its credential is in the list the handler loaded, then in the one it
  assigned, then in the replica's, or in a peer's list the replica holds, unless that list
  was set back (`behind`). The property alone says nothing of an answer before its verdict.
- `VerdictGivenOnce` (`Spec => VerdictStands`), an action property.

`SignInProofs`, for any number of handlers, accounts, keys, challenges and limits:

- `TypeCorrect`; `DecisionsHold` (`Spec => []KillSwitchHolds`) and `GuessesAreBounded`
  (`Spec => []GuessesBounded`). The stores write back whole rows, so the invariant says
  what a copy is worth (`Faithful`): the row itself until somebody writes it. On that
  rest `DecisionInv` (the row says what was decided, unless an old copy was written),
  `LateInv` (a request to be refused gets on only by such a row) and `CountInv` (an open
  account's counter is the wrong answers it was given).
- `CodesTypeCorrect` and `CodeSignsInOnce` (`OtpSpec => []CodeWorksOnce`), by
  `SpentInv`: the row of a spent code says so, and whoever else holds it read it before.
  A new challenge is nobody's, because challenges are numbered without a gap (`Segment`).
- `GuessesStayInTheWindow` (`OtpSpec => []AttemptsBounded`). Codes in the window and
  requests let past the limit on codes are counted together (`WindowInv`). While no row was
  written back from an old copy, a row counts what was judged against it (`MatchInv`), so
  guesses judged in the window and requests let past the bound are counted together
  (`GuessInv`). The code's sum is a fold, which is a recursive function: `TotalCounts` shows
  that it is the number of marks, one for each thing counted, because that number satisfies
  the fold's equation and, by a least counterexample, nothing else does.

`ConsentProofs`, for any number of handlers, replicas, records and grants:

- `TypeCorrect`; `WithdrawalIsHeard` (`Spec => []WithdrawalStops`) and `AgreementIsHeard`
  (`Spec => []AgreementGoverns`). A request that runs alone may find what earlier ones left
  when they stopped, so the invariant separates what always holds (`StoreInv`,
  `BasesInv`) from what a request that is alone has done so far (`Revoking`, `Spoken`,
  `Stands`, `Reading`) and from what is left when it ends (`WithdrawnInv`, `OneActive`).

`ArrivalNoticesProofs`, for any number of notices, desks and handlers, with calls lost and
made again:

- `TypeCorrect`; `DeliveredIsOnRecord` (`Spec => []SentIsReceived`); `NoticeMovesOnce`
  (`Spec => []MovesOnce`); `ReversalIsKept` (`Spec => []ReversalHolds`). `SenderInv` says what
  a call in the air carries and what its answer means; in `ReceiverInv`, `InHand`
  says how far the notice in a handler's hands has come: it has moved nothing until the
  transition is written, and what is about to be saved says so afterwards. The row alone,
  saved after the move, does not tell.

`IdentityLinksProofs`, for any number of people, identifiers, links and merges:

- `TypeCorrect`; `IdentifierHasOneLink` (`Spec => []OneCurrentLink`); `UnlinkedStaysAway`
  (`Spec => []DisownedStaysAway`); `DisputeStands` (`Spec => DisputeHolds`); `SplitGivesBack`
  (`Spec => SplitRestores`). Between a `Close` and its `OpenLink` the link is nowhere but in a
  handler's hands, so `Claims` says which identifiers each handler will open, to whom, and
  that nobody else will: two handlers with anything in common have crossed on it
  (`AloneInv`). The two action properties are of the last step of a long operation, and
  `ClaimsSplit` says, of each identifier a merge moved, that it is still to be moved back or
  leads to the duplicate.

Where a proof needs a newest record or a last row, it takes a minimal counterexample
(`WFMin`, the one induction that the provers can use); no recursive operator is reached.

**Checked before proved.** TLC checked each inductive invariant in the bounds of its run:
those of the register with two handlers under both exclusions (`ListInv`, `DecisionInv`,
`FollowsInv`, `SubjectsInv`) on 2,777,818 states, and with `TellsInv`, without provisional
enrolments, on 1,006,031 and, with a list of one index, 143,583; `ListInv` and `DecisionInv` under `ListsExclusive` alone
on 415,768; `WorkInv` and `ChangedInv` on 304,097; those of
`Presentation` on 2,543,234, `Operators` on 1,637,960, `OneTimeCodes` on 2,098,964, `Consent`
on 1,380,413, `ArrivalNotices` on 238,056 and, with two notices and no faults, on
4,257,749, `IdentityLinks` on 775,235.

**Assumptions** are the named `ASSUME`s of the modules, which TLC evaluates in the runs:
bounds are naturals; the nonces are finitely many; "no row" values are not rows
(`NoRowAssumption`) and "no list" is not a list; accounts and keys have different ids, and
of the lives and overlaps of keys there is a longest (`OperatorAssumption`); links
established before the registry are openings under each row's own subject, with distinct
identifiers (`EstablishedAssumption`); requests for one-time codes are some and finitely
many at a time (`RequesterAssumption`). Where a theorem has `[]ListsExclusive` or
`[]ResidentsExclusive` as a hypothesis, the run has it too: one handler
excludes itself from nothing (`RegisterSequential`). With two
handlers, TLC finds `PublishedSpec` violated without the first, and `RevokedBeforeErased` and
`RecordAndListsAgree` without the second.

**Only model-checked:** liveness (`ErasureCompletes`, `NoticeArrives`, `GraceEnds`), which is
beyond the prover.

## What the models found

Beside the violation runs, exploring the models shows these behaviours. Where a
comment in the code says otherwise it is quoted.

**Register**

- A transition saves the whole row it read, so a relationship ended meanwhile
  becomes active again, and a reconciliation overlapping an erasure writes the
  person back (`residency-service.ts:897`, `:984`).
- A reinstatement that stops between the list and the row leaves the register
  believing in a suspension no verifier sees (`:978`).
- With `activateOn` at its default, a revocation that stops after publishing is
  refused when retried, so its reason and authority are never recorded (`:973`).
- A lapsed provisional resident is answered `exists` instead of enrolling again
  (`:555`), where the comment on the sweep says "the record and its status index survive
  and they can re-enrol" (`:915-916`).
- Past the end of the list, erasure throws inside the revocation (`:1295`), however often
  it is asked for, and destroys nothing: without its second disjunct `ErasureCompletes` is
  violated this way in `OverlappingErasures`. "A retried request or a re-run sweep cannot
  fail halfway" (`:1283-1284`) is true of every other row.
- `issue` puts a fresh index on the row of a person who enrols again without
  revoking the old one (`:628-630`, `:714`), and ending a relationship does not
  revoke either: the old credential stays good and no operation can reach its index.
  The comment says "The index of the credential issued under the ended relationship
  keeps its bit, so that credential stays revoked" (`:624-626`).
- `erase` tombstones `subjectRef` and leaves the identity link, and `findPersonFor`
  asks the links first (`:1080-1085`), so the erased row is found again: returned
  while its relationship holds, enrolled onto again once it is over. `erasure.ts:49-52`
  says an erased record "can never again match a foundational lookup".
- A new enrolment that saves its row between an erasure's revocation and its destruction (`:1277`)
  gives the row a fresh index: the old credential is revoked, the row is destroyed with the
  new one still good. With two handlers kept from holding one list, TLC finds
  `RevokedBeforeErased` violated this way; that no two work for one resident is what
  `ErasedIsRevoked` adds.

**Audit log**

- `hashEvent` serialises the metadata with its keys in the order it holds them
  (`audit-log.ts:141`); PostgreSQL's JSONB gives them back sorted, so an event whose
  keys were written in another order, as `residency.issue`'s are, never verifies
  again. `:131` calls it "Canonical, stable serialization".
- `redact` replaces the event and then records that it did (`:444-452`): stopped in
  between, or losing its `seq` to another event, the redaction is on no record, and a
  retry returns early (`:434`). `:426-427`: "A redaction cannot be performed silently".
- A tail cut from the log is reported only until the next checkpoint, because only
  the latest one is compared.

**OID4VCI**

- Two overlapping token requests both redeem a code `:363-364` calls "Single use";
  a wrong code answered from a copy read before a redemption writes `redeemedAt` back
  to null, and the code can be exchanged again, long after the two met.
- Wrong codes answered by overlapping requests are counted once, so the lock
  comes later than the profile says.
- The credential endpoint checks disputes, but not whether the resident was
  revoked or erased since the access token was made.

**Identity links**

- Two requests about one identifier leave it with two current links; a stop between
  `Close` and `OpenLink` leaves it with none (`identity-link.ts:389-393`).
- A merge that stops before its record is saved can be neither finished, the
  duplicate having fewer links now, nor split, there being no record.
- A split of a merged link that was disputed meanwhile closes the dispute with it.
- `unlinkIdentity` saves the row it read, so a transition of the relationship in
  between comes undone (`residency-service.ts:1176-1187`).
- A merged duplicate keeps its `subjectRef`. When the identifier is later unlinked
  from the survivor, it leads back to the duplicate; the same after a relink. Reading
  the links of that person then writes a link by `migration:pre-registry-record`,
  where `identity-link.ts:106` says "Never a bare "system": every one of these is
  somebody's decision."
- An identifier of a row older than the registry can be linked to somebody else
  before that row is first touched. Unlinking a link that is not foundational, and
  whose identifier is the row's `subjectRef`, leaves the row matching it.

**Arrival notices**

- `apply` moves the relationship and then saves the notice, although `:344-350` says
  they are stored together: after a stop in between the notice is still pending, the
  next sweep finds the transition refused and opens it, and a reversal then reinstates
  nothing.
- A sweep works from the rows it read, so it saves `applied` over an operator's
  `resolved`; overlapping receipts of one notice save `open` over `applied`.
- A notice that was received and whose answer was lost is answered as a replay (409)
  from then on, and stays `failed` with the sender.
- `notify` saves only after the call: stopped before, the peer has a notice of which
  the sender has no row.
- A reversal reinstates whatever suspended the relationship since: it does not know
  whether another notice, or a registrar, did.
- A person who was issued a new credential is `unmatched` by the old one's id.

**Consent**

- Reuse, expiry and replacement write the whole record they read, over a withdrawal
  that came in between (`consent.ts:253`, `:353`, `:300`).
- An operator recording other scopes makes a record without a grant: withdrawing it
  leaves the session's tokens alive, although its claims are governed by the record. An
  expired record's grant is forgotten the same way.
- After a stop between the new record and the replacement of the old one, a later
  consent may reuse the older record while the newer, withdrawn, one governs.
- A basis is withdrawn on the replica that was asked; the others go on until they
  restart, where `platform.service.ts:433` says that persisting it makes it reach
  "other instances".
- `expireDue` has no caller.

**Operators**

- `login`, `authenticateKey` and `rotateKey` write the whole row they read, so a
  disabled account is enabled again, a revoked key is good again, an expiry or a lock
  is lifted, when the decision falls between the read and the write.
- Wrong passwords and codes answered by overlapping logins are counted once
  (`operator.ts:289`), so the lockout comes later than its limit.
- A rotation mints a replacement without an expiry, although
  `operator.controller.ts:233-234` gives issued keys one ("A credential with no expiry is one
  nobody ever gets round to retiring"); an expired key can be
  rotated; stopped between the mint and the retirement, both keys are good.

**One-time codes**

- The write of the channel after the gateway answered (`otp.ts:200-203`) puts back
  `consumed` and `failedAttempts`: a code used meanwhile works again, and its count is
  lost. Two overlapping uses of a code both sign in.
- Once the newest code was used, an older one that has not expired is the active one.

**Presentation**

- `verify` and the VC API accept a peer's credential unchecked while no list of the peer
  is there; the presentation path refuses it, as its comment says.
- Two countries that share one issuer DID replace each other's list in the trust map
  (`platform.service.ts:676`).
- Two syncs of one replica may be assigned in the other order, and set a list back.
- A verdict can be read any number of times, after the request expired too.

## Plan

1. **Done:** the register, its lists, the audit log, OID4VCI, and their proofs; then
   identity links, arrival notices, consent, operators, one-time codes and
   presentation, model-checked.
2. **Done:** every safety property of the runs as a theorem.
3. **Models to come:** the credential endpoint of OID4VCI over the register's rows;
   passkeys (a challenge consumed without a condition, a signature counter written from
   an old read).

## Not modelled

Cryptography, encodings and DIDs (`core/credentials` signers, issuers, JSON-LD); the
tokens of the OIDC provider, a library; wire formats of the national registers and of
upstream providers; the decisions over one application (proof of residence, binding,
decision mode), which are functions without state; the append-only breach register;
static assurance tables; statistics; messaging and USSD; configuration parsing; the HTTP
shell, metrics, the VC-API facade and the generated SDK. Each is listed with its reason
in `PROJECT.json`. Together with the SDK, the acceptance scripts and the tests these are
most of the lines of the repository, so the models name about a twelfth of them. Inside modelled components: the lifetime of an
OIDC grant at the provider, the scopes that accumulate on a grant used again, and peers
without a notice address. Of what
changes shared state four tables are left out: passkeys and their challenges, the pending
authorizations of the upstream broker, refusals and their reviews, and the breach register.
