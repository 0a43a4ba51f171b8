-------------------------------- MODULE Consent --------------------------------
(***************************************************************************)
(* What a resident agreed to share with one relying party                   *)
(* (core/consent/consent.ts), the OIDC grant and tokens that agreement       *)
(* opened (sso/interaction.controller.ts, consent/consent.controller.ts),   *)
(* the legal bases each replica holds in memory (core/consent/legal-        *)
(* basis.ts), and the claims the provider releases on all of it             *)
(* (sso/oidc.provider.ts).                                                  *)
(*                                                                          *)
(* The register is a table of records, each written whole; the grants and   *)
(* tokens are the provider's own table; the bases are rebuilt at boot.       *)
(***************************************************************************)
EXTENDS Integers, FiniteSets

CONSTANTS
  Handler,      \* requests in progress
  Replica,      \* processes of the deployment, each with its bases in memory
  Scopes,       \* what can be agreed to
  Recorded,     \* the agreements an operator records
  Repealable,   \* the bases that may be withdrawn
  MaxConsents,  \* bound: consent records ever made
  MaxGrants,    \* bound: OIDC grants ever minted
  FaultBound,   \* bound: requests that overlap, handlers that stop, restarts
  NoRow, NoReplica, NoScopes

Basis == {"consent", "statute"}

ConsentId == 1..MaxConsents

Grant == 1..MaxGrants

None == 0   \* no consent, or no grant

ASSUME ConsentAssumption ==
  /\ Recorded \subseteq [scopes : Scopes, basis : Basis, limited : BOOLEAN]
  /\ Repealable \subseteq Basis
  /\ MaxConsents \in Nat
  /\ MaxGrants \in Nat
  /\ FaultBound \in Nat
  /\ NoReplica \notin Replica
  /\ NoScopes \notin Scopes

ConsentRow ==
  [status  : {"active", "expired", "replaced", "revoked"},
   scopes  : Scopes,
   basis   : Basis,
   limited : BOOLEAN,             \* granted for a number of days
   grant   : Grant \cup {None}]   \* the OIDC grant it authorized

ASSUME NoRowAssumption == NoRow \notin ConsentRow

VARIABLES
  consents,   \* the register, for one resident and relying party
  lapsed,     \* records whose last day has passed
  grants,     \* the provider's grants
  tokens,     \* the grants under which codes and tokens are live
  drawn,      \* how many consents and grants were made
  memory,     \* the bases each replica holds withdrawn
  withdrawn,  \* the withdrawals in the database
  handler,    \* what each handler holds
  lastWord,   \* history: what the resident last said, and nobody was heard beside
  broken,     \* history: a request was stopped or overlapped before its end
  faults      \* history: overlaps, stops and restarts

register == <<consents, lapsed>>
provider == <<grants, tokens>>
bases == <<memory, withdrawn>>
history == <<lastWord, broken, faults>>

vars == <<register, provider, drawn, bases, handler, history>>

HandlerState ==
  [op      : {"idle", "confirm", "record", "revoke", "deactivate"},
   step    : {"idle", "prior", "mint", "check", "expire", "write", "replace",
              "undo", "finish", "revoke", "destroy", "tokens", "persist"},
   replica : Replica \cup {NoReplica},
   alone   : BOOLEAN,                     \* no other request overlapped this one
   scopes  : Scopes \cup {NoScopes},
   basis   : Basis,
   limited : BOOLEAN,
   held    : ConsentId \cup {None},       \* the record in hand
   copy    : ConsentRow \cup {NoRow},     \* ... as it was read
   grant   : Grant \cup {None},
   minted  : BOOLEAN]

Idle ==
  [op |-> "idle", step |-> "idle", replica |-> NoReplica, alone |-> TRUE,
   scopes |-> NoScopes, basis |-> "consent", limited |-> FALSE, held |-> None,
   copy |-> NoRow, grant |-> None, minted |-> FALSE]

Silent == [said |-> "nothing", scopes |-> NoScopes, grant |-> None]

Init ==
  /\ consents = [c \in ConsentId |-> NoRow]
  /\ lapsed = {}
  /\ grants = {}
  /\ tokens = {}
  /\ drawn = [consents |-> 0, grants |-> 0]
  /\ memory = [r \in Replica |-> {}]
  /\ withdrawn = {}
  /\ handler = [q \in Handler |-> Idle]
  /\ lastWord = Silent
  /\ broken = FALSE
  /\ faults = 0

----------------------------------------------------------------------------
(* Reading the register.                                                    *)

Kept == {c \in ConsentId : consents[c] # NoRow}

Newest(ids) == IF ids = {} THEN None ELSE CHOOSE c \in ids : \A d \in ids : d <= c

\* findActive of the store: the newest that says it is active.
StoredActive == Newest({c \in Kept : consents[c].status = "active"})

\* governing: whatever its status, unless a successor took its place.
Governing == Newest({c \in Kept : consents[c].status # "replaced"})

InForce(r, basis) == basis \notin memory[r]

\* A slip: any basis in force will do, even for a consent that was withdrawn.
AnyBasisWillDo(r, c) == InForce(r, consents[c].basis)

\* mayProcess, asked of the record that governs: a statute outlives the consent,
\* a consent does not.
MayProcess(r, c) ==
  LET row == consents[c] IN
  /\ InForce(r, row.basis)
  /\ row.status # "replaced"
  /\ row.basis # "consent" \/ (row.status = "active" /\ c \notin lapsed)

\* The claims of findAccount, as replica r answers them now.
Releases(r) == Governing # None /\ MayProcess(r, Governing)

----------------------------------------------------------------------------
(* Requests.                                                                *)

Running == {q \in Handler : handler[q].step # "idle"}

Goes(q, h) == handler' = [handler EXCEPT ![q] = h]

\* A request is taken by one replica; if others are running, all of them
\* overlap from here on.
Start(q, r, request) ==
  /\ handler[q].step = "idle"
  /\ IF Running = {}
     THEN Goes(q, [request EXCEPT !.replica = r]) /\ UNCHANGED <<broken, faults>>
     ELSE /\ faults < FaultBound
          /\ faults' = faults + 1
          /\ broken' = TRUE
          /\ handler' = [p \in Handler |->
               IF p = q THEN [request EXCEPT !.replica = r, !.alone = FALSE]
               ELSE IF p \in Running THEN [handler[p] EXCEPT !.alone = FALSE]
               ELSE handler[p]]

\* The record findActive has in hand, to be written back as expired if its last
\* day has passed.
Looked(h, next) ==
  LET c == StoredActive IN
  IF c = None THEN [h EXCEPT !.step = next, !.held = None, !.copy = NoRow]
  ELSE [h EXCEPT !.step = IF c \in lapsed THEN "expire" ELSE next, !.held = c,
                 !.copy = consents[c]]

\* confirm: the resident agrees on the sign-in screen.
RequestConfirm(q, r, scopes) ==
  /\ drawn.grants < MaxGrants /\ drawn.consents < MaxConsents
  /\ Start(q, r, Looked([Idle EXCEPT !.op = "confirm", !.scopes = scopes], "mint"))
  /\ lastWord' = Silent
  /\ UNCHANGED <<register, provider, drawn, bases>>

\* grant, recorded by an operator: no session comes with it.
RequestRecord(q, r, said) ==
  /\ drawn.consents < MaxConsents
  /\ Start(q, r, [Idle EXCEPT !.op = "record", !.step = "check", !.scopes = said.scopes,
                              !.basis = said.basis, !.limited = said.limited])
  /\ lastWord' = Silent
  /\ UNCHANGED <<register, provider, drawn, bases>>

\* findActive's write, over whatever the record has become.
Expire(q) ==
  LET h == handler[q] IN
  /\ h.step = "expire"
  /\ consents' = [consents EXCEPT ![h.held] = [h.copy EXCEPT !.status = "expired"]]
  /\ Goes(q, [h EXCEPT !.step = IF h.op = "confirm" /\ h.grant = None THEN "mint" ELSE "write",
                       !.held = None, !.copy = NoRow])
  /\ UNCHANGED <<lapsed, provider, drawn, bases, history>>

\* The grant of the consent just found is taken up again if it is still there.
Reusable(h) == h.copy # NoRow /\ h.copy.grant \in grants

Mint(q) ==
  LET h == handler[q]
      g == IF Reusable(h) THEN h.copy.grant ELSE drawn.grants + 1 IN
  /\ h.step = "mint"
  /\ g <= MaxGrants
  /\ grants' = grants \cup {g}
  /\ drawn' = IF Reusable(h) THEN drawn ELSE [drawn EXCEPT !.grants = g]
  /\ Goes(q, [h EXCEPT !.step = "check", !.grant = g, !.minted = ~Reusable(h),
                       !.held = None, !.copy = NoRow])
  /\ UNCHANGED <<register, tokens, bases, history>>

\* ConsentService.grant: the basis must be in force in this replica's memory,
\* and the record to reuse or replace is looked up (again).
Check(q) ==
  LET h == handler[q] IN
  /\ h.step = "check"
  /\ Goes(q, IF InForce(h.replica, h.basis) THEN Looked(h, "write")
             ELSE IF h.minted THEN [h EXCEPT !.step = "undo"] ELSE Idle)
  /\ UNCHANGED <<register, provider, drawn, bases, history>>

\* A slip: the record keeps the grant it has.
KeepsItsGrant(row, g) == row

AdoptsGrant(row, g) == IF g = None THEN row ELSE [row EXCEPT !.grant = g]

Same(h) == IF h.copy = NoRow THEN FALSE
           ELSE h.copy.scopes = h.scopes /\ h.copy.basis = h.basis

After(h) == IF h.op = "confirm" THEN [h EXCEPT !.step = "finish"] ELSE Idle

\* The resident has been heard, if nobody else was meanwhile.
Heard(h, word) == IF h.alone THEN word ELSE Silent

Agreed(h) == [said |-> "agreed", scopes |-> h.scopes, grant |-> h.grant]

\* The same agreement again: the record adopts the grant, and is written back
\* as it was read.
Reuse(q) ==
  LET h == handler[q] IN
  /\ h.step = "write"
  /\ Same(h)
  /\ consents' = IF AdoptsGrant(h.copy, h.grant) = h.copy THEN consents
                 ELSE [consents EXCEPT ![h.held] = AdoptsGrant(h.copy, h.grant)]
  /\ Goes(q, After(h))
  /\ lastWord' = Heard(h, Agreed(h))
  /\ UNCHANGED <<lapsed, provider, drawn, bases, broken, faults>>

\* Another agreement: a record of its own ...
Create(q) ==
  LET h == handler[q]
      c == drawn.consents + 1 IN
  /\ h.step = "write"
  /\ ~Same(h)
  /\ c <= MaxConsents
  /\ drawn' = [drawn EXCEPT !.consents = c]
  /\ consents' = [consents EXCEPT ![c] =
                    [status |-> "active", scopes |-> h.scopes, basis |-> h.basis,
                     limited |-> h.limited, grant |-> h.grant]]
  /\ Goes(q, IF h.copy = NoRow THEN After(h) ELSE [h EXCEPT !.step = "replace"])
  /\ lastWord' = IF h.copy = NoRow THEN Heard(h, Agreed(h)) ELSE lastWord
  /\ UNCHANGED <<lapsed, provider, bases, broken, faults>>

\* A slip: the record that was replaced is put in a state none of its readers knows.
Superseded(row) == [row EXCEPT !.status = "superseded"]

Replaced(row) == [row EXCEPT !.status = "replaced"]

\* ... and the one before it is closed, over whatever it has become.
Replace(q) ==
  LET h == handler[q] IN
  /\ h.step = "replace"
  /\ consents' = [consents EXCEPT ![h.held] = Replaced(h.copy)]
  /\ Goes(q, After(h))
  /\ lastWord' = Heard(h, Agreed(h))
  /\ UNCHANGED <<lapsed, provider, drawn, bases, broken, faults>>

\* The interaction is finished, and the relying party fetches its tokens, unless
\* the grant is gone.
Finish(q) ==
  LET h == handler[q] IN
  /\ h.step = "finish"
  /\ tokens' = IF h.grant \in grants THEN tokens \cup {h.grant} ELSE tokens
  /\ Goes(q, Idle)
  /\ UNCHANGED <<register, grants, drawn, bases, history>>

\* A refused agreement must not leave the grant that was minted for it.
Undo(q) ==
  LET h == handler[q] IN
  /\ h.step = "undo"
  /\ grants' = grants \ {h.grant}
  /\ Goes(q, Idle)
  /\ UNCHANGED <<register, tokens, drawn, bases, history>>

\* revoke: a record that is no longer active is left as it is, and answered.
RequestRevoke(q, r, c) ==
  LET row == consents[c]
      request == [Idle EXCEPT !.op = "revoke", !.held = c, !.copy = row, !.grant = row.grant] IN
  /\ c \in Kept
  /\ row.status = "active" \/ row.grant # None
  /\ Start(q, r, [request EXCEPT !.step = IF row.status = "active" THEN "revoke" ELSE "destroy"])
  /\ UNCHANGED <<register, provider, drawn, bases, lastWord>>

\* A withdrawal of the record that governs, when it is through.
Withdrawal(h) ==
  IF h.alone /\ h.held = Governing THEN [said |-> "withdrawn", scopes |-> NoScopes,
                                         grant |-> h.grant]
  ELSE lastWord

Revoke(q) ==
  LET h == handler[q] IN
  /\ h.step = "revoke"
  /\ consents' = [consents EXCEPT ![h.held] = [h.copy EXCEPT !.status = "revoked"]]
  /\ Goes(q, IF h.grant = None THEN Idle ELSE [h EXCEPT !.step = "destroy"])
  /\ lastWord' = IF h.grant = None THEN Withdrawal(h) ELSE Silent
  /\ UNCHANGED <<lapsed, provider, drawn, bases, broken, faults>>

DestroyGrant(q) ==
  LET h == handler[q] IN
  /\ h.step = "destroy"
  /\ grants' = grants \ {h.grant}
  /\ Goes(q, [h EXCEPT !.step = "tokens"])
  /\ UNCHANGED <<register, tokens, drawn, bases, history>>

RevokeTokens(q) ==
  LET h == handler[q] IN
  /\ h.step = "tokens"
  /\ tokens' = tokens \ {h.grant}
  /\ Goes(q, Idle)
  /\ lastWord' = Withdrawal(h)
  /\ UNCHANGED <<register, grants, drawn, bases, broken, faults>>

\* deactivateLegalBasis: withdrawn in the memory of the replica that was asked,
\* and then written down.
RequestDeactivate(q, r, b) ==
  /\ InForce(r, b)
  /\ Start(q, r, [Idle EXCEPT !.op = "deactivate", !.step = "persist", !.basis = b])
  /\ memory' = [memory EXCEPT ![r] = @ \cup {b}]
  /\ UNCHANGED <<register, provider, drawn, withdrawn, lastWord>>

Persist(q) ==
  LET h == handler[q] IN
  /\ h.step = "persist"
  /\ withdrawn' = withdrawn \cup {h.basis}
  /\ Goes(q, Idle)
  /\ UNCHANGED <<register, provider, drawn, memory, history>>

----------------------------------------------------------------------------
(* The world.                                                               *)

\* The last day of a record passes.
Lapse(c) ==
  /\ c \in Kept /\ consents[c].limited
  /\ lapsed' = lapsed \cup {c}
  /\ UNCHANGED <<consents, provider, drawn, bases, handler, history>>

\* A process goes down with what it was doing, and boots on the database.
Restart(r) ==
  /\ faults < FaultBound
  /\ faults' = faults + 1
  /\ memory' = [memory EXCEPT ![r] = withdrawn]
  /\ broken' = (broken \/ \E q \in Running : handler[q].replica = r)
  /\ handler' = [q \in Handler |-> IF handler[q].replica = r THEN Idle ELSE handler[q]]
  /\ UNCHANGED <<register, provider, drawn, withdrawn, lastWord>>

Next ==
  \/ \E q \in Handler, r \in Replica :
       \/ \E scopes \in Scopes : RequestConfirm(q, r, scopes)
       \/ \E said \in Recorded : RequestRecord(q, r, said)
       \/ \E c \in ConsentId : RequestRevoke(q, r, c)
       \/ \E b \in Repealable : RequestDeactivate(q, r, b)
  \/ \E q \in Handler :
       \/ Expire(q)
       \/ Mint(q)
       \/ Check(q)
       \/ Reuse(q)
       \/ Create(q)
       \/ Replace(q)
       \/ Finish(q)
       \/ Undo(q)
       \/ Revoke(q)
       \/ DestroyGrant(q)
       \/ RevokeTokens(q)
       \/ Persist(q)
  \/ \E c \in ConsentId : Lapse(c)
  \/ \E r \in Replica : Restart(r)

Spec == Init /\ [][Next]_vars

----------------------------------------------------------------------------
\* The tables and the handlers are as declared, and tokens are live under
\* grants that were minted.
TypeOK ==
  /\ consents \in [ConsentId -> ConsentRow \cup {NoRow}]
  /\ lapsed \subseteq Kept
  /\ grants \cup tokens \subseteq 1..drawn.grants
  /\ Kept \subseteq 1..drawn.consents
  /\ memory \in [Replica -> SUBSET Basis]
  /\ withdrawn \subseteq Basis
  /\ handler \in [Handler -> HandlerState]

\* "Withdrawing consent has to stop the claim release, not just record that it
\* was withdrawn": once a withdrawal is through, on whatever a stopped or an
\* overlapped request left behind, no replica releases a claim on the strength
\* of consent, and the session it was given for is over, until the resident is
\* asked again.
WithdrawalStops ==
  lastWord.said = "withdrawn" =>
    /\ \A r \in Replica : Releases(r) => consents[Governing].basis = "statute"
    /\ lastWord.grant \notin grants \cup tokens

\* What the resident agreed to last is what governs, whatever was agreed before:
\* those scopes and no other record beside it ("two live consents for one
\* relying party is not a history, it is an ambiguity"), and the record names the
\* grant of the session, so that withdrawing ends it.
AgreementGoverns ==
  lastWord.said = "agreed" /\ ~broken =>
    LET row == consents[Governing] IN
    /\ Governing # None
    /\ row.status \in {"active", "revoked"}
    /\ row.scopes = lastWord.scopes
    /\ lastWord.grant # None => row.grant = lastWord.grant
    /\ {c \in Kept : consents[c].status = "active"} \subseteq {Governing}

=============================================================================
