----------------------------- MODULE ConsentProofs -----------------------------
(***************************************************************************)
(* Theorems about consent, for any number of handlers, replicas, scopes,    *)
(* records and grants, and any bound on overlaps and restarts.              *)
(***************************************************************************)
EXTENDS Consent, TLAPS, WellFoundedInduction

Active == {c \in Kept : consents[c].status = "active"}

Standing == {c \in Kept : consents[c].status # "replaced"}

\* What a handler holds at each step.
Holding(h) ==
  /\ h.step \in {"mint", "check", "expire", "write", "replace"} =>
       h.op \in {"confirm", "record"} /\ h.scopes \in Scopes
  /\ h.step \in {"revoke", "destroy", "tokens"} => h.op = "revoke" /\ h.held # None
  /\ h.step = "finish" => h.op = "confirm"
  /\ h.step \in {"expire", "replace", "revoke"} => h.copy # NoRow
  /\ h.step \in {"destroy", "tokens"} => h.grant # None
  /\ h.copy # NoRow => h.held \in Kept /\ h.copy.basis = consents[h.held].basis

\* The tables and what is held of them.
StoreInv ==
  /\ consents \in [ConsentId -> ConsentRow \cup {NoRow}]
  /\ handler \in [Handler -> HandlerState]
  /\ drawn \in [consents : 0 .. MaxConsents, grants : 0 .. MaxGrants]
  /\ lapsed \subseteq Kept
  /\ Kept \subseteq 1 .. drawn.consents
  /\ grants \cup tokens \subseteq 1 .. drawn.grants
  /\ \A p \in Handler : Holding(handler[p])

BasesInv == memory \in [Replica -> SUBSET Basis] /\ withdrawn \subseteq Basis

\* Whoever was not overlapped is the only one under way.
AloneInv ==
  /\ \A p, q \in Handler :
       p # q /\ handler[p].step # "idle" /\ handler[q].step # "idle" => ~ handler[p].alone
  /\ ~ broken => \A p \in Handler : handler[p].alone

\* A withdrawal nobody overlapped has closed its record, and then its grant.
Revoking(h) ==
  h.alone /\ h.step \in {"destroy", "tokens"} =>
    /\ consents[h.held].status # "active"
    /\ h.step = "tokens" => h.grant \notin grants

\* Since the resident was last heard, nobody has begun to ask them again.
Spoken(h) ==
  h.step # "idle" =>
    /\ lastWord.said = "agreed" => h.op \in {"revoke", "deactivate"} \/ h.step = "finish"
    /\ lastWord.said = "withdrawn" => h.op \in {"revoke", "deactivate"}

\* A withdrawal under way leaves the record that governs where it is.
Stands(h) == h.step = "revoke" => h.held \in Standing

\* What a handler read is still so, if requests come one at a time; a record that
\* is being replaced has its successor beside it.
Reading(h) ==
  /\ h.step \in {"expire", "write", "replace", "revoke"} /\ h.copy # NoRow =>
       h.copy = consents[h.held] /\ h.copy.status = "active"
  /\ h.step = "write" /\ h.copy = NoRow => Active = {}
  /\ h.step = "replace" =>
       LET c == drawn.consents IN
       /\ Active = {h.held, c} /\ h.held # c /\ c \in ConsentId
       /\ consents[c].scopes = h.scopes /\ consents[c].grant = h.grant

HandlersInv ==
  /\ \A p \in Handler : Revoking(handler[p]) /\ Spoken(handler[p])
  /\ lastWord.said = "withdrawn" => \A p \in Handler : Stands(handler[p])
  /\ ~ broken => \A p \in Handler : Reading(handler[p])

\* After a withdrawal, what governs is no consent in force, and the session is over.
WithdrawnInv ==
  lastWord.said = "withdrawn" =>
    /\ Governing \in Kept
    /\ consents[Governing].basis = "statute" \/ consents[Governing].status # "active"
    /\ lastWord.grant \notin grants \cup tokens

Replacing == \E p \in Handler : handler[p].step = "replace"

\* Requests that come one at a time leave no live record but the one that governs.
OneActive == ~ broken /\ ~ Replacing => Active \subseteq {Governing}

IInv ==
  /\ StoreInv
  /\ BasesInv
  /\ AloneInv
  /\ HandlersInv
  /\ WithdrawnInv
  /\ OneActive
  /\ AgreementGoverns

----------------------------------------------------------------------------
(* The newest record.                                                       *)

\* A set of records made so far has a newest: else what they lack of the number
\* made would descend for ever.
LEMMA HasNewest ==
  ASSUME NEW n \in Nat, NEW ids \in SUBSET (1 .. n), ids # {}
  PROVE  \E c \in ids : \A d \in ids : d <= c
<1>1. PICK less : less = OpToRel(<, Nat)
  OBVIOUS
<1>2. IsWellFoundedOn(less, Nat)
  BY <1>1, NatLessThanWellFounded
<1>3. \A x, y \in Nat : x < y => <<x, y>> \in less
  BY <1>1 DEF OpToRel
<1>4. PICK after : after = {n - c : c \in ids}
  OBVIOUS
<1>5. after \subseteq Nat
  <2>1. \A c \in ids : n - c \in Nat
    OBVIOUS
  <2> QED BY <1>4, <2>1
<1>6. after # {}
  BY <1>4
<1>7. PICK x \in after : \A y \in after : ~ (<<y, x>> \in less)
  BY <1>2, <1>5, <1>6, WFMin
<1>8. PICK c \in ids : x = n - c
  BY <1>4
<1>9. ASSUME NEW d \in ids PROVE d <= c
  <2>1. n - d \in after /\ n - d \in Nat /\ x \in Nat
    BY <1>4, <1>5
  <2>2. ~ (n - d < x)
    BY <1>3, <1>7, <2>1
  <2>3. c \in Int /\ d \in Int
    OBVIOUS
  <2> QED BY <1>8, <2>2, <2>3
<1> QED BY <1>9

LEMMA NewestIs ==
  ASSUME NEW ids \in SUBSET ConsentId
  PROVE  /\ ids = {} => Newest(ids) = None
         /\ ids # {} => Newest(ids) \in ids /\ \A d \in ids : d <= Newest(ids)
         /\ \A c \in ids : (\A d \in ids : d <= c) => Newest(ids) = c
<1>1. ids # {} => Newest(ids) \in ids /\ \A d \in ids : d <= Newest(ids)
  <2>1. SUFFICES ASSUME ids # {} PROVE Newest(ids) \in ids /\ \A d \in ids : d <= Newest(ids)
    OBVIOUS
  <2>2. \E c \in ids : \A d \in ids : d <= c
    <3>1. MaxConsents \in Nat /\ ids \in SUBSET (1 .. MaxConsents)
      BY ConsentAssumption DEF ConsentId
    <3> QED BY <2>1, <3>1, HasNewest
  <2> QED BY <2>1, <2>2 DEF Newest
<1>2. ASSUME NEW c \in ids, \A d \in ids : d <= c PROVE Newest(ids) = c
  <2>1. Newest(ids) <= c /\ c <= Newest(ids) /\ Newest(ids) \in ids
    BY <1>1, <1>2
  <2>2. ConsentId \subseteq Int
    BY DEF ConsentId
  <2>3. c \in Int /\ Newest(ids) \in Int
    BY <2>1, <2>2
  <2> QED BY <2>1, <2>3
<1> QED BY <1>1, <1>2 DEF Newest

\* The record that governs stands, and the one that is found active is.
LEMMA ReadsRegister ==
  /\ Active \subseteq Standing /\ Standing \subseteq Kept /\ Kept \subseteq ConsentId
  /\ None \notin ConsentId
  /\ StoredActive = Newest(Active) /\ Governing = Newest(Standing)
  /\ IF Active = {} THEN StoredActive = None ELSE StoredActive \in Active
  /\ IF Standing = {} THEN Governing = None ELSE Governing \in Standing
<1>1. StoredActive = Newest(Active) /\ Governing = Newest(Standing)
  BY DEF StoredActive, Governing, Active, Standing
<1>2. Active \subseteq Standing /\ Standing \subseteq Kept /\ Kept \subseteq ConsentId
  BY DEF Active, Standing, Kept
<1>3. None \notin ConsentId
  BY ConsentAssumption DEF None, ConsentId
<1> QED BY <1>1, <1>2, <1>3, NewestIs

\* The register is read as it was.
LEMMA RegisterStays ==
  ASSUME consents' = consents
  PROVE  /\ Kept' = Kept /\ Active' = Active /\ Standing' = Standing
         /\ Governing' = Governing /\ StoredActive' = StoredActive
BY DEF Kept, Active, Standing, Governing, StoredActive

\* Writing a record that is there back, with another status or grant.
LEMMA RecordWritten ==
  ASSUME StoreInv, NEW c \in Kept, NEW row \in ConsentRow,
         consents' = [consents EXCEPT ![c] = row]
  PROVE  /\ consents' \in [ConsentId -> ConsentRow \cup {NoRow}]
         /\ consents'[c] = row /\ \A d \in ConsentId : d # c => consents'[d] = consents[d]
         /\ Kept' = Kept
         /\ Standing' = IF row.status = "replaced" THEN Standing \ {c} ELSE Standing \cup {c}
         /\ Active' = IF row.status = "active" THEN Active \cup {c} ELSE Active \ {c}
<1>1. consents \in [ConsentId -> ConsentRow \cup {NoRow}] /\ c \in ConsentId /\ row # NoRow
  BY NoRowAssumption DEF StoreInv, Kept
<1>2. /\ consents' \in [ConsentId -> ConsentRow \cup {NoRow}]
      /\ consents'[c] = row /\ \A d \in ConsentId : d # c => consents'[d] = consents[d]
  BY <1>1
<1>3. Kept' = Kept
  BY <1>1, <1>2 DEF Kept
<1>4. \A d : d \in Standing' <=> d \in Kept /\ consents'[d].status # "replaced"
  BY <1>3 DEF Standing
<1>5. \A d : d \in Active' <=> d \in Kept /\ consents'[d].status = "active"
  BY <1>3 DEF Active
<1>6. \A d \in Kept : d # c => consents'[d] = consents[d]
  BY <1>2 DEF Kept
<1>7. Standing' = IF row.status = "replaced" THEN Standing \ {c} ELSE Standing \cup {c}
  BY <1>2, <1>4, <1>6 DEF Standing
<1>8. Active' = IF row.status = "active" THEN Active \cup {c} ELSE Active \ {c}
  BY <1>2, <1>5, <1>6 DEF Active
<1> QED BY <1>2, <1>3, <1>7, <1>8

----------------------------------------------------------------------------
(* Handlers.                                                                *)

LEMMA IdleHolds ==
  /\ Idle \in HandlerState /\ Holding(Idle) /\ Idle.alone
  /\ Idle.op = "idle" /\ Idle.step = "idle" /\ Idle.scopes = NoScopes /\ Idle.basis = "consent"
  /\ Idle.held = None /\ Idle.copy = NoRow /\ Idle.grant = None /\ ~ Idle.limited
BY DEF Idle, HandlerState, Holding, Basis

LEMMA IdleClaimsNothing ==
  ASSUME NEW h, h.step = "idle"
  PROVE  Revoking(h)' /\ Spoken(h)' /\ Stands(h)' /\ Reading(h)'
BY DEF Revoking, Spoken, Stands, Reading

\* No record is lost, and none changes its basis.
Grows ==
  /\ consents' \in [ConsentId -> ConsentRow \cup {NoRow}]
  /\ \A c \in Kept : c \in Kept' /\ consents'[c].basis = consents[c].basis

LEMMA HoldingStays ==
  ASSUME Grows, NEW h, Holding(h)
  PROVE  Holding(h)'
BY DEF Grows, Holding

\* One handler goes on; what is left to show is what holds of it, and of the tables.
LEMMA HandlerMoves ==
  ASSUME StoreInv, AloneInv, HandlersInv, Grows,
         NEW q \in Handler, NEW next \in HandlerState,
         handler[q].step # "idle", Goes(q, next),
         next.alone = handler[q].alone \/ next = Idle,
         broken' = broken,
         Holding(next)', Revoking(next)', Spoken(next)',
         lastWord'.said \in {"nothing", lastWord.said} \/ handler[q].alone,
         lastWord'.said = "withdrawn" =>
           Stands(next)' /\ (handler[q].alone \/ Standing \subseteq Standing'),
         ~ broken => Reading(next)'
  PROVE  /\ handler' \in [Handler -> HandlerState]
         /\ (\A p \in Handler : Holding(handler[p]))'
         /\ AloneInv' /\ HandlersInv'
<1>1. handler' = [handler EXCEPT ![q] = next] /\ handler \in [Handler -> HandlerState]
  BY DEF Goes, StoreInv
<1>2. handler' \in [Handler -> HandlerState]
  BY <1>1
<1>3. handler'[q] = next /\ \A p \in Handler : p # q => handler'[p] = handler[p]
  BY <1>1
<1>4. ASSUME NEW p \in Handler PROVE Holding(handler[p])'
  <2>1. PICK h : h = handler'[p]
    OBVIOUS
  <2>2. Holding(h)'
    <3>1. CASE p = q
      BY <1>3, <2>1, <3>1 DEF Holding
    <3>2. CASE p # q
      BY <1>3, <2>1, <3>2, HoldingStays DEF StoreInv
    <3> QED BY <3>1, <3>2
  <2> QED BY <2>1, <2>2 DEF Holding
<1>5. AloneInv'
  <2>1. \A p \in Handler : p # q /\ handler[p].step # "idle" =>
          ~ handler[p].alone /\ ~ handler[q].alone
    BY DEF AloneInv
  <2>2. \A p, r \in Handler :
          p # r /\ handler'[p].step # "idle" /\ handler'[r].step # "idle" => ~ handler'[p].alone
    BY <1>3, <2>1, IdleHolds DEF AloneInv
  <2>3. ~ broken => \A p \in Handler : handler'[p].alone
    BY <1>3, IdleHolds DEF AloneInv
  <2> QED BY <2>2, <2>3 DEF AloneInv
<1>6. ASSUME NEW p \in Handler
      PROVE  /\ Revoking(handler[p])' /\ Spoken(handler[p])'
             /\ lastWord'.said = "withdrawn" => Stands(handler[p])'
             /\ ~ broken' => Reading(handler[p])'
  <2>1. PICK h : h = handler'[p]
    OBVIOUS
  <2>2. /\ Revoking(h)' /\ Spoken(h)'
        /\ lastWord'.said = "withdrawn" => Stands(h)'
        /\ ~ broken' => Reading(h)'
    <3>1. CASE p = q
      <4>1. h = next
        BY <1>3, <2>1, <3>1
      <4> QED BY <4>1
    <3>2. CASE h.step = "idle"
      BY <3>2, IdleClaimsNothing
    <3>3. CASE p # q /\ h.step # "idle"
      <4>1. h = handler[p] /\ ~ h.alone /\ ~ handler[q].alone /\ broken
        BY <1>3, <2>1, <3>3 DEF AloneInv
      <4>2. Revoking(h)'
        BY <4>1 DEF Revoking
      <4>3. Spoken(h) /\ (lastWord.said = "withdrawn" => Stands(h))
        BY <4>1 DEF HandlersInv
      <4>4. lastWord'.said \in {"nothing", lastWord.said}
        BY <4>1
      <4>5. Spoken(h)'
        BY <4>3, <4>4 DEF Spoken
      <4>6. lastWord'.said = "withdrawn" => Stands(h)'
        BY <4>1, <4>3, <4>4 DEF Stands
      <4> QED BY <4>1, <4>2, <4>5, <4>6
    <3> QED BY <3>1, <3>2, <3>3
  <2> QED BY <2>1, <2>2 DEF Revoking, Spoken, Stands, Reading
<1> QED BY <1>2, <1>4, <1>5, <1>6 DEF HandlersInv

\* While requests come one at a time, nobody replaces but the one that moves.
LEMMA NobodyElse ==
  ASSUME StoreInv, AloneInv, NEW q \in Handler, handler[q].step # "idle", NEW next,
         Goes(q, next), ~ broken
  PROVE  /\ handler[q].step # "replace" => ~ Replacing
         /\ next.step # "replace" => ~ Replacing'
         /\ handler[q].step = "replace" => Replacing
         /\ next.step = "replace" => Replacing'
         /\ handler[q].alone
<1>1. \A p \in Handler : p # q => handler[p].step = "idle"
  BY DEF AloneInv
<1>2. handler'[q] = next /\ \A p \in Handler : p # q => handler'[p] = handler[p]
  BY DEF Goes, StoreInv
<1> QED BY <1>1, <1>2 DEF Replacing, AloneInv

\* The register is as it was, and so is all that is said of it.
LEMMA RegisterKeeps ==
  ASSUME IInv, NEW q \in Handler, NEW next \in HandlerState, handler[q].step # "idle",
         Goes(q, next), UNCHANGED <<consents, broken>>,
         handler[q].step # "replace" /\ next.step # "replace",
         lastWord' = lastWord \/ lastWord'.said # "agreed"
  PROVE  OneActive' /\ AgreementGoverns' /\ Grows
<1>1. /\ Kept' = Kept /\ Active' = Active /\ Standing' = Standing /\ Governing' = Governing
      /\ {c \in Kept : consents[c].status = "active"}' =
           {c \in Kept : consents[c].status = "active"}
  BY RegisterStays DEF Active
<1>2. OneActive'
  BY <1>1, NobodyElse DEF IInv, OneActive
<1>3. AgreementGoverns'
  BY <1>1 DEF IInv, AgreementGoverns
<1>4. Grows
  BY <1>1 DEF IInv, StoreInv, Grows
<1> QED BY <1>2, <1>3, <1>4

----------------------------------------------------------------------------
(* Steps that leave the register alone.                                     *)

\* What such a step has left to show.
LEMMA ProviderStepKeeps ==
  ASSUME IInv, NEW q \in Handler, NEW next \in HandlerState, handler[q].step # "idle",
         Goes(q, next), next.alone = handler[q].alone \/ next = Idle,
         UNCHANGED <<consents, lapsed, broken>>, BasesInv',
         handler[q].step # "replace" /\ next.step # "replace",
         drawn' \in [consents : 0 .. MaxConsents, grants : 0 .. MaxGrants],
         drawn'.consents = drawn.consents, (grants \cup tokens)' \subseteq 1 .. drawn'.grants,
         Holding(next)', Revoking(next)', Spoken(next)', Stands(next)', ~ broken => Reading(next)',
         lastWord' = lastWord \/ (handler[q].alone /\ lastWord'.said = "withdrawn"),
         WithdrawnInv'
  PROVE  IInv'
<1>1. OneActive' /\ AgreementGoverns' /\ Grows
  BY RegisterKeeps
<1>2. StoreInv /\ AloneInv /\ HandlersInv /\ Standing' = Standing /\ Kept' = Kept
  BY RegisterStays DEF IInv
<1>3. /\ lastWord'.said \in {"nothing", lastWord.said} \/ handler[q].alone
      /\ lastWord'.said = "withdrawn" =>
           Stands(next)' /\ (handler[q].alone \/ Standing \subseteq Standing')
  BY <1>2
<1>4. /\ handler' \in [Handler -> HandlerState]
      /\ (\A p \in Handler : Holding(handler[p]))'
      /\ AloneInv' /\ HandlersInv'
  BY <1>1, <1>2, <1>3, HandlerMoves
<1>5. StoreInv'
  BY <1>2, <1>4 DEF StoreInv
<1> QED BY <1>1, <1>4, <1>5 DEF IInv

\* What is known of a handler under way.
LEMMA UnderWay ==
  ASSUME IInv, NEW q \in Handler
  PROVE  /\ handler[q] \in HandlerState /\ Holding(handler[q])
         /\ Revoking(handler[q]) /\ Spoken(handler[q])
         /\ lastWord.said = "withdrawn" => Stands(handler[q])
         /\ ~ broken => Reading(handler[q])
BY DEF IInv, StoreInv, HandlersInv

\* The step a handler is at, and the record in hand, are all that changes.
LEMMA MintKeeps ==
  ASSUME IInv, NEW q \in Handler, Mint(q)
  PROVE  IInv'
<1>h. PICK h : h = handler[q]
  OBVIOUS
<1>1. h \in HandlerState /\ Holding(h) /\ Spoken(h) /\ h.step = "mint"
  BY <1>h, UnderWay DEF Mint
<1>2. drawn \in [consents : 0 .. MaxConsents, grants : 0 .. MaxGrants]
      /\ grants \cup tokens \subseteq 1 .. drawn.grants /\ MaxGrants \in Nat
  BY ConsentAssumption DEF IInv, StoreInv
<1>3. PICK g : g = IF Reusable(h) THEN h.copy.grant ELSE drawn.grants + 1
  OBVIOUS
<1>4. /\ g <= MaxGrants /\ grants' = grants \cup {g} /\ tokens' = tokens
      /\ drawn' = IF Reusable(h) THEN drawn ELSE [drawn EXCEPT !.grants = g]
      /\ UNCHANGED <<register, bases, history>>
  BY <1>h, <1>3 DEF Mint
<1>5. g \in Grant
  BY <1>2, <1>3, <1>4 DEF Reusable, Grant
<1>6. PICK minted \in BOOLEAN : minted = ~Reusable(h)
  OBVIOUS
<1>7. PICK next : next = [h EXCEPT !.step = "check", !.grant = g, !.minted = minted,
                                   !.held = None, !.copy = NoRow]
  OBVIOUS
<1>8. Goes(q, next)
  BY <1>h, <1>3, <1>6, <1>7, Zenon DEF Mint
<1>9. /\ next \in HandlerState /\ next.op = h.op /\ next.step = "check" /\ next.alone = h.alone
      /\ next.scopes = h.scopes /\ next.held = None /\ next.copy = NoRow
  BY <1>1, <1>5, <1>7 DEF HandlerState
<1>10. Holding(next)' /\ Revoking(next)' /\ Stands(next)' /\ Reading(next)'
  BY <1>1, <1>9 DEF Holding, Revoking, Stands, Reading
<1>11. lastWord.said # "withdrawn" /\ Spoken(next)'
  BY <1>1, <1>4, <1>9 DEF Spoken, Holding, history
<1>12. /\ drawn' \in [consents : 0 .. MaxConsents, grants : 0 .. MaxGrants]
       /\ drawn'.consents = drawn.consents /\ (grants \cup tokens)' \subseteq 1 .. drawn'.grants
  <2>1. CASE Reusable(h)
    BY <1>2, <1>3, <1>4, <2>1 DEF Reusable
  <2>2. CASE ~ Reusable(h)
    <3>1. drawn' = [drawn EXCEPT !.grants = drawn.grants + 1]
          /\ drawn.grants + 1 \in 0 .. MaxGrants /\ g = drawn.grants + 1
      BY <1>2, <1>3, <1>4, <2>2
    <3>2. drawn'.grants = drawn.grants + 1 /\ drawn'.consents = drawn.consents
          /\ drawn' \in [consents : 0 .. MaxConsents, grants : 0 .. MaxGrants]
      BY <1>2, <3>1
    <3> QED BY <1>2, <1>4, <3>1, <3>2
  <2> QED BY <2>1, <2>2
<1>13. /\ UNCHANGED <<consents, lapsed, broken, lastWord>> /\ BasesInv'
  BY <1>4 DEF register, bases, history, IInv, BasesInv
<1>14. WithdrawnInv'
  BY <1>11, <1>13 DEF WithdrawnInv
<1> QED BY <1>h, <1>1, <1>8, <1>9, <1>10, <1>11, <1>12, <1>13, <1>14, ProviderStepKeeps

\* What findActive leaves in hand.
LEMMA LookedHolds ==
  ASSUME StoreInv, NEW h \in HandlerState, NEW after \in {"mint", "write"}
  PROVE  LET x == Looked(h, after) IN
         /\ x \in HandlerState
         /\ x.op = h.op /\ x.alone = h.alone /\ x.scopes = h.scopes /\ x.basis = h.basis
         /\ x.grant = h.grant
         /\ IF Active = {} THEN x.step = after /\ x.held = None /\ x.copy = NoRow
            ELSE /\ x.step \in {"expire", after} /\ x.held \in Active
                 /\ x.copy = consents[x.held] /\ x.copy # NoRow
<1>x. PICK x : x = Looked(h, after)
  OBVIOUS
<1>1. consents \in [ConsentId -> ConsentRow \cup {NoRow}]
  BY DEF StoreInv
<1>2. CASE Active = {}
  <2>1. x = [h EXCEPT !.step = after, !.held = None, !.copy = NoRow]
    BY <1>x, <1>2, ReadsRegister DEF Looked
  <2>2. /\ x \in HandlerState /\ x.step = after /\ x.held = None /\ x.copy = NoRow
        /\ x.op = h.op /\ x.alone = h.alone /\ x.scopes = h.scopes /\ x.basis = h.basis
        /\ x.grant = h.grant
    BY <2>1 DEF HandlerState
  <2> QED BY <1>x, <1>2, <2>2
<1>3. CASE Active # {}
  <2>1. PICK c : c = StoredActive
    OBVIOUS
  <2>2. c \in Active /\ c \in ConsentId /\ c # None
    BY <1>3, <2>1, ReadsRegister
  <2>3. PICK row \in ConsentRow : row = consents[c] /\ row # NoRow
    BY <1>1, <2>2 DEF Active, Kept
  <2>4. PICK step \in {"expire", after} : step = IF c \in lapsed THEN "expire" ELSE after
    OBVIOUS
  <2>5. x = [h EXCEPT !.step = step, !.held = c, !.copy = row]
    BY <1>x, <2>1, <2>2, <2>3, <2>4 DEF Looked
  <2>6. /\ x \in HandlerState /\ x.step = step /\ x.held = c /\ x.copy = row
        /\ x.op = h.op /\ x.alone = h.alone /\ x.scopes = h.scopes /\ x.basis = h.basis
        /\ x.grant = h.grant
    BY <2>2, <2>5 DEF HandlerState
  <2> QED BY <1>x, <1>3, <2>2, <2>3, <2>4, <2>6
<1> QED BY <1>2, <1>3

LEMMA CheckKeeps ==
  ASSUME IInv, NEW q \in Handler, Check(q)
  PROVE  IInv'
<1>h. PICK h : h = handler[q]
  OBVIOUS
<1>1. h \in HandlerState /\ Holding(h) /\ Spoken(h) /\ h.step = "check" /\ StoreInv
  BY <1>h, UnderWay DEF Check, IInv
<1>2. /\ UNCHANGED <<consents, lapsed, grants, tokens, drawn, broken, lastWord>> /\ BasesInv'
      /\ Kept' = Kept /\ Active' = Active
  BY RegisterStays DEF Check, register, provider, bases, history, IInv, BasesInv
<1>3. PICK next \in HandlerState :
         /\ Goes(q, next) /\ (next.alone = h.alone \/ next = Idle) /\ next.step # "replace"
         /\ Holding(next)' /\ Revoking(next)' /\ Spoken(next)' /\ Stands(next)' /\ Reading(next)'
  <2>1. CASE InForce(h.replica, h.basis)
    <3>1. PICK next : next = Looked(h, "write")
      OBVIOUS
    <3>2. /\ next \in HandlerState /\ Goes(q, next)
          /\ next.op = h.op /\ next.alone = h.alone /\ next.scopes = h.scopes
          /\ next.basis = h.basis
          /\ IF Active = {} THEN next.step = "write" /\ next.held = None /\ next.copy = NoRow
             ELSE /\ next.step \in {"expire", "write"} /\ next.held \in Active
                  /\ next.copy = consents[next.held] /\ next.copy # NoRow
      BY <1>h, <1>1, <2>1, <3>1, LookedHolds DEF Check
    <3>3. Holding(next)' /\ Reading(next)'
      BY <1>1, <1>2, <3>2 DEF Holding, Reading, Active
    <3>4. Revoking(next)' /\ Spoken(next)' /\ Stands(next)'
      BY <1>1, <1>2, <3>2 DEF Revoking, Spoken, Stands, Holding
    <3> QED BY <3>2, <3>3, <3>4
  <2>2. CASE ~ InForce(h.replica, h.basis) /\ h.minted
    <3>1. PICK next : next = [h EXCEPT !.step = "undo"]
      OBVIOUS
    <3>2. /\ next \in HandlerState /\ next.op = h.op /\ next.alone = h.alone
          /\ next.step = "undo" /\ next.held = h.held /\ next.copy = h.copy
      BY <1>1, <3>1 DEF HandlerState
    <3>3. Goes(q, next)
      BY <1>h, <2>2, <3>1 DEF Check
    <3>4. Holding(next)' /\ Revoking(next)' /\ Spoken(next)' /\ Stands(next)' /\ Reading(next)'
      BY <1>1, <1>2, <3>2 DEF Holding, Revoking, Spoken, Stands, Reading
    <3> QED BY <3>2, <3>3, <3>4
  <2>3. CASE ~ InForce(h.replica, h.basis) /\ ~ h.minted
    <3>1. Goes(q, Idle)
      BY <1>h, <2>3 DEF Check
    <3> QED BY <3>1, IdleHolds, IdleClaimsNothing DEF Holding
  <2> QED BY <2>1, <2>2, <2>3
<1>4. lastWord.said # "withdrawn"
  BY <1>1 DEF Spoken, Holding
<1>5. WithdrawnInv'
  BY <1>2, <1>4 DEF WithdrawnInv
<1>6. /\ drawn' \in [consents : 0 .. MaxConsents, grants : 0 .. MaxGrants]
      /\ drawn'.consents = drawn.consents /\ (grants \cup tokens)' \subseteq 1 .. drawn'.grants
  BY <1>1, <1>2 DEF StoreInv
<1> QED BY <1>h, <1>1, <1>2, <1>3, <1>5, <1>6, ProviderStepKeeps

\* A step that ends a request with nothing to say, and takes no record up.
LEMMA EndKeeps ==
  ASSUME IInv, NEW q \in Handler, handler[q].step # "idle", handler[q].step # "replace",
         Goes(q, Idle), UNCHANGED <<consents, lapsed, broken, drawn>>, BasesInv',
         (grants \cup tokens)' \subseteq grants \cup tokens,
         lastWord' = lastWord \/ (handler[q].alone /\ lastWord'.said = "withdrawn"),
         WithdrawnInv'
  PROVE  IInv'
<1>1. Holding(Idle)' /\ Revoking(Idle)' /\ Spoken(Idle)' /\ Stands(Idle)' /\ Reading(Idle)'
  BY IdleHolds, IdleClaimsNothing DEF Holding
<1>2. /\ drawn' \in [consents : 0 .. MaxConsents, grants : 0 .. MaxGrants]
      /\ drawn'.consents = drawn.consents /\ (grants \cup tokens)' \subseteq 1 .. drawn'.grants
  BY DEF IInv, StoreInv
<1> QED BY <1>1, <1>2, IdleHolds, ProviderStepKeeps

LEMMA FinishKeeps ==
  ASSUME IInv, NEW q \in Handler, Finish(q)
  PROVE  IInv'
<1>1. /\ handler[q].step = "finish" /\ Goes(q, Idle)
      /\ UNCHANGED <<consents, lapsed, broken, drawn, lastWord, grants>> /\ BasesInv'
      /\ tokens' = IF handler[q].grant \in grants THEN tokens \cup {handler[q].grant} ELSE tokens
  BY DEF Finish, register, bases, history, IInv, BasesInv
<1>2. (grants \cup tokens)' \subseteq grants \cup tokens
  BY <1>1
<1>3. lastWord.said # "withdrawn"
  BY <1>1, UnderWay DEF Holding, Spoken
<1>4. WithdrawnInv'
  BY <1>1, <1>3 DEF WithdrawnInv
<1> QED BY <1>1, <1>2, <1>4, EndKeeps

LEMMA UndoKeeps ==
  ASSUME IInv, NEW q \in Handler, Undo(q)
  PROVE  IInv'
<1>1. /\ handler[q].step = "undo" /\ Goes(q, Idle)
      /\ UNCHANGED <<consents, lapsed, broken, drawn, lastWord, tokens>> /\ BasesInv'
      /\ grants' \subseteq grants
  BY DEF Undo, register, bases, history, IInv, BasesInv
<1>2. Kept' = Kept /\ Governing' = Governing
  BY <1>1, RegisterStays
<1>3. WithdrawnInv'
  BY <1>1, <1>2 DEF IInv, WithdrawnInv
<1>4. (grants \cup tokens)' \subseteq grants \cup tokens
  BY <1>1
<1> QED BY <1>1, <1>3, <1>4, EndKeeps

LEMMA PersistKeeps ==
  ASSUME IInv, NEW q \in Handler, Persist(q)
  PROVE  IInv'
<1>1. /\ handler[q].step = "persist" /\ Goes(q, Idle)
      /\ UNCHANGED <<consents, lapsed, broken, drawn, lastWord, grants, tokens>>
  BY DEF Persist, register, provider, history
<1>2. BasesInv'
  <2>1. handler[q].basis \in Basis
    BY UnderWay DEF HandlerState
  <2> QED BY <2>1 DEF Persist, IInv, BasesInv
<1>3. Kept' = Kept /\ Governing' = Governing
  BY <1>1, RegisterStays
<1>4. WithdrawnInv'
  BY <1>1, <1>3 DEF IInv, WithdrawnInv
<1>5. (grants \cup tokens)' \subseteq grants \cup tokens
  BY <1>1
<1> QED BY <1>1, <1>2, <1>4, <1>5, EndKeeps

LEMMA DestroyKeeps ==
  ASSUME IInv, NEW q \in Handler, DestroyGrant(q)
  PROVE  IInv'
<1>h. PICK h : h = handler[q]
  OBVIOUS
<1>1. h \in HandlerState /\ Holding(h) /\ Revoking(h) /\ Spoken(h) /\ h.step = "destroy"
  BY <1>h, UnderWay DEF DestroyGrant
<1>2. /\ UNCHANGED <<consents, lapsed, broken, drawn, lastWord, tokens>> /\ BasesInv'
      /\ grants' = grants \ {h.grant}
  BY <1>h DEF DestroyGrant, register, bases, history, IInv, BasesInv
<1>3. Kept' = Kept /\ Governing' = Governing
  BY <1>2, RegisterStays
<1>4. PICK next : next = [h EXCEPT !.step = "tokens"]
  OBVIOUS
<1>5. /\ next \in HandlerState /\ next.op = h.op /\ next.alone = h.alone /\ next.step = "tokens"
      /\ next.held = h.held /\ next.copy = h.copy /\ next.grant = h.grant
  BY <1>1, <1>4 DEF HandlerState
<1>6. Goes(q, next)
  BY <1>h, <1>4 DEF DestroyGrant
<1>7. Holding(next)' /\ Stands(next)' /\ Reading(next)'
  BY <1>1, <1>2, <1>3, <1>5 DEF Holding, Stands, Reading
<1>8. Revoking(next)' /\ Spoken(next)'
  BY <1>1, <1>2, <1>5 DEF Revoking, Spoken
<1>9. WithdrawnInv'
  BY <1>2, <1>3 DEF IInv, WithdrawnInv
<1>10. /\ drawn' \in [consents : 0 .. MaxConsents, grants : 0 .. MaxGrants]
       /\ drawn'.consents = drawn.consents /\ (grants \cup tokens)' \subseteq 1 .. drawn'.grants
  BY <1>2 DEF IInv, StoreInv
<1> QED BY <1>h, <1>1, <1>2, <1>5, <1>6, <1>7, <1>8, <1>9, <1>10, ProviderStepKeeps

\* The withdrawal is through: its record is closed, its grant and tokens are gone.
LEMMA TokensKeep ==
  ASSUME IInv, NEW q \in Handler, RevokeTokens(q)
  PROVE  IInv'
<1>h. PICK h : h = handler[q]
  OBVIOUS
<1>1. h \in HandlerState /\ Holding(h) /\ Revoking(h) /\ h.step = "tokens"
  BY <1>h, UnderWay DEF RevokeTokens
<1>2. /\ UNCHANGED <<consents, lapsed, broken, drawn, grants>> /\ BasesInv'
      /\ tokens' = tokens \ {h.grant} /\ Goes(q, Idle) /\ lastWord' = Withdrawal(h)
  BY <1>h DEF RevokeTokens, register, bases, IInv, BasesInv
<1>3. Kept' = Kept /\ Governing' = Governing
  BY <1>2, RegisterStays
<1>4. CASE h.alone /\ h.held = Governing
  <2>1. lastWord'.said = "withdrawn" /\ lastWord'.grant = h.grant
    BY <1>2, <1>4 DEF Withdrawal
  <2>2. Governing \in Kept /\ consents[Governing].status # "active" /\ h.grant \notin grants
    BY <1>1, <1>4, ReadsRegister DEF Holding, Revoking
  <2>3. WithdrawnInv'
    BY <1>2, <1>3, <2>1, <2>2 DEF WithdrawnInv
  <2> QED BY <1>h, <1>1, <1>2, <1>4, <2>1, <2>3, EndKeeps
<1>5. CASE ~ (h.alone /\ h.held = Governing)
  <2>1. lastWord' = lastWord
    BY <1>2, <1>5 DEF Withdrawal
  <2>2. WithdrawnInv'
    BY <1>2, <1>3, <2>1 DEF IInv, WithdrawnInv
  <2> QED BY <1>h, <1>1, <1>2, <2>1, <2>2, EndKeeps
<1> QED BY <1>4, <1>5

----------------------------------------------------------------------------
(* Steps that write the register.                                           *)

LEMMA RegisterStepKeeps ==
  ASSUME IInv, NEW q \in Handler, NEW next \in HandlerState, handler[q].step # "idle",
         Goes(q, next), next.alone = handler[q].alone \/ next = Idle,
         UNCHANGED <<lapsed, provider, bases, broken>>, Grows,
         drawn' \in [consents : 0 .. MaxConsents, grants : 0 .. MaxGrants],
         drawn'.grants = drawn.grants, Kept' \subseteq 1 .. drawn'.consents,
         Holding(next)', Revoking(next)', Spoken(next)', ~ broken => Reading(next)',
         lastWord'.said \in {"nothing", lastWord.said} \/ handler[q].alone,
         lastWord'.said = "withdrawn" =>
           Stands(next)' /\ (handler[q].alone \/ Standing \subseteq Standing'),
         WithdrawnInv', OneActive', AgreementGoverns'
  PROVE  IInv'
<1>1. StoreInv /\ AloneInv /\ HandlersInv /\ BasesInv
  BY DEF IInv
<1>2. broken' = broken /\ lapsed' = lapsed /\ grants' = grants /\ tokens' = tokens
      /\ memory' = memory /\ withdrawn' = withdrawn
  BY DEF provider, bases
<1>3. /\ handler' \in [Handler -> HandlerState]
      /\ (\A p \in Handler : Holding(handler[p]))'
      /\ AloneInv' /\ HandlersInv'
  BY <1>1, <1>2, HandlerMoves
<1>4. BasesInv'
  BY <1>1, <1>2 DEF BasesInv
<1>5. (grants \cup tokens)' \subseteq 1 .. drawn'.grants /\ lapsed' \subseteq Kept'
  BY <1>1, <1>2 DEF StoreInv, Grows
<1>6. StoreInv'
  BY <1>3, <1>5 DEF StoreInv, Grows
<1> QED BY <1>3, <1>4, <1>6 DEF IInv

\* Writing a record back loses none, and keeps its basis.
LEMMA WritingGrows ==
  ASSUME IInv, NEW c \in Kept, NEW row \in ConsentRow, row.basis = consents[c].basis,
         consents' = [consents EXCEPT ![c] = row]
  PROVE  Grows /\ Kept' = Kept
<1>1. StoreInv
  BY DEF IInv
<1>2. /\ consents' \in [ConsentId -> ConsentRow \cup {NoRow}] /\ Kept' = Kept
      /\ consents'[c] = row /\ \A d \in ConsentId : d # c => consents'[d] = consents[d]
  BY <1>1, RecordWritten
<1>3. Kept \subseteq ConsentId
  BY DEF Kept
<1> QED BY <1>2, <1>3 DEF Grows

LEMMA DrawnStays ==
  ASSUME IInv, drawn' = drawn, Kept' = Kept
  PROVE  /\ drawn' \in [consents : 0 .. MaxConsents, grants : 0 .. MaxGrants]
         /\ drawn'.grants = drawn.grants /\ Kept' \subseteq 1 .. drawn'.consents
BY DEF IInv, StoreInv

\* The record findActive had in hand is closed: nothing active is left.
LEMMA ExpireKeeps ==
  ASSUME IInv, NEW q \in Handler, Expire(q)
  PROVE  IInv'
<1>h. PICK h : h = handler[q]
  OBVIOUS
<1>1. /\ h \in HandlerState /\ Holding(h) /\ Spoken(h) /\ h.step = "expire"
      /\ ~ broken => Reading(h)
  BY <1>h, UnderWay DEF Expire
<1>2. /\ h.held \in Kept /\ h.copy # NoRow /\ h.copy \in ConsentRow
      /\ h.copy.basis = consents[h.held].basis /\ h.op \in {"confirm", "record"}
  BY <1>1 DEF Holding, HandlerState
<1>3. PICK row : row = [h.copy EXCEPT !.status = "expired"]
  OBVIOUS
<1>4. row \in ConsentRow /\ row.status = "expired" /\ row.basis = h.copy.basis
  BY <1>2, <1>3 DEF ConsentRow
<1>5. /\ consents' = [consents EXCEPT ![h.held] = row]
      /\ UNCHANGED <<lapsed, provider, drawn, bases, history>>
  BY <1>h, <1>3 DEF Expire
<1>6. Grows /\ Kept' = Kept
  BY <1>2, <1>4, <1>5, WritingGrows
<1>7. PICK step \in {"mint", "write"} :
        step = IF h.op = "confirm" /\ h.grant = None THEN "mint" ELSE "write"
  OBVIOUS
<1>8. PICK next : next = [h EXCEPT !.step = step, !.held = None, !.copy = NoRow]
  OBVIOUS
<1>9. /\ next \in HandlerState /\ next.op = h.op /\ next.step = step /\ next.alone = h.alone
      /\ next.scopes = h.scopes /\ next.held = None /\ next.copy = NoRow
  BY <1>1, <1>7, <1>8 DEF HandlerState
<1>10. Goes(q, next)
  BY <1>h, <1>7, <1>8 DEF Expire
<1>11. lastWord' = lastWord /\ broken' = broken
       /\ lastWord.said # "withdrawn" /\ lastWord.said # "agreed"
  BY <1>1, <1>2, <1>5 DEF history, Spoken
<1>12. Holding(next)' /\ Revoking(next)' /\ Spoken(next)'
  BY <1>1, <1>9, <1>11 DEF Holding, Revoking, Spoken
<1>13. ~ broken => Active' = {}
  <2>1. SUFFICES ASSUME ~ broken PROVE Active' = {}
    OBVIOUS
  <2>2. ~ Replacing
    BY <1>h, <1>1, <1>10, <2>1, NobodyElse DEF IInv
  <2>3. h.held \in Active /\ Active \subseteq {Governing}
    BY <1>1, <1>2, <2>1, <2>2 DEF Reading, Active, IInv, OneActive
  <2>4. Active' = Active \ {h.held}
    BY <1>2, <1>4, <1>5, RecordWritten DEF IInv
  <2> QED BY <2>3, <2>4
<1>14. ~ broken => Reading(next)'
  BY <1>7, <1>9, <1>13 DEF Reading
<1>15. WithdrawnInv' /\ AgreementGoverns'
  BY <1>11 DEF WithdrawnInv, AgreementGoverns
<1>16. OneActive'
  BY <1>11, <1>13 DEF OneActive
<1> QED BY <1>h, <1>1, <1>5, <1>6, <1>9, <1>10, <1>11, <1>12, <1>14, <1>15, <1>16,
           DrawnStays, RegisterStepKeeps

\* A request that has written goes on to finish the sign-in, or is done.
LEMMA AfterHolds ==
  ASSUME NEW h \in HandlerState, Holding(h), Grows, lastWord'.said # "withdrawn"
  PROVE  /\ After(h) \in HandlerState
         /\ After(h).alone = h.alone \/ After(h) = Idle
         /\ After(h).step # "replace"
         /\ Holding(After(h))' /\ Revoking(After(h))' /\ Spoken(After(h))' /\ Reading(After(h))'
<1>1. CASE h.op = "confirm"
  <2>1. PICK next : next = [h EXCEPT !.step = "finish"]
    OBVIOUS
  <2>2. /\ next \in HandlerState /\ next.op = h.op /\ next.step = "finish"
        /\ next.alone = h.alone /\ next.held = h.held /\ next.copy = h.copy
    BY <2>1 DEF HandlerState
  <2>3. Holding(h)'
    BY HoldingStays
  <2>4. Holding(next)'
    BY <1>1, <2>2, <2>3 DEF Holding
  <2>5. Revoking(next)' /\ Spoken(next)' /\ Reading(next)'
    BY <2>2 DEF Revoking, Spoken, Reading
  <2>6. After(h) = next
    BY <1>1, <2>1 DEF After
  <2> QED BY <2>2, <2>4, <2>5, <2>6
<1>2. CASE h.op # "confirm"
  <2>1. After(h) = Idle
    BY <1>2 DEF After
  <2> QED BY <2>1, IdleHolds, IdleClaimsNothing DEF Holding
<1> QED BY <1>1, <1>2

\* What the resident is heard to have agreed to, if anything.
LEMMA HeardAgreed ==
  ASSUME NEW h, lastWord' = Heard(h, Agreed(h))
  PROVE  /\ lastWord'.said \in {"nothing", "agreed"}
         /\ lastWord'.said = "agreed" =>
              h.alone /\ lastWord'.scopes = h.scopes /\ lastWord'.grant = h.grant
BY DEF Heard, Agreed, Silent

LEMMA ReuseKeeps ==
  ASSUME IInv, NEW q \in Handler, Reuse(q)
  PROVE  IInv'
<1>h. PICK h : h = handler[q]
  OBVIOUS
<1>1. /\ h \in HandlerState /\ Holding(h) /\ h.step = "write" /\ Same(h)
      /\ ~ broken => Reading(h)
  BY <1>h, UnderWay DEF Reuse
<1>2. /\ h.held \in Kept /\ h.copy # NoRow /\ h.copy \in ConsentRow
      /\ h.copy.basis = consents[h.held].basis /\ h.copy.scopes = h.scopes
      /\ h.grant \in Grant \cup {None}
  BY <1>1 DEF Holding, HandlerState, Same
<1>3. PICK row : row = AdoptsGrant(h.copy, h.grant)
  OBVIOUS
<1>4. /\ row \in ConsentRow /\ row.status = h.copy.status /\ row.basis = h.copy.basis
      /\ row.scopes = h.copy.scopes /\ (h.grant # None => row.grant = h.grant)
  BY <1>2, <1>3 DEF AdoptsGrant, ConsentRow
<1>5. /\ consents' = IF row = h.copy THEN consents ELSE [consents EXCEPT ![h.held] = row]
      /\ Goes(q, After(h)) /\ lastWord' = Heard(h, Agreed(h))
      /\ UNCHANGED <<lapsed, provider, drawn, bases, broken>>
  BY <1>h, <1>3 DEF Reuse
<1>6. Grows /\ Kept' = Kept
  <2>1. CASE row = h.copy
    BY <1>5, <2>1, RegisterStays DEF Grows, IInv, StoreInv
  <2>2. CASE row # h.copy
    BY <1>2, <1>4, <1>5, <2>2, WritingGrows
  <2> QED BY <2>1, <2>2
<1>7. /\ lastWord'.said \in {"nothing", "agreed"}
      /\ lastWord'.said = "agreed" =>
           h.alone /\ lastWord'.scopes = h.scopes /\ lastWord'.grant = h.grant
  BY <1>5, HeardAgreed
<1>8. ASSUME ~ broken
      PROVE  /\ Active' = {h.held} /\ Governing' = h.held /\ h.held # None
             /\ consents'[h.held] = row /\ row.status = "active"
  <2>1. ~ Replacing
    BY <1>h, <1>1, <1>5, <1>8, NobodyElse DEF IInv
  <2>2. consents[h.held] = h.copy /\ h.copy.status = "active"
    BY <1>1, <1>2, <1>8 DEF Reading
  <2>3. h.held \in Active /\ Active \subseteq {Governing}
    BY <1>2, <1>8, <2>1, <2>2 DEF Active, IInv, OneActive
  <2>4. consents' = [consents EXCEPT ![h.held] = row]
    BY <1>5, <2>2 DEF IInv, StoreInv
  <2>5. /\ consents'[h.held] = row /\ Active' = Active \cup {h.held}
        /\ Standing' = Standing \cup {h.held}
    <3>1. row \in ConsentRow /\ row.status = "active" /\ h.held \in Kept /\ StoreInv
      BY <1>2, <1>4, <2>2 DEF IInv
    <3>2. PICK c \in Kept : c = h.held
      BY <3>1
    <3>3. consents' = [consents EXCEPT ![c] = row]
      BY <2>4, <3>2
    <3> QED BY <3>1, <3>2, <3>3, RecordWritten
  <2>6. Standing' = Standing
    BY <2>3, <2>5, ReadsRegister
  <2>7. Governing = Newest(Standing) /\ None \notin ConsentId /\ Active \subseteq ConsentId
    BY ReadsRegister
  <2>8. Governing' = Newest(Standing')
    BY DEF Governing, Standing
  <2> QED BY <1>4, <2>2, <2>3, <2>5, <2>6, <2>7, <2>8
<1>9. OneActive'
  BY <1>5, <1>8 DEF OneActive
<1>10. AgreementGoverns'
  <2>1. SUFFICES ASSUME lastWord'.said = "agreed", ~ broken'
                 PROVE  /\ Governing' # None
                        /\ consents'[Governing'].status \in {"active", "revoked"}
                        /\ consents'[Governing'].scopes = lastWord'.scopes
                        /\ lastWord'.grant # None => consents'[Governing'].grant = lastWord'.grant
                        /\ {c \in Kept : consents[c].status = "active"}' \subseteq {Governing'}
    BY DEF AgreementGoverns
  <2>2. {c \in Kept : consents[c].status = "active"}' = Active'
    BY DEF Active
  <2> QED BY <1>2, <1>4, <1>5, <1>7, <1>8, <2>1, <2>2
<1>11. WithdrawnInv'
  BY <1>7 DEF WithdrawnInv
<1> QED BY <1>h, <1>1, <1>5, <1>6, <1>7, <1>9, <1>10, <1>11, AfterHolds, DrawnStays,
           RegisterStepKeeps

\* AgreementGoverns, said of the sets the proof speaks of.
LEMMA AgreementIs ==
  /\ AgreementGoverns' <=>
       (lastWord'.said = "agreed" /\ ~ broken' =>
         /\ Governing' # None
         /\ consents'[Governing'].status \in {"active", "revoked"}
         /\ consents'[Governing'].scopes = lastWord'.scopes
         /\ lastWord'.grant # None => consents'[Governing'].grant = lastWord'.grant
         /\ Active' \subseteq {Governing'})
  /\ Governing' = Newest(Standing')
BY DEF AgreementGoverns, Active, Governing, Standing

\* A new record comes after all others, and so it governs.
LEMMA RecordMade ==
  ASSUME IInv, NEW c \in ConsentId, c = drawn.consents + 1, NEW row \in ConsentRow,
         row.status = "active", consents' = [consents EXCEPT ![c] = row]
  PROVE  /\ Grows /\ c \notin Kept /\ Kept' = Kept \cup {c} /\ consents'[c] = row
         /\ \A d \in Kept : consents'[d] = consents[d]
         /\ Active' = Active \cup {c} /\ Governing' = c /\ c # None
<1>1. /\ consents \in [ConsentId -> ConsentRow \cup {NoRow}]
      /\ Kept \subseteq 1 .. drawn.consents /\ drawn.consents \in Nat /\ row # NoRow
  BY NoRowAssumption DEF IInv, StoreInv
<1>2. c \notin Kept
  BY <1>1
<1>3. consents'[c] = row /\ \A d \in ConsentId : d # c => consents'[d] = consents[d]
  BY <1>1
<1>4. \A d \in Kept : d \in ConsentId /\ d # c /\ consents'[d] = consents[d]
  BY <1>2, <1>3 DEF Kept
<1>5. Kept' = Kept \cup {c}
  BY <1>1, <1>3 DEF Kept
<1>6. Grows
  BY <1>1, <1>4, <1>5 DEF Grows
<1>7. Active' = Active \cup {c}
  <2>1. \A d : d \in Active' <=> d \in Kept' /\ consents'[d].status = "active"
    BY DEF Active
  <2>2. \A d : d \in Active <=> d \in Kept /\ consents[d].status = "active"
    BY DEF Active
  <2> QED BY <1>3, <1>4, <1>5, <2>1, <2>2
<1>8. c \in Standing' /\ Standing' \subseteq Kept' /\ Standing' \subseteq ConsentId
  BY <1>3, <1>5 DEF Standing, Kept
<1>9. \A d \in Standing' : d <= c
  <2>1. \A d \in Kept : d <= c
    BY <1>1
  <2> QED BY <1>1, <1>5, <1>8, <2>1
<1>10. PICK ids : ids = Standing'
  OBVIOUS
<1>11. Newest(ids) = c
  BY <1>8, <1>9, <1>10, NewestIs
<1>12. Governing' = c /\ c # None
  BY <1>10, <1>11, ReadsRegister, AgreementIs
<1> QED BY <1>2, <1>3, <1>4, <1>5, <1>6, <1>7, <1>12

LEMMA CreateKeeps ==
  ASSUME IInv, NEW q \in Handler, Create(q)
  PROVE  IInv'
<1>h. PICK h : h = handler[q]
  OBVIOUS
<1>1. /\ h \in HandlerState /\ Holding(h) /\ Spoken(h) /\ h.step = "write"
      /\ ~ broken => Reading(h)
  BY <1>h, UnderWay DEF Create
<1>2. /\ drawn \in [consents : 0 .. MaxConsents, grants : 0 .. MaxGrants]
      /\ Kept \subseteq 1 .. drawn.consents
  BY DEF IInv, StoreInv
<1>3. PICK c : c = drawn.consents + 1
  OBVIOUS
<1>4. PICK row : row = [status |-> "active", scopes |-> h.scopes, basis |-> h.basis,
                        limited |-> h.limited, grant |-> h.grant]
  OBVIOUS
<1>5. /\ c <= MaxConsents /\ drawn' = [drawn EXCEPT !.consents = c]
      /\ consents' = [consents EXCEPT ![c] = row]
      /\ Goes(q, IF h.copy = NoRow THEN After(h) ELSE [h EXCEPT !.step = "replace"])
      /\ lastWord' = IF h.copy = NoRow THEN Heard(h, Agreed(h)) ELSE lastWord
      /\ UNCHANGED <<lapsed, provider, bases, broken>>
  BY <1>h, <1>3, <1>4 DEF Create
<1>6. row \in ConsentRow /\ row.status = "active" /\ row.scopes = h.scopes
      /\ row.grant = h.grant /\ row.basis = h.basis
  <2>1. /\ h.scopes \in Scopes /\ h.basis \in Basis /\ h.limited \in BOOLEAN
        /\ h.grant \in Grant \cup {None}
    BY <1>1 DEF Holding, HandlerState
  <2> QED BY <1>4, <2>1 DEF ConsentRow
<1>7. c \in ConsentId
  BY <1>2, <1>3, <1>5, ConsentAssumption DEF ConsentId
<1>8. /\ Grows /\ c \notin Kept /\ Kept' = Kept \cup {c} /\ consents'[c] = row
      /\ \A d \in Kept : consents'[d] = consents[d]
      /\ Active' = Active \cup {c} /\ Governing' = c /\ c # None
  BY <1>3, <1>5, <1>6, <1>7, RecordMade
<1>9. /\ drawn' \in [consents : 0 .. MaxConsents, grants : 0 .. MaxGrants]
      /\ drawn'.grants = drawn.grants /\ drawn'.consents = c /\ Kept' \subseteq 1 .. drawn'.consents
  <2>1. c \in 0 .. MaxConsents
    BY <1>2, <1>3, <1>5
  <2>2. /\ drawn' \in [consents : 0 .. MaxConsents, grants : 0 .. MaxGrants]
        /\ drawn'.grants = drawn.grants /\ drawn'.consents = c
    BY <1>2, <1>5, <2>1
  <2>3. drawn.consents \in Nat /\ Kept \subseteq 1 .. drawn.consents /\ Kept' = Kept \cup {c}
    BY <1>2, <1>8
  <2>4. Kept' \subseteq 1 .. c
    <3>1. PICK n \in Nat : n = drawn.consents
      BY <2>3
    <3>2. \A d \in 1 .. n : d \in 1 .. n + 1
      OBVIOUS
    <3>3. n + 1 \in 1 .. n + 1
      OBVIOUS
    <3>4. Kept \subseteq 1 .. n /\ c = n + 1
      BY <1>3, <2>3, <3>1
    <3>5. ASSUME NEW d \in Kept' PROVE d \in 1 .. n + 1
      BY <2>3, <3>2, <3>3, <3>4
    <3> QED BY <3>4, <3>5
  <2>5. drawn'.consents = c
    BY <2>2
  <2>6. Kept' \subseteq 1 .. drawn'.consents
    BY <2>4, <2>5, Zenon
  <2> QED BY <2>2, <2>5, <2>6
<1>10. CASE h.copy = NoRow
  <2>1. Goes(q, After(h)) /\ lastWord' = Heard(h, Agreed(h))
    BY <1>5, <1>10
  <2>2. /\ lastWord'.said \in {"nothing", "agreed"}
        /\ lastWord'.said = "agreed" =>
             h.alone /\ lastWord'.scopes = h.scopes /\ lastWord'.grant = h.grant
    BY <2>1, HeardAgreed
  <2>3. ~ broken => Active' = {c}
    BY <1>1, <1>8, <1>10 DEF Reading
  <2>4. OneActive'
    BY <1>5, <1>8, <2>3 DEF OneActive
  <2>5. AgreementGoverns'
    BY <1>5, <1>6, <1>8, <2>2, <2>3, AgreementIs
  <2>6. WithdrawnInv'
    BY <2>2 DEF WithdrawnInv
  <2> QED BY <1>h, <1>1, <1>5, <1>8, <1>9, <2>1, <2>2, <2>4, <2>5, <2>6, AfterHolds,
             RegisterStepKeeps
<1>11. CASE h.copy # NoRow
  <2>1. PICK next : next = [h EXCEPT !.step = "replace"]
    OBVIOUS
  <2>2. /\ next \in HandlerState /\ next.op = h.op /\ next.step = "replace"
        /\ next.alone = h.alone /\ next.held = h.held /\ next.copy = h.copy
        /\ next.scopes = h.scopes /\ next.grant = h.grant
    BY <1>1, <2>1 DEF HandlerState
  <2>3. Goes(q, next) /\ lastWord' = lastWord
    BY <1>5, <1>11, <2>1
  <2>4. lastWord.said # "withdrawn" /\ lastWord.said # "agreed"
    BY <1>1 DEF Spoken, Holding
  <2>5. Holding(h)'
    BY <1>1, <1>8, HoldingStays
  <2>6. Holding(next)' /\ Revoking(next)' /\ Spoken(next)'
    BY <1>1, <1>11, <2>2, <2>3, <2>4, <2>5 DEF Holding, Revoking, Spoken
  <2>7. ~ broken => Reading(next)'
    <3>1. SUFFICES ASSUME ~ broken PROVE Reading(next)'
      OBVIOUS
    <3>2. ~ Replacing
      BY <1>h, <1>1, <2>3, <3>1, NobodyElse DEF IInv
    <3>3. h.held \in Kept /\ h.copy = consents[h.held] /\ h.copy.status = "active"
      BY <1>1, <1>11, <3>1 DEF Holding, Reading
    <3>4. h.held \in Active /\ Active \subseteq {Governing}
      BY <3>1, <3>2, <3>3 DEF Active, IInv, OneActive
    <3>5. Active' = {h.held, c} /\ h.held # c /\ consents'[h.held] = h.copy
      BY <1>8, <3>3, <3>4
    <3> QED BY <1>6, <1>7, <1>8, <1>9, <2>2, <3>3, <3>5 DEF Reading
  <2>8. WithdrawnInv' /\ AgreementGoverns'
    BY <2>3, <2>4 DEF WithdrawnInv, AgreementGoverns
  <2>9. OneActive'
    <3>1. ~ broken => Replacing'
      BY <1>h, <1>1, <2>2, <2>3, NobodyElse DEF IInv
    <3> QED BY <1>5, <3>1 DEF OneActive
  <2> QED BY <1>h, <1>1, <1>5, <1>8, <1>9, <2>2, <2>3, <2>4, <2>6, <2>7, <2>8, <2>9,
             RegisterStepKeeps
<1> QED BY <1>10, <1>11

\* The successor is left, and governs.
LEMMA ReplaceKeeps ==
  ASSUME IInv, NEW q \in Handler, Replace(q)
  PROVE  IInv'
<1>h. PICK h : h = handler[q]
  OBVIOUS
<1>1. /\ h \in HandlerState /\ Holding(h) /\ h.step = "replace" /\ (~ broken => Reading(h))
  BY <1>h, UnderWay DEF Replace
<1>2. /\ h.held \in Kept /\ h.copy # NoRow /\ h.copy \in ConsentRow
      /\ h.copy.basis = consents[h.held].basis
  BY <1>1 DEF Holding, HandlerState
<1>3. PICK row : row = Replaced(h.copy)
  OBVIOUS
<1>4. row \in ConsentRow /\ row.status = "replaced" /\ row.basis = h.copy.basis
  BY <1>2, <1>3 DEF ConsentRow, Replaced
<1>5. /\ consents' = [consents EXCEPT ![h.held] = row]
      /\ Goes(q, After(h)) /\ lastWord' = Heard(h, Agreed(h))
      /\ UNCHANGED <<lapsed, provider, drawn, bases, broken>>
  BY <1>h, <1>3 DEF Replace
<1>6. Grows /\ Kept' = Kept
  BY <1>2, <1>4, <1>5, WritingGrows
<1>7. /\ lastWord'.said \in {"nothing", "agreed"}
      /\ lastWord'.said = "agreed" =>
           h.alone /\ lastWord'.scopes = h.scopes /\ lastWord'.grant = h.grant
  BY <1>5, HeardAgreed
<1>c. PICK c : c = drawn.consents
  OBVIOUS
<1>8. ASSUME ~ broken
      PROVE  /\ Active' = {c} /\ Governing' = c /\ c # None /\ consents'[c] = consents[c]
             /\ consents[c].status = "active"
             /\ consents[c].scopes = h.scopes /\ consents[c].grant = h.grant
  <2>1. /\ Active = {h.held, c} /\ h.held # c /\ c \in ConsentId
        /\ consents[c].scopes = h.scopes /\ consents[c].grant = h.grant
    BY <1>c, <1>1, <1>8 DEF Reading
  <2>2. /\ consents'[c] = consents[c] /\ Active' = Active \ {h.held}
        /\ Standing' = Standing \ {h.held}
    <3>1. StoreInv
      BY DEF IInv
    <3>2. PICK d \in Kept : d = h.held
      BY <1>2
    <3>3. consents' = [consents EXCEPT ![d] = row]
      BY <1>5, <3>2
    <3> QED BY <1>4, <2>1, <3>1, <3>2, <3>3, RecordWritten
  <2>3. c \in Active /\ consents[c].status = "active"
    BY <2>1 DEF Active
  <2>4. c \in Standing' /\ Standing' \subseteq Kept /\ Kept \subseteq ConsentId /\ c # None
    BY <2>1, <2>2, <2>3, ReadsRegister
  <2>5. Kept \subseteq 1 .. c /\ c \in Nat
    BY <1>c DEF IInv, StoreInv
  <2>6. \A d \in Standing' : d <= c
    BY <2>4, <2>5
  <2>7. PICK ids : ids = Standing'
    OBVIOUS
  <2>8. Newest(ids) = c
    BY <2>4, <2>6, <2>7, NewestIs
  <2>9. Governing' = c
    BY <2>7, <2>8, AgreementIs
  <2> QED BY <2>1, <2>2, <2>3, <2>4, <2>9
<1>9. OneActive'
  BY <1>5, <1>8 DEF OneActive
<1>10. AgreementGoverns'
  BY <1>5, <1>7, <1>8, AgreementIs
<1>11. WithdrawnInv'
  BY <1>7 DEF WithdrawnInv
<1> QED BY <1>h, <1>1, <1>5, <1>6, <1>7, <1>9, <1>10, <1>11, AfterHolds, DrawnStays,
           RegisterStepKeeps

\* A withdrawal closes its record where it stands.
LEMMA RevokeKeeps ==
  ASSUME IInv, NEW q \in Handler, Revoke(q)
  PROVE  IInv'
<1>h. PICK h : h = handler[q]
  OBVIOUS
<1>1. /\ h \in HandlerState /\ Holding(h) /\ Spoken(h) /\ h.step = "revoke"
      /\ lastWord.said = "withdrawn" => Stands(h)
      /\ ~ broken => Reading(h)
  BY <1>h, UnderWay DEF Revoke
<1>2. /\ h.held \in Kept /\ h.copy # NoRow /\ h.copy \in ConsentRow /\ h.op = "revoke"
      /\ h.held # None /\ h.copy.basis = consents[h.held].basis
  BY <1>1 DEF Holding, HandlerState
<1>3. PICK row : row = [h.copy EXCEPT !.status = "revoked"]
  OBVIOUS
<1>4. row \in ConsentRow /\ row.status = "revoked" /\ row.basis = h.copy.basis
  BY <1>2, <1>3 DEF ConsentRow
<1>5. /\ consents' = [consents EXCEPT ![h.held] = row]
      /\ Goes(q, IF h.grant = None THEN Idle ELSE [h EXCEPT !.step = "destroy"])
      /\ lastWord' = IF h.grant = None THEN Withdrawal(h) ELSE Silent
      /\ UNCHANGED <<lapsed, provider, drawn, bases, broken>>
  BY <1>h, <1>3 DEF Revoke
<1>6. Grows /\ Kept' = Kept
  BY <1>2, <1>4, <1>5, WritingGrows
<1>7. /\ consents'[h.held] = row /\ Active' = Active \ {h.held}
      /\ Standing' = Standing \cup {h.held}
      /\ \A d \in ConsentId : d # h.held => consents'[d] = consents[d]
  <2>1. StoreInv
    BY DEF IInv
  <2>2. PICK d \in Kept : d = h.held
    BY <1>2
  <2>3. consents' = [consents EXCEPT ![d] = row]
    BY <1>5, <2>2
  <2> QED BY <1>4, <2>1, <2>2, <2>3, RecordWritten
<1>8. h.held \in Standing => Standing' = Standing /\ Governing' = Governing
  <2>1. Governing = Newest(Standing) /\ Governing' = Newest(Standing')
    BY ReadsRegister, AgreementIs
  <2> QED BY <1>7, <2>1
<1>9. h.held = Governing => h.held \in Standing
  BY <1>2, ReadsRegister
<1>10. ~ broken => h.held = Governing /\ h.alone
  <2>1. SUFFICES ASSUME ~ broken PROVE h.held = Governing /\ h.alone
    OBVIOUS
  <2>2. ~ Replacing /\ h.alone
    BY <1>h, <1>1, <1>5, <2>1, NobodyElse DEF IInv
  <2>3. h.copy = consents[h.held] /\ h.copy.status = "active"
    BY <1>1, <1>2, <2>1 DEF Reading
  <2> QED BY <1>2, <2>1, <2>2, <2>3 DEF Active, IInv, OneActive
<1>11. OneActive'
  <2>1. SUFFICES ASSUME ~ broken PROVE Active' \subseteq {Governing'}
    BY <1>5 DEF OneActive
  <2>2. ~ Replacing
    BY <1>h, <1>1, <1>5, <2>1, NobodyElse DEF IInv
  <2>3. Active \subseteq {Governing}
    BY <2>1, <2>2 DEF IInv, OneActive
  <2> QED BY <1>7, <1>8, <1>9, <1>10, <2>1, <2>3
<1>12. CASE h.grant = None
  <2>1. Goes(q, Idle) /\ lastWord' = Withdrawal(h)
    BY <1>5, <1>12
  <2>2. Holding(Idle)' /\ Revoking(Idle)' /\ Spoken(Idle)' /\ Stands(Idle)' /\ Reading(Idle)'
    BY IdleHolds, IdleClaimsNothing DEF Holding
  <2>3. grants' = grants /\ tokens' = tokens
    BY <1>5 DEF provider
  <2>4. CASE h.alone /\ h.held = Governing
    <3>1. lastWord'.said = "withdrawn" /\ lastWord'.grant = None
      BY <1>12, <2>1, <2>4 DEF Withdrawal
    <3>2. None \notin grants \cup tokens
      BY DEF IInv, StoreInv, None
    <3>3. WithdrawnInv'
      BY <1>2, <1>4, <1>6, <1>7, <1>8, <1>9, <2>3, <2>4, <3>1, <3>2 DEF WithdrawnInv
    <3>4. AgreementGoverns'
      BY <3>1 DEF AgreementGoverns
    <3> QED BY <1>h, <1>1, <1>5, <1>6, <1>11, <2>1, <2>2, <2>4, <3>1, <3>3, <3>4, IdleHolds,
               DrawnStays, RegisterStepKeeps
  <2>5. CASE ~ (h.alone /\ h.held = Governing)
    <3>1. lastWord' = lastWord /\ broken
      BY <1>10, <2>1, <2>5 DEF Withdrawal
    <3>2. lastWord.said = "withdrawn" => h.held \in Standing
      BY <1>1 DEF Stands
    <3>3. WithdrawnInv'
      <4>1. SUFFICES ASSUME lastWord.said = "withdrawn"
                     PROVE  /\ Governing' \in Kept'
                            /\ \/ consents'[Governing'].basis = "statute"
                               \/ consents'[Governing'].status # "active"
                            /\ lastWord'.grant \notin (grants \cup tokens)'
        BY <3>1 DEF WithdrawnInv
      <4>2. /\ Governing \in Kept
            /\ consents[Governing].basis = "statute" \/ consents[Governing].status # "active"
            /\ lastWord.grant \notin grants \cup tokens
        BY <4>1 DEF IInv, WithdrawnInv
      <4>3. Governing' = Governing /\ Governing \in ConsentId
        BY <1>8, <3>2, <4>1, <4>2, ReadsRegister
      <4>4. CASE h.held = Governing
        BY <1>4, <1>6, <1>7, <2>3, <3>1, <4>2, <4>3, <4>4
      <4>5. CASE h.held # Governing
        BY <1>6, <1>7, <2>3, <3>1, <4>2, <4>3, <4>5
      <4> QED BY <4>4, <4>5
    <3>4. AgreementGoverns'
      BY <1>5, <3>1 DEF AgreementGoverns
    <3>5. Standing \subseteq Standing'
      BY <1>7
    <3> QED BY <1>h, <1>1, <1>5, <1>6, <1>11, <2>1, <2>2, <3>1, <3>3, <3>4, <3>5, IdleHolds,
               DrawnStays, RegisterStepKeeps
  <2> QED BY <2>4, <2>5
<1>13. CASE h.grant # None
  <2>1. PICK next : next = [h EXCEPT !.step = "destroy"]
    OBVIOUS
  <2>2. /\ next \in HandlerState /\ next.op = h.op /\ next.step = "destroy"
        /\ next.alone = h.alone /\ next.held = h.held /\ next.copy = h.copy
        /\ next.grant = h.grant
    BY <1>1, <2>1 DEF HandlerState
  <2>3. Goes(q, next) /\ lastWord'.said = "nothing"
    BY <1>5, <1>13, <2>1 DEF Silent
  <2>4. Holding(h)'
    BY <1>1, <1>6, HoldingStays
  <2>5. Holding(next)'
    BY <1>1, <1>2, <1>13, <2>2, <2>4 DEF Holding
  <2>6. Revoking(next)' /\ Spoken(next)' /\ Reading(next)'
    BY <1>4, <1>7, <2>2, <2>3 DEF Revoking, Spoken, Reading
  <2>7. WithdrawnInv' /\ AgreementGoverns'
    BY <2>3 DEF WithdrawnInv, AgreementGoverns
  <2> QED BY <1>h, <1>1, <1>5, <1>6, <1>11, <2>2, <2>3, <2>5, <2>6, <2>7, DrawnStays,
             RegisterStepKeeps
<1> QED BY <1>12, <1>13

----------------------------------------------------------------------------
(* Requests.                                                                *)

\* A handler that another overlaps is what it was, but for not being alone.
Eased(g, h) ==
  /\ h.op = g.op /\ h.step = g.step /\ h.scopes = g.scopes /\ h.held = g.held
  /\ h.copy = g.copy /\ h.grant = g.grant
  /\ h.alone => g.alone

LEMMA EasedKeeps ==
  ASSUME NEW g, NEW h, Eased(g, h)
  PROVE  /\ Holding(g)' => Holding(h)'
         /\ Revoking(g)' => Revoking(h)'
         /\ Spoken(g)' => Spoken(h)'
         /\ Stands(g)' => Stands(h)'
         /\ Reading(g)' => Reading(h)'
BY DEF Eased, Holding, Revoking, Spoken, Stands, Reading

\* A request begins, and overlaps whoever is under way.
LEMMA StartIs ==
  ASSUME StoreInv, AloneInv, NEW q \in Handler, NEW r \in Replica,
         NEW request \in HandlerState, request.alone, Start(q, r, request)
  PROVE  /\ handler' \in [Handler -> HandlerState]
         /\ \A p \in Handler : Eased(IF p = q THEN request ELSE handler[p], handler'[p])
         /\ ~ broken' => ~ broken /\ Running = {}
         /\ AloneInv'
         /\ handler[q].step = "idle"
<1>1. handler \in [Handler -> HandlerState] /\ handler[q].step = "idle"
  BY DEF StoreInv, Start
<1>2. CASE Running = {}
  <2>1. PICK next : next = [request EXCEPT !.replica = r]
    OBVIOUS
  <2>2. next \in HandlerState /\ Eased(request, next) /\ next.alone
    BY <2>1 DEF HandlerState, Eased
  <2>3. handler' = [handler EXCEPT ![q] = next] /\ broken' = broken
    BY <1>2, <2>1 DEF Start, Goes
  <2>4. handler'[q] = next /\ \A p \in Handler : p # q => handler'[p] = handler[p]
    BY <1>1, <2>3
  <2>5. \A p \in Handler : handler[p].step = "idle"
    BY <1>2 DEF Running
  <2>6. AloneInv'
    <3>1. \A p, s \in Handler :
            p # s /\ handler'[p].step # "idle" /\ handler'[s].step # "idle" => ~ handler'[p].alone
      BY <2>4, <2>5
    <3>2. ~ broken' => \A p \in Handler : handler'[p].alone
      BY <2>2, <2>3, <2>4 DEF AloneInv
    <3> QED BY <3>1, <3>2 DEF AloneInv
  <2>7. \A p \in Handler : Eased(IF p = q THEN request ELSE handler[p], handler'[p])
    BY <2>2, <2>4 DEF Eased
  <2> QED BY <1>1, <1>2, <2>2, <2>3, <2>6, <2>7
<1>3. CASE Running # {}
  <2>1. PICK next : next = [request EXCEPT !.replica = r, !.alone = FALSE]
    OBVIOUS
  <2>2. next \in HandlerState /\ Eased(request, next) /\ ~ next.alone
    BY <2>1 DEF HandlerState, Eased
  <2>3. /\ broken'
        /\ handler' = [p \in Handler |->
             IF p = q THEN next
             ELSE IF p \in Running THEN [handler[p] EXCEPT !.alone = FALSE]
             ELSE handler[p]]
    BY <1>3, <2>1 DEF Start
  <2>4. ASSUME NEW p \in Handler
        PROVE  /\ handler'[p] \in HandlerState
               /\ Eased(IF p = q THEN request ELSE handler[p], handler'[p])
               /\ handler'[p].step # "idle" => ~ handler'[p].alone
    <3>1. CASE p = q
      BY <2>2, <2>3, <3>1
    <3>2. CASE p # q /\ p \in Running
      <4>1. PICK g \in HandlerState : g = handler[p]
        BY <1>1
      <4>2. handler'[p] = [g EXCEPT !.alone = FALSE]
        BY <2>3, <3>2, <4>1
      <4>3. handler'[p] \in HandlerState /\ Eased(g, handler'[p]) /\ ~ handler'[p].alone
        BY <4>2 DEF HandlerState, Eased
      <4> QED BY <3>2, <4>1, <4>3
    <3>3. CASE p # q /\ p \notin Running
      BY <1>1, <2>3, <3>3 DEF Running, Eased
    <3> QED BY <3>1, <3>2, <3>3
  <2>5. handler' \in [Handler -> HandlerState]
    BY <2>3, <2>4
  <2>6. AloneInv'
    BY <2>3, <2>4 DEF AloneInv
  <2> QED BY <1>1, <2>3, <2>4, <2>5, <2>6
<1> QED BY <1>2, <1>3

LEMMA StartKeeps ==
  ASSUME IInv, NEW q \in Handler, NEW r \in Replica,
         NEW request \in HandlerState, request.alone, Start(q, r, request),
         UNCHANGED <<register, provider, drawn>>, BasesInv',
         Holding(request), request.step # "replace",
         Revoking(request)', Spoken(request)', Stands(request)', ~ broken => Reading(request)',
         lastWord' = lastWord \/ lastWord'.said = "nothing"
  PROVE  IInv'
<1>1. /\ consents' = consents /\ lapsed' = lapsed /\ grants' = grants /\ tokens' = tokens
      /\ drawn' = drawn
  BY DEF register, provider
<1>2. /\ Kept' = Kept /\ Active' = Active /\ Standing' = Standing /\ Governing' = Governing
  BY <1>1, RegisterStays
<1>3. StoreInv /\ AloneInv /\ HandlersInv
  BY DEF IInv
<1>4. /\ handler' \in [Handler -> HandlerState]
      /\ \A p \in Handler : Eased(IF p = q THEN request ELSE handler[p], handler'[p])
      /\ ~ broken' => ~ broken /\ Running = {}
      /\ AloneInv'
      /\ handler[q].step = "idle"
  BY <1>3, StartIs
<1>5. ASSUME NEW p \in Handler
      PROVE  /\ Holding(handler[p])' /\ Revoking(handler[p])' /\ Spoken(handler[p])'
             /\ lastWord'.said = "withdrawn" => Stands(handler[p])'
             /\ ~ broken' => Reading(handler[p])'
  <2>1. PICK g : g = IF p = q THEN request ELSE handler[p]
    OBVIOUS
  <2>2. PICK h : h = handler'[p]
    OBVIOUS
  <2>3. Eased(g, h)
    BY <1>4, <2>1, <2>2
  <2>4. Holding(g)' /\ Revoking(g)' /\ Spoken(g)'
        /\ (lastWord'.said = "withdrawn" => Stands(g)') /\ (~ broken' => Reading(g)')
    <3>1. CASE p = q
      <4>1. g = request
        BY <2>1, <3>1
      <4>2. Holding(g)'
        BY <1>1, <1>2, <4>1 DEF Holding
      <4> QED BY <1>4, <4>1, <4>2
    <3>2. CASE p # q
      <4>1. /\ Holding(g) /\ Revoking(g) /\ Spoken(g)
            /\ (lastWord.said = "withdrawn" => Stands(g)) /\ (~ broken => Reading(g))
        BY <1>3, <2>1, <3>2 DEF StoreInv, HandlersInv
      <4>2. Holding(g)' /\ Revoking(g)'
        BY <1>1, <1>2, <4>1 DEF Holding, Revoking
      <4>3. Spoken(g)' /\ (lastWord'.said = "withdrawn" => Stands(g)')
        BY <1>2, <4>1 DEF Spoken, Stands
      <4>4. ~ broken' => Reading(g)'
        BY <1>1, <1>2, <1>4, <4>1 DEF Reading
      <4> QED BY <4>2, <4>3, <4>4
    <3> QED BY <3>1, <3>2
  <2>5. Holding(h)' /\ Revoking(h)' /\ Spoken(h)'
        /\ (lastWord'.said = "withdrawn" => Stands(h)') /\ (~ broken' => Reading(h)')
    BY <2>3, <2>4, EasedKeeps
  <2> QED BY <2>2, <2>5 DEF Holding, Revoking, Spoken, Stands, Reading
<1>6. StoreInv' /\ HandlersInv'
  BY <1>1, <1>2, <1>3, <1>4, <1>5 DEF StoreInv, HandlersInv
<1>7. WithdrawnInv'
  BY <1>1, <1>2 DEF IInv, WithdrawnInv
<1>8. OneActive'
  <2>1. ~ Replacing' => ~ Replacing
    BY <1>4 DEF Replacing, Eased
  <2> QED BY <1>2, <1>4, <2>1 DEF IInv, OneActive
<1>9. AgreementGoverns'
  <2>1. {c \in Kept : consents[c].status = "active"}' = {c \in Kept : consents[c].status = "active"}
    BY <1>1, <1>2
  <2> QED BY <1>1, <1>2, <1>4, <2>1 DEF IInv, AgreementGoverns
<1> QED BY <1>4, <1>6, <1>7, <1>8, <1>9 DEF IInv

LEMMA RequestConfirmKeeps ==
  ASSUME IInv, NEW q \in Handler, NEW r \in Replica, NEW scopes \in Scopes,
         RequestConfirm(q, r, scopes)
  PROVE  IInv'
<1>1. PICK h : h = [Idle EXCEPT !.op = "confirm", !.scopes = scopes]
  OBVIOUS
<1>2. h \in HandlerState /\ h.op = "confirm" /\ h.scopes = scopes /\ h.alone
  BY <1>1, IdleHolds DEF HandlerState
<1>3. PICK request : request = Looked(h, "mint")
  OBVIOUS
<1>4. StoreInv
  BY DEF IInv
<1>5. /\ request \in HandlerState /\ request.op = "confirm" /\ request.scopes = scopes
      /\ request.alone
      /\ IF Active = {}
         THEN request.step = "mint" /\ request.held = None /\ request.copy = NoRow
         ELSE /\ request.step \in {"expire", "mint"} /\ request.held \in Active
              /\ request.copy = consents[request.held] /\ request.copy # NoRow
  BY <1>2, <1>3, <1>4, LookedHolds
<1>6. /\ Start(q, r, request) /\ UNCHANGED <<register, provider, drawn>>
      /\ lastWord'.said = "nothing"
  BY <1>1, <1>3 DEF RequestConfirm, Silent
<1>7. BasesInv'
  BY DEF RequestConfirm, bases, IInv, BasesInv
<1>8. Holding(request)
  BY <1>5 DEF Holding, Active
<1>9. Revoking(request)' /\ Spoken(request)' /\ Stands(request)'
  BY <1>5, <1>6 DEF Revoking, Spoken, Stands
<1>10. Reading(request)'
  BY <1>5, <1>6 DEF Reading, Active, register
<1>11. request.step # "replace"
  BY <1>5
<1> QED BY <1>5, <1>6, <1>7, <1>8, <1>9, <1>10, <1>11, StartKeeps

LEMMA RequestRecordKeeps ==
  ASSUME IInv, NEW q \in Handler, NEW r \in Replica, NEW said \in Recorded,
         RequestRecord(q, r, said)
  PROVE  IInv'
<1>1. PICK request : request = [Idle EXCEPT !.op = "record", !.step = "check",
                                  !.scopes = said.scopes, !.basis = said.basis,
                                  !.limited = said.limited]
  OBVIOUS
<1>2. said.scopes \in Scopes /\ said.basis \in Basis /\ said.limited \in BOOLEAN
  BY ConsentAssumption
<1>3. /\ request \in HandlerState /\ request.op = "record" /\ request.step = "check"
      /\ request.scopes \in Scopes /\ request.alone /\ request.copy = NoRow
  BY <1>1, <1>2, IdleHolds DEF HandlerState
<1>4. /\ Start(q, r, request) /\ UNCHANGED <<register, provider, drawn>>
      /\ lastWord'.said = "nothing"
  BY <1>1 DEF RequestRecord, Silent
<1>5. BasesInv'
  BY DEF RequestRecord, bases, IInv, BasesInv
<1>6. Holding(request)
  BY <1>3 DEF Holding
<1>7. Revoking(request)' /\ Spoken(request)' /\ Stands(request)' /\ Reading(request)'
  BY <1>3, <1>4 DEF Revoking, Spoken, Stands, Reading
<1> QED BY <1>3, <1>4, <1>5, <1>6, <1>7, StartKeeps

LEMMA RequestRevokeKeeps ==
  ASSUME IInv, NEW q \in Handler, NEW r \in Replica, NEW c \in ConsentId,
         RequestRevoke(q, r, c)
  PROVE  IInv'
<1>1. c \in Kept /\ consents[c] # NoRow /\ consents[c] \in ConsentRow /\ c # None
  BY ReadsRegister DEF RequestRevoke, Kept, IInv, StoreInv
<1>2. PICK row \in ConsentRow : row = consents[c] /\ row # NoRow
  BY <1>1
<1>3. PICK step \in {"revoke", "destroy"} :
        step = IF row.status = "active" THEN "revoke" ELSE "destroy"
  OBVIOUS
<1>4. PICK base : base = [Idle EXCEPT !.op = "revoke", !.held = c, !.copy = row,
                                      !.grant = row.grant]
  OBVIOUS
<1>5. /\ base \in HandlerState /\ base.op = "revoke" /\ base.held = c /\ base.copy = row
      /\ base.grant = row.grant /\ base.alone
  BY <1>4, IdleHolds DEF HandlerState, ConsentRow
<1>6. PICK request : request = [base EXCEPT !.step = step]
  OBVIOUS
<1>7. /\ request \in HandlerState /\ request.op = "revoke" /\ request.step = step
      /\ request.held = c /\ request.copy = row /\ request.grant = row.grant /\ request.alone
  BY <1>5, <1>6 DEF HandlerState
<1>8. /\ Start(q, r, request) /\ UNCHANGED <<register, provider, drawn>> /\ lastWord' = lastWord
      /\ row.status = "active" \/ row.grant # None
  BY <1>2, <1>3, <1>4, <1>6 DEF RequestRevoke
<1>9. BasesInv'
  BY DEF RequestRevoke, bases, IInv, BasesInv
<1>10. Holding(request)
  BY <1>1, <1>2, <1>3, <1>7, <1>8 DEF Holding
<1>11. consents' = consents /\ Standing' = Standing
  BY <1>8, RegisterStays DEF register
<1>12. Revoking(request)' /\ Reading(request)'
  BY <1>2, <1>3, <1>7, <1>11 DEF Revoking, Reading
<1>13. Spoken(request)'
  BY <1>7 DEF Spoken
<1>14. Stands(request)'
  BY <1>1, <1>2, <1>3, <1>7, <1>11 DEF Stands, Standing
<1> QED BY <1>3, <1>7, <1>8, <1>9, <1>10, <1>12, <1>13, <1>14, StartKeeps

LEMMA RequestDeactivateKeeps ==
  ASSUME IInv, NEW q \in Handler, NEW r \in Replica, NEW b \in Repealable,
         RequestDeactivate(q, r, b)
  PROVE  IInv'
<1>1. b \in Basis
  BY ConsentAssumption
<1>2. PICK request : request = [Idle EXCEPT !.op = "deactivate", !.step = "persist", !.basis = b]
  OBVIOUS
<1>3. /\ request \in HandlerState /\ request.op = "deactivate" /\ request.step = "persist"
      /\ request.alone /\ request.copy = NoRow
  BY <1>1, <1>2, IdleHolds DEF HandlerState
<1>4. /\ Start(q, r, request) /\ UNCHANGED <<register, provider, drawn>> /\ lastWord' = lastWord
      /\ memory' = [memory EXCEPT ![r] = @ \cup {b}] /\ withdrawn' = withdrawn
  BY <1>2 DEF RequestDeactivate
<1>5. BasesInv'
  <2>1. memory \in [Replica -> SUBSET Basis] /\ withdrawn \subseteq Basis
    BY DEF IInv, BasesInv
  <2>2. memory[r] \cup {b} \in SUBSET Basis
    BY <1>1, <2>1
  <2> QED BY <1>4, <2>1, <2>2 DEF BasesInv
<1>6. Holding(request)
  BY <1>3 DEF Holding
<1>7. Revoking(request)' /\ Spoken(request)' /\ Stands(request)' /\ Reading(request)'
  BY <1>3 DEF Revoking, Spoken, Stands, Reading
<1> QED BY <1>3, <1>4, <1>5, <1>6, <1>7, StartKeeps

----------------------------------------------------------------------------
(* The world.                                                               *)

LEMMA LapseKeeps ==
  ASSUME IInv, NEW c \in ConsentId, Lapse(c)
  PROVE  IInv'
<1>1. /\ UNCHANGED <<consents, grants, tokens, drawn, memory, withdrawn, handler, lastWord, broken>>
      /\ lapsed' = lapsed \cup {c} /\ c \in Kept
  BY DEF Lapse, provider, bases, history
<1>2. /\ Kept' = Kept /\ Active' = Active /\ Standing' = Standing /\ Governing' = Governing
  BY <1>1, RegisterStays
<1>3. StoreInv' /\ BasesInv' /\ AloneInv'
  BY <1>1, <1>2 DEF IInv, StoreInv, BasesInv, AloneInv, Holding
<1>4. HandlersInv'
  BY <1>1, <1>2 DEF IInv, HandlersInv, Revoking, Spoken, Stands, Reading
<1>5. WithdrawnInv' /\ OneActive'
  BY <1>1, <1>2 DEF IInv, WithdrawnInv, OneActive, Replacing
<1>6. AgreementGoverns'
  BY <1>1, <1>2 DEF IInv, AgreementGoverns
<1> QED BY <1>3, <1>4, <1>5, <1>6 DEF IInv

\* A process that goes down takes its handlers with it; what is written stays.
LEMMA RestartKeeps ==
  ASSUME IInv, NEW r \in Replica, Restart(r)
  PROVE  IInv'
<1>1. /\ UNCHANGED <<consents, lapsed, grants, tokens, drawn, withdrawn, lastWord>>
      /\ memory' = [memory EXCEPT ![r] = withdrawn]
      /\ broken' = (broken \/ \E q \in Running : handler[q].replica = r)
      /\ handler' = [q \in Handler |-> IF handler[q].replica = r THEN Idle ELSE handler[q]]
  BY DEF Restart, register, provider
<1>2. /\ Kept' = Kept /\ Active' = Active /\ Standing' = Standing /\ Governing' = Governing
  BY <1>1, RegisterStays
<1>3. \A p \in Handler : handler'[p] = Idle \/ handler'[p] = handler[p]
  BY <1>1
<1>4. ~ broken' => ~ broken /\ \A p \in Handler : handler[p].step = "idle" \/ handler[p].replica # r
  BY <1>1 DEF Running
<1>5. ASSUME NEW p \in Handler
      PROVE  /\ handler'[p] \in HandlerState /\ Holding(handler[p])'
             /\ Revoking(handler[p])' /\ Spoken(handler[p])'
             /\ lastWord'.said = "withdrawn" => Stands(handler[p])'
             /\ ~ broken' => Reading(handler[p])'
  <2>1. PICK h : h = handler'[p]
    OBVIOUS
  <2>2. /\ h \in HandlerState /\ Holding(h)' /\ Revoking(h)' /\ Spoken(h)'
        /\ (lastWord'.said = "withdrawn" => Stands(h)') /\ (~ broken' => Reading(h)')
    <3>1. CASE h = Idle
      BY <3>1, IdleHolds, IdleClaimsNothing DEF Holding
    <3>2. CASE h = handler[p]
      <4>1. /\ h \in HandlerState /\ Holding(h) /\ Revoking(h) /\ Spoken(h)
            /\ (lastWord.said = "withdrawn" => Stands(h)) /\ (~ broken => Reading(h))
        BY <3>2, UnderWay
      <4>2. Holding(h)' /\ Revoking(h)' /\ Spoken(h)'
        BY <1>1, <1>2, <4>1 DEF Holding, Revoking, Spoken
      <4>3. (lastWord'.said = "withdrawn" => Stands(h)') /\ (~ broken' => Reading(h)')
        BY <1>1, <1>2, <1>4, <4>1 DEF Stands, Reading
      <4> QED BY <4>1, <4>2, <4>3
    <3> QED BY <1>3, <2>1, <3>1, <3>2
  <2> QED BY <2>1, <2>2 DEF Holding, Revoking, Spoken, Stands, Reading
<1>6. handler' \in [Handler -> HandlerState]
  BY <1>1, <1>5
<1>7. StoreInv' /\ HandlersInv'
  BY <1>1, <1>2, <1>5, <1>6 DEF IInv, StoreInv, HandlersInv
<1>8. BasesInv'
  BY <1>1 DEF IInv, BasesInv
<1>9. AloneInv'
  BY <1>3, <1>4, IdleHolds DEF IInv, AloneInv
<1>10. OneActive'
  <2>1. ~ broken' /\ ~ Replacing' => ~ Replacing
    BY <1>1, <1>4 DEF Replacing
  <2> QED BY <1>2, <1>4, <2>1 DEF IInv, OneActive
<1>11. WithdrawnInv'
  BY <1>1, <1>2 DEF IInv, WithdrawnInv
<1>12. AgreementGoverns'
  <2>1. {c \in Kept : consents[c].status = "active"}' = {c \in Kept : consents[c].status = "active"}
    BY <1>1, <1>2
  <2> QED BY <1>1, <1>2, <1>4, <2>1 DEF IInv, AgreementGoverns
<1> QED BY <1>7, <1>8, <1>9, <1>10, <1>11, <1>12 DEF IInv

----------------------------------------------------------------------------

LEMMA InvInit == Init => IInv
<1> SUFFICES ASSUME Init PROVE IInv
  OBVIOUS
<1>1. Kept = {} /\ Active = {}
  BY DEF Init, Kept, Active
<1>2. \A p \in Handler : handler[p] = Idle
  BY DEF Init
<1>3. StoreInv
  <2>1. drawn \in [consents : 0 .. MaxConsents, grants : 0 .. MaxGrants]
    BY ConsentAssumption DEF Init
  <2>2. handler \in [Handler -> HandlerState]
    BY IdleHolds DEF Init
  <2> QED BY <1>1, <1>2, <2>1, <2>2, IdleHolds DEF Init, StoreInv
<1>4. BasesInv /\ WithdrawnInv /\ AgreementGoverns
  BY DEF Init, BasesInv, WithdrawnInv, AgreementGoverns, Silent
<1>5. AloneInv
  BY <1>2, IdleHolds DEF AloneInv
<1>6. HandlersInv
  BY <1>2, IdleHolds DEF HandlersInv, Revoking, Spoken, Stands, Reading
<1>7. OneActive
  BY <1>1 DEF OneActive
<1> QED BY <1>3, <1>4, <1>5, <1>6, <1>7 DEF IInv

LEMMA InvNext == IInv /\ [Next]_vars => IInv'
<1> SUFFICES ASSUME IInv, [Next]_vars PROVE IInv'
  OBVIOUS
<1>1. ASSUME NEW q \in Handler, NEW r \in Replica,
             \/ \E scopes \in Scopes : RequestConfirm(q, r, scopes)
             \/ \E said \in Recorded : RequestRecord(q, r, said)
             \/ \E c \in ConsentId : RequestRevoke(q, r, c)
             \/ \E b \in Repealable : RequestDeactivate(q, r, b)
      PROVE  IInv'
  BY <1>1, RequestConfirmKeeps, RequestRecordKeeps, RequestRevokeKeeps, RequestDeactivateKeeps
<1>2. ASSUME NEW q \in Handler,
             \/ Expire(q) \/ Mint(q) \/ Check(q) \/ Reuse(q) \/ Create(q) \/ Replace(q)
             \/ Finish(q) \/ Undo(q) \/ Revoke(q) \/ DestroyGrant(q) \/ RevokeTokens(q)
             \/ Persist(q)
      PROVE  IInv'
  BY <1>2, ExpireKeeps, MintKeeps, CheckKeeps, ReuseKeeps, CreateKeeps, ReplaceKeeps, FinishKeeps,
     UndoKeeps, RevokeKeeps, DestroyKeeps, TokensKeep, PersistKeeps
<1>3. CASE \E c \in ConsentId : Lapse(c)
  BY <1>3, LapseKeeps
<1>4. CASE \E r \in Replica : Restart(r)
  BY <1>4, RestartKeeps
<1>5. CASE UNCHANGED vars
  <2>1. /\ UNCHANGED <<consents, lapsed, grants, tokens, drawn, memory, withdrawn, handler,
                       lastWord, broken>>
    BY <1>5 DEF vars, register, provider, bases, history
  <2>2. /\ Kept' = Kept /\ Active' = Active /\ Standing' = Standing /\ Governing' = Governing
    BY <2>1, RegisterStays
  <2>3. StoreInv' /\ BasesInv' /\ AloneInv'
    BY <2>1, <2>2 DEF IInv, StoreInv, BasesInv, AloneInv, Holding
  <2>4. HandlersInv'
    BY <2>1, <2>2 DEF IInv, HandlersInv, Revoking, Spoken, Stands, Reading
  <2>5. WithdrawnInv' /\ OneActive' /\ AgreementGoverns'
    BY <2>1, <2>2 DEF IInv, WithdrawnInv, OneActive, Replacing, AgreementGoverns
  <2> QED BY <2>3, <2>4, <2>5 DEF IInv
<1> QED BY <1>1, <1>2, <1>3, <1>4, <1>5 DEF Next

LEMMA Invariance == Spec => []IInv
<1> QED BY InvInit, InvNext, PTL DEF Spec

\* The register, the grants and the bases are as declared, and no token is live
\* under a grant that was never minted (consent.ts, legal-basis.ts).
THEOREM TypeCorrect == Spec => []TypeOK
<1>1. IInv => TypeOK
  BY DEF IInv, StoreInv, BasesInv, TypeOK
<1> QED BY <1>1, Invariance, PTL

\* Once a withdrawal is through, no replica releases a claim on the strength of
\* consent, and the session it was given for is over, until the resident is asked
\* again (revoke, mayProcess, findAccount).
THEOREM WithdrawalIsHeard == Spec => []WithdrawalStops
<1>1. ASSUME IInv PROVE WithdrawalStops
  <2>1. SUFFICES ASSUME lastWord.said = "withdrawn"
                 PROVE  /\ \A r \in Replica : Releases(r) => consents[Governing].basis = "statute"
                        /\ lastWord.grant \notin grants \cup tokens
    BY DEF WithdrawalStops
  <2>2. /\ Governing \in Kept
        /\ consents[Governing].basis = "statute" \/ consents[Governing].status # "active"
        /\ lastWord.grant \notin grants \cup tokens
    BY <1>1, <2>1 DEF IInv, WithdrawnInv
  <2>3. consents[Governing].basis \in Basis
    BY <1>1, <2>2 DEF IInv, StoreInv, Kept, ConsentRow
  <2> QED BY <2>2, <2>3 DEF Releases, MayProcess, Basis
<1> QED BY <1>1, Invariance, PTL

\* What the resident agreed to last is what governs, alone, and names the session's
\* grant, as long as requests come one at a time (grant, findActive, governing).
THEOREM AgreementIsHeard == Spec => []AgreementGoverns
<1>1. IInv => AgreementGoverns
  BY DEF IInv
<1> QED BY <1>1, Invariance, PTL

=============================================================================
