---------------------------- MODULE Oid4vciProofs ----------------------------
(***************************************************************************)
(* Theorems about issuance to wallets, for any number of handlers, offers   *)
(* and nonces.                                                              *)
(***************************************************************************)
EXTENDS Oid4vci, TLAPS

\* What a handler holds at each step, when `made` are the offers there are.
Holding(h, made) ==
  /\ h.step \in {"find", "count", "redeem", "proof", "resident", "mint"} \/ h.op = "token"
       => h.offer \in made
  /\ h.step \in {"find", "count", "redeem"} => h.op = "token"
  /\ h.step \in {"count", "redeem"} => h.copy \in OfferRecord
  /\ h.step = "proof" => h.proofs # <<>>

HandlerHolds ==
  /\ bearers \subseteq Made
  /\ \A p \in Handler : Holding(handler[p], Made)

TypeInv == TypeOK /\ HandlerHolds

\* A nonce is in the store, or with the one request that consumed it, or has
\* served, or is gone: never two of these.
NonceInv ==
  /\ \A n \in Nonce : n \in nonces \/ n \notin issued => served[n] = 0
  /\ \A p \in Handler : \A n \in handler[p].paid :
       n \in issued \ nonces /\ served[n] = 0
  /\ \A p, q \in Handler : p # q => handler[p].paid \cap handler[q].paid = {}
  /\ nonces \subseteq issued
  /\ NonceServesOnce

\* The handler that read o and has not written it.
Writes(p, o) == handler[p].offer = o /\ handler[p].step \in {"count", "redeem"}

\* The handler that spent o and has not answered.
Spent(p, o) ==
  handler[p].offer = o /\ handler[p].op = "token" /\ handler[p].step = "nonce"

\* While nobody raced for o, the copy a handler holds is the row but for its
\* own change, at most one handler has spent the code, and the counter is the
\* number of wrong codes answered.
OneAtATime(o) ==
  /\ \A p, q \in Handler : Writes(p, o) /\ Writes(q, o) => p = q
  /\ \A p \in Handler : Writes(p, o) =>
       /\ ~offers[o].redeemed
       /\ offers[o].failed < MaxAttempts
       /\ handler[p].step = "count" =>
            /\ handler[p].copy.redeemed = FALSE
            /\ handler[p].copy.failed = offers[o].failed + 1
       /\ handler[p].step = "redeem" => handler[p].copy.failed = offers[o].failed
  /\ \A p \in Handler : handler[p].offer = o /\ handler[p].step = "redeem"
       => handler[p].copy.redeemed = TRUE
  /\ \A p, q \in Handler : Spent(p, o) /\ Spent(q, o) => p = q
  /\ \A p \in Handler : Spent(p, o) => offers[o].redeemed /\ tokens[o] = 0
  /\ o \notin Made => tokens[o] = 0 /\ wrong[o] = 0
  /\ o \in Made => /\ ~offers[o].redeemed => tokens[o] = 0
                   /\ offers[o].failed = wrong[o]
  /\ tokens[o] <= 1
  /\ wrong[o] <= MaxAttempts

RaceInv == \A o \in Offer : raced[o] \/ OneAtATime(o)

----------------------------------------------------------------------------
(* Types.                                                                   *)

LEMMA IdleType == Idle \in HandlerState /\ \A made : Holding(Idle, made)
BY DEF Idle, HandlerState, Holding

LEMMA TypeInit == Init => TypeInv
<1> SUFFICES ASSUME Init PROVE TypeInv
  OBVIOUS
<1>1. TypeOK
  BY IdleType DEF Init, TypeOK
<1>2. HandlerHolds
  BY IdleType DEF Init, HandlerHolds
<1> QED BY <1>1, <1>2 DEF TypeInv

\* The batches of a request are sequences of proofs, none of them empty.
LEMMA BatchType ==
  ASSUME NEW proofs \in Batch
  PROVE  proofs \in Seq(Proof) /\ proofs # <<>>
<1>1. PICK k \in 1 .. MaxBatch : proofs \in [1 .. k -> Proof]
  BY DEF Batch
<1>2. k \in Nat /\ k # 0
  BY <1>1, Oid4vciAssumption
<1>3. proofs \in Seq(Proof)
  BY <1>1, <1>2
<1>4. 1 \in DOMAIN proofs
  BY <1>1, <1>2
<1> QED BY <1>3, <1>4

\* updateOffer keeps the row a row.
LEMMA UpdatedType ==
  ASSUME NEW offer \in OfferRecord, NEW copy \in OfferRecord
  PROVE  Updated(offer, copy) \in OfferRecord
BY DEF Updated, OfferRecord

\* A step of one handler that loses no offer, and leaves it holding what its
\* next step needs, keeps the invariant for the others as well.
LEMMA HandlerMoves ==
  ASSUME TypeInv, NEW p \in Handler, NEW next \in HandlerState, Goes(p, next),
         Made \subseteq Made', Holding(next, Made')
  PROVE  /\ handler' \in [Handler -> HandlerState]
         /\ \A q \in Handler : Holding(handler'[q], Made')
<1>1. handler' \in [Handler -> HandlerState]
  BY DEF Goes, TypeInv, TypeOK
<1>2. ASSUME NEW q \in Handler PROVE Holding(handler'[q], Made')
  <2>1. CASE q = p
    <3>1. handler'[q] = next
      BY <2>1 DEF Goes, TypeInv, TypeOK
    <3> QED BY <3>1
  <2>2. CASE q # p
    <3>1. handler'[q] = handler[q]
      BY <2>2 DEF Goes, TypeInv, TypeOK
    <3>2. Holding(handler[q], Made)
      BY DEF TypeInv, HandlerHolds
    <3> QED BY <3>1, <3>2 DEF Holding
  <2> QED BY <2>1, <2>2
<1> QED BY <1>1, <1>2

LEMMA RequestType ==
  ASSUME TypeInv, NEW p \in Handler, Request(p)
  PROVE  TypeInv'
<1>0. UNCHANGED <<offers, nonces, bearers, restricted, collected, history>>
  BY DEF Request, RequestToken, RequestNonce, RequestCredential
<1>m. Made' = Made /\ bearers \subseteq Made /\ Made \subseteq Offer
  BY <1>0 DEF Made, TypeInv, HandlerHolds
<1> SUFFICES /\ handler' \in [Handler -> HandlerState]
             /\ \A q \in Handler : Holding(handler'[q], Made')
  BY <1>0, <1>m DEF history, TypeInv, TypeOK, HandlerHolds
<1>1. ASSUME NEW o \in Made, NEW right \in BOOLEAN, RequestToken(p, o, right)
      PROVE  /\ handler' \in [Handler -> HandlerState]
             /\ \A q \in Handler : Holding(handler'[q], Made')
  <2> DEFINE next == [Idle EXCEPT !.step = "find", !.op = "token", !.offer = o, !.right = right]
  <2>1. next \in HandlerState
    BY <1>m, IdleType DEF HandlerState
  <2>2. next.step = "find" /\ next.op = "token" /\ next.offer = o
    BY DEF Idle
  <2>3. Holding(next, Made')
    BY <1>m, <2>2 DEF Holding
  <2> QED BY <1>1, <1>m, <2>1, <2>3, HandlerMoves DEF RequestToken
<1>2. ASSUME RequestNonce(p)
      PROVE  /\ handler' \in [Handler -> HandlerState]
             /\ \A q \in Handler : Holding(handler'[q], Made')
  <2> DEFINE next == [Idle EXCEPT !.step = "nonce", !.op = "nonce"]
  <2>1. next \in HandlerState
    BY IdleType DEF HandlerState
  <2>2. next.step = "nonce" /\ next.op = "nonce"
    BY DEF Idle
  <2>3. Holding(next, Made')
    BY <2>2 DEF Holding
  <2> QED BY <1>2, <1>m, <2>1, <2>3, HandlerMoves DEF RequestNonce
<1>3. ASSUME NEW o \in bearers, NEW proofs \in Batch, NEW final \in BOOLEAN,
             RequestCredential(p, o, proofs, final)
      PROVE  /\ handler' \in [Handler -> HandlerState]
             /\ \A q \in Handler : Holding(handler'[q], Made')
  <2> DEFINE next == [Idle EXCEPT !.step = "proof", !.op = "credential", !.offer = o,
                                  !.proofs = proofs, !.final = final]
  <2>1. proofs \in Seq(Proof) /\ proofs # <<>>
    BY BatchType
  <2>2. next \in HandlerState /\ Holding(next, Made')
    BY <1>m, <2>1 DEF Idle, HandlerState, Holding
  <2> QED BY <1>3, <1>m, <2>2, HandlerMoves DEF RequestCredential
<1> QED BY <1>1, <1>2, <1>3 DEF Request

LEMMA TokenType ==
  ASSUME TypeInv, NEW p \in Handler, FindOffer(p) \/ CountGuess(p) \/ RedeemOffer(p)
  PROVE  TypeInv'
<1> DEFINE h == handler[p]
<1>h. h \in HandlerState /\ Holding(h, Made)
  BY DEF TypeInv, TypeOK, HandlerHolds
<1>o. h.offer \in Made /\ h.offer \in Offer /\ offers[h.offer] \in OfferRecord
  <2>1. h.offer \in Made
    BY <1>h DEF FindOffer, CountGuess, RedeemOffer, Holding
  <2> QED BY <2>1 DEF Made, TypeInv, TypeOK
<1>1. CASE FindOffer(p)
  <2>m. Made' = Made
    BY <1>1 DEF FindOffer, Made
  <2>1. raced' \in [Offer -> BOOLEAN]
    <3>1. CASE UNCHANGED raced
      BY <3>1 DEF TypeInv, TypeOK
    <3>2. CASE raced' = [raced EXCEPT ![h.offer] = @ \/ Held(p, h.offer)]
      <4>1. (raced[h.offer] \/ Held(p, h.offer)) \in BOOLEAN
        BY <1>o DEF Held, TypeInv, TypeOK
      <4> QED BY <3>2, <4>1 DEF TypeInv, TypeOK
    <3> QED BY <1>1, <3>1, <3>2 DEF FindOffer
  <2>2. /\ handler' \in [Handler -> HandlerState]
        /\ \A q \in Handler : Holding(handler'[q], Made')
    <3>1. CASE Finishes(p)
      BY <3>1, <2>m, IdleType, HandlerMoves DEF Finishes
    <3>2. CASE Goes(p, [h EXCEPT !.step = "redeem",
                                 !.copy = [offers[h.offer] EXCEPT !.redeemed = TRUE]])
      <4> DEFINE copy == [offers[h.offer] EXCEPT !.redeemed = TRUE]
                 next == [h EXCEPT !.step = "redeem", !.copy = copy]
      <4>1. copy \in OfferRecord
        BY <1>o DEF OfferRecord
      <4>2. next \in HandlerState /\ Holding(next, Made')
        <5> HIDE DEF copy
        <5> QED BY <1>h, <1>1, <1>o, <2>m, <4>1 DEF HandlerState, Holding, FindOffer
      <4> QED BY <3>2, <2>m, <4>2, HandlerMoves
    <3>3. CASE Goes(p, [h EXCEPT !.step = "count",
                                 !.copy = [offers[h.offer] EXCEPT !.failed = Counted(@)]])
      <4> DEFINE copy == [offers[h.offer] EXCEPT !.failed = Counted(@)]
                 next == [h EXCEPT !.step = "count", !.copy = copy]
      <4>1. copy \in OfferRecord
        BY <1>o DEF OfferRecord, Counted
      <4>2. next \in HandlerState /\ Holding(next, Made')
        <5> HIDE DEF copy
        <5> QED BY <1>h, <1>1, <1>o, <2>m, <4>1 DEF HandlerState, Holding, FindOffer
      <4> QED BY <3>3, <2>m, <4>2, HandlerMoves
    <3> QED BY <1>1, <3>1, <3>2, <3>3 DEF FindOffer
  <2> QED BY <1>1, <2>m, <2>1, <2>2 DEF FindOffer, TypeInv, TypeOK, HandlerHolds
<1>2. ASSUME CountGuess(p) \/ RedeemOffer(p), UpdateOffer(p)
      PROVE  offers' \in [Offer -> OfferRecord \cup {NoOffer}] /\ Made' = Made
  <2>1. h.copy \in OfferRecord
    BY <1>h, <1>2 DEF CountGuess, RedeemOffer, Holding
  <2>2. Updated(offers[h.offer], h.copy) \in OfferRecord
    BY <1>o, <2>1, UpdatedType
  <2> QED BY <1>2, <1>o, <2>2, Oid4vciAssumption DEF UpdateOffer, Made, TypeInv, TypeOK
<1>3. CASE CountGuess(p)
  <2>1. offers' \in [Offer -> OfferRecord \cup {NoOffer}] /\ Made' = Made
    BY <1>2, <1>3 DEF CountGuess
  <2>2. /\ handler' \in [Handler -> HandlerState]
        /\ \A q \in Handler : Holding(handler'[q], Made')
    BY <1>3, <2>1, IdleType, HandlerMoves DEF CountGuess, Finishes
  <2>3. wrong' \in [Offer -> Nat]
    BY <1>3, <1>o DEF CountGuess, TypeInv, TypeOK
  <2> QED BY <1>3, <2>1, <2>2, <2>3 DEF CountGuess, TypeInv, TypeOK, HandlerHolds
<1>4. CASE RedeemOffer(p)
  <2>1. offers' \in [Offer -> OfferRecord \cup {NoOffer}] /\ Made' = Made
    BY <1>2, <1>4 DEF RedeemOffer
  <2> DEFINE next == [h EXCEPT !.step = "nonce", !.copy = NoOffer]
  <2>2. next \in HandlerState /\ Holding(next, Made')
    BY <1>h, <1>o, <2>1 DEF HandlerState, Holding
  <2>3. /\ handler' \in [Handler -> HandlerState]
        /\ \A q \in Handler : Holding(handler'[q], Made')
    BY <1>4, <2>1, <2>2, HandlerMoves DEF RedeemOffer
  <2> QED BY <1>4, <2>1, <2>3 DEF RedeemOffer, history, TypeInv, TypeOK, HandlerHolds
<1> QED BY <1>1, <1>3, <1>4

LEMMA CredentialType ==
  ASSUME TypeInv, NEW p \in Handler,
         MintNonce(p) \/ VerifyProof(p) \/ CheckResident(p) \/ MintForHolders(p)
  PROVE  TypeInv'
<1> DEFINE h == handler[p]
<1>h. h \in HandlerState /\ Holding(h, Made)
  BY DEF TypeInv, TypeOK, HandlerHolds
<1>m. offers' = offers /\ Made' = Made /\ Made \subseteq Offer
  BY DEF MintNonce, VerifyProof, CheckResident, MintForHolders, Made
<1>f. ASSUME Finishes(p)
      PROVE  /\ handler' \in [Handler -> HandlerState]
             /\ \A q \in Handler : Holding(handler'[q], Made')
  BY <1>f, <1>m, IdleType, HandlerMoves DEF Finishes
<1>1. CASE MintNonce(p)
  <2>1. h.op = "token" => h.offer \in Made
    BY <1>h DEF Holding
  <2>2. /\ bearers' \subseteq Made'
        /\ tokens' \in [Offer -> Nat]
    BY <1>1, <1>m, <2>1 DEF MintNonce, TypeInv, TypeOK, HandlerHolds
  <2>3. nonces' \subseteq Nonce /\ issued' \subseteq Nonce
    BY <1>1 DEF MintNonce, Fresh, TypeInv, TypeOK
  <2>4. Finishes(p)
    BY <1>1 DEF MintNonce
  <2> QED BY <1>1, <1>m, <1>f, <2>2, <2>3, <2>4 DEF MintNonce, TypeInv, TypeOK, HandlerHolds
<1>2. CASE VerifyProof(p)
  <2>1. h.step = "proof" /\ h.proofs # <<>> /\ h.proofs \in Seq(Proof) /\ h.offer \in Made
    BY <1>h, <1>2 DEF VerifyProof, Holding, HandlerState
  <2>2. Head(h.proofs) \in Proof /\ Tail(h.proofs) \in Seq(Proof)
    BY <2>1
  <2> DEFINE rest == Tail(h.proofs)
             next == [h EXCEPT !.step = IF rest = <<>> THEN "resident" ELSE "proof",
                               !.proofs = rest, !.paid = @ \cup {Head(h.proofs).nonce}]
  <2>3. next \in HandlerState /\ Holding(next, Made')
    <3>1. h.paid \cup {Head(h.proofs).nonce} \in SUBSET Nonce
      BY <1>h, <2>2 DEF HandlerState, Proof
    <3>2. rest \in Seq(Proof)
      BY <2>2
    <3> HIDE DEF rest
    <3>3. next \in HandlerState
      BY <1>h, <3>1, <3>2 DEF HandlerState
    <3>4. /\ next.offer = h.offer /\ next.proofs = rest /\ next.copy = h.copy
          /\ next.step = IF rest = <<>> THEN "resident" ELSE "proof"
      BY <1>h DEF HandlerState
    <3> QED BY <1>m, <2>1, <3>3, <3>4 DEF Holding
  <2>4. /\ handler' \in [Handler -> HandlerState]
        /\ \A q \in Handler : Holding(handler'[q], Made')
    <3>1. CASE Goes(p, next)
      <4> HIDE DEF next
      <4> QED BY <1>m, <2>3, <3>1, HandlerMoves
    <3> QED BY <1>2, <1>f, <3>1 DEF VerifyProof
  <2>5. nonces' \subseteq Nonce
    BY <1>2 DEF VerifyProof, Consumed, TypeInv, TypeOK
  <2> QED BY <1>2, <1>m, <2>4, <2>5 DEF VerifyProof, history, TypeInv, TypeOK, HandlerHolds
<1>3. CASE CheckResident(p)
  <2> DEFINE next == [h EXCEPT !.step = "mint"]
  <2>1. h.offer \in Made
    BY <1>h, <1>3 DEF CheckResident, Holding
  <2>2. next \in HandlerState /\ Holding(next, Made')
    BY <1>h, <1>m, <2>1 DEF HandlerState, Holding
  <2>3. /\ handler' \in [Handler -> HandlerState]
        /\ \A q \in Handler : Holding(handler'[q], Made')
    BY <1>3, <1>f, <1>m, <2>2, HandlerMoves DEF CheckResident
  <2> QED BY <1>3, <1>m, <2>3 DEF CheckResident, history, TypeInv, TypeOK, HandlerHolds
<1>4. CASE MintForHolders(p)
  <2> DEFINE next == [Idle EXCEPT !.step = "nonce", !.op = "credential"]
  <2>1. h.offer \in Offer /\ offers[h.offer] \in OfferRecord
    BY <1>h, <1>4 DEF MintForHolders, Holding, Made, TypeInv, TypeOK
  <2>2. collected' \subseteq Resident
    BY <1>4, <2>1 DEF MintForHolders, OfferRecord, TypeInv, TypeOK
  <2>3. served' \in [Nonce -> Nat]
    BY <1>4 DEF MintForHolders, TypeInv, TypeOK
  <2>4. next \in HandlerState /\ Holding(next, Made')
    <3>1. next \in HandlerState
      BY IdleType DEF HandlerState
    <3>2. next.step = "nonce" /\ next.op = "credential"
      BY DEF Idle
    <3> QED BY <3>1, <3>2 DEF Holding
  <2>5. /\ handler' \in [Handler -> HandlerState]
        /\ \A q \in Handler : Holding(handler'[q], Made')
    BY <1>4, <1>f, <1>m, <2>4, HandlerMoves DEF MintForHolders
  <2> QED BY <1>4, <1>m, <2>2, <2>3, <2>5 DEF MintForHolders, TypeInv, TypeOK, HandlerHolds
<1> QED BY <1>1, <1>2, <1>3, <1>4

LEMMA EnvironmentType ==
  ASSUME TypeInv, Environment
  PROVE  TypeInv'
<1>h. \A p \in Handler : Holding(handler[p], Made)
  BY DEF TypeInv, HandlerHolds
<1>1. ASSUME NEW o \in Offer, NEW r \in Resident, CreateOffer(o, r)
      PROVE  TypeInv'
  <2> DEFINE made == [resident |-> r, expired |-> FALSE, redeemed |-> FALSE, failed |-> 0]
  <2>1. made \in OfferRecord
    BY DEF OfferRecord
  <2>2. offers' \in [Offer -> OfferRecord \cup {NoOffer}]
    BY <1>1, <2>1 DEF CreateOffer, TypeInv, TypeOK
  <2>3. Made \subseteq Made'
    <3> HIDE DEF made
    <3> QED BY <1>1, <2>1, Oid4vciAssumption DEF CreateOffer, Made, TypeInv, TypeOK
  <2>4. HandlerHolds'
    BY <1>1, <1>h, <2>3 DEF CreateOffer, Holding, HandlerHolds, TypeInv
  <2> QED BY <1>1, <2>2, <2>4 DEF CreateOffer, history, TypeInv, TypeOK
<1>2. ASSUME NEW o \in Made, ExpireOffer(o)
      PROVE  TypeInv'
  <2>1. o \in Offer /\ offers[o] \in OfferRecord
    BY DEF Made, TypeInv, TypeOK
  <2>2. [offers[o] EXCEPT !.expired = TRUE] \in OfferRecord
    BY <2>1 DEF OfferRecord
  <2>3. offers' \in [Offer -> OfferRecord \cup {NoOffer}] /\ Made \subseteq Made'
    BY <1>2, <2>1, <2>2, Oid4vciAssumption DEF ExpireOffer, Made, TypeInv, TypeOK
  <2>4. HandlerHolds'
    BY <1>2, <1>h, <2>3 DEF ExpireOffer, Holding, HandlerHolds, TypeInv
  <2> QED BY <1>2, <2>3, <2>4 DEF ExpireOffer, history, TypeInv, TypeOK
<1>3. ASSUME \/ \E o \in bearers : ExpireToken(o)
             \/ \E n \in nonces : ExpireNonce(n)
             \/ \E r \in Resident : Dispute(r) \/ Resolve(r)
      PROVE  TypeInv'
  BY <1>3 DEF ExpireToken, ExpireNonce, Dispute, Resolve, history, TypeInv, TypeOK,
              HandlerHolds, Made
<1> QED BY <1>1, <1>2, <1>3 DEF Environment

LEMMA TypeStep == TypeInv /\ [Next]_vars => TypeInv'
<1> SUFFICES ASSUME TypeInv, [Next]_vars PROVE TypeInv'
  OBVIOUS
<1>1. ASSUME NEW p \in Handler, Fail(p) PROVE TypeInv'
  <2>1. Made' = Made
    BY <1>1 DEF Fail, Made
  <2>2. /\ handler' \in [Handler -> HandlerState]
        /\ \A q \in Handler : Holding(handler'[q], Made')
    BY <1>1, <2>1, IdleType, HandlerMoves DEF Fail, Finishes
  <2> QED BY <1>1, <2>1, <2>2 DEF Fail, history, TypeInv, TypeOK, HandlerHolds
<1>2. CASE UNCHANGED vars
  BY <1>2 DEF vars, history, TypeInv, TypeOK, HandlerHolds, Made
<1>3. ASSUME NEW p \in Handler, Step(p) PROVE TypeInv'
  BY <1>3, TokenType, CredentialType DEF Step
<1> QED BY <1>1, <1>2, <1>3, RequestType, EnvironmentType DEF Next

\* Every variable keeps its type, for any number of handlers, offers and nonces.
THEOREM TypeCorrect == Spec => []TypeOK
<1>1. TypeInv => TypeOK
  BY DEF TypeInv
<1> QED BY <1>1, TypeInit, TypeStep, PTL DEF Spec

----------------------------------------------------------------------------
(* Nonces.                                                                  *)

LEMMA NonceInit == Init => NonceInv
BY DEF Init, NonceInv, NonceServesOnce, Idle

\* What a handler does to itself leaves the others as they are.
LEMMA OthersStay ==
  ASSUME TypeInv, NEW p \in Handler, NEW next, Goes(p, next)
  PROVE  /\ handler'[p] = next
         /\ \A q \in Handler : q # p => handler'[q] = handler[q]
BY DEF Goes, TypeInv, TypeOK

\* A step that mints no nonce, consumes none for a request and serves none.
LEMMA NonceFrame ==
  ASSUME NonceInv,
         nonces' \subseteq nonces, issued' = issued, served' = served,
         \A q \in Handler : handler'[q].paid \subseteq handler[q].paid
  PROVE  NonceInv'
<1>1. \A n \in Nonce : n \in nonces' \/ n \notin issued' => served'[n] = 0
  BY DEF NonceInv
<1>2. \A p \in Handler : \A n \in handler'[p].paid : n \in issued' \ nonces' /\ served'[n] = 0
  BY DEF NonceInv
<1>3. \A p, q \in Handler : p # q => handler'[p].paid \cap handler'[q].paid = {}
  <2> TAKE p, q \in Handler
  <2>1. p # q => handler[p].paid \cap handler[q].paid = {}
    BY DEF NonceInv
  <2>2. handler'[p].paid \subseteq handler[p].paid /\ handler'[q].paid \subseteq handler[q].paid
    OBVIOUS
  <2> QED BY <2>1, <2>2
<1>4. nonces' \subseteq issued' /\ NonceServesOnce'
  BY DEF NonceInv, NonceServesOnce
<1> QED BY <1>1, <1>2, <1>3, <1>4 DEF NonceInv

LEMMA NonceMoves ==
  ASSUME TypeInv, NonceInv, NEW p \in Handler, NEW next, Goes(p, next),
         next.paid \subseteq handler[p].paid,
         nonces' \subseteq nonces, issued' = issued, served' = served
  PROVE  NonceInv'
<1>1. \A q \in Handler : handler'[q].paid \subseteq handler[q].paid
  BY OthersStay
<1> QED BY <1>1, NonceFrame

LEMMA RequestNonceInv ==
  ASSUME TypeInv, NonceInv, NEW p \in Handler, Request(p)
  PROVE  NonceInv'
<1>1. nonces' = nonces /\ issued' = issued /\ served' = served
  BY DEF Request, RequestToken, RequestNonce, RequestCredential, history
<1>2. ASSUME NEW o \in Made, NEW right \in BOOLEAN, RequestToken(p, o, right)
      PROVE  NonceInv'
  <2> DEFINE next == [Idle EXCEPT !.step = "find", !.op = "token", !.offer = o, !.right = right]
  <2>1. next.paid \subseteq handler[p].paid
    BY DEF Idle
  <2>2. Goes(p, next)
    BY <1>2 DEF RequestToken
  <2> HIDE DEF next
  <2> QED BY <1>1, <2>1, <2>2, NonceMoves
<1>3. CASE RequestNonce(p)
  <2> DEFINE next == [Idle EXCEPT !.step = "nonce", !.op = "nonce"]
  <2>1. next.paid \subseteq handler[p].paid
    BY DEF Idle
  <2>2. Goes(p, next)
    BY <1>3 DEF RequestNonce
  <2> HIDE DEF next
  <2> QED BY <1>1, <2>1, <2>2, NonceMoves
<1>4. ASSUME NEW o \in bearers, NEW proofs \in Batch, NEW final \in BOOLEAN,
             RequestCredential(p, o, proofs, final)
      PROVE  NonceInv'
  <2> DEFINE next == [Idle EXCEPT !.step = "proof", !.op = "credential", !.offer = o,
                                  !.proofs = proofs, !.final = final]
  <2>1. next.paid \subseteq handler[p].paid
    BY DEF Idle
  <2>2. Goes(p, next)
    BY <1>4 DEF RequestCredential
  <2> HIDE DEF next
  <2> QED BY <1>1, <2>1, <2>2, NonceMoves
<1> QED BY <1>2, <1>3, <1>4 DEF Request

LEMMA StepNonceInv ==
  ASSUME TypeInv, NonceInv, NEW p \in Handler, Step(p)
  PROVE  NonceInv'
<1> DEFINE h == handler[p]
<1>h. h \in HandlerState /\ Holding(h, Made)
  BY DEF TypeInv, TypeOK, HandlerHolds
<1>i. Idle.paid = {}
  BY DEF Idle
<1>1. CASE FindOffer(p) \/ CountGuess(p) \/ RedeemOffer(p) \/ CheckResident(p)
  <2>1. nonces' = nonces /\ issued' = issued /\ served' = served
    BY <1>1 DEF FindOffer, CountGuess, RedeemOffer, CheckResident, history
  <2>2. CASE Finishes(p)
    BY <2>1, <2>2, <1>i, NonceMoves DEF Finishes
  <2>3. ASSUME NEW step, NEW copy, Goes(p, [h EXCEPT !.step = step, !.copy = copy])
        PROVE  NonceInv'
    <3> DEFINE next == [h EXCEPT !.step = step, !.copy = copy]
    <3>1. next.paid \subseteq h.paid
      BY <1>h DEF HandlerState
    <3> HIDE DEF next
    <3> QED BY <2>1, <2>3, <3>1, NonceMoves DEF next
  <2>4. CASE Goes(p, [h EXCEPT !.step = "mint"])
    <3> DEFINE next == [h EXCEPT !.step = "mint"]
    <3>1. next.paid \subseteq h.paid
      BY <1>h DEF HandlerState
    <3> HIDE DEF next
    <3> QED BY <2>1, <2>4, <3>1, NonceMoves DEF next
  <2> QED BY <1>1, <2>2, <2>3, <2>4 DEF FindOffer, CountGuess, RedeemOffer, CheckResident
<1>2. CASE MintNonce(p)
  <2>1. PICK n \in Fresh : nonces' = nonces \cup {n} /\ issued' = issued \cup {n}
    BY <1>2 DEF MintNonce
  <2>2. served' = served /\ handler'[p].paid = {}
    BY <1>2, <1>i, OthersStay DEF MintNonce, Finishes
  <2>3. \A q \in Handler : handler'[q].paid \subseteq handler[q].paid
    BY <1>2, <2>2, OthersStay DEF MintNonce, Finishes
  <2>4. \A q \in Handler : n \notin handler[q].paid
    BY <2>1 DEF Fresh, NonceInv
  <2>5. \A m \in Nonce : m \in nonces' \/ m \notin issued' => served'[m] = 0
    BY <2>1, <2>2 DEF Fresh, NonceInv
  <2>6. \A q \in Handler : \A m \in handler'[q].paid : m \in issued' \ nonces' /\ served'[m] = 0
    BY <2>1, <2>2, <2>3, <2>4 DEF NonceInv
  <2>7. \A q, r \in Handler : q # r => handler'[q].paid \cap handler'[r].paid = {}
    <3> TAKE q, r \in Handler
    <3>1. q # r => handler[q].paid \cap handler[r].paid = {}
      BY DEF NonceInv
    <3> QED BY <2>3, <3>1
  <2>8. nonces' \subseteq issued' /\ NonceServesOnce'
    BY <2>1, <2>2 DEF NonceInv, NonceServesOnce
  <2> QED BY <2>5, <2>6, <2>7, <2>8 DEF NonceInv
<1>3. CASE VerifyProof(p)
  <2> DEFINE proof == Head(h.proofs)
             n == proof.nonce
             paid == h.paid \cup {n}
             rest == Tail(h.proofs)
             next == [h EXCEPT !.step = IF rest = <<>> THEN "resident" ELSE "proof",
                               !.proofs = rest, !.paid = @ \cup {proof.nonce}]
  <2>1. issued' = issued /\ served' = served /\ nonces' \subseteq nonces
    BY <1>3 DEF VerifyProof, Consumed, history
  <2>2. CASE Finishes(p)
    BY <2>1, <2>2, <1>i, NonceMoves DEF Finishes
  <2>3. CASE ~Finishes(p)
    <3>1. proof.verifies /\ n \in h.paid \cup nonces /\ Goes(p, next)
      BY <1>3, <2>3 DEF VerifyProof
    <3>2. next.paid = paid
      BY <1>h DEF HandlerState
    <3>3. CASE n \in h.paid
      <4>1. next.paid \subseteq h.paid
        BY <3>2, <3>3
      <4> HIDE DEF next
      <4> QED BY <3>1, <2>1, <4>1, NonceMoves
    <3>4. CASE n \notin h.paid
      <4>1. nonces' = nonces \ {n} /\ n \in nonces
        BY <1>3, <3>1, <3>4 DEF VerifyProof, LooksUp, Consumed
      <4>2. handler'[p].paid = paid /\ \A q \in Handler : q # p => handler'[q] = handler[q]
        <5> HIDE DEF next
        <5> QED BY <3>1, <3>2, OthersStay
      <4> HIDE DEF proof, n, next, rest
      <4>3. \A q \in Handler : n \notin handler[q].paid
        BY <4>1 DEF NonceInv
      <4>4. \A q \in Handler : \A m \in handler'[q].paid :
              m \in issued' \ nonces' /\ served'[m] = 0
        <5> TAKE q \in Handler
        <5>1. n \in issued /\ n \in Nonce /\ served[n] = 0
          BY <4>1 DEF NonceInv, TypeInv, TypeOK
        <5>2. \A m \in handler[q].paid : m \in issued \ nonces /\ served[m] = 0
          BY DEF NonceInv
        <5> QED BY <2>1, <4>1, <4>2, <5>1, <5>2
      <4>5. \A q, r \in Handler : q # r => handler'[q].paid \cap handler'[r].paid = {}
        <5> TAKE q, r \in Handler
        <5>1. q # r => handler[q].paid \cap handler[r].paid = {}
          BY DEF NonceInv
        <5>2. n \notin handler[q].paid /\ n \notin handler[r].paid
          BY <4>3
        <5> QED BY <4>2, <5>1, <5>2
      <4>6. \A m \in Nonce : m \in nonces' \/ m \notin issued' => served'[m] = 0
        BY <2>1 DEF NonceInv
      <4>7. nonces' \subseteq issued' /\ NonceServesOnce'
        BY <2>1 DEF NonceInv, NonceServesOnce
      <4> QED BY <4>4, <4>5, <4>6, <4>7 DEF NonceInv
    <3> QED BY <3>3, <3>4
  <2> QED BY <2>2, <2>3
<1>4. CASE MintForHolders(p)
  <2>1. nonces' = nonces /\ issued' = issued
    BY <1>4 DEF MintForHolders
  <2>2. handler'[p].paid = {} /\ \A q \in Handler : q # p => handler'[q] = handler[q]
    <3>1. Idle.paid = {} /\ [Idle EXCEPT !.step = "nonce", !.op = "credential"].paid = {}
      BY DEF Idle
    <3> QED BY <1>4, <3>1, OthersStay DEF MintForHolders, Finishes
  <2>3. \A n \in Nonce : served'[n] = IF n \in h.paid THEN served[n] + 1 ELSE served[n]
    BY <1>4 DEF MintForHolders
  <2>4. \A n \in Nonce : n \in h.paid => served[n] = 0 /\ n \in issued /\ n \notin nonces
    BY DEF NonceInv
  <2>5. \A n \in Nonce : n \in nonces' \/ n \notin issued' => served'[n] = 0
    BY <2>1, <2>3, <2>4 DEF NonceInv
  <2>6. \A q \in Handler : \A n \in handler'[q].paid : n \in issued' \ nonces' /\ served'[n] = 0
    <3> TAKE q \in Handler
    <3>1. CASE q = p
      BY <3>1, <2>2
    <3>2. CASE q # p
      <4>1. handler[q].paid \cap h.paid = {} /\ handler[q].paid \subseteq Nonce
        BY <3>2 DEF NonceInv, TypeInv, TypeOK, HandlerState
      <4>2. \A n \in handler[q].paid : n \in issued \ nonces /\ served[n] = 0
        BY DEF NonceInv
      <4> QED BY <3>2, <2>1, <2>2, <2>3, <4>1, <4>2
    <3> QED BY <3>1, <3>2
  <2>7. \A q, r \in Handler : q # r => handler'[q].paid \cap handler'[r].paid = {}
    BY <2>2 DEF NonceInv
  <2>8. nonces' \subseteq issued'
    BY <2>1 DEF NonceInv
  <2>9. NonceServesOnce'
    BY <2>3, <2>4 DEF NonceInv, NonceServesOnce
  <2> QED BY <2>5, <2>6, <2>7, <2>8, <2>9 DEF NonceInv
<1> QED BY <1>1, <1>2, <1>3, <1>4 DEF Step

LEMMA NonceStep == TypeInv /\ NonceInv /\ [Next]_vars => NonceInv'
<1> SUFFICES ASSUME TypeInv, NonceInv, [Next]_vars PROVE NonceInv'
  OBVIOUS
<1>1. ASSUME NEW p \in Handler, Fail(p) PROVE NonceInv'
  <2>1. Idle.paid \subseteq handler[p].paid
    BY DEF Idle
  <2> QED BY <1>1, <2>1, NonceMoves DEF Fail, Finishes, history
<1>2. CASE Environment
  <2>1. nonces' \subseteq nonces /\ issued' = issued /\ served' = served /\ handler' = handler
    BY <1>2 DEF Environment, CreateOffer, ExpireOffer, ExpireToken, ExpireNonce, Dispute,
                Resolve, history
  <2> QED BY <2>1, NonceFrame
<1>3. CASE UNCHANGED vars
  BY <1>3, NonceFrame DEF vars, history
<1> QED BY <1>1, <1>2, <1>3, RequestNonceInv, StepNonceInv DEF Next

\* However many requests overlap, and wherever they stop, the credentials
\* minted over one nonce were minted for one request.
THEOREM NonceIsGoodOnce == Spec => []NonceServesOnce
<1>1. NonceInv => NonceServesOnce
  BY DEF NonceInv
<1> QED BY <1>1, TypeInit, TypeStep, NonceInit, NonceStep, PTL DEF Spec

----------------------------------------------------------------------------
(* Offers.                                                                  *)

LEMMA RaceInit == Init => RaceInv
BY Oid4vciAssumption
   DEF Init, RaceInv, OneAtATime, Writes, Spent, Made, Idle

\* A step that leaves an offer's row, history and holders as they are, or has
\* fewer of them hold it.
LEMMA OfferFrame ==
  ASSUME RaceInv, NEW o \in Offer,
         raced'[o] = raced[o], tokens'[o] = tokens[o], wrong'[o] = wrong[o],
         o \in Made' <=> o \in Made,
         offers'[o].redeemed = offers[o].redeemed, offers'[o].failed = offers[o].failed,
         \A q \in Handler :
           /\ Writes(q, o)' => /\ Writes(q, o)
                              /\ handler'[q].step = handler[q].step
                              /\ handler'[q].copy = handler[q].copy
           /\ Spent(q, o)' => Spent(q, o)
  PROVE  raced'[o] \/ OneAtATime(o)'
<1> SUFFICES ASSUME ~raced[o], OneAtATime(o) PROVE OneAtATime(o)'
  BY DEF RaceInv
<1> QED BY DEF OneAtATime, Writes

\* The same for a step of one handler.
LEMMA OfferMoves ==
  ASSUME TypeInv, RaceInv, NEW o \in Offer, NEW p \in Handler, NEW next, Goes(p, next),
         raced'[o] = raced[o], tokens'[o] = tokens[o], wrong'[o] = wrong[o],
         offers' = offers,
         ~(next.offer = o /\ next.step \in {"count", "redeem"}),
         ~(next.offer = o /\ next.op = "token" /\ next.step = "nonce")
  PROVE  raced'[o] \/ OneAtATime(o)'
<1>1. handler'[p] = next /\ \A q \in Handler : q # p => handler'[q] = handler[q]
  BY OthersStay
<1>2. \A q \in Handler :
        /\ Writes(q, o)' => /\ Writes(q, o)
                           /\ handler'[q].step = handler[q].step
                           /\ handler'[q].copy = handler[q].copy
        /\ Spent(q, o)' => Spent(q, o)
  BY <1>1 DEF Writes, Spent
<1>3. o \in Made' <=> o \in Made
  BY DEF Made
<1> QED BY <1>2, <1>3, OfferFrame

LEMMA RequestRaceInv ==
  ASSUME TypeInv, RaceInv, NEW p \in Handler, Request(p)
  PROVE  RaceInv'
<1> SUFFICES ASSUME NEW o \in Offer PROVE raced'[o] \/ OneAtATime(o)'
  BY DEF RaceInv
<1>1. offers' = offers /\ raced' = raced /\ tokens' = tokens /\ wrong' = wrong
  BY DEF Request, RequestToken, RequestNonce, RequestCredential, history
<1>2. ASSUME NEW x \in Made, NEW right \in BOOLEAN, RequestToken(p, x, right)
      PROVE  raced'[o] \/ OneAtATime(o)'
  <2> DEFINE next == [Idle EXCEPT !.step = "find", !.op = "token", !.offer = x, !.right = right]
  <2>1. next.step = "find" /\ Goes(p, next)
    BY <1>2 DEF Idle, RequestToken
  <2> HIDE DEF next
  <2> QED BY <1>1, <2>1, OfferMoves
<1>3. CASE RequestNonce(p)
  <2> DEFINE next == [Idle EXCEPT !.step = "nonce", !.op = "nonce"]
  <2>1. next.step = "nonce" /\ next.op = "nonce"
    BY DEF Idle
  <2>2. Goes(p, next)
    BY <1>3 DEF RequestNonce
  <2> HIDE DEF next
  <2> QED BY <1>1, <2>1, <2>2, OfferMoves
<1>4. ASSUME NEW x \in bearers, NEW proofs \in Batch, NEW final \in BOOLEAN,
             RequestCredential(p, x, proofs, final)
      PROVE  raced'[o] \/ OneAtATime(o)'
  <2> DEFINE next == [Idle EXCEPT !.step = "proof", !.op = "credential", !.offer = x,
                                  !.proofs = proofs, !.final = final]
  <2>1. next.step = "proof"
    BY DEF Idle
  <2>2. Goes(p, next)
    BY <1>4 DEF RequestCredential
  <2> HIDE DEF next
  <2> QED BY <1>1, <2>1, <2>2, OfferMoves
<1> QED BY <1>2, <1>3, <1>4 DEF Request

\* The first handler to read an offer holds what the row says but for its own
\* change; a second one is the race.
LEMMA FindRaceInv ==
  ASSUME TypeInv, RaceInv, NEW p \in Handler, FindOffer(p)
  PROVE  RaceInv'
<1> SUFFICES ASSUME NEW o \in Offer PROVE raced'[o] \/ OneAtATime(o)'
  BY DEF RaceInv
<1> DEFINE h == handler[p]
           found == offers[h.offer]
<1>h. h \in HandlerState /\ h.offer \in Made /\ h.offer \in Offer /\ found \in OfferRecord
  BY DEF FindOffer, TypeInv, TypeOK, HandlerHolds, Holding, Made
<1>1. offers' = offers /\ tokens' = tokens /\ wrong' = wrong
  BY DEF FindOffer
<1>2. CASE Finishes(p) /\ UNCHANGED raced
  <2>1. Idle.step = "idle"
    BY DEF Idle
  <2> QED BY <1>1, <1>2, <2>1, OfferMoves DEF Finishes
<1>3. ASSUME NEW step \in {"count", "redeem"}, NEW copy,
             Goes(p, [h EXCEPT !.step = step, !.copy = copy]),
             ~Refused(found),
             raced' = [raced EXCEPT ![h.offer] = @ \/ Held(p, h.offer)],
             step = "count" => copy = [found EXCEPT !.failed = Counted(@)],
             step = "redeem" => copy = [found EXCEPT !.redeemed = TRUE]
      PROVE  raced'[o] \/ OneAtATime(o)'
  <2> DEFINE next == [h EXCEPT !.step = step, !.copy = copy]
  <2>1. next.step = step /\ next.copy = copy /\ next.offer = h.offer
    BY <1>h DEF HandlerState
  <2>2. Goes(p, next)
    BY <1>3
  <2> HIDE DEF next
  <2>3. handler'[p] = next /\ \A q \in Handler : q # p => handler'[q] = handler[q]
    BY <2>2, OthersStay
  <2>4. CASE o # h.offer
    <3>1. raced'[o] = raced[o]
      BY <1>3, <2>4 DEF TypeInv, TypeOK
    <3> QED BY <1>1, <2>1, <2>2, <2>4, <3>1, OfferMoves
  <2>5. CASE o = h.offer
    <3> SUFFICES ASSUME ~raced'[o] PROVE OneAtATime(o)'
      OBVIOUS
    <3>1. ~raced[o] /\ ~Held(p, o)
      BY <1>3, <2>5 DEF TypeInv, TypeOK
    <3>2. OneAtATime(o)
      BY <3>1 DEF RaceInv
    <3>3. ~found.redeemed /\ found.failed < MaxAttempts
      BY <1>3, <1>h, Oid4vciAssumption DEF Refused, Locked, OfferRecord
    <3>4. \A q \in Handler : Writes(q, o)' <=> q = p
      BY <2>1, <2>3, <2>5, <3>1 DEF Held, Writes
    <3>5. \A q \in Handler : Spent(q, o)' => Spent(q, o)
      BY <2>1, <2>3 DEF Spent
    <3>6. /\ step = "count" => copy.redeemed = FALSE /\ copy.failed = found.failed + 1
          /\ step = "redeem" => copy.redeemed = TRUE /\ copy.failed = found.failed
      <4>1. found.redeemed \in BOOLEAN
        BY <1>h DEF OfferRecord
      <4> QED BY <1>3, <1>h, <3>3, <4>1 DEF OfferRecord, Counted
    <3>7. o \in Made' <=> o \in Made
      BY <1>1 DEF Made
    <3>8. /\ \A q, r \in Handler : Writes(q, o)' /\ Writes(r, o)' => q = r
          /\ \A q \in Handler : Writes(q, o)' =>
               /\ ~offers'[o].redeemed
               /\ offers'[o].failed < MaxAttempts
               /\ handler'[q].step = "count" =>
                    /\ handler'[q].copy.redeemed = FALSE
                    /\ handler'[q].copy.failed = offers'[o].failed + 1
               /\ handler'[q].step = "redeem" => handler'[q].copy.failed = offers'[o].failed
          /\ \A q \in Handler : handler'[q].offer = o /\ handler'[q].step = "redeem"
               => handler'[q].copy.redeemed = TRUE
      <4>1. \A q \in Handler : handler'[q].offer = o /\ handler'[q].step = "redeem" => q = p
        BY <3>4 DEF Writes
      <4> QED BY <1>1, <2>1, <2>3, <2>5, <3>3, <3>4, <3>6, <4>1
    <3> QED BY <1>1, <3>2, <3>5, <3>7, <3>8 DEF OneAtATime
  <2> QED BY <2>4, <2>5
<1> QED BY <1>2, <1>3 DEF FindOffer

\* The one handler that held an offer writes its own change, and no other.
LEMMA UpdateRaceInv ==
  ASSUME TypeInv, RaceInv, NEW p \in Handler, CountGuess(p) \/ RedeemOffer(p)
  PROVE  RaceInv'
<1> SUFFICES ASSUME NEW o \in Offer PROVE raced'[o] \/ OneAtATime(o)'
  BY DEF RaceInv
<1> DEFINE h == handler[p]
<1>h. /\ h \in HandlerState /\ h.offer \in Made /\ h.offer \in Offer /\ h.op = "token"
      /\ h.copy \in OfferRecord /\ offers[h.offer] \in OfferRecord
  BY DEF CountGuess, RedeemOffer, TypeInv, TypeOK, HandlerHolds, Holding, Made
<1>1. tokens' = tokens /\ raced' = raced
      /\ offers' = [offers EXCEPT ![h.offer] = Updated(@, h.copy)]
  BY DEF CountGuess, RedeemOffer, UpdateOffer, history
<1>2. PICK next : /\ Goes(p, next)
                  /\ next.step \notin {"count", "redeem"}
                  /\ next.step = "nonce" => h.step = "redeem" /\ next.offer = h.offer
  <2>1. CASE CountGuess(p)
    <3>1. Idle.step = "idle"
      BY DEF Idle
    <3> QED BY <2>1, <3>1 DEF CountGuess, Finishes
  <2>2. CASE RedeemOffer(p)
    <3> DEFINE next == [h EXCEPT !.step = "nonce", !.copy = NoOffer]
    <3>1. next.step = "nonce" /\ next.offer = h.offer
      BY <1>h DEF HandlerState
    <3>2. Goes(p, next) /\ h.step = "redeem"
      BY <2>2 DEF RedeemOffer
    <3> HIDE DEF next
    <3> QED BY <3>1, <3>2
  <2> QED BY <2>1, <2>2
<1>3. handler'[p] = next /\ \A q \in Handler : q # p => handler'[q] = handler[q]
  BY <1>2, OthersStay
<1>4. /\ offers'[h.offer] \in OfferRecord
      /\ offers'[h.offer].redeemed = h.copy.redeemed
      /\ offers'[h.offer].failed = h.copy.failed
      /\ Made' = Made
  <2>1. offers'[h.offer] = Updated(offers[h.offer], h.copy)
    BY <1>1, <1>h DEF TypeInv, TypeOK
  <2>2. offers'[h.offer] \in OfferRecord
    BY <1>h, <2>1, UpdatedType
  <2>3. \A x \in Offer : x # h.offer => offers'[x] = offers[x]
    BY <1>1 DEF TypeInv, TypeOK
  <2>4. offers'[h.offer].redeemed = h.copy.redeemed /\ offers'[h.offer].failed = h.copy.failed
    BY <1>h, <2>1 DEF Updated, OfferRecord
  <2>5. Made' = Made
    <3>1. offers'[h.offer] # NoOffer /\ offers[h.offer] # NoOffer
      BY <1>h, <2>2, Oid4vciAssumption
    <3>2. \A x \in Offer : offers'[x] # NoOffer <=> offers[x] # NoOffer
      BY <2>3, <3>1
    <3> QED BY <3>2 DEF Made
  <2> QED BY <2>2, <2>4, <2>5
<1>5. CASE o # h.offer
  <2>1. offers'[o] = offers[o] /\ wrong'[o] = wrong[o]
    BY <1>1, <1>5 DEF CountGuess, RedeemOffer, history, TypeInv, TypeOK
  <2>2. \A q \in Handler :
          /\ Writes(q, o)' => /\ Writes(q, o)
                             /\ handler'[q].step = handler[q].step
                             /\ handler'[q].copy = handler[q].copy
          /\ Spent(q, o)' => Spent(q, o)
    BY <1>2, <1>3, <1>5 DEF Writes, Spent
  <2> QED BY <1>1, <1>4, <2>1, <2>2, OfferFrame
<1>6. ASSUME o = h.offer, ~raced[o] PROVE OneAtATime(o)'
  <2>1. OneAtATime(o) /\ Writes(p, o)
    BY <1>6 DEF RaceInv, Writes, CountGuess, RedeemOffer
  <2>2. \A q \in Handler : ~Writes(q, o)'
    BY <1>2, <1>3, <2>1 DEF OneAtATime, Writes
  <2>3. ~offers[o].redeemed /\ offers[o].failed < MaxAttempts /\ o \in Made
        /\ tokens[o] = 0 /\ offers[o].failed = wrong[o]
    BY <1>h, <1>6, <2>1 DEF OneAtATime
  <2>4. \A q \in Handler : ~Spent(q, o)
    BY <2>1, <2>3 DEF OneAtATime
  <2>5. \A q \in Handler : Spent(q, o)' => q = p /\ h.step = "redeem"
    BY <1>2, <1>3, <2>4 DEF Spent
  <2>6. /\ h.step = "count" => /\ offers'[o].redeemed = FALSE
                               /\ offers'[o].failed = offers[o].failed + 1
        /\ h.step = "redeem" => /\ offers'[o].redeemed = TRUE
                                /\ offers'[o].failed = offers[o].failed
    BY <1>4, <1>6, <2>1 DEF OneAtATime, Writes
  <2>7. /\ offers'[o].failed = wrong'[o]
        /\ wrong'[o] <= MaxAttempts
    <3>1. CASE CountGuess(p)
      <4>1. wrong'[o] = wrong[o] + 1 /\ h.step = "count"
        BY <3>1, <1>6, <1>h DEF CountGuess, TypeInv, TypeOK
      <4>2. wrong[o] \in Nat
        BY DEF TypeInv, TypeOK
      <4> QED BY <4>1, <4>2, <2>3, <2>6, Oid4vciAssumption
    <3>2. CASE RedeemOffer(p)
      <4>1. wrong'[o] = wrong[o] /\ h.step = "redeem"
        BY <3>2 DEF RedeemOffer, history
      <4> QED BY <4>1, <2>1, <2>3, <2>6 DEF OneAtATime
    <3> QED BY <3>1, <3>2
  <2>8. \A q \in Handler : ~(handler'[q].offer = o /\ handler'[q].step = "redeem")
    BY <2>2 DEF Writes
  <2>9. tokens'[o] = 0 /\ o \in Made'
    BY <1>1, <1>4, <2>3
  <2>10. \A q \in Handler : Spent(q, o)' => offers'[o].redeemed
    BY <2>5, <2>6
  <2> QED BY <2>2, <2>5, <2>7, <2>8, <2>9, <2>10 DEF OneAtATime
<1> QED BY <1>1, <1>5, <1>6

\* The one handler that spent an offer answers its one access token.
LEMMA MintRaceInv ==
  ASSUME TypeInv, RaceInv, NEW p \in Handler, MintNonce(p)
  PROVE  RaceInv'
<1> SUFFICES ASSUME NEW o \in Offer PROVE raced'[o] \/ OneAtATime(o)'
  BY DEF RaceInv
<1> DEFINE h == handler[p]
<1>1. offers' = offers /\ wrong' = wrong /\ raced' = raced /\ Goes(p, Idle) /\ Idle.step = "idle"
  BY DEF MintNonce, Finishes, Idle
<1>2. CASE ~Spent(p, o)
  <2>1. tokens'[o] = tokens[o]
    BY <1>2 DEF MintNonce, Spent, TypeInv, TypeOK
  <2> QED BY <1>1, <2>1, OfferMoves
<1>3. ASSUME Spent(p, o), ~raced[o] PROVE OneAtATime(o)'
  <2>1. OneAtATime(o) /\ tokens[o] = 0 /\ offers[o].redeemed
    BY <1>3 DEF RaceInv, OneAtATime
  <2>2. tokens'[o] = 1
    BY <1>3, <2>1 DEF MintNonce, Spent, TypeInv, TypeOK
  <2>3. handler'[p] = Idle /\ \A q \in Handler : q # p => handler'[q] = handler[q]
    BY <1>1, OthersStay
  <2>4. \A q \in Handler : ~Spent(q, o)'
    BY <1>1, <1>3, <2>1, <2>3 DEF OneAtATime, Spent
  <2>5. \A q \in Handler : ~Writes(q, o)
    BY <2>1 DEF OneAtATime
  <2>6. \A q \in Handler : ~Writes(q, o)'
    BY <1>1, <2>3, <2>5 DEF Writes
  <2>7. \A q \in Handler : ~(handler'[q].offer = o /\ handler'[q].step = "redeem")
    BY <2>6 DEF Writes
  <2>8. h.offer = o /\ o \in Made /\ Made' = Made
    BY <1>1, <1>3 DEF Spent, Made, TypeInv, HandlerHolds, Holding
  <2> QED BY <1>1, <2>1, <2>2, <2>4, <2>6, <2>7, <2>8 DEF OneAtATime
<1> QED BY <1>1, <1>2, <1>3

LEMMA StepRaceInv ==
  ASSUME TypeInv, RaceInv, NEW p \in Handler,
         VerifyProof(p) \/ CheckResident(p) \/ MintForHolders(p) \/ Fail(p)
  PROVE  RaceInv'
<1> SUFFICES ASSUME NEW o \in Offer PROVE raced'[o] \/ OneAtATime(o)'
  BY DEF RaceInv
<1> DEFINE h == handler[p]
<1>h. h \in HandlerState
  BY DEF TypeInv, TypeOK
<1>1. offers' = offers /\ wrong' = wrong /\ raced' = raced /\ tokens' = tokens
  BY DEF VerifyProof, CheckResident, MintForHolders, Fail, history
<1>2. CASE Finishes(p)
  <2>1. Idle.step = "idle"
    BY DEF Idle
  <2> QED BY <1>1, <1>2, <2>1, OfferMoves DEF Finishes
<1>3. ASSUME NEW step \in {"resident", "proof"}, NEW proofs, NEW paid,
             Goes(p, [h EXCEPT !.step = step, !.proofs = proofs, !.paid = paid])
      PROVE  raced'[o] \/ OneAtATime(o)'
  <2> DEFINE next == [h EXCEPT !.step = step, !.proofs = proofs, !.paid = paid]
  <2>1. next.step = step
    BY <1>h DEF HandlerState
  <2>2. Goes(p, next)
    BY <1>3
  <2> HIDE DEF next
  <2> QED BY <1>1, <2>1, <2>2, OfferMoves
<1>4. CASE CheckResident(p) /\ Goes(p, [h EXCEPT !.step = "mint"])
  <2> DEFINE next == [h EXCEPT !.step = "mint"]
  <2>1. next.step = "mint"
    BY <1>h DEF HandlerState
  <2>2. Goes(p, next)
    BY <1>4
  <2> HIDE DEF next
  <2> QED BY <1>1, <2>1, <2>2, OfferMoves
<1>5. CASE Goes(p, [Idle EXCEPT !.step = "nonce", !.op = "credential"])
  <2> DEFINE next == [Idle EXCEPT !.step = "nonce", !.op = "credential"]
  <2>1. next.step = "nonce" /\ next.op = "credential"
    BY DEF Idle
  <2>2. Goes(p, next)
    BY <1>5
  <2> HIDE DEF next
  <2> QED BY <1>1, <2>1, <2>2, OfferMoves
<1>6. CASE VerifyProof(p)
  <2>1. \/ Finishes(p)
        \/ Goes(p, [h EXCEPT !.step = IF Tail(h.proofs) = <<>> THEN "resident" ELSE "proof",
                             !.proofs = Tail(h.proofs), !.paid = @ \cup {Head(h.proofs).nonce}])
    BY <1>6 DEF VerifyProof
  <2> QED BY <1>2, <1>3, <2>1
<1>7. CASE CheckResident(p)
  BY <1>2, <1>4, <1>7 DEF CheckResident
<1>8. CASE MintForHolders(p)
  BY <1>2, <1>5, <1>8 DEF MintForHolders
<1>9. CASE Fail(p)
  BY <1>2, <1>9 DEF Fail
<1> QED BY <1>6, <1>7, <1>8, <1>9

LEMMA EnvironmentRaceInv ==
  ASSUME TypeInv, RaceInv, Environment
  PROVE  RaceInv'
<1> SUFFICES ASSUME NEW o \in Offer PROVE raced'[o] \/ OneAtATime(o)'
  BY DEF RaceInv
<1>1. handler' = handler /\ wrong' = wrong /\ raced' = raced /\ tokens' = tokens
  BY DEF Environment, CreateOffer, ExpireOffer, ExpireToken, ExpireNonce, Dispute, Resolve,
         history
<1>2. \A q \in Handler : (Writes(q, o)' <=> Writes(q, o)) /\ (Spent(q, o)' <=> Spent(q, o))
  BY <1>1 DEF Writes, Spent
<1>3. ASSUME NEW x \in Offer, NEW r \in Resident, CreateOffer(x, r)
      PROVE  raced'[o] \/ OneAtATime(o)'
  <2>1. CASE x # o
    <3>1. offers'[o] = offers[o]
      BY <1>3, <2>1 DEF CreateOffer, TypeInv, TypeOK
    <3>2. o \in Made' <=> o \in Made
      BY <3>1 DEF Made
    <3> QED BY <1>1, <1>2, <3>1, <3>2, OfferFrame
  <2>2. ASSUME x = o, ~raced[o] PROVE OneAtATime(o)'
    <3>1. offers'[o].redeemed = FALSE /\ offers'[o].failed = 0 /\ o \notin Made
      BY <1>3, <2>2 DEF CreateOffer, Made, TypeInv, TypeOK
    <3>2. \A q \in Handler :
            /\ ~Writes(q, o) /\ ~Spent(q, o)
            /\ ~(handler[q].offer = o /\ handler[q].step = "redeem")
      BY <3>1 DEF Writes, Spent, TypeInv, HandlerHolds, Holding
    <3>3. OneAtATime(o) /\ tokens[o] = 0 /\ wrong[o] = 0
      BY <2>2, <3>1 DEF RaceInv, OneAtATime
    <3> QED BY <1>1, <1>2, <3>1, <3>2, <3>3, Oid4vciAssumption DEF OneAtATime
  <2> QED BY <1>1, <2>1, <2>2
<1>4. ASSUME NEW x \in Made, ExpireOffer(x)
      PROVE  raced'[o] \/ OneAtATime(o)'
  <2>1. x \in Offer /\ offers[x] \in OfferRecord
    BY DEF Made, TypeInv, TypeOK
  <2>2. [offers[x] EXCEPT !.expired = TRUE] \in OfferRecord
    BY <2>1 DEF OfferRecord
  <2>3. /\ offers'[o].redeemed = offers[o].redeemed
        /\ offers'[o].failed = offers[o].failed
        /\ o \in Made' <=> o \in Made
    <3>1. CASE x = o
      <4>1. offers'[o] = [offers[x] EXCEPT !.expired = TRUE]
        BY <1>4, <3>1 DEF ExpireOffer, TypeInv, TypeOK
      <4> QED BY <3>1, <4>1, <2>1, <2>2, Oid4vciAssumption DEF OfferRecord, Made
    <3>2. CASE x # o
      <4>1. offers'[o] = offers[o]
        BY <1>4, <3>2 DEF ExpireOffer, TypeInv, TypeOK
      <4> QED BY <4>1 DEF Made
    <3> QED BY <3>1, <3>2
  <2> QED BY <1>1, <1>2, <2>3, OfferFrame
<1>5. ASSUME offers' = offers
      PROVE  raced'[o] \/ OneAtATime(o)'
  <2>1. Made' = Made
    BY <1>5 DEF Made
  <2> QED BY <1>1, <1>2, <1>5, <2>1, OfferFrame
<1> QED BY <1>3, <1>4, <1>5
        DEF Environment, ExpireToken, ExpireNonce, Dispute, Resolve

LEMMA RaceStep == TypeInv /\ RaceInv /\ [Next]_vars => RaceInv'
<1> SUFFICES ASSUME TypeInv, RaceInv, [Next]_vars PROVE RaceInv'
  OBVIOUS
<1>1. CASE UNCHANGED vars
  <2> SUFFICES ASSUME NEW o \in Offer PROVE raced'[o] \/ OneAtATime(o)'
    BY DEF RaceInv
  <2>1. /\ offers' = offers /\ handler' = handler
        /\ raced' = raced /\ tokens' = tokens /\ wrong' = wrong
    BY <1>1 DEF vars, history
  <2> QED BY <2>1, OfferFrame DEF Made, Writes, Spent
<1>2. ASSUME NEW p \in Handler, Step(p) PROVE RaceInv'
  BY <1>2, FindRaceInv, UpdateRaceInv, MintRaceInv, StepRaceInv DEF Step
<1>3. ASSUME NEW p \in Handler, Fail(p) PROVE RaceInv'
  BY <1>3, StepRaceInv
<1> QED BY <1>1, <1>2, <1>3, RequestRaceInv, EnvironmentRaceInv DEF Next

\* A code gives a second access token only if two requests held its offer at
\* once, whatever else fails, expires or is repeated.
THEOREM SecondTokenIsARace == Spec => []SecondTokenTakesARace
<1>1. TypeInv /\ RaceInv => SecondTokenTakesARace
  BY DEF RaceInv, OneAtATime, SecondTokenTakesARace
<1> QED BY <1>1, TypeInit, TypeStep, RaceInit, RaceStep, PTL DEF Spec

\* Wrong codes are answered no more often than the profile allows, unless two
\* requests held the offer at once.
THEOREM GuessesAreBounded == Spec => []GuessesBounded
<1>1. TypeInv /\ RaceInv => GuessesBounded
  BY DEF RaceInv, OneAtATime, GuessesBounded
<1> QED BY <1>1, TypeInit, TypeStep, RaceInit, RaceStep, PTL DEF Spec

----------------------------------------------------------------------------
(* Who spends a nonce.                                                      *)

\* A nonce leaves the store in no step of a handler but the one that verifies
\* a proof over it.
LEMMA SpentByProof ==
  ASSUME TypeInv, [Next]_vars, NEW n \in nonces \ nonces', handler' # handler
  PROVE  \E p \in Handler : /\ handler[p].step = "proof"
                            /\ Head(handler[p].proofs) = [nonce |-> n, verifies |-> TRUE]
<1>1. handler' = handler \/ nonces' = nonces \/ \E p \in Handler : Step(p)
  <2>1. Environment => handler' = handler
    BY DEF Environment, CreateOffer, ExpireOffer, ExpireToken, ExpireNonce, Dispute, Resolve
  <2>2. \A p \in Handler : Request(p) \/ Fail(p) => nonces' = nonces
    BY DEF Request, RequestToken, RequestNonce, RequestCredential, Fail
  <2>3. UNCHANGED vars => nonces' = nonces
    BY DEF vars
  <2> QED BY <2>1, <2>2, <2>3 DEF Next
<1>2. PICK p \in Handler : Step(p)
  BY <1>1
<1>3. VerifyProof(p)
  BY <1>2 DEF Step, FindOffer, CountGuess, RedeemOffer, MintNonce, CheckResident,
              MintForHolders
<1> DEFINE h == handler[p]
           proof == Head(h.proofs)
<1>4. h.step = "proof" /\ proof \in Proof
  <2>1. h.step = "proof" /\ h.proofs \in Seq(Proof) /\ h.proofs # <<>>
    BY <1>3 DEF VerifyProof, TypeInv, TypeOK, HandlerHolds, Holding, HandlerState
  <2> QED BY <2>1
<1>5. proof.verifies /\ proof.nonce = n
  BY <1>3 DEF VerifyProof, LooksUp, Consumed
<1>6. proof = [nonce |-> n, verifies |-> TRUE]
  <2> HIDE DEF proof
  <2> QED BY <1>4, <1>5 DEF Proof
<1> QED BY <1>4, <1>6

\* A proof that does not verify takes nobody's nonce.
THEOREM GarbageBurnsNothing == Spec => OnlyProofsSpend
<1>1. TypeInv /\ [Next]_vars =>
        [\A n \in nonces \ nonces' :
           handler' # handler =>
             \E p \in Handler : /\ handler[p].step = "proof"
                                /\ Head(handler[p].proofs) = [nonce |-> n, verifies |-> TRUE]]_vars
  BY SpentByProof
<1> QED BY <1>1, TypeInit, TypeStep, PTL DEF Spec, OnlyProofsSpend

=============================================================================
