-------------------------------- MODULE Oid4vci --------------------------------
(***************************************************************************)
(* Issuing a credential to a wallet over OpenID4VCI                         *)
(* (core/oid4vci/oid4vci-service.ts): the offers shown as QR codes, the     *)
(* transaction code that is guessed or known, the access token, the nonces  *)
(* a wallet's key proofs sign over, and the handlers of the token, nonce    *)
(* and credential endpoints.                                                *)
(*                                                                          *)
(* Handlers run on several replicas over one database.  Each store call is  *)
(* a step.  An offer is read in one and written back in another; a nonce is *)
(* consumed in one conditional delete.                                      *)
(***************************************************************************)
EXTENDS Integers, FiniteSets, Sequences

CONSTANTS
  Handler,       \* concurrently running request handlers
  Offer,         \* the offers that can be made
  Resident,      \* enrolled residents
  Nonce,         \* bound: the nonces the issuer mints
  NoOffer,       \* an offer that was not made yet
  MaxAttempts,   \* cfg.wallet.offer.maxTxCodeAttempts
  MaxBatch,      \* bound: key proofs in one request
  GuessBound     \* bound: wrong codes answered, over an offer's life

OfferRecord == [resident : Resident, expired : BOOLEAN, redeemed : BOOLEAN,
                failed : Nat]

\* A key proof: the nonce it signs over, and whether everything else about it
\* (type, algorithm, key, signature, audience, age) verifies.
Proof == [nonce : Nonce, verifies : BOOLEAN]

ASSUME Oid4vciAssumption ==
  /\ MaxAttempts \in Nat
  /\ MaxBatch \in Nat
  /\ GuessBound \in Nat
  /\ IsFiniteSet(Nonce)
  /\ NoOffer \notin OfferRecord

VARIABLES
  offers,      \* the offer table
  nonces,      \* the nonces that can still be consumed
  bearers,     \* the offers with an access token that is still good
  restricted,  \* residents whose identity link is under dispute
  collected,   \* residents with a wallet delivery on record
  handler,     \* what each running handler holds
  issued,      \* history: every nonce ever minted
  served,      \* history: requests given credentials over each nonce
  tokens,      \* history: access tokens answered for each offer
  wrong,       \* history: wrong codes answered for each offer
  raced        \* history: offers two handlers held at once

history == <<issued, served, tokens, wrong, raced>>

vars == <<offers, nonces, bearers, restricted, collected, handler, history>>

----------------------------------------------------------------------------
(* The state a handler carries between two awaits.                          *)

HandlerState ==
  [step   : {"idle", "find", "count", "redeem", "nonce", "proof", "resident", "mint"},
   op     : {"none", "token", "nonce", "credential"},
   offer  : Offer \cup {NoOffer},
   right  : BOOLEAN,                   \* is the transaction code the right one?
   copy   : OfferRecord \cup {NoOffer},
   proofs : Seq(Proof),                \* still to verify
   paid   : SUBSET Nonce,              \* consumed by this request
   final  : BOOLEAN]                   \* the 1.0 dialect, or Draft 13

Idle == [step |-> "idle", op |-> "none", offer |-> NoOffer, right |-> FALSE,
         copy |-> NoOffer, proofs |-> <<>>, paid |-> {}, final |-> FALSE]

Goes(p, next) == handler' = [handler EXCEPT ![p] = next]

Finishes(p) == Goes(p, Idle)

Made == {o \in Offer : offers[o] # NoOffer}

Fresh == Nonce \ issued

WillMint(p) ==
  \/ handler[p].op \in {"token", "nonce"}
  \/ handler[p].op = "credential" /\ ~handler[p].final

\* A request that will mint a nonce is made while one is left for it.
MayMint == Cardinality({p \in Handler : WillMint(p)}) < Cardinality(Fresh)

\* An exception, or the process stopping, at any await.
Fail(p) ==
  /\ handler[p].step # "idle"
  /\ Finishes(p)
  /\ UNCHANGED <<offers, nonces, bearers, restricted, collected, history>>

----------------------------------------------------------------------------
(* createOffer.                                                             *)

CreateOffer(o, r) ==
  /\ offers[o] = NoOffer
  /\ offers' = [offers EXCEPT ![o] = [resident |-> r, expired |-> FALSE,
                                      redeemed |-> FALSE, failed |-> 0]]
  /\ UNCHANGED <<nonces, bearers, restricted, collected, handler, history>>

----------------------------------------------------------------------------
(* token.                                                                   *)

RequestToken(p, o, right) ==
  /\ handler[p].step = "idle"
  /\ MayMint
  /\ wrong[o] + Cardinality({q \in Handler : handler[q].offer = o}) < GuessBound
  /\ Goes(p, [Idle EXCEPT !.step = "find", !.op = "token", !.offer = o, !.right = right])
  /\ UNCHANGED <<offers, nonces, bearers, restricted, collected, history>>

\* A slip: the lock compared one attempt late.
LockedLate(offer) == offer.failed > MaxAttempts

Locked(offer) == offer.failed >= MaxAttempts

Refused(offer) == offer.expired \/ offer.redeemed \/ Locked(offer)

\* A slip: attempts counted down, in a record that starts at zero.
CountedDown(n) == n - 1

Counted(n) == n + 1

\* Another handler has read o and not written it yet.
Held(p, o) ==
  \E q \in Handler \ {p} : handler[q].offer = o /\ handler[q].step \in {"count", "redeem"}

\* findOfferByCodeHash and the checks on what it returned.
FindOffer(p) ==
  LET h == handler[p]
      found == offers[h.offer]
  IN
  /\ h.step = "find"
  /\ \/ /\ Refused(found)
        /\ Finishes(p)
        /\ UNCHANGED raced
     \/ /\ ~Refused(found)
        /\ \/ /\ h.right
              /\ Goes(p, [h EXCEPT !.step = "redeem", !.copy = [found EXCEPT !.redeemed = TRUE]])
           \/ /\ ~h.right
              /\ Goes(p, [h EXCEPT !.step = "count", !.copy = [found EXCEPT !.failed = Counted(@)]])
        /\ raced' = [raced EXCEPT ![h.offer] = @ \/ Held(p, h.offer)]
  /\ UNCHANGED <<offers, nonces, bearers, restricted, collected,
                 issued, served, tokens, wrong>>

\* A slip: an update that carries the counter alone.
WithoutRedemption(offer, copy) == [offer EXCEPT !.failed = copy.failed]

\* updateOffer: both columns, from the copy the handler read.
Updated(offer, copy) == [offer EXCEPT !.redeemed = copy.redeemed, !.failed = copy.failed]

UpdateOffer(p) ==
  LET h == handler[p] IN
  offers' = [offers EXCEPT ![h.offer] = Updated(@, h.copy)]

\* A wrong code is counted, and then answered.
CountGuess(p) ==
  /\ handler[p].step = "count"
  /\ UpdateOffer(p)
  /\ wrong' = [wrong EXCEPT ![handler[p].offer] = @ + 1]
  /\ Finishes(p)
  /\ UNCHANGED <<nonces, bearers, restricted, collected, issued, served, tokens, raced>>

\* The code is spent before anything is handed out for it.
RedeemOffer(p) ==
  /\ handler[p].step = "redeem"
  /\ UpdateOffer(p)
  /\ Goes(p, [handler[p] EXCEPT !.step = "nonce", !.copy = NoOffer])
  /\ UNCHANGED <<nonces, bearers, restricted, collected, history>>

----------------------------------------------------------------------------
(* nonce, and the nonce that token and a Draft 13 answer carry.             *)

RequestNonce(p) ==
  /\ handler[p].step = "idle"
  /\ MayMint
  /\ Goes(p, [Idle EXCEPT !.step = "nonce", !.op = "nonce"])
  /\ UNCHANGED <<offers, nonces, bearers, restricted, collected, history>>

\* mintNonce, and the answer that carries it: for token, with an access token
\* signed over the offer.
MintNonce(p) ==
  LET h == handler[p] IN
  /\ h.step = "nonce"
  /\ \E n \in Fresh :
       /\ nonces' = nonces \cup {n}
       /\ issued' = issued \cup {n}
  /\ Finishes(p)
  /\ IF h.op = "token"
       THEN /\ bearers' = bearers \cup {h.offer}
            /\ tokens' = [tokens EXCEPT ![h.offer] = @ + 1]
       ELSE UNCHANGED <<bearers, tokens>>
  /\ UNCHANGED <<offers, restricted, collected, served, wrong, raced>>

----------------------------------------------------------------------------
(* credential.                                                              *)

Batch == UNION {[1 .. k -> Proof] : k \in 1 .. MaxBatch}

\* A request with an access token that verifies and authorises the
\* configuration, and at least one proof; any other is refused unchanged.
RequestCredential(p, o, proofs, final) ==
  /\ handler[p].step = "idle"
  /\ o \in bearers
  /\ final \/ MayMint
  /\ Goes(p, [Idle EXCEPT !.step = "proof", !.op = "credential", !.offer = o,
                          !.proofs = proofs, !.final = final])
  /\ UNCHANGED <<offers, nonces, bearers, restricted, collected, history>>

\* A slip: the nonce looked up before the signature is verified.
LooksUpFirst(proof, paid) == proof.nonce \notin paid

\* The store is asked once for each nonce of the batch, after the rest of the
\* proof verified.
LooksUp(proof, paid) == proof.verifies /\ proof.nonce \notin paid

\* A slip: a nonce read, and left for its expiry to remove.
StillThere(store, n) == store

\* consumeNonce: one conditional delete.
Consumed(store, n) == store \ {n}

\* One proof of the batch.  The first that is refused ends the request, so an
\* answer remembered from the store is always that the nonce was consumed.
VerifyProof(p) ==
  LET h == handler[p]
      proof == Head(h.proofs)
      accepted == proof.verifies /\ proof.nonce \in h.paid \cup nonces
      rest == Tail(h.proofs)
  IN
  /\ h.step = "proof"
  /\ nonces' = IF LooksUp(proof, h.paid) THEN Consumed(nonces, proof.nonce) ELSE nonces
  /\ IF accepted
       THEN Goes(p, [h EXCEPT !.step = IF rest = <<>> THEN "resident" ELSE "proof",
                              !.proofs = rest, !.paid = @ \cup {proof.nonce}])
       ELSE Finishes(p)
  /\ UNCHANGED <<offers, bearers, restricted, collected, history>>

\* The resident and the disputes on their link.  Rows are never deleted.
CheckResident(p) ==
  LET h == handler[p] IN
  /\ h.step = "resident"
  /\ IF offers[h.offer].resident \in restricted
       THEN Finishes(p)
       ELSE Goes(p, [h EXCEPT !.step = "mint"])
  /\ UNCHANGED <<offers, nonces, bearers, restricted, collected, history>>

\* mintForHolder for every holder of the batch, with its delivery; a stop in
\* the middle leaves what a stop after the first one does.
MintForHolders(p) ==
  LET h == handler[p] IN
  /\ h.step = "mint"
  /\ collected' = collected \cup {offers[h.offer].resident}
  /\ served' = [n \in Nonce |-> IF n \in h.paid THEN served[n] + 1 ELSE served[n]]
  /\ IF h.final THEN Finishes(p)
                ELSE Goes(p, [Idle EXCEPT !.step = "nonce", !.op = "credential"])
  /\ UNCHANGED <<offers, nonces, bearers, restricted, issued, tokens, wrong, raced>>

----------------------------------------------------------------------------
(* Time, and the disputes raised and resolved in the link registry.         *)

ExpireOffer(o) ==
  /\ offers' = [offers EXCEPT ![o].expired = TRUE]
  /\ UNCHANGED <<nonces, bearers, restricted, collected, handler, history>>

ExpireToken(o) ==
  /\ bearers' = bearers \ {o}
  /\ UNCHANGED <<offers, nonces, restricted, collected, handler, history>>

\* An expired nonce is as good as deleted: nothing matches it.
ExpireNonce(n) ==
  /\ nonces' = nonces \ {n}
  /\ UNCHANGED <<offers, bearers, restricted, collected, handler, history>>

Dispute(r) ==
  /\ r \notin restricted
  /\ restricted' = restricted \cup {r}
  /\ UNCHANGED <<offers, nonces, bearers, collected, handler, history>>

Resolve(r) ==
  /\ r \in restricted
  /\ restricted' = restricted \ {r}
  /\ UNCHANGED <<offers, nonces, bearers, collected, handler, history>>

----------------------------------------------------------------------------
Init ==
  /\ offers = [o \in Offer |-> NoOffer]
  /\ nonces = {}
  /\ bearers = {}
  /\ restricted = {}
  /\ collected = {}
  /\ handler = [p \in Handler |-> Idle]
  /\ issued = {}
  /\ served = [n \in Nonce |-> 0]
  /\ tokens = [o \in Offer |-> 0]
  /\ wrong = [o \in Offer |-> 0]
  /\ raced = [o \in Offer |-> FALSE]

Request(p) ==
  \/ \E o \in Made, right \in BOOLEAN : RequestToken(p, o, right)
  \/ RequestNonce(p)
  \/ \E o \in bearers, proofs \in Batch, final \in BOOLEAN :
       RequestCredential(p, o, proofs, final)

Step(p) ==
  \/ FindOffer(p) \/ CountGuess(p) \/ RedeemOffer(p) \/ MintNonce(p)
  \/ VerifyProof(p) \/ CheckResident(p) \/ MintForHolders(p)

Environment ==
  \/ \E o \in Offer, r \in Resident : CreateOffer(o, r)
  \/ \E o \in Made : ExpireOffer(o)
  \/ \E o \in bearers : ExpireToken(o)
  \/ \E n \in nonces : ExpireNonce(n)
  \/ \E r \in Resident : Dispute(r) \/ Resolve(r)

Next == (\E p \in Handler : Request(p) \/ Step(p) \/ Fail(p)) \/ Environment

Spec == Init /\ [][Next]_vars

----------------------------------------------------------------------------
(* What issuance must keep.                                                 *)

TypeOK ==
  /\ offers \in [Offer -> OfferRecord \cup {NoOffer}]
  /\ nonces \subseteq Nonce
  /\ bearers \subseteq Offer
  /\ restricted \subseteq Resident
  /\ collected \subseteq Resident
  /\ handler \in [Handler -> HandlerState]
  /\ issued \subseteq Nonce
  /\ served \in [Nonce -> Nat]
  /\ tokens \in [Offer -> Nat]
  /\ wrong \in [Offer -> Nat]
  /\ raced \in [Offer -> BOOLEAN]

\* However requests overlap, fail and are repeated, and whatever their batches
\* hold, the credentials minted over one nonce were minted for one request
\* (consumeNonce: "MUST return true at most once for a given nonce, even under
\* concurrent calls").
NonceServesOnce == \A n \in Nonce : served[n] <= 1

\* A second access token for a pre-authorized code takes two token requests
\* that held the offer at once; expiry, wrong codes, failed handlers and
\* retries alone never give one (token, the order of updateOffer and mint).
SecondTokenTakesARace == \A o \in Offer : raced[o] \/ tokens[o] <= 1

\* No more wrong codes are answered for an offer than the profile allows,
\* unless two requests held the offer at once (token: "so a 6-digit PIN cannot
\* be walked through").
GuessesBounded == \A o \in Offer : raced[o] \/ wrong[o] <= MaxAttempts

\* A nonce is spent only by a proof over it that verifies, or by its age: a
\* proof that does not verify takes nothing from another wallet
\* (verifyHolderProof: "a garbage proof cannot burn a valid nonce").
OnlyProofsSpend ==
  [][\A n \in nonces \ nonces' :
       handler' # handler =>
         \E p \in Handler : /\ handler[p].step = "proof"
                            /\ Head(handler[p].proofs) = [nonce |-> n, verifies |-> TRUE]]_vars

=============================================================================
