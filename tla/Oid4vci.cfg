SPECIFICATION Spec
CONSTANTS
  Handler = {p1, p2}
  Offer = {o1}
  Resident = {r1}
  Nonce = {n1, n2}
  NoOffer = NoOffer
  MaxAttempts = 2
  MaxBatch = 2
  GuessBound = 4
SYMMETRY Interchangeable
INVARIANTS
  TypeOK
  NonceServesOnce
  SecondTokenTakesARace
  GuessesBounded
PROPERTIES
  OnlyProofsSpend
