------------------------------- MODULE MCOid4vci -------------------------------
(***************************************************************************)
(* Small instances for TLC: handlers, offers, nonces and residents are      *)
(* interchangeable.                                                         *)
(***************************************************************************)
EXTENDS Oid4vci, TLC

Interchangeable ==
  Permutations(Handler) \cup Permutations(Offer) \cup
  Permutations(Nonce) \cup Permutations(Resident)

=============================================================================
