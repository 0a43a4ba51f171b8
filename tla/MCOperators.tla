----------------------------- MODULE MCOperators -----------------------------
(***************************************************************************)
(* Handlers and keys are interchangeable for TLC.                           *)
(***************************************************************************)
EXTENDS Operators, TLC

Interchangeable == Permutations(Handler) \cup Permutations(Key)

=============================================================================
