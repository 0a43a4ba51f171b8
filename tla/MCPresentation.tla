---------------------------- MODULE MCPresentation ----------------------------
(***************************************************************************)
(* Handlers, and replicas, are interchangeable for TLC.                     *)
(***************************************************************************)
EXTENDS Presentation, TLC

Interchangeable == Permutations(Handler) \cup Permutations(Replica)

=============================================================================
