---------------------------- MODULE MCOneTimeCodes ----------------------------
(***************************************************************************)
(* Handlers are interchangeable for TLC.                                    *)
(***************************************************************************)
EXTENDS OneTimeCodes, TLC

Interchangeable == Permutations(Requester)

=============================================================================
