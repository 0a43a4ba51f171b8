------------------------ MODULE MCResidencyRegister ------------------------
(***************************************************************************)
(* Small registers for TLC.  The targets leave out the terminal states     *)
(* that differ from another only in name; the configurations choose the    *)
(* number of handlers, subjects, resident ids and indices.                 *)
(***************************************************************************)
EXTENDS ResidencyRegister, TLC

\* Residents, subjects and handlers are interchangeable.
Interchangeable ==
  Permutations(Subject) \cup Permutations(ResidentId) \cup Permutations(Handler)

=============================================================================
