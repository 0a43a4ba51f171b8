------------------------------ MODULE MCConsent ------------------------------
(***************************************************************************)
(* Two replicas and two kinds of agreement for TLC.                         *)
(***************************************************************************)
EXTENDS Consent, TLC

CONSTANTS narrow, wide

OnPaper ==
  {[scopes |-> narrow, basis |-> "consent", limited |-> TRUE],
   [scopes |-> wide, basis |-> "statute", limited |-> FALSE]}

\* One handler, or one replica, is as good as another.
Alike == Permutations(Handler) \cup Permutations(Replica)

=============================================================================
