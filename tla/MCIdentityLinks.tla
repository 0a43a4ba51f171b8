---------------------------- MODULE MCIdentityLinks ----------------------------
(***************************************************************************)
(* Two people for TLC, both enrolled with the registry.                     *)
(***************************************************************************)
EXTENDS IdentityLinks, TLC

CONSTANTS p1, p2, i1, i2

SubjectOf == [p \in {p1, p2} |-> IF p = p1 THEN i1 ELSE i2]

\* One handler is as good as another.
Alike == Permutations(Handler)

BothEnrolled == <<Opening(p1, i1, TRUE), Opening(p2, i2, TRUE)>>

=============================================================================
