-------------------------- MODULE PublishedStatus --------------------------
(***************************************************************************)
(* What the two published lists promise a verifier about each credential,  *)
(* whatever happens behind them: a credential is usable from the moment    *)
(* its index is taken, may be suspended and reinstated, and once revoked   *)
(* is revoked for good.  One decision changes the standing of one          *)
(* credential.                                                             *)
(***************************************************************************)
CONSTANT Index

VARIABLE standing

Standings == {"unissued", "usable", "suspended", "revoked"}

TypeOK == standing \in [Index -> Standings]

Init == standing = [i \in Index |-> "unissued"]

Becomes(i, s) == standing' = [standing EXCEPT ![i] = s]

Issue(i)     == standing[i] = "unissued"               /\ Becomes(i, "usable")
Suspend(i)   == standing[i] = "usable"                 /\ Becomes(i, "suspended")
Reinstate(i) == standing[i] = "suspended"              /\ Becomes(i, "usable")
Revoke(i)    == standing[i] \in {"usable", "suspended"} /\ Becomes(i, "revoked")

Next == \E i \in Index : Issue(i) \/ Suspend(i) \/ Reinstate(i) \/ Revoke(i)

Spec == Init /\ [][Next]_standing

=============================================================================
