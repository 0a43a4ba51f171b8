----------------------------- MODULE Lifecycle -----------------------------
(***************************************************************************)
(* The two state machines of a residency, as the tables the code drives    *)
(* them by.                                                                *)
(*                                                                         *)
(* A relationship (core/residency/lifecycle.ts) is a statement about a     *)
(* person: it holds, it is suspended, or it is over.  A credential         *)
(* (core/credentials/credential-lifecycle.ts) is a statement about a key.  *)
(* Neither machine reads the other.                                        *)
(***************************************************************************)
EXTENDS Sequences

RelationshipStatus == {"ACTIVE", "SUSPENDED", "ENDED", "REVOKED", "EXPIRED"}

TerminalRelationship == {"ENDED", "REVOKED", "EXPIRED"}

\* The edges of TRANSITIONS: a relationship is suspended and reinstated, and
\* leaves for a terminal state from either.
RelationshipTransitions ==
  {<<"ACTIVE", "SUSPENDED">>, <<"SUSPENDED", "ACTIVE">>}
    \cup ({"ACTIVE", "SUSPENDED"} \X TerminalRelationship)

CanTransition(from, to) == <<from, to>> \in RelationshipTransitions

CredentialStatus ==
  {"ISSUED", "ACTIVE", "SUSPENDED", "REVOKED", "EXPIRED", "REPLACED"}

TerminalCredential == {"REVOKED", "EXPIRED", "REPLACED"}

\* A slip: a credential nobody collected cannot be revoked.
RevocableOnceCollected ==
  {<<"ISSUED", "ACTIVE">>, <<"ACTIVE", "SUSPENDED">>, <<"SUSPENDED", "ACTIVE">>}
    \cup ({"ACTIVE", "SUSPENDED"} \X TerminalCredential)

CredentialTransitions ==
  {<<"ISSUED", "ACTIVE">>, <<"ACTIVE", "SUSPENDED">>, <<"SUSPENDED", "ACTIVE">>}
    \cup ({"ISSUED", "ACTIVE", "SUSPENDED"} \X TerminalCredential)

CanTransitionCredential(from, to) == <<from, to>> \in CredentialTransitions

(***************************************************************************)
(* A decision about a credential is published on two bitstrings.  What a   *)
(* transition must publish is returned with it, in the order it is written.*)
(***************************************************************************)
StatusPurpose == {"revocation", "suspension"}

Change == [purpose : StatusPurpose, set : BOOLEAN]

SetRevocation   == [purpose |-> "revocation", set |-> TRUE]
SetSuspension   == [purpose |-> "suspension", set |-> TRUE]
ClearSuspension == [purpose |-> "suspension", set |-> FALSE]

\* Slips in what is published: a case that falls through, the two writes of a
\* revocation swapped, and a revocation that leaves the suspension standing.
PublishForgetsReplaced(to) ==
  CASE to = "SUSPENDED"            -> <<SetSuspension>>
    [] to = "ACTIVE"               -> <<ClearSuspension>>
    [] to \in {"REVOKED", "EXPIRED"} -> <<SetRevocation, ClearSuspension>>
    [] OTHER                       -> <<ClearSuspension>>

PublishSwapped(to) ==
  CASE to = "SUSPENDED"            -> <<SetSuspension>>
    [] to = "ACTIVE"               -> <<ClearSuspension>>
    [] to \in TerminalCredential   -> <<ClearSuspension, SetRevocation>>
    [] OTHER                       -> <<>>

PublishKeepsSuspension(to) ==
  CASE to = "SUSPENDED"            -> <<SetSuspension>>
    [] to = "ACTIVE"               -> <<ClearSuspension>>
    [] to \in TerminalCredential   -> <<SetRevocation>>
    [] OTHER                       -> <<>>

Publish(to) ==
  CASE to = "SUSPENDED"            -> <<SetSuspension>>
    [] to = "ACTIVE"               -> <<ClearSuspension>>
    [] to \in TerminalCredential   -> <<SetRevocation, ClearSuspension>>
    [] OTHER                       -> <<>>

\* What is left to publish at any point of a transition.
PublishQueue ==
  {<<>>, <<SetSuspension>>, <<ClearSuspension>>, <<SetRevocation, ClearSuspension>>}

\* A row that never recorded a decision is read from its revocation bit.
BackfilledCredentialStatus(revokedBit) == IF revokedBit THEN "REVOKED" ELSE "ACTIVE"

=============================================================================
