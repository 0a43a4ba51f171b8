------------------------------ MODULE Presentation ------------------------------
(***************************************************************************)
(* A wallet presents a credential to a relying party (core/oid4vp): the      *)
(* request is made, answered and given a verdict, and the verdict turns on    *)
(* the revocation lists that the replica answering it holds in memory.       *)
(*                                                                          *)
(* The deployment's own list is read from the database before every answer   *)
(* and after every decision, and assigned once the read returns: two reads   *)
(* on one replica may be assigned in either order (platform.service.ts).     *)
(* Peers' lists are fetched on a timer (federation.ts, background-jobs.ts).   *)
(* Signature, audience, nonce and holder binding are one choice, made when   *)
(* a presentation is checked.  The decisions are those of ResidencyRegister. *)
(***************************************************************************)
EXTENDS FiniteSets, Naturals

CONSTANTS
  Handler,      \* requests and timers in progress
  Replica,      \* processes, each with its lists in memory
  Own,          \* credentials this deployment issued
  Peers,        \* credentials a federated peer issued
  VpRequest,    \* presentation requests
  MaxOverlaps,  \* bound: handlers that begin while another runs, and restarts
  NoRow, NoCard, NoList, NoReplica, NoRequest

Card == Own \cup Peers

ASSUME PresentationAssumption ==
  /\ Own \cap Peers = {}
  /\ MaxOverlaps \in Nat
  /\ NoCard \notin Card
  /\ \A cards \in SUBSET Card : cards # NoList
  /\ NoReplica \notin Replica
  /\ NoRequest \notin VpRequest

VARIABLES
  revoked,    \* the revocation lists, ours and the peer's, as published
  suspended,  \* our suspension list
  cache,      \* the lists each replica holds: its trust map
  requests,   \* the presentation requests
  lapsed,     \* requests past expiresAt
  handler,    \* what each handler holds
  overlaps    \* history: handlers that began while another ran

lists == <<revoked, suspended>>

vars == <<lists, cache, requests, lapsed, handler, overlaps>>

Lists == [own : (SUBSET Own) \cup {NoList}, peer : (SUBSET Peers) \cup {NoList}]

\* A verdict remembers what was so when the answer came, for the properties.
RequestRow ==
  [status : {"pending", "fulfilled", "failed"},
   card   : Card \cup {NoCard},
   late   : BOOLEAN,      \* the credential was known to be revoked
   paused : BOOLEAN,      \* ... or suspended
   behind : BOOLEAN]      \* ... but this replica's list was set back meanwhile

HandlerState ==
  [step    : {"idle", "load", "assign", "find", "check", "complete", "fetch", "keep"},
   op      : {"idle", "answer", "refresh", "sync"},
   replica : Replica \cup {NoReplica},
   request : VpRequest \cup {NoRequest},
   card    : Card \cup {NoCard},            \* NoCard: the answer has no vp_token
   list    : (SUBSET Card) \cup {NoList},   \* the list it read
   valid   : BOOLEAN,
   late    : BOOLEAN,
   paused  : BOOLEAN,
   behind  : BOOLEAN]

Idle ==
  [step |-> "idle", op |-> "idle", replica |-> NoReplica, request |-> NoRequest,
   card |-> NoCard, list |-> NoList, valid |-> FALSE, late |-> FALSE,
   paused |-> FALSE, behind |-> FALSE]

Empty == [own |-> NoList, peer |-> NoList]

Init ==
  /\ revoked = {}
  /\ suspended = {}
  /\ cache = [r \in Replica |-> Empty]
  /\ requests = [v \in VpRequest |-> NoRow]
  /\ lapsed = {}
  /\ handler = [q \in Handler |-> Idle]
  /\ overlaps = 0

----------------------------------------------------------------------------

Running == {q \in Handler : handler[q] # Idle}

Goes(q, h) == handler' = [handler EXCEPT ![q] = h]

Begins(q, h) ==
  /\ handler[q] = Idle
  /\ Goes(q, h)
  /\ overlaps' = overlaps + IF Running # {} THEN 1 ELSE 0
  /\ overlaps' <= MaxOverlaps

\* What a replica's list of ours says, and what it says of a peer's credentials:
\* while it has no list of a peer's, any of them may be revoked.
OwnHeld(r) == IF cache[r].own = NoList THEN {} ELSE cache[r].own

PeerHeld(r) == IF cache[r].peer = NoList THEN revoked \cap Peers ELSE cache[r].peer

\* Replica r puts new where old was: an answer in progress there may be judged by a
\* list that has lost an entry.
PutBack(q, r, old, new, h) ==
  handler' = [p \in Handler |->
                IF p = q THEN h
                ELSE [handler[p] EXCEPT !.behind = @ \/ (old \ new # {}
                                                         /\ handler[p].op = "answer"
                                                         /\ handler[p].replica = r)]]

----------------------------------------------------------------------------
(* Decisions, and the refresh that follows them.                            *)

\* The controller's part of a decision: the bit is published, then the replica
\* that took the decision refreshes its own list.
Begin(q, r, op, step) == Begins(q, [Idle EXCEPT !.op = op, !.step = step, !.replica = r])

\* A slip: a revoked credential keeps its place among the suspended.
StaysSuspended(c) == suspended

\* Revocation overrides suspension.
NoLongerSuspended(c) == suspended \ {c}

Revoke(q, r, c) ==
  /\ c \in Own \ revoked
  /\ Begin(q, r, "refresh", "load")
  /\ revoked' = revoked \cup {c}
  /\ suspended' = NoLongerSuspended(c)
  /\ UNCHANGED <<cache, requests, lapsed>>

Suspend(q, r, c) ==
  /\ c \in Own \ (revoked \cup suspended)
  /\ Begin(q, r, "refresh", "load")
  /\ suspended' = suspended \cup {c}
  /\ UNCHANGED <<revoked, cache, requests, lapsed>>

Reinstate(q, r, c) ==
  /\ c \in suspended
  /\ Begin(q, r, "refresh", "load")
  /\ suspended' = suspended \ {c}
  /\ UNCHANGED <<revoked, cache, requests, lapsed>>

\* POST verify, and the VC API: every list of ours is refreshed before the check.
Verify(q, r) ==
  /\ Begin(q, r, "refresh", "load")
  /\ UNCHANGED <<lists, cache, requests, lapsed>>

\* syncStatusList reads the revocation list, and only that.
LoadList(q) ==
  /\ handler[q].step = "load"
  /\ Goes(q, [handler[q] EXCEPT !.step = "assign", !.list = revoked \cap Own])
  /\ UNCHANGED <<lists, cache, requests, lapsed, overlaps>>

\* ... and assigns it, whatever the replica holds by then.
AssignList(q) ==
  LET h == handler[q]
  IN /\ h.step = "assign"
     /\ cache' = [cache EXCEPT ![h.replica].own = h.list]
     /\ PutBack(q, h.replica, OwnHeld(h.replica), h.list,
                IF h.op = "answer" THEN [h EXCEPT !.step = "find"] ELSE Idle)
     /\ UNCHANGED <<lists, requests, lapsed, overlaps>>

----------------------------------------------------------------------------
(* Peers.                                                                   *)

PeerRevokes(c) ==
  /\ c \in Peers \ revoked
  /\ revoked' = revoked \cup {c}
  /\ UNCHANGED <<suspended, cache, requests, lapsed, handler, overlaps>>

StartSync(q, r) ==
  /\ Begin(q, r, "sync", "fetch")
  /\ UNCHANGED <<lists, cache, requests, lapsed>>

FetchPeer(q) ==
  /\ handler[q].step = "fetch"
  /\ Goes(q, [handler[q] EXCEPT !.step = "keep", !.list = revoked \cap Peers])
  /\ UNCHANGED <<lists, cache, requests, lapsed, overlaps>>

\* A list whose proof does not verify, and a peer that does not answer, leave the
\* list that is there alone: the handler stops.
KeepPeer(q) ==
  LET h == handler[q] IN
  /\ h.step = "keep"
  /\ cache' = [cache EXCEPT ![h.replica].peer = h.list]
  /\ PutBack(q, h.replica, PeerHeld(h.replica), h.list, Idle)
  /\ UNCHANGED <<lists, requests, lapsed, overlaps>>

----------------------------------------------------------------------------
(* Presentation requests.                                                   *)

CreateRequest(v) ==
  /\ requests[v] = NoRow
  /\ requests' = [requests EXCEPT ![v] =
       [status |-> "pending", card |-> NoCard, late |-> FALSE, paused |-> FALSE,
        behind |-> FALSE]]
  /\ UNCHANGED <<lists, cache, lapsed, handler, overlaps>>

ExpireRequest(v) ==
  /\ requests[v] # NoRow
  /\ lapsed' = lapsed \cup {v}
  /\ UNCHANGED <<lists, cache, requests, handler, overlaps>>

\* Is the credential known to be revoked?  To the register, or for a peer's to the
\* list this replica holds, or could fetch when it holds none.
KnownRevoked(r, c) == c \in (revoked \cap Own) \cup PeerHeld(r)

\* The wallet posts its presentation, perhaps more than once, and our list is
\* refreshed first.
PostAnswer(q, r, v, c) ==
  /\ requests[v] # NoRow
  /\ Begins(q, [Idle EXCEPT !.op = "answer", !.step = "load", !.replica = r,
                            !.request = v, !.card = c,
                            !.late = KnownRevoked(r, c), !.paused = c \in suspended])
  /\ UNCHANGED <<lists, cache, requests, lapsed>>

\* What was so when the answer came is remembered for a presentation accepted.
Verdict(h, valid) ==
  [h EXCEPT !.step = "complete", !.valid = valid, !.late = @ /\ valid,
            !.paused = @ /\ valid, !.behind = @ /\ valid]

\* handleResponse: an answer that is too late, or empty, fails the request.
FindRequest(q) ==
  LET h == handler[q]
      open == requests[h.request].status = "pending"
  IN /\ h.step = "find"
     /\ Goes(q, CASE h.request \in lapsed -> Verdict(h, FALSE)
                  [] h.request \notin lapsed /\ ~ open -> Idle
                  [] h.request \notin lapsed /\ open /\ h.card = NoCard ->
                       Verdict(h, FALSE)
                  [] OTHER -> [h EXCEPT !.step = "check"])
     /\ UNCHANGED <<lists, cache, requests, lapsed, overlaps>>

\* The list an issuer's credentials are looked up in.
ListFor(r, c) == IF c \in Own THEN cache[r].own ELSE cache[r].peer

\* A slip: without a list the answer stands, with a flag nobody reads.
Unlisted(r, c) == ListFor(r, c) = NoList \/ c \notin ListFor(r, c)

\* Step 6 of VpVerifier.verify: no list, no presentation.
NotRevoked(r, c) == ListFor(r, c) # NoList /\ c \notin ListFor(r, c)

CheckPresentation(q) ==
  LET h == handler[q] IN
  /\ h.step = "check"
  /\ \E sound \in BOOLEAN :
       Goes(q, Verdict(h, sound /\ NotRevoked(h.replica, h.card)))
  /\ UNCHANGED <<lists, cache, requests, lapsed, overlaps>>

\* A slip: the verdict is written over whatever is there.
AnyStatus(row) == TRUE

StillPending(row) == row.status = "pending"

\* completeRequest: one conditional update, so that one caller is told it was first.
CompleteRequest(q) ==
  LET h == handler[q]
      row == requests[h.request]
  IN /\ h.step = "complete"
     /\ requests' =
          IF StillPending(row)
            THEN [requests EXCEPT ![h.request] =
                    [status |-> IF h.valid THEN "fulfilled" ELSE "failed", card |-> h.card,
                     late |-> h.late, paused |-> h.paused, behind |-> h.behind]]
            ELSE requests
     /\ Goes(q, Idle)
     /\ UNCHANGED <<lists, cache, lapsed, overlaps>>

----------------------------------------------------------------------------

\* A handler's request fails, its peer does not answer or answers with a list that
\* is not signed, or its process stops.
Stop(q) ==
  /\ handler[q] # Idle
  /\ Goes(q, Idle)
  /\ UNCHANGED <<lists, cache, requests, lapsed, overlaps>>

\* A replica restarts: its lists are gone, and what ran on it with them.
Restart(r) ==
  /\ overlaps < MaxOverlaps
  /\ overlaps' = overlaps + 1
  /\ cache' = [cache EXCEPT ![r] = Empty]
  /\ handler' = [q \in Handler |-> IF handler[q].replica = r THEN Idle ELSE handler[q]]
  /\ UNCHANGED <<lists, requests, lapsed>>

Request(q, r) ==
  \/ \E c \in Own : Revoke(q, r, c) \/ Suspend(q, r, c) \/ Reinstate(q, r, c)
  \/ Verify(q, r)
  \/ StartSync(q, r)
  \/ \E v \in VpRequest, c \in Card \cup {NoCard} : PostAnswer(q, r, v, c)

Step(q) == LoadList(q) \/ AssignList(q) \/ FetchPeer(q) \/ KeepPeer(q) \/ FindRequest(q)
           \/ CheckPresentation(q) \/ CompleteRequest(q)

Next ==
  \/ \E q \in Handler : (\E r \in Replica : Request(q, r)) \/ Step(q) \/ Stop(q)
  \/ \E v \in VpRequest : CreateRequest(v) \/ ExpireRequest(v)
  \/ \E c \in Peers : PeerRevokes(c)
  \/ \E r \in Replica : Restart(r)

Spec == Init /\ [][Next]_vars

----------------------------------------------------------------------------
(* Properties.                                                              *)

TypeOK ==
  /\ revoked \subseteq Card
  /\ suspended \subseteq Own \ revoked
  /\ cache \in [Replica -> Lists]
  /\ requests \in [VpRequest -> RequestRow \cup {NoRow}]
  /\ lapsed \subseteq VpRequest
  /\ handler \in [Handler -> HandlerState]
  /\ overlaps \in 0 .. MaxOverlaps

\* A verdict is given once (handleResponse, completeRequest): answers that are
\* posted again, that overlap, that come too late or are empty never change it.
VerdictStands ==
  [][\A v \in VpRequest :
       requests[v] # NoRow /\ requests[v].status # "pending" => requests'[v] = requests[v]]_vars

\* A presentation that arrives after its credential was revoked is not accepted, on
\* any replica, including those that had no part in the revocation and those that
\* restarted; nor a peer's credential that the replica's list of it names, nor, while
\* it has no list, one the peer revoked.  The one way in is a list read earlier and
\* assigned later, while the answer is being judged (syncStatusList,
\* syncFederatedStatusLists, VpVerifier.verify).
RevokedIsRefused ==
  \A v \in VpRequest :
    requests[v] # NoRow /\ requests[v].status = "fulfilled" /\ requests[v].late
      => requests[v].behind

\* A suspension is visible to those who verify: a presentation of a credential that
\* was suspended before it arrived is not accepted (applyCredentialTransition).
SuspendedIsRefused ==
  \A v \in VpRequest :
    requests[v] # NoRow /\ requests[v].status = "fulfilled" => ~ requests[v].paused

=============================================================================
