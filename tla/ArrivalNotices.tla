---------------------------- MODULE ArrivalNotices ----------------------------
(***************************************************************************)
(* How one jurisdiction tells another that a person it registered moved     *)
(* (core/residency/arrival-notice.ts): the deployment that sends notices    *)
(* and retries them, the calls between the two, and the deployment that     *)
(* receives them, applies its own rule once the grace period has run, and   *)
(* lets a person decide.                                                    *)
(*                                                                          *)
(* Both sides run handlers on several replicas over one database, and a     *)
(* row is read in one step and written back whole in another.  Calls are    *)
(* lost, answered too late, and made again.                                 *)
(***************************************************************************)
EXTENDS Integers, FiniteSets, Lifecycle

CONSTANTS
  Desk,         \* handlers of the deployment that sends
  Handler,      \* handlers of the deployment that receives
  Notice,       \* the notices that can be sent, by their jti
  Resident,     \* the residents of the receiving deployment
  Policy,       \* the exclusivity policies it declared for its peers
  MaxAttempts,  \* ARRIVAL_NOTICE_MAX_ATTEMPTS
  FaultBound,   \* bound: calls lost on the way, and handlers that stop
  NoNotice, NoResident, NoRow, NoCall

Rule == {"none", "record", "suspend", "end"}

ASSUME ArrivalNoticesAssumption ==
  /\ Policy \subseteq [rule : Rule, atOnce : BOOLEAN]
  /\ MaxAttempts \in Nat \ {0}
  /\ FaultBound \in Nat
  /\ NoNotice \notin Notice
  /\ NoResident \notin Resident

\* What a notice says, and the policy declared for the peer that signed it.
Terms == [policy : Policy, resident : Resident \cup {NoResident}]

OutboundRow == [status : {"failed", "sent"}, attempts : Nat]

InboundRow ==
  [status     : {"noted", "unmatched", "open", "pending", "applied", "resolved"},
   transition : {"none", "SUSPENDED", "ENDED"},
   resolution : {"none", "upheld", "reversed"}]

Call == [notice : Notice, desk : Desk, attempt : Nat]

\* What stands for an absent row is not one.
ASSUME NoRowAssumption == NoRow \notin Terms \cup InboundRow

VARIABLES
  terms,         \* what each notice that was signed says
  outbound,      \* the sender's table
  desk,          \* what each handler of the sender holds
  network,       \* calls on their way
  inbound,       \* the receiver's table
  relationship,  \* the relationship status on each resident's row
  ripe,          \* notices whose grace period has run
  handler,       \* what each handler of the receiver holds
  crossed,       \* history: notices held by two handlers, or by one that stopped
  moves,         \* history: transitions each notice caused while not crossed
  movedBy,       \* history: the uncrossed notice that last moved a relationship
  faults         \* history: calls lost and handlers stopped

sending == <<terms, outbound, desk>>
register == <<inbound, relationship, ripe>>
history == <<crossed, moves, movedBy, faults>>

vars == <<sending, network, register, handler, history>>

----------------------------------------------------------------------------
(* The sending deployment.                                                  *)

DeskState ==
  [step   : {"idle", "await"},
   notice : Notice \cup {NoNotice},
   count  : Nat,                        \* attempts, with the one under way
   reply  : {"none", "ok", "error"},
   rest   : SUBSET (Notice \X Nat)]     \* failed rows a retry has read

AtRest == [step |-> "idle", notice |-> NoNotice, count |-> 0, reply |-> "none", rest |-> {}]

\* attemptDelivery, up to the call: the attempt is counted in the copy.
Attempt(d, n, attempts, rest) ==
  /\ desk' = [desk EXCEPT ![d] = [step |-> "await", notice |-> n, count |-> attempts + 1,
                                  reply |-> "none", rest |-> rest]]
  /\ network' = network \cup {[notice |-> n, desk |-> d, attempt |-> attempts + 1]}

\* notify, once the credential presented verified and its issuer is a peer with
\* an endpoint: the notice is signed under an identifier of its own.
Notify(d, n, said) ==
  /\ desk[d].step = "idle"
  /\ terms[n] = NoRow
  /\ terms' = [terms EXCEPT ![n] = said]
  /\ Attempt(d, n, 0, {})
  /\ UNCHANGED <<outbound, register, handler, history>>

\* The next row of a retry, or none.
Onward(d, rest) ==
  \/ /\ rest = {}
     /\ desk' = [desk EXCEPT ![d] = AtRest]
     /\ UNCHANGED network
  \/ \E pair \in rest : Attempt(d, pair[1], pair[2], rest \ {pair})

\* A slip: delivered, for all the client heard.
NotRefused(reply) == reply # "error"

Delivered(reply) == reply = "ok"

\* The answer, or the ten seconds after which the client gives up on it; then
\* the row is saved, and the next one attempted.
Await(d) ==
  LET h == desk[d] IN
  /\ h.step = "await"
  /\ outbound' = [outbound EXCEPT ![h.notice] =
                    [status |-> IF Delivered(h.reply) THEN "sent" ELSE "failed",
                     attempts |-> h.count]]
  /\ Onward(d, h.rest)
  /\ UNCHANGED <<terms, register, handler, history>>

\* A slip: the limit is reached by the first attempt.
RetriedNever(row) == row.status = "failed" /\ row.attempts < 1

Retriable(row) == row.status = "failed" /\ row.attempts < MaxAttempts

Failed == {n \in Notice : outbound[n] # NoRow /\ Retriable(outbound[n])}

\* retryFailed, on the timer of a replica or by hand.
RetryFailed(d) ==
  /\ desk[d].step = "idle"
  /\ Failed # {}
  /\ Onward(d, {<<n, outbound[n].attempts>> : n \in Failed})
  /\ UNCHANGED <<terms, outbound, register, handler, history>>

StopDesk(d) ==
  /\ desk[d].step # "idle"
  /\ faults < FaultBound
  /\ desk' = [desk EXCEPT ![d] = AtRest]
  /\ faults' = faults + 1
  /\ UNCHANGED <<terms, outbound, network, register, handler, crossed, moves, movedBy>>

Lose(c) ==
  /\ faults < FaultBound
  /\ network' = network \ {c}
  /\ faults' = faults + 1
  /\ UNCHANGED <<sending, register, handler, crossed, moves, movedBy>>

----------------------------------------------------------------------------
(* The receiving deployment.                                                *)

HandlerState ==
  [step     : {"idle", "find", "match", "read", "write", "save"},
   op       : {"none", "receive", "sweep", "resolve"},
   notice   : Notice \cup {NoNotice},
   resident : Resident \cup {NoResident},
   call     : Call \cup {NoCall},
   row      : InboundRow \cup {NoRow},            \* as it will be saved
   to       : RelationshipStatus \cup {"none"},   \* the transition asked for
   rest     : SUBSET Notice]                      \* due rows a sweep has read

Idle == [step |-> "idle", op |-> "none", notice |-> NoNotice, resident |-> NoResident,
         call |-> NoCall, row |-> NoRow, to |-> "none", rest |-> {}]

Goes(q, next) == handler' = [handler EXCEPT ![q] = next]

Holds(q, n) == handler[q].notice = n \/ n \in handler[q].rest

\* A handler takes up notices; another may hold them already.
TakesUp(q, taken) ==
  crossed' = [n \in Notice |->
                \/ crossed[n]
                \/ n \in taken /\ \E p \in Handler \ {q} : Holds(p, n)]

Noted == [status |-> "noted", transition |-> "none", resolution |-> "none"]
Pending == [Noted EXCEPT !.status = "pending"]
OpenRow == [Noted EXCEPT !.status = "open"]

\* A slip: the name of the rule taken for the status it leads to.
RuleName(n) == terms[n].policy.rule

\* The transition the rule makes, and the row it is recorded in; a refused one
\* is left for a person.
Target(n) == IF terms[n].policy.rule = "end" THEN "ENDED" ELSE "SUSPENDED"

\* A slip: a refused transition is tried again on the next sweep.
KeptPending(n) == Pending

RefusedRow(n) == OpenRow
AppliedRow(n) == [Noted EXCEPT !.status = "applied", !.transition = Target(n)]

\* The answer of a call that is still waited for.
Answers(c, reply) ==
  desk' = IF /\ c # NoCall
             /\ desk[c.desk].step = "await"
             /\ desk[c.desk].notice = c.notice
             /\ desk[c.desk].count = c.attempt
            THEN [desk EXCEPT ![c.desk].reply = reply]
            ELSE desk

----------------------------------------------------------------------------
(* receive.                                                                 *)

\* A call whose notice is signed by a peer and well formed reaches a replica.
Arrive(q, c) ==
  /\ handler[q].step = "idle"
  /\ network' = network \ {c}
  /\ Goes(q, [Idle EXCEPT !.step = "find", !.op = "receive", !.notice = c.notice, !.call = c])
  /\ TakesUp(q, {c.notice})
  /\ UNCHANGED <<sending, register, moves, movedBy, faults>>

\* A slip: a notice is known by its row only while it waits for its day.
SeenWhilePending(n) == inbound[n] # NoRow /\ inbound[n].status = "pending"

Seen(n) == inbound[n] # NoRow

\* A repeat is refused as a replay.
FindRepeat(q) ==
  LET h == handler[q] IN
  /\ h.step = "find" /\ h.op = "receive"
  /\ IF Seen(h.notice)
       THEN Answers(h.call, "error") /\ Goes(q, Idle)
       ELSE Goes(q, [h EXCEPT !.step = "match"]) /\ UNCHANGED desk
  /\ UNCHANGED <<terms, outbound, network, register, history>>

\* findByCredentialId, and the rule declared for the peer.
MatchCredential(q) ==
  LET h == handler[q]
      r == terms[h.notice].resident
      policy == terms[h.notice].policy
      Stores(row) == Goes(q, [h EXCEPT !.step = "save", !.row = row])
  IN
  /\ h.step = "match"
  /\ \/ /\ r = NoResident
        /\ Stores([Noted EXCEPT !.status = "unmatched"])
     \/ /\ r # NoResident
        /\ \/ /\ policy.rule = "none" \/ relationship[r] \in TerminalRelationship
              /\ Stores(Noted)
           \/ /\ policy.rule # "none" /\ relationship[r] \notin TerminalRelationship
              /\ \/ policy.rule = "record" /\ Stores(OpenRow)
                 \/ policy.rule # "record" /\ ~policy.atOnce /\ Stores(Pending)
                 \/ /\ policy.rule # "record" /\ policy.atOnce
                    /\ Goes(q, [h EXCEPT !.step = "read", !.resident = r, !.to = Target(h.notice),
                                         !.row = AppliedRow(h.notice)])
  /\ UNCHANGED <<sending, network, register, history>>

----------------------------------------------------------------------------
(* transitionRelationship, as apply and resolve call it: the row is read,   *)
(* and written back.                                                        *)

ReadRelationship(q) ==
  LET h == handler[q]
      allowed == CanTransition(relationship[h.resident], h.to)
  IN
  /\ h.step = "read"
  /\ \/ allowed /\ Goes(q, [h EXCEPT !.step = "write"])
     \/ ~allowed /\ h.to = "ACTIVE" /\ Goes(q, Idle)
     \/ ~allowed /\ h.to # "ACTIVE" /\ Goes(q, [h EXCEPT !.step = "save", !.row = RefusedRow(h.notice)])
  /\ UNCHANGED <<sending, network, register, history>>

WriteRelationship(q) ==
  LET h == handler[q]
      counts == h.to # "ACTIVE" /\ ~crossed[h.notice]
  IN
  /\ h.step = "write"
  /\ relationship' = [relationship EXCEPT ![h.resident] = h.to]
  /\ movedBy' = [movedBy EXCEPT ![h.resident] = IF counts THEN h.notice ELSE NoNotice]
  /\ moves' = IF counts THEN [moves EXCEPT ![h.notice] = @ + 1] ELSE moves
  /\ Goes(q, [h EXCEPT !.step = "save"])
  /\ UNCHANGED <<sending, network, inbound, ripe, crossed, faults>>

\* The relationship route, for reasons of its own.  How its read and write
\* overlap with others is ResidencyRegister's matter.
TransitionRelationship(r, to) ==
  /\ CanTransition(relationship[r], to)
  /\ relationship' = [relationship EXCEPT ![r] = to]
  /\ movedBy' = [movedBy EXCEPT ![r] = NoNotice]
  /\ UNCHANGED <<sending, network, inbound, ripe, handler, crossed, moves, faults>>

----------------------------------------------------------------------------
(* The sweep and the person.                                                *)

Waits(n) == inbound[n] # NoRow /\ inbound[n].status = "pending"

Due == {n \in ripe : Waits(n)}

\* The next row of a sweep, or none.
SweepsOn(q, rest) ==
  \/ /\ rest = {}
     /\ Goes(q, Idle)
  \/ \E n \in rest :
       Goes(q, [Idle EXCEPT !.step = "read", !.op = "sweep", !.notice = n,
                            !.resident = terms[n].resident, !.to = Target(n),
                            !.row = AppliedRow(n), !.rest = rest \ {n}])

\* applyDue, on the timer of a replica or by hand.
Sweep(q) ==
  /\ handler[q].step = "idle"
  /\ Due # {}
  /\ SweepsOn(q, Due)
  /\ TakesUp(q, Due)
  /\ UNCHANGED <<sending, network, register, moves, movedBy, faults>>

RequestResolve(q, n, resolution) ==
  /\ handler[q].step = "idle"
  /\ inbound[n] # NoRow
  /\ Goes(q, [Idle EXCEPT !.step = "find", !.op = "resolve", !.notice = n,
                          !.resident = terms[n].resident,
                          !.row = [Noted EXCEPT !.status = "resolved", !.resolution = resolution]])
  /\ TakesUp(q, {n})
  /\ UNCHANGED <<sending, network, register, moves, movedBy, faults>>

\* A slip: a reversal marks the notice and leaves the relationship.
ReversedOnPaper(row, resolution) == FALSE

Reinstates(row, resolution) == row.status = "applied" /\ resolution = "reversed"

\* resolve: what the decision asks of the relationship first.
FindToResolve(q) ==
  LET h == handler[q]
      row == inbound[h.notice]
      decided == [h.row EXCEPT !.transition = row.transition]
      Refuse == Goes(q, Idle)
      Asks(to, saved) == Goes(q, [h EXCEPT !.step = "read", !.to = to, !.row = saved])
  IN
  /\ h.step = "find" /\ h.op = "resolve"
  /\ \/ row.status \in {"resolved", "noted", "unmatched"} /\ Refuse
     \/ /\ row.status = "pending" /\ h.row.resolution = "upheld"
        /\ Asks(Target(h.notice), [decided EXCEPT !.transition = Target(h.notice)])
     \/ /\ Reinstates(row, h.row.resolution)
        /\ IF row.transition = "ENDED" THEN Refuse ELSE Asks("ACTIVE", decided)
     \/ /\ row.status \in {"pending", "open", "applied"}
        /\ ~(row.status = "pending" /\ h.row.resolution = "upheld")
        /\ ~Reinstates(row, h.row.resolution)
        /\ Goes(q, [h EXCEPT !.step = "save", !.row = decided])
  /\ UNCHANGED <<sending, network, register, history>>

\* save: the row as the handler holds it, over whatever is there.  The answer
\* of receive follows; one that is lost is one the client gave up on.
SaveInbound(q) ==
  LET h == handler[q] IN
  /\ h.step = "save"
  /\ inbound' = [inbound EXCEPT ![h.notice] = h.row]
  /\ IF h.op = "sweep" THEN SweepsOn(q, h.rest) ELSE Goes(q, Idle)
  /\ Answers(h.call, "ok")
  /\ UNCHANGED <<terms, outbound, network, relationship, ripe, history>>

Stop(q) ==
  /\ handler[q].step # "idle"
  /\ faults < FaultBound
  /\ Goes(q, Idle)
  /\ faults' = faults + 1
  /\ crossed' = [n \in Notice |-> crossed[n] \/ Holds(q, n)]
  /\ UNCHANGED <<sending, network, register, moves, movedBy>>

\* The grace period of a pending notice runs.
Ripen(n) ==
  /\ Waits(n)
  /\ n \notin ripe
  /\ ripe' = ripe \cup {n}
  /\ UNCHANGED <<sending, network, inbound, relationship, handler, history>>

----------------------------------------------------------------------------
Init ==
  /\ terms = [n \in Notice |-> NoRow]
  /\ outbound = [n \in Notice |-> NoRow]
  /\ desk = [d \in Desk |-> AtRest]
  /\ network = {}
  /\ inbound = [n \in Notice |-> NoRow]
  /\ relationship = [r \in Resident |-> "ACTIVE"]
  /\ ripe = {}
  /\ handler = [q \in Handler |-> Idle]
  /\ moves = [n \in Notice |-> 0]
  /\ movedBy = [r \in Resident |-> NoNotice]
  /\ crossed = [n \in Notice |-> FALSE]
  /\ faults = 0

Step(q) ==
  \/ FindRepeat(q) \/ MatchCredential(q) \/ FindToResolve(q)
  \/ ReadRelationship(q) \/ WriteRelationship(q) \/ SaveInbound(q)

Send(d) ==
  \/ \E n \in Notice, said \in Terms : Notify(d, n, said)
  \/ RetryFailed(d) \/ Await(d) \/ StopDesk(d)

Handle(q) ==
  \/ \E c \in network : Arrive(q, c)
  \/ \E n \in Notice, resolution \in {"upheld", "reversed"} : RequestResolve(q, n, resolution)
  \/ Sweep(q) \/ Step(q) \/ Stop(q)

Next ==
  \/ \E d \in Desk : Send(d)
  \/ \E c \in network : Lose(c)
  \/ \E q \in Handler : Handle(q)
  \/ \E n \in Notice : Ripen(n)
  \/ \E r \in Resident, to \in {"ACTIVE", "SUSPENDED", "ENDED"} : TransitionRelationship(r, to)

Spec == Init /\ [][Next]_vars

\* A call on the database is answered; the timers of both deployments fire; a
\* call that is not lost is taken by some replica.  A timer and a call are
\* never refused for want of a handler: that the pool is finite is the model's
\* bound, so they get strong fairness.
FairSpec ==
  /\ Spec
  /\ \A d \in Desk : WF_vars(Await(d))
  /\ \A q \in Handler : WF_vars(Step(q))
  /\ SF_vars(\E d \in Desk : RetryFailed(d))
  /\ SF_vars(\E q \in Handler : Sweep(q))
  /\ \A n \in Notice : SF_vars(\E q \in Handler, c \in network : c.notice = n /\ Arrive(q, c))
  /\ \A n \in Notice : WF_vars(Ripen(n))

----------------------------------------------------------------------------
(* What the exchange must keep.                                             *)

TypeOK ==
  /\ terms \in [Notice -> Terms \cup {NoRow}]
  /\ outbound \in [Notice -> OutboundRow \cup {NoRow}]
  /\ desk \in [Desk -> DeskState]
  /\ network \subseteq Call
  /\ inbound \in [Notice -> InboundRow \cup {NoRow}]
  /\ relationship \in [Resident -> RelationshipStatus]
  /\ ripe \subseteq Notice
  /\ handler \in [Handler -> HandlerState]
  /\ moves \in [Notice -> Nat]
  /\ movedBy \in [Resident -> Notice \cup {NoNotice}]
  /\ crossed \in [Notice -> BOOLEAN]
  /\ faults \in Nat

\* What the sender believes delivered is on the receiver's record, whatever was
\* lost, repeated, answered late or stopped on either side.
SentIsReceived ==
  \A n \in Notice : outbound[n] # NoRow /\ outbound[n].status = "sent" => inbound[n] # NoRow

\* However often it is sent and swept, a notice moves a relationship once,
\* unless two handlers held it at once or one holding it stopped.
MovesOnce == \A n \in Notice : moves[n] <= 1

\* A notice a person reversed does not go on holding the relationship it moved
\* (resolve: "reversed on a pending notice cancels it; reversed on a
\* suspension reinstates the relationship").
ReversalHolds ==
  \A n \in Notice :
    inbound[n] # NoRow /\ inbound[n].resolution = "reversed" =>
      crossed[n] \/ \A r \in Resident : movedBy[r] # n

\* A notice that was sent reaches the other register, as long as fewer calls
\* and handlers are lost than the sender makes attempts.
NoticeArrives ==
  \A n \in Notice : outbound[n] # NoRow ~> inbound[n] # NoRow

\* A notice whose grace period has run does not stay pending.
GraceEnds ==
  \A n \in Notice : n \in ripe /\ Waits(n) ~> ~Waits(n)

=============================================================================
