------------------------- MODULE ArrivalNoticesProofs -------------------------
(***************************************************************************)
(* Theorems about arrival notices, for any number of handlers on either     *)
(* side, notices, residents, policies and faults.                           *)
(***************************************************************************)
EXTENDS ArrivalNotices, TLAPS

\* The notice has run its course.
Settled(n) == inbound[n] # NoRow /\ inbound[n].status \in {"applied", "resolved"}

\* The notice was signed, and names a resident of this register.
Addressed(n) == terms[n] # NoRow /\ terms[n].resident # NoResident

----------------------------------------------------------------------------
(* The sender: every notice it handles was signed, and what it believes     *)
(* delivered, or is about to, was received.                                 *)

SenderTyped ==
  /\ terms \in [Notice -> Terms \cup {NoRow}]
  /\ outbound \in [Notice -> OutboundRow \cup {NoRow}]
  /\ desk \in [Desk -> DeskState]
  /\ network \subseteq Call

AtDesk(x) ==
  /\ x.step = "await" => x.notice \in Notice /\ terms[x.notice] # NoRow
  /\ x.step = "await" /\ x.reply = "ok" => inbound[x.notice] # NoRow
  /\ \A pair \in x.rest : terms[pair[1]] # NoRow

SenderInv ==
  /\ SenderTyped
  /\ \A n \in Notice : outbound[n] # NoRow => terms[n] # NoRow
  /\ SentIsReceived
  /\ \A c \in network : terms[c.notice] # NoRow
  /\ \A d \in Desk : AtDesk(desk[d])

----------------------------------------------------------------------------
(* The receiver.                                                            *)

ReceiverTyped ==
  /\ inbound \in [Notice -> InboundRow \cup {NoRow}]
  /\ relationship \in [Resident -> RelationshipStatus]
  /\ ripe \subseteq Notice
  /\ moves \in [Notice -> Nat]
  /\ movedBy \in [Resident -> Notice \cup {NoNotice}]
  /\ crossed \in [Notice -> BOOLEAN]

StoreInv ==
  /\ \A n \in Notice : inbound[n] # NoRow =>
       /\ terms[n] # NoRow
       /\ inbound[n].status \in {"pending", "open", "applied"} => Addressed(n)
       /\ inbound[n].resolution = "reversed" => inbound[n].status = "resolved"
  /\ \A r \in Resident : movedBy[r] # NoNotice =>
       LET n == movedBy[r] IN
       terms[n] # NoRow /\ terms[n].resident = r /\ moves[n] # 0

\* What a handler knows of the notices it holds.
Known(h) ==
  /\ h.step = "idle" => h = Idle
  /\ h.step # "idle" => h.notice \in Notice /\ terms[h.notice] # NoRow
  /\ h.call # NoCall => h.call.notice = h.notice
  /\ h.step = "find" /\ h.op = "resolve" =>
       /\ inbound[h.notice] # NoRow
       /\ h.row # NoRow /\ h.row.status = "resolved"
       /\ h.resident = terms[h.notice].resident
  /\ h.step \in {"read", "write"} =>
       h.to # "none" /\ h.resident \in Resident /\ h.resident = terms[h.notice].resident
  /\ h.step \in {"read", "write", "save"} => h.row # NoRow
  /\ h.row # NoRow =>
       /\ h.row.status \in {"pending", "open", "applied"} => Addressed(h.notice)
       /\ h.row.resolution = "reversed" => h.row.status = "resolved"
  /\ h.notice \notin h.rest
  /\ \A n \in h.rest : Addressed(n)

\* A notice that is not crossed is in one hand.
AloneInv ==
  \A n \in Notice : ~ crossed[n] =>
    \A p, q \in Handler : Holds(p, n) /\ Holds(q, n) => p = q

\* How far the notice in hand has come, when no other handler has it: it has moved
\* nothing until its own transition is written, and what is about to be saved says
\* so afterwards.
InHand(h) ==
  LET n == h.notice IN
  /\ h.step = "match" => inbound[n] = NoRow /\ moves[n] = 0
  /\ h.step \in {"read", "write"} /\ h.to # "ACTIVE" =>
       /\ moves[n] = 0
       /\ inbound[n] = NoRow \/ Waits(n)
       /\ h.row.status \in {"applied", "resolved"}
       /\ h.row.resolution # "reversed"
  /\ h.step \in {"read", "write"} /\ h.to = "ACTIVE" => Settled(n) /\ h.row.status = "resolved"
  /\ h.step = "save" =>
       /\ moves[n] # 0 => h.row.status \in {"applied", "resolved"}
       /\ h.row.resolution = "reversed" => \A r \in Resident : movedBy[r] # n

Ledger(h) ==
  /\ h.step # "idle" /\ ~ crossed[h.notice] => InHand(h)
  /\ \A n \in h.rest : ~ crossed[n] => Waits(n) /\ moves[n] = 0

\* A notice that moved a relationship is on record as settled, or about to be.
SettledInv ==
  \A n \in Notice : ~ crossed[n] /\ moves[n] # 0 =>
    Settled(n) \/ \E q \in Handler : handler[q].step = "save" /\ handler[q].notice = n

HandlersInv ==
  /\ handler \in [Handler -> HandlerState]
  /\ \A q \in Handler : Known(handler[q]) /\ Ledger(handler[q])

ReceiverInv ==
  /\ ReceiverTyped
  /\ StoreInv
  /\ HandlersInv
  /\ AloneInv
  /\ SettledInv
  /\ MovesOnce
  /\ ReversalHolds

IInv == SenderInv /\ ReceiverInv /\ faults \in Nat

----------------------------------------------------------------------------
(* What stays.                                                              *)

\* A signed notice is never signed again.
Signed == \A n \in Notice : terms[n] # NoRow => terms'[n] = terms[n]

Received == \A n \in Notice : inbound[n] # NoRow => inbound'[n] # NoRow

LEMMA NoticesAreNotAbsent == \A n \in Notice : n # NoNotice
BY ArrivalNoticesAssumption

\* The sender sees of a receiver's step only the answer, after what is on record.
LEMMA SenderStays ==
  ASSUME SenderInv, UNCHANGED <<terms, outbound>>, network' \subseteq network, Received,
         NEW c, NEW reply \in {"ok", "error"}, Answers(c, reply) \/ desk' = desk,
         reply = "ok" /\ c # NoCall => inbound'[c.notice] # NoRow
  PROVE  SenderInv'
<1>1. SenderTyped /\ \A d \in Desk : AtDesk(desk[d])
  BY DEF SenderInv
<1>2. \A d \in Desk : desk[d] \in DeskState
  BY <1>1 DEF SenderTyped
<1>3. ASSUME NEW d \in Desk, NEW x, x = desk[d] PROVE AtDesk(x)' /\ x \in DeskState
  <2>1. AtDesk(x) /\ x \in DeskState
    BY <1>1, <1>2, <1>3
  <2> QED BY <2>1 DEF AtDesk, Received
<1>4. ASSUME desk' # desk
      PROVE  /\ c # NoCall /\ c.desk \in Desk
             /\ desk[c.desk].step = "await" /\ desk[c.desk].notice = c.notice
             /\ desk' = [desk EXCEPT ![c.desk].reply = reply]
  <2>1. Answers(c, reply)
    BY <1>4
  <2>2. /\ c # NoCall
        /\ desk[c.desk].step = "await" /\ desk[c.desk].notice = c.notice
        /\ desk' = [desk EXCEPT ![c.desk].reply = reply]
    BY <1>4, <2>1 DEF Answers
  <2>3. c.desk \in Desk
    BY <1>1, <1>4, <2>2 DEF SenderTyped
  <2> QED BY <2>2, <2>3
<1>5. ASSUME NEW d \in Desk, NEW y, y = desk'[d] PROVE AtDesk(y)' /\ y \in DeskState
  <2>1. CASE y = desk[d]
    BY <1>3, <2>1
  <2>2. CASE y # desk[d]
    <3>1. c # NoCall /\ d = c.desk /\ desk[d].notice = c.notice /\ desk[d].step = "await"
          /\ y = [desk[d] EXCEPT !.reply = reply]
      BY <1>1, <1>4, <1>5, <2>2 DEF SenderTyped
    <3>x. PICK x \in DeskState : x = desk[d]
      BY <1>2
    <3>2. AtDesk(x)'
      BY <1>3, <3>x
    <3>3. /\ y \in DeskState /\ y.step = x.step /\ y.notice = x.notice /\ y.rest = x.rest
          /\ y.reply = reply /\ x.step = "await" /\ x.notice = c.notice
      BY <3>1, <3>x DEF DeskState
    <3> QED BY <3>1, <3>2, <3>3 DEF AtDesk
  <2> QED BY <2>1, <2>2
<1>6. desk' \in [Desk -> DeskState]
  <2>1. desk' = [d \in Desk |-> desk'[d]]
    BY <1>1, <1>4 DEF SenderTyped
  <2> QED BY <1>5, <2>1
<1>7. \A d \in Desk : AtDesk(desk[d])'
  BY <1>5
<1>8. SenderTyped'
  BY <1>1, <1>6 DEF SenderTyped
<1>9. /\ (\A n \in Notice : outbound[n] # NoRow => terms[n] # NoRow)'
      /\ (\A m \in network : terms[m.notice] # NoRow)'
  BY DEF SenderInv
<1>10. SentIsReceived'
  BY DEF SenderInv, SentIsReceived, Received
<1>11. (\A d \in Desk : AtDesk(desk[d]))'
  BY <1>5 DEF AtDesk
<1> QED BY <1>8, <1>9, <1>10, <1>11 DEF SenderInv

\* A step of the sender, or of anyone but a handler, leaves the receiver as it was.
LEMMA ReceiverStays ==
  ASSUME ReceiverInv, Signed, UNCHANGED <<inbound, handler, moves, crossed>>,
         relationship' \in [Resident -> RelationshipStatus], ripe' \subseteq Notice,
         movedBy' \in [Resident -> Notice \cup {NoNotice}],
         \A r \in Resident : movedBy'[r] # NoNotice => movedBy'[r] = movedBy[r]
  PROVE  ReceiverInv'
<1>1. ReceiverTyped'
  BY DEF ReceiverInv, ReceiverTyped
<1>2. StoreInv'
  <2>1. StoreInv /\ ReceiverTyped
    BY DEF ReceiverInv
  <2>2. \A n \in Notice : Addressed(n) => Addressed(n)'
    BY DEF Addressed, Signed
  <2>3. ASSUME NEW n \in Notice, inbound'[n] # NoRow
        PROVE  /\ terms'[n] # NoRow
               /\ inbound'[n].status \in {"pending", "open", "applied"} => Addressed(n)'
               /\ inbound'[n].resolution = "reversed" => inbound'[n].status = "resolved"
    BY <2>1, <2>2, <2>3 DEF StoreInv, Signed
  <2>4. ASSUME NEW r \in Resident, NEW n, n = movedBy'[r], n # NoNotice
        PROVE  terms'[n] # NoRow /\ terms'[n].resident = r /\ moves'[n] # 0
    <3>1. n = movedBy[r] /\ n \in Notice
      BY <2>1, <2>4 DEF ReceiverTyped
    <3> QED BY <2>1, <2>4, <3>1 DEF StoreInv, Signed
  <2> QED BY <2>3, <2>4 DEF StoreInv
<1>3. ASSUME NEW h \in HandlerState, Known(h), Ledger(h) PROVE Known(h)' /\ Ledger(h)'
  <2>1. \A n \in Notice : Addressed(n) => Addressed(n)'
    BY DEF Addressed, Signed
  <2>2. h.rest \subseteq Notice /\ h.notice \in Notice \cup {NoNotice}
    BY DEF HandlerState
  <2>3. Known(h)'
    <3>1. h.step = "idle" => h.row = NoRow
      BY <1>3 DEF Known, Idle
    <3>2. h.row # NoRow => h.notice \in Notice
      BY <1>3, <3>1 DEF Known
    <3>3. \A n \in h.rest : Addressed(n)'
      BY <1>3, <2>1, <2>2 DEF Known
    <3>4. h.row # NoRow /\ h.row.status \in {"pending", "open", "applied"}
            => Addressed(h.notice)'
      BY <1>3, <2>1, <3>2 DEF Known
    <3>5. h.step # "idle" => terms'[h.notice] = terms[h.notice]
      BY <1>3 DEF Known, Signed
    <3> QED BY <1>3, <3>3, <3>4, <3>5 DEF Known
  <2>4. h.step # "idle" => h.notice \in Notice
    BY <1>3 DEF Known
  <2>5. h.step # "idle" /\ InHand(h) => InHand(h)'
    BY <2>4, NoticesAreNotAbsent DEF InHand, Settled, Waits
  <2>6. Ledger(h)'
    BY <1>3, <2>2, <2>4, <2>5 DEF Ledger, Waits
  <2> QED BY <2>3, <2>6
<1>4. HandlersInv'
  BY <1>3 DEF ReceiverInv, HandlersInv
<1>5. AloneInv' /\ SettledInv' /\ MovesOnce'
  BY DEF ReceiverInv, AloneInv, SettledInv, MovesOnce, Holds, Settled
<1>6. ReversalHolds'
  BY NoticesAreNotAbsent DEF ReceiverInv, ReversalHolds
<1> QED BY <1>1, <1>2, <1>4, <1>5, <1>6 DEF ReceiverInv

----------------------------------------------------------------------------
(* The steps of the sender.                                                 *)

\* What a desk and the network hold, apart from the tables.
Sending ==
  /\ desk \in [Desk -> DeskState] /\ network \subseteq Call
  /\ \A d \in Desk : AtDesk(desk[d])
  /\ \A c \in network : terms[c.notice] # NoRow

LEMMA DesksStay ==
  ASSUME Sending, Signed, Received, NEW d \in Desk, NEW x \in DeskState,
         desk' = [desk EXCEPT ![d] = x], AtDesk(x)',
         network' \subseteq Call, \A c \in network' : c \in network \/ terms'[c.notice] # NoRow
  PROVE  Sending'
<1>1. desk' \in [Desk -> DeskState]
  BY DEF Sending
<1>2. ASSUME NEW e \in Desk PROVE desk'[e] = x \/ (desk'[e] = desk[e] /\ desk[e] \in DeskState)
  BY DEF Sending
<1>3. ASSUME NEW e \in Desk, NEW y, y = desk'[e] PROVE AtDesk(y)'
  <2>1. CASE y = x
    BY <2>1
  <2>2. CASE y = desk[e] /\ y \in DeskState
    <3>1. AtDesk(y) /\ y.rest \subseteq Notice \X Nat
      BY <2>2 DEF Sending, DeskState
    <3>2. \A pair \in y.rest : pair[1] \in Notice
      BY <3>1
    <3> QED BY <3>1, <3>2 DEF AtDesk, Signed, Received
  <2> QED BY <1>2, <1>3, <2>1, <2>2
<1>4. \A c \in network' : terms'[c.notice] # NoRow
  <2>1. \A c \in network : c.notice \in Notice
    BY DEF Sending, Call
  <2> QED BY <2>1 DEF Sending, Signed
<1>5. (\A e \in Desk : AtDesk(desk[e]))'
  BY <1>3 DEF AtDesk
<1> QED BY <1>1, <1>4, <1>5 DEF Sending

LEMMA AttemptKeeps ==
  ASSUME Sending, Signed, Received, NEW d \in Desk, NEW n \in Notice, NEW k \in Nat,
         NEW rest \in SUBSET (Notice \X Nat), Attempt(d, n, k, rest),
         terms'[n] # NoRow, \A pair \in rest : terms'[pair[1]] # NoRow
  PROVE  Sending'
<1>1. PICK x : x = [step |-> "await", notice |-> n, count |-> k + 1, reply |-> "none",
                    rest |-> rest]
  OBVIOUS
<1>2. PICK c : c = [notice |-> n, desk |-> d, attempt |-> k + 1]
  OBVIOUS
<1>3. desk' = [desk EXCEPT ![d] = x] /\ network' = network \cup {c}
  BY <1>1, <1>2 DEF Attempt
<1>4. /\ x \in DeskState /\ x.step = "await" /\ x.notice = n /\ x.reply = "none"
      /\ x.rest = rest /\ c \in Call /\ c.notice = n
  BY <1>1, <1>2 DEF DeskState, Call
<1>5. AtDesk(x)'
  BY <1>4 DEF AtDesk
<1>6. network' \subseteq Call /\ \A m \in network' : m \in network \/ terms'[m.notice] # NoRow
  BY <1>3, <1>4 DEF Sending
<1> QED BY <1>3, <1>4, <1>5, <1>6, DesksStay

LEMMA RestKeeps ==
  ASSUME Sending, Signed, Received, NEW d \in Desk, desk' = [desk EXCEPT ![d] = AtRest],
         network' = network
  PROVE  Sending'
<1>1. AtRest \in DeskState /\ AtRest.step = "idle" /\ AtRest.rest = {}
  BY DEF AtRest, DeskState
<1>x. PICK x : x = AtRest
  OBVIOUS
<1>2. x \in DeskState /\ AtDesk(x)'
  BY <1>1, <1>x DEF AtDesk
<1>3. network' \subseteq Call /\ \A c \in network' : c \in network
  BY DEF Sending
<1> QED BY <1>x, <1>2, <1>3, DesksStay

LEMMA OnwardKeeps ==
  ASSUME Sending, Signed, Received, NEW d \in Desk, NEW rest \in SUBSET (Notice \X Nat),
         Onward(d, rest), \A pair \in rest : terms'[pair[1]] # NoRow
  PROVE  Sending'
<1>1. CASE rest = {} /\ desk' = [desk EXCEPT ![d] = AtRest] /\ network' = network
  BY <1>1, RestKeeps
<1>2. ASSUME NEW pair \in rest, Attempt(d, pair[1], pair[2], rest \ {pair}) PROVE Sending'
  <2>1. PICK n, k : n = pair[1] /\ k = pair[2]
    OBVIOUS
  <2>2. n \in Notice /\ k \in Nat /\ terms'[n] # NoRow
    BY <2>1
  <2>3. Attempt(d, n, k, rest \ {pair})
    BY <1>2, <2>1
  <2> QED BY <2>2, <2>3, AttemptKeeps
<1> QED BY <1>1, <1>2 DEF Onward

LEMMA SendingIs ==
  SenderInv <=> /\ Sending
                /\ terms \in [Notice -> Terms \cup {NoRow}]
                /\ outbound \in [Notice -> OutboundRow \cup {NoRow}]
                /\ \A n \in Notice : outbound[n] # NoRow => terms[n] # NoRow
                /\ SentIsReceived
BY DEF SenderInv, SenderTyped, Sending

LEMMA SendingThen ==
  ASSUME Sending', terms' \in [Notice -> Terms \cup {NoRow}],
         outbound' \in [Notice -> OutboundRow \cup {NoRow}],
         \A n \in Notice : outbound'[n] # NoRow => terms'[n] # NoRow,
         SentIsReceived'
  PROVE  SenderInv'
BY DEF SenderInv, SenderTyped, Sending

LEMMA NotifyKeeps ==
  ASSUME IInv, NEW d \in Desk, NEW n \in Notice, NEW said \in Terms, Notify(d, n, said)
  PROVE  IInv'
<1>1. /\ terms \in [Notice -> Terms \cup {NoRow}] /\ terms[n] = NoRow
      /\ terms' = [terms EXCEPT ![n] = said] /\ said # NoRow /\ Attempt(d, n, 0, {})
      /\ outbound \in [Notice -> OutboundRow \cup {NoRow}]
      /\ UNCHANGED <<outbound, register, handler, history>>
  BY NoRowAssumption, SendingIs DEF IInv, Notify
<1>2. Signed /\ terms' \in [Notice -> Terms \cup {NoRow}] /\ terms'[n] # NoRow
  BY <1>1 DEF Signed
<1>3. Received
  BY <1>1 DEF Received, register
<1>4. Sending'
  BY <1>1, <1>2, <1>3, SendingIs, AttemptKeeps DEF IInv
<1>5. \A m \in Notice : outbound'[m] # NoRow => terms'[m] # NoRow
  BY <1>1, <1>2, SendingIs DEF IInv, Signed
<1>6. SentIsReceived'
  BY <1>1, SendingIs DEF IInv, SentIsReceived, register
<1>7. SenderInv'
  BY <1>1, <1>2, <1>4, <1>5, <1>6, SendingThen
<1>8. ReceiverInv'
  BY <1>1, <1>2, ReceiverStays DEF IInv, ReceiverInv, ReceiverTyped, register, history
<1> QED BY <1>1, <1>7, <1>8 DEF IInv, history

LEMMA AwaitKeeps ==
  ASSUME IInv, NEW d \in Desk, Await(d)
  PROVE  IInv'
<1>h. PICK h : h = desk[d]
  OBVIOUS
<1>0. SenderInv /\ Sending
  BY SendingIs DEF IInv
<1>1. h \in DeskState /\ AtDesk(h) /\ h.step = "await" /\ h.notice \in Notice
  BY <1>h, <1>0 DEF Sending, Await, AtDesk
<1>2. PICK row : row = [status |-> IF Delivered(h.reply) THEN "sent" ELSE "failed",
                        attempts |-> h.count]
  OBVIOUS
<1>3. row \in OutboundRow /\ (row.status = "sent" => h.reply = "ok")
  BY <1>1, <1>2 DEF OutboundRow, DeskState, Delivered
<1>4. /\ outbound' = [outbound EXCEPT ![h.notice] = row] /\ Onward(d, h.rest)
      /\ UNCHANGED <<terms, register, handler, history>>
  BY <1>h, <1>2 DEF Await
<1>5. Signed /\ Received
  BY <1>4 DEF Signed, Received, register
<1>6. h.rest \in SUBSET (Notice \X Nat) /\ \A pair \in h.rest : terms'[pair[1]] # NoRow
  BY <1>1, <1>4 DEF DeskState, AtDesk
<1>7. Sending'
  BY <1>0, <1>4, <1>5, <1>6, OnwardKeeps
<1>8. /\ outbound' \in [Notice -> OutboundRow \cup {NoRow}]
      /\ terms' \in [Notice -> Terms \cup {NoRow}]
      /\ \A m \in Notice : outbound'[m] # NoRow => terms'[m] # NoRow
  BY <1>0, <1>1, <1>3, <1>4, SendingIs DEF AtDesk
<1>9. SentIsReceived'
  BY <1>0, <1>1, <1>3, <1>4, SendingIs DEF SentIsReceived, AtDesk, register
<1>10. SenderInv'
  BY <1>7, <1>8, <1>9, SendingThen
<1>11. ReceiverInv'
  BY <1>4, <1>5, ReceiverStays DEF IInv, ReceiverInv, ReceiverTyped, register, history
<1> QED BY <1>4, <1>10, <1>11 DEF IInv, history

LEMMA RetryFailedKeeps ==
  ASSUME IInv, NEW d \in Desk, RetryFailed(d)
  PROVE  IInv'
<1>1. PICK rest : rest = {<<n, outbound[n].attempts>> : n \in Failed}
  OBVIOUS
<1>2. Onward(d, rest) /\ UNCHANGED <<terms, outbound, register, handler, history>>
  BY <1>1 DEF RetryFailed
<1>3. Signed /\ Received
  BY <1>2 DEF Signed, Received, register
<1>4. rest \in SUBSET (Notice \X Nat) /\ \A pair \in rest : terms'[pair[1]] # NoRow
  <2>1. ASSUME NEW n \in Failed PROVE n \in Notice /\ outbound[n].attempts \in Nat /\ terms'[n] # NoRow
    BY <1>2, SendingIs DEF IInv, Failed, OutboundRow
  <2>2. \A pair \in rest : \E n \in Failed : pair = <<n, outbound[n].attempts>>
    BY <1>1
  <2>3. ASSUME NEW pair \in rest PROVE pair \in Notice \X Nat /\ terms'[pair[1]] # NoRow
    <3>1. PICK n \in Failed : pair = <<n, outbound[n].attempts>>
      BY <2>2
    <3> QED BY <2>1, <3>1
  <2> QED BY <2>3
<1>5. Sending'
  BY <1>2, <1>3, <1>4, OnwardKeeps, SendingIs DEF IInv
<1>6. SentIsReceived'
  BY <1>2, SendingIs DEF IInv, SentIsReceived, register
<1>7. SenderInv'
  <2>1. SenderInv
    BY DEF IInv
  <2>2. /\ outbound' \in [Notice -> OutboundRow \cup {NoRow}]
        /\ terms' \in [Notice -> Terms \cup {NoRow}]
        /\ \A m \in Notice : outbound'[m] # NoRow => terms'[m] # NoRow
    BY <1>2, <2>1, SendingIs
  <2> QED BY <1>5, <1>6, <2>2, SendingThen
<1>8. ReceiverInv'
  BY <1>2, <1>3, ReceiverStays DEF IInv, ReceiverInv, ReceiverTyped, register, history
<1> QED BY <1>2, <1>7, <1>8 DEF IInv, history

LEMMA StopDeskKeeps ==
  ASSUME IInv, NEW d \in Desk, StopDesk(d)
  PROVE  IInv'
<1>1. /\ desk' = [desk EXCEPT ![d] = AtRest] /\ faults' = faults + 1
      /\ UNCHANGED <<terms, outbound, network, register, handler, crossed, moves, movedBy>>
  BY DEF StopDesk
<1>2. Signed /\ Received
  BY <1>1 DEF Signed, Received, register
<1>3. Sending'
  BY <1>1, <1>2, RestKeeps, SendingIs DEF IInv
<1>4. SentIsReceived'
  BY <1>1, SendingIs DEF IInv, SentIsReceived, register
<1>5. SenderInv'
  <2>1. SenderInv
    BY DEF IInv
  <2>2. /\ outbound' \in [Notice -> OutboundRow \cup {NoRow}]
        /\ terms' \in [Notice -> Terms \cup {NoRow}]
        /\ \A m \in Notice : outbound'[m] # NoRow => terms'[m] # NoRow
    BY <1>1, <2>1, SendingIs
  <2> QED BY <1>3, <1>4, <2>2, SendingThen
<1>6. ReceiverInv'
  BY <1>1, <1>2, ReceiverStays DEF IInv, ReceiverInv, ReceiverTyped, register
<1>7. faults' \in Nat
  BY <1>1 DEF IInv
<1> QED BY <1>5, <1>6, <1>7 DEF IInv

\* A step that leaves both tables and what the desks hold, and at most loses a call.
LEMMA ElsewhereKeeps ==
  ASSUME IInv, UNCHANGED <<sending, inbound, handler, moves, crossed>>,
         network' \subseteq network, faults' \in Nat,
         relationship' \in [Resident -> RelationshipStatus], ripe' \subseteq Notice,
         movedBy' \in [Resident -> Notice \cup {NoNotice}],
         \A r \in Resident : movedBy'[r] # NoNotice => movedBy'[r] = movedBy[r]
  PROVE  IInv'
<1>1. Signed /\ Received /\ UNCHANGED <<terms, outbound, desk>>
  BY DEF Signed, Received, sending
<1>2. SenderInv'
  <2>1. PICK c : c = NoCall
    OBVIOUS
  <2> QED BY <1>1, <2>1, SenderStays DEF IInv
<1>3. ReceiverInv'
  BY <1>1, ReceiverStays DEF IInv
<1> QED BY <1>2, <1>3 DEF IInv

LEMMA LoseKeeps ==
  ASSUME IInv, NEW c \in network, Lose(c)
  PROVE  IInv'
BY ElsewhereKeeps DEF IInv, Lose, ReceiverInv, ReceiverTyped, register

LEMMA RipenKeeps ==
  ASSUME IInv, NEW n \in Notice, Ripen(n)
  PROVE  IInv'
BY ElsewhereKeeps DEF IInv, Ripen, ReceiverInv, ReceiverTyped, history

LEMMA TransitionRelationshipKeeps ==
  ASSUME IInv, NEW r \in Resident, NEW to \in {"ACTIVE", "SUSPENDED", "ENDED"},
         TransitionRelationship(r, to)
  PROVE  IInv'
<1>1. to \in RelationshipStatus
  BY DEF RelationshipStatus
<1>2. ReceiverTyped
  BY DEF IInv, ReceiverInv
<1>3. /\ relationship' = [relationship EXCEPT ![r] = to]
      /\ movedBy' = [movedBy EXCEPT ![r] = NoNotice]
      /\ UNCHANGED <<sending, network, inbound, ripe, handler, crossed, moves, faults>>
  BY DEF TransitionRelationship
<1>4. /\ relationship' \in [Resident -> RelationshipStatus]
      /\ movedBy' \in [Resident -> Notice \cup {NoNotice}]
      /\ \A x \in Resident : movedBy'[x] # NoNotice => movedBy'[x] = movedBy[x]
  BY <1>1, <1>2, <1>3 DEF ReceiverTyped
<1> QED BY <1>2, <1>3, <1>4, ElsewhereKeeps DEF IInv, ReceiverTyped

----------------------------------------------------------------------------
(* The steps of a handler.                                                  *)

\* A step leaves what is on record of a notice.
Same(n) ==
  /\ inbound'[n] = inbound[n] /\ moves'[n] = moves[n]
  /\ \A r \in Resident : movedBy'[r] = n => movedBy[r] = n

\* What another handler knows stays so: it holds nothing this one changes, unless
\* the notice is crossed.
LEMMA OthersKeep ==
  ASSUME ReceiverInv, NEW q \in Handler, NEW p \in Handler, p # q, NEW g, g = handler[p],
         terms' = terms, Received, \A n \in Notice : crossed[n] => crossed'[n],
         \A n \in Notice : Same(n) \/ Holds(q, n)
  PROVE  g \in HandlerState /\ Known(g)' /\ Ledger(g)'
<1>1. g \in HandlerState /\ Known(g) /\ Ledger(g)
  BY DEF ReceiverInv, HandlersInv
<1>2. g.rest \subseteq Notice /\ (g.step # "idle" => g.notice \in Notice)
  BY <1>1 DEF HandlerState, Known
<1>3. ASSUME NEW n \in Notice, ~ crossed'[n], n = g.notice \/ n \in g.rest
      PROVE  ~ crossed[n] /\ Same(n)
  <2>1. ~ crossed[n]
    BY <1>3
  <2>2. Holds(p, n)
    BY <1>3 DEF Holds
  <2>3. ~ Holds(q, n)
    BY <2>1, <2>2 DEF ReceiverInv, AloneInv
  <2> QED BY <2>1, <2>3
<1>4. Known(g)'
  <2>1. Known(g) /\ terms' = terms
    BY <1>1
  <2>2. g.step = "find" /\ inbound[g.notice] # NoRow => inbound'[g.notice] # NoRow
    BY <1>2 DEF Received
  <2> QED BY <2>1, <2>2 DEF Known, Addressed
<1>5. Ledger(g)'
  <2>1. ASSUME g.step # "idle", ~ crossed'[g.notice] PROVE InHand(g)'
    <3>1. PICK n \in Notice : n = g.notice
      BY <1>2, <2>1
    <3>2. Same(n) /\ InHand(g)
      BY <1>1, <1>3, <2>1, <3>1 DEF Ledger
    <3>3. /\ inbound'[g.notice] = inbound[g.notice] /\ moves'[g.notice] = moves[g.notice]
          /\ \A r \in Resident : movedBy'[r] = g.notice => movedBy[r] = g.notice
      BY <3>1, <3>2 DEF Same
    <3> QED BY <3>2, <3>3 DEF InHand, Settled, Waits
  <2>2. ASSUME NEW n \in g.rest, ~ crossed'[n] PROVE Waits(n)' /\ moves'[n] = 0
    BY <1>1, <1>2, <1>3, <2>2 DEF Ledger, Waits, Same
  <2> QED BY <2>1, <2>2 DEF Ledger
<1> QED BY <1>1, <1>4, <1>5

\* What a step of a handler has left to show.
LEMMA HandlerKeeps ==
  ASSUME ReceiverInv, NEW q \in Handler, NEW next \in HandlerState, Goes(q, next),
         terms' = terms, Received, \A n \in Notice : crossed[n] => crossed'[n],
         \A n \in Notice : Same(n) \/ Holds(q, n),
         ReceiverTyped', StoreInv', Known(next)', Ledger(next)',
         \A n \in Notice : ~ crossed'[n] /\ (n = next.notice \/ n \in next.rest) =>
           \A p \in Handler : p # q => ~ Holds(p, n),
         \A n \in Notice : ~ crossed'[n] /\ moves'[n] # 0 /\ Holds(q, n) =>
           Settled(n)' \/ (next.step = "save" /\ next.notice = n),
         MovesOnce', ReversalHolds'
  PROVE  ReceiverInv'
<1>1. /\ handler \in [Handler -> HandlerState] /\ handler' = [handler EXCEPT ![q] = next]
      /\ handler' \in [Handler -> HandlerState] /\ handler'[q] = next
      /\ \A p \in Handler : p # q => handler'[p] = handler[p]
  BY DEF ReceiverInv, HandlersInv, Goes
<1>2. HandlersInv'
  <2>1. ASSUME NEW p \in Handler, NEW g, g = handler'[p] PROVE Known(g)' /\ Ledger(g)'
    <3>1. CASE p = q
      BY <1>1, <2>1, <3>1
    <3>2. CASE p # q
      BY <1>1, <2>1, <3>2, OthersKeep
    <3> QED BY <3>1, <3>2
  <2> QED BY <1>1, <2>1 DEF HandlersInv
<1>3. AloneInv'
  <2>1. ASSUME NEW n \in Notice, ~ crossed'[n], NEW p \in Handler, NEW o \in Handler, p # o,
               Holds(p, n)', Holds(o, n)'
        PROVE  FALSE
    <3>1. CASE p # q /\ o # q
      BY <1>1, <2>1, <3>1 DEF ReceiverInv, AloneInv, Holds
    <3>2. CASE p = q
      BY <1>1, <2>1, <3>2 DEF Holds
    <3>3. CASE o = q
      BY <1>1, <2>1, <3>3 DEF Holds
    <3> QED BY <3>1, <3>2, <3>3
  <2> QED BY <2>1 DEF AloneInv
<1>4. SettledInv'
  <2>1. SUFFICES ASSUME NEW n \in Notice, ~ crossed'[n], moves'[n] # 0, ~ Settled(n)'
                 PROVE  \E p \in Handler : handler'[p].step = "save" /\ handler'[p].notice = n
    BY DEF SettledInv
  <2>2. CASE Holds(q, n)
    BY <1>1, <2>1, <2>2
  <2>3. CASE ~ Holds(q, n)
    <3>1. Same(n) /\ ~ crossed[n]
      BY <2>1, <2>3
    <3>2. moves[n] # 0 /\ ~ Settled(n)
      BY <2>1, <3>1 DEF Same, Settled
    <3>3. PICK p \in Handler : handler[p].step = "save" /\ handler[p].notice = n
      BY <3>1, <3>2 DEF ReceiverInv, SettledInv
    <3>4. p # q
      BY <2>3, <3>3 DEF Holds
    <3> QED BY <1>1, <3>3, <3>4
  <2> QED BY <2>2, <2>3
<1> QED BY <1>2, <1>3, <1>4 DEF ReceiverInv

\* A step that writes nothing and takes up nothing: the handler goes on with what
\* it holds.
LEMMA MoveKeeps ==
  ASSUME ReceiverInv, NEW q \in Handler, NEW next \in HandlerState, Goes(q, next),
         UNCHANGED <<terms, register, crossed, moves, movedBy>>, handler[q].step # "save",
         \A n \in Notice : n = next.notice \/ n \in next.rest => Holds(q, n),
         Known(next), Ledger(next)
  PROVE  ReceiverInv'
<1>1. /\ UNCHANGED <<terms, inbound, relationship, ripe, crossed, moves, movedBy>>
      /\ Received /\ \A n \in Notice : Same(n)
  BY DEF register, Received, Same
<1>2. ReceiverTyped' /\ MovesOnce' /\ ReversalHolds'
  BY <1>1 DEF ReceiverInv, ReceiverTyped, MovesOnce, ReversalHolds
<1>3. StoreInv'
  BY <1>1 DEF ReceiverInv, StoreInv, Addressed
<1>4. Known(next)' /\ Ledger(next)'
  BY <1>1 DEF Known, Ledger, Addressed, InHand, Settled, Waits
<1>5. ASSUME NEW n \in Notice, ~ crossed'[n], n = next.notice \/ n \in next.rest,
             NEW p \in Handler, p # q
      PROVE  ~ Holds(p, n)
  BY <1>1, <1>5 DEF ReceiverInv, AloneInv
<1>6. ASSUME NEW n \in Notice, ~ crossed'[n], moves'[n] # 0, Holds(q, n)
      PROVE  Settled(n)'
  <2>1. Settled(n) \/ \E p \in Handler : handler[p].step = "save" /\ handler[p].notice = n
    BY <1>1, <1>6 DEF ReceiverInv, SettledInv
  <2>2. ASSUME NEW p \in Handler, handler[p].step = "save", handler[p].notice = n
        PROVE  FALSE
    <3>1. Holds(p, n)
      BY <2>2 DEF Holds
    <3> QED BY <1>1, <1>6, <2>2, <3>1 DEF ReceiverInv, AloneInv
  <2> QED BY <1>1, <2>1, <2>2 DEF Settled
<1> QED BY <1>1, <1>2, <1>3, <1>4, <1>5, <1>6, HandlerKeeps

\* An idle handler takes notices up; those it shares are crossed from now on.
LEMMA TakeUpKeeps ==
  ASSUME ReceiverInv, NEW q \in Handler, NEW next \in HandlerState, Goes(q, next),
         NEW taken \in SUBSET Notice, TakesUp(q, taken), handler[q].step = "idle",
         UNCHANGED <<terms, register, moves, movedBy>>,
         \A n \in Notice : n = next.notice \/ n \in next.rest => n \in taken,
         Known(next), Ledger(next)'
  PROVE  ReceiverInv'
<1>1. /\ UNCHANGED <<terms, inbound, relationship, ripe, moves, movedBy>>
      /\ Received /\ \A n \in Notice : Same(n)
  BY DEF register, Received, Same
<1>2. /\ crossed' \in [Notice -> BOOLEAN]
      /\ \A n \in Notice : crossed[n] => crossed'[n]
      /\ \A n \in taken : ~ crossed'[n] => \A p \in Handler : p # q => ~ Holds(p, n)
  BY DEF TakesUp, ReceiverInv, ReceiverTyped
<1>3. ReceiverTyped' /\ MovesOnce' /\ ReversalHolds'
  BY <1>1, <1>2 DEF ReceiverInv, ReceiverTyped, MovesOnce, ReversalHolds
<1>4. StoreInv'
  BY <1>1 DEF ReceiverInv, StoreInv, Addressed
<1>5. Known(next)'
  BY <1>1 DEF Known, Addressed
<1>6. \A n \in Notice : ~ Holds(q, n)
  <2>1. handler[q] = Idle
    BY DEF ReceiverInv, HandlersInv, Known
  <2> QED BY <2>1, NoticesAreNotAbsent DEF Holds, Idle
<1>7. \A n \in Notice : ~ crossed'[n] /\ (n = next.notice \/ n \in next.rest) =>
        \A p \in Handler : p # q => ~ Holds(p, n)
  BY <1>2
<1> QED BY <1>1, <1>2, <1>3, <1>4, <1>5, <1>6, <1>7, HandlerKeeps

LEMMA SenderAside ==
  ASSUME SenderInv, UNCHANGED sending, network' \subseteq network, Received
  PROVE  SenderInv'
<1>1. UNCHANGED <<terms, outbound, desk>>
  BY DEF sending
<1>2. PICK c : c = NoCall
  OBVIOUS
<1> QED BY <1>1, <1>2, SenderStays

LEMMA IdleIs ==
  /\ Idle \in HandlerState /\ Idle.step = "idle" /\ Idle.notice = NoNotice /\ Idle.rest = {}
  /\ Idle.row = NoRow /\ Idle.call = NoCall
BY DEF Idle, HandlerState

LEMMA IdleHolds ==
  ASSUME NEW x, x = Idle
  PROVE  /\ x \in HandlerState /\ Known(x) /\ Known(x)' /\ Ledger(x) /\ Ledger(x)'
         /\ \A n \in Notice : ~ (n = x.notice \/ n \in x.rest)
<1>1. /\ x \in HandlerState /\ x.step = "idle" /\ x.notice = NoNotice /\ x.rest = {}
      /\ x.row = NoRow /\ x.call = NoCall
  BY IdleIs
<1> QED BY <1>1, NoticesAreNotAbsent DEF Known, Ledger

\* The rows a handler prepares.
LEMMA RowsAre ==
  ASSUME NEW n
  PROVE  /\ Target(n) \in {"SUSPENDED", "ENDED"}
         /\ \A row \in {Noted, Pending, OpenRow, AppliedRow(n), RefusedRow(n),
                        [Noted EXCEPT !.status = "unmatched"]} :
              row \in InboundRow /\ row # NoRow /\ row.resolution = "none"
         /\ Noted.status = "noted" /\ Pending.status = "pending"
         /\ OpenRow.status = "open" /\ RefusedRow(n).status = "open"
         /\ AppliedRow(n).status = "applied"
         /\ [Noted EXCEPT !.status = "unmatched"].status = "unmatched"
<1>1. Target(n) \in {"SUSPENDED", "ENDED"}
  BY DEF Target
<1>2. PICK to \in {"SUSPENDED", "ENDED"} : to = Target(n)
  BY <1>1
<1>3. AppliedRow(n) = [Noted EXCEPT !.status = "applied", !.transition = to]
  BY <1>2 DEF AppliedRow
<1>4. PICK o : o = Noted
  OBVIOUS
<1>5. o \in InboundRow /\ o.status = "noted" /\ o.transition = "none" /\ o.resolution = "none"
  BY <1>4 DEF Noted, InboundRow
<1>6. /\ [o EXCEPT !.status = "pending"] \in InboundRow
      /\ [o EXCEPT !.status = "pending"].status = "pending"
      /\ [o EXCEPT !.status = "pending"].resolution = "none"
  BY <1>5 DEF InboundRow
<1>7. /\ [o EXCEPT !.status = "open"] \in InboundRow
      /\ [o EXCEPT !.status = "open"].status = "open"
      /\ [o EXCEPT !.status = "open"].resolution = "none"
  BY <1>5 DEF InboundRow
<1>8. /\ [o EXCEPT !.status = "unmatched"] \in InboundRow
      /\ [o EXCEPT !.status = "unmatched"].status = "unmatched"
      /\ [o EXCEPT !.status = "unmatched"].resolution = "none"
  BY <1>5 DEF InboundRow
<1>9. PICK a : a = [o EXCEPT !.status = "applied", !.transition = to]
  OBVIOUS
<1>10. a \in InboundRow /\ a.status = "applied" /\ a.resolution = "none"
  BY <1>5, <1>9 DEF InboundRow
<1>11. /\ Noted = o /\ Pending = [o EXCEPT !.status = "pending"]
       /\ OpenRow = [o EXCEPT !.status = "open"] /\ RefusedRow(n) = OpenRow
       /\ AppliedRow(n) = a
       /\ [Noted EXCEPT !.status = "unmatched"] = [o EXCEPT !.status = "unmatched"]
  BY <1>3, <1>4, <1>9, Zenon DEF Pending, OpenRow, RefusedRow
<1>12. \A row \in InboundRow : row # NoRow
  BY NoRowAssumption
<1> QED BY <1>1, <1>5, <1>6, <1>7, <1>8, <1>10, <1>11, <1>12

LEMMA UnderWay ==
  ASSUME IInv, NEW q \in Handler
  PROVE  /\ handler[q] \in HandlerState /\ Known(handler[q]) /\ Ledger(handler[q])
         /\ ReceiverInv /\ SenderInv
         /\ terms \in [Notice -> Terms \cup {NoRow}]
BY DEF IInv, ReceiverInv, HandlersInv, SenderInv, SenderTyped

LEMMA ArriveKeeps ==
  ASSUME IInv, NEW q \in Handler, NEW c \in network, Arrive(q, c)
  PROVE  IInv'
<1>1. c \in Call /\ c.notice \in Notice /\ terms[c.notice] # NoRow
  BY UnderWay DEF SenderInv, SenderTyped, Call
<1>2. PICK next : next = [Idle EXCEPT !.step = "find", !.op = "receive", !.notice = c.notice,
                                      !.call = c]
  OBVIOUS
<1>3. /\ Goes(q, next) /\ TakesUp(q, {c.notice}) /\ handler[q].step = "idle"
      /\ UNCHANGED <<sending, register, moves, movedBy, faults>> /\ network' \subseteq network
  BY <1>2 DEF Arrive
<1>4. /\ next \in HandlerState /\ next.step = "find" /\ next.op = "receive"
      /\ next.notice = c.notice /\ next.call = c /\ next.row = NoRow /\ next.rest = {}
  BY <1>1, <1>2 DEF HandlerState, Idle
<1>5. Known(next) /\ Ledger(next)'
  BY <1>1, <1>4 DEF Known, Ledger, InHand
<1>6. ReceiverInv'
  BY <1>1, <1>3, <1>4, <1>5, UnderWay, TakeUpKeeps DEF sending
<1>7. SenderInv'
  BY <1>3, UnderWay, SenderAside DEF Received, register
<1> QED BY <1>3, <1>6, <1>7 DEF IInv

\* What is not settled, and that nobody else has in hand, has moved nothing.
LEMMA NotMovedYet ==
  ASSUME ReceiverInv, NEW q \in Handler, handler[q].step # "save", NEW n \in Notice,
         ~ crossed[n], ~ Settled(n), \A p \in Handler : p # q => ~ Holds(p, n)
  PROVE  moves[n] = 0
BY DEF ReceiverInv, SettledInv, Holds

\* A handler that has an uncrossed notice is the only one.
LEMMA NobodyElse ==
  ASSUME ReceiverInv, NEW q \in Handler, NEW n \in Notice, ~ crossed[n], Holds(q, n)
  PROVE  \A p \in Handler : p # q => ~ Holds(p, n)
BY DEF ReceiverInv, AloneInv

LEMMA FindRepeatKeeps ==
  ASSUME IInv, NEW q \in Handler, FindRepeat(q)
  PROVE  IInv'
<1>h. PICK h : h = handler[q]
  OBVIOUS
<1>1. /\ h \in HandlerState /\ Known(h) /\ ReceiverInv /\ SenderInv /\ h.step = "find"
      /\ h.notice \in Notice
      /\ UNCHANGED <<terms, outbound, network, register, crossed, moves, movedBy, faults>>
  BY <1>h, UnderWay DEF FindRepeat, history, Known
<1>2. Received
  BY <1>1 DEF Received, register
<1>3. CASE Seen(h.notice)
  <2>1. Answers(h.call, "error") /\ Goes(q, Idle)
    BY <1>h, <1>3 DEF FindRepeat
  <2>2. SenderInv'
    BY <1>1, <1>2, <2>1, SenderStays
  <2>3. ReceiverInv'
    BY <1>h, <1>1, <2>1, IdleHolds, MoveKeeps
  <2> QED BY <1>1, <2>2, <2>3 DEF IInv
<1>4. CASE ~ Seen(h.notice)
  <2>1. PICK next : next = [h EXCEPT !.step = "match"]
    OBVIOUS
  <2>2. Goes(q, next) /\ desk' = desk
    BY <1>h, <1>4, <2>1 DEF FindRepeat
  <2>3. /\ next \in HandlerState /\ next.step = "match" /\ next.op = h.op
        /\ next.notice = h.notice /\ next.call = h.call /\ next.row = h.row /\ next.rest = h.rest
    BY <1>1, <2>1 DEF HandlerState
  <2>4. Known(next)
    BY <1>1, <2>3 DEF Known
  <2>5. ~ crossed[h.notice] => moves[h.notice] = 0
    <3>1. Holds(q, h.notice) /\ ~ Settled(h.notice)
      BY <1>h, <1>4 DEF Holds, Settled, Seen
    <3> QED BY <1>h, <1>1, <3>1, NobodyElse, NotMovedYet
  <2>6. Ledger(next)
    BY <1>h, <1>1, <1>4, <2>3, <2>5, UnderWay DEF Ledger, InHand, Seen
  <2>7. \A n \in Notice : n = next.notice \/ n \in next.rest => Holds(q, n)
    BY <1>h, <2>3 DEF Holds
  <2>8. ReceiverInv'
    BY <1>h, <1>1, <2>2, <2>3, <2>4, <2>6, <2>7, MoveKeeps
  <2>9. SenderInv'
    BY <1>1, <1>2, <2>2, SenderAside DEF sending
  <2> QED BY <1>1, <2>8, <2>9 DEF IInv
<1> QED BY <1>3, <1>4

\* A handler that only goes on with what it has.
LEMMA OnlyMoves ==
  ASSUME IInv, NEW q \in Handler, NEW next \in HandlerState, Goes(q, next),
         UNCHANGED <<sending, network, register, history>>,
         handler[q].step \notin {"idle", "save"},
         \/ next = Idle
         \/ /\ next.notice = handler[q].notice /\ next.rest = handler[q].rest
            /\ next.call = handler[q].call
            /\ Known(next)
            /\ ~ crossed[next.notice] => InHand(next)
  PROVE  IInv'
<1>h. PICK h : h = handler[q]
  OBVIOUS
<1>1. /\ UNCHANGED <<terms, register, crossed, moves, movedBy, faults>> /\ Received
      /\ network' \subseteq network /\ UNCHANGED sending
  BY DEF sending, history, Received, register
<1>2. SenderInv'
  BY <1>1, UnderWay, SenderAside
<1>3. CASE next = Idle
  <2>1. ReceiverInv'
    BY <1>1, <1>3, IdleHolds, MoveKeeps, UnderWay
  <2> QED BY <1>1, <1>2, <2>1 DEF IInv
<1>4. CASE /\ next.notice = h.notice /\ next.rest = h.rest /\ Known(next)
           /\ ~ crossed[next.notice] => InHand(next)
  <2>1. Ledger(next)
    BY <1>h, <1>4, UnderWay DEF Ledger
  <2>2. \A n \in Notice : n = next.notice \/ n \in next.rest => Holds(q, n)
    BY <1>h, <1>4 DEF Holds
  <2>3. ReceiverInv'
    BY <1>h, <1>1, <1>4, <2>1, <2>2, MoveKeeps, UnderWay
  <2> QED BY <1>1, <1>2, <2>3 DEF IInv
<1> QED BY <1>h, <1>3, <1>4

Saving(h, row) == [h EXCEPT !.step = "save", !.row = row]

Reading(h, r, to, row) == [h EXCEPT !.step = "read", !.resident = r, !.to = to, !.row = row]

\* A handler that has nothing left to do but save.
LEMMA ToSave ==
  ASSUME NEW h \in HandlerState, Known(h), h.step # "idle",
         NEW row \in InboundRow, row # NoRow,
         row.status \in {"pending", "open", "applied"} => Addressed(h.notice),
         row.resolution = "reversed" => row.status = "resolved",
         NEW next, next = Saving(h, row)
  PROVE  /\ next \in HandlerState /\ Known(next)
         /\ next.step = "save" /\ next.notice = h.notice /\ next.row = row
         /\ next.rest = h.rest /\ next.call = h.call
<1>1. /\ next \in HandlerState /\ next.step = "save" /\ next.notice = h.notice /\ next.row = row
      /\ next.rest = h.rest /\ next.call = h.call
  BY DEF HandlerState, Saving
<1>2. Known(next)
  BY <1>1 DEF Known
<1> QED BY <1>1, <1>2

\* A handler that has a transition to make, and the row to save after it.
LEMMA ToRead ==
  ASSUME NEW h \in HandlerState, Known(h), h.step # "idle",
         NEW row \in InboundRow, row # NoRow, Addressed(h.notice),
         row.resolution = "reversed" => row.status = "resolved",
         NEW r \in Resident, r = terms[h.notice].resident,
         NEW to \in {"ACTIVE", "SUSPENDED", "ENDED"},
         NEW next, next = Reading(h, r, to, row)
  PROVE  /\ next \in HandlerState /\ Known(next)
         /\ next.step = "read" /\ next.notice = h.notice /\ next.row = row /\ next.to = to
         /\ next.rest = h.rest /\ next.call = h.call
<1>1. to \in RelationshipStatus
  BY DEF RelationshipStatus
<1>2. /\ next \in HandlerState /\ next.step = "read" /\ next.notice = h.notice /\ next.row = row
      /\ next.rest = h.rest /\ next.call = h.call /\ next.resident = r /\ next.to = to
  BY <1>1 DEF HandlerState, Reading
<1>3. Known(next)
  BY <1>2 DEF Known
<1> QED BY <1>2, <1>3

LEMMA MatchCredentialKeeps ==
  ASSUME IInv, NEW q \in Handler, MatchCredential(q)
  PROVE  IInv'
<1>h. PICK h : h = handler[q]
  OBVIOUS
<1>1. /\ h \in HandlerState /\ Known(h) /\ Ledger(h) /\ h.step = "match"
      /\ h.notice \in Notice /\ terms[h.notice] \in Terms /\ terms[h.notice] # NoRow
      /\ UNCHANGED <<sending, network, register, history>>
  BY <1>h, UnderWay DEF MatchCredential, Known
<1>2. PICK n, r : n = h.notice /\ r = terms[n].resident
  OBVIOUS
<1>3. r \in Resident \cup {NoResident} /\ (r # NoResident => Addressed(h.notice))
  BY <1>1, <1>2 DEF Terms, Addressed
<1>4. ~ crossed[n] => moves[n] = 0 /\ inbound[n] = NoRow
  BY <1>1, <1>2 DEF Ledger, InHand
<1>5. ASSUME NEW row \in {Noted, Pending, OpenRow, [Noted EXCEPT !.status = "unmatched"]},
             row.status \in {"pending", "open"} => Addressed(h.notice),
             Goes(q, [h EXCEPT !.step = "save", !.row = row])
      PROVE  IInv'
  <2>1. /\ row \in InboundRow /\ row # NoRow /\ row.resolution = "none"
        /\ row.status \in {"noted", "pending", "open", "unmatched"}
    BY RowsAre
  <2>2. PICK next : next = Saving(h, row)
    OBVIOUS
  <2>3. /\ next \in HandlerState /\ Known(next)
        /\ next.step = "save" /\ next.notice = h.notice /\ next.row = row
        /\ next.rest = h.rest /\ next.call = h.call
    BY <1>1, <1>5, <2>1, <2>2, ToSave
  <2>4. ~ crossed[next.notice] => InHand(next)
    BY <1>2, <1>4, <2>1, <2>3 DEF InHand
  <2>5. Goes(q, next)
    BY <1>5, <2>2 DEF Saving
  <2> QED BY <1>h, <1>1, <2>3, <2>4, <2>5, OnlyMoves
<1>6. ASSUME r # NoResident,
             Goes(q, [h EXCEPT !.step = "read", !.resident = r, !.to = Target(n),
                               !.row = AppliedRow(n)])
      PROVE  IInv'
  <2>1. PICK row, to : row = AppliedRow(n) /\ to = Target(n)
    OBVIOUS
  <2>2. /\ row \in InboundRow /\ row # NoRow /\ row.resolution = "none" /\ row.status = "applied"
        /\ to \in {"ACTIVE", "SUSPENDED", "ENDED"} /\ to # "ACTIVE"
    BY <2>1, RowsAre
  <2>3. PICK next : next = Reading(h, r, to, row)
    OBVIOUS
  <2>4. /\ next \in HandlerState /\ Known(next)
        /\ next.step = "read" /\ next.notice = h.notice /\ next.row = row /\ next.to = to
        /\ next.rest = h.rest /\ next.call = h.call
    BY <1>1, <1>2, <1>3, <1>6, <2>2, <2>3, ToRead
  <2>5. ~ crossed[next.notice] => InHand(next)
    BY <1>2, <1>4, <2>2, <2>4 DEF InHand
  <2>6. Goes(q, next)
    BY <1>6, <2>1, <2>3 DEF Reading
  <2> QED BY <1>h, <1>1, <2>4, <2>5, <2>6, OnlyMoves
<1>7. \/ r = NoResident /\ Goes(q, [h EXCEPT !.step = "save",
                                             !.row = [Noted EXCEPT !.status = "unmatched"]])
      \/ r # NoResident /\ \E row \in {Noted, Pending, OpenRow} :
           Goes(q, [h EXCEPT !.step = "save", !.row = row])
      \/ r # NoResident /\ Goes(q, [h EXCEPT !.step = "read", !.resident = r, !.to = Target(n),
                                             !.row = AppliedRow(n)])
  BY <1>h, <1>2 DEF MatchCredential
<1>8. CASE r = NoResident /\ Goes(q, [h EXCEPT !.step = "save",
                                               !.row = [Noted EXCEPT !.status = "unmatched"]])
  <2>1. PICK row : row = [Noted EXCEPT !.status = "unmatched"]
    OBVIOUS
  <2>2. row.status = "unmatched"
    BY <2>1, RowsAre
  <2> QED BY <1>5, <1>8, <2>1, <2>2
<1> QED BY <1>3, <1>5, <1>6, <1>7, <1>8

LEMMA ReadRelationshipKeeps ==
  ASSUME IInv, NEW q \in Handler, ReadRelationship(q)
  PROVE  IInv'
<1>h. PICK h : h = handler[q]
  OBVIOUS
<1>1. /\ h \in HandlerState /\ Known(h) /\ Ledger(h) /\ h.step = "read"
      /\ h.notice \in Notice
      /\ UNCHANGED <<sending, network, register, history>>
  BY <1>h, UnderWay DEF ReadRelationship, Known
<1>2. CASE Goes(q, [h EXCEPT !.step = "write"])
  <2>1. PICK next : next = [h EXCEPT !.step = "write"]
    OBVIOUS
  <2>2. /\ next \in HandlerState /\ next.step = "write" /\ next.op = h.op
        /\ next.notice = h.notice /\ next.row = h.row /\ next.to = h.to
        /\ next.rest = h.rest /\ next.call = h.call /\ next.resident = h.resident
    BY <1>1, <2>1 DEF HandlerState
  <2>3. Known(next)
    BY <1>1, <2>2 DEF Known
  <2>4. ~ crossed[next.notice] => InHand(next)
    BY <1>1, <2>2 DEF Ledger, InHand
  <2> QED BY <1>h, <1>1, <1>2, <2>1, <2>2, <2>3, <2>4, OnlyMoves
<1>3. CASE Goes(q, Idle)
  BY <1>h, <1>1, <1>3, IdleIs, OnlyMoves
<1>4. CASE h.to # "ACTIVE" /\ Goes(q, [h EXCEPT !.step = "save", !.row = RefusedRow(h.notice)])
  <2>1. PICK row : row = RefusedRow(h.notice)
    OBVIOUS
  <2>2. row \in InboundRow /\ row # NoRow /\ row.resolution = "none" /\ row.status = "open"
    BY <2>1, RowsAre
  <2>3. Addressed(h.notice)
    BY <1>1, ArrivalNoticesAssumption DEF Known, Addressed
  <2>4. PICK next : next = Saving(h, row)
    OBVIOUS
  <2>5. /\ next \in HandlerState /\ Known(next)
        /\ next.step = "save" /\ next.notice = h.notice /\ next.row = row
        /\ next.rest = h.rest /\ next.call = h.call
    BY <1>1, <2>2, <2>3, <2>4, ToSave
  <2>6. ~ crossed[next.notice] => InHand(next)
    BY <1>1, <1>4, <2>2, <2>5 DEF Ledger, InHand
  <2>7. Goes(q, next)
    BY <1>4, <2>1, <2>4 DEF Saving
  <2> QED BY <1>h, <1>1, <2>5, <2>6, <2>7, OnlyMoves
<1> QED BY <1>h, <1>2, <1>3, <1>4 DEF ReadRelationship

LEMMA RequestResolveKeeps ==
  ASSUME IInv, NEW q \in Handler, NEW n \in Notice, NEW resolution \in {"upheld", "reversed"},
         RequestResolve(q, n, resolution)
  PROVE  IInv'
<1>1. PICK row : row = [Noted EXCEPT !.status = "resolved", !.resolution = resolution]
  OBVIOUS
<1>2. row \in InboundRow /\ row # NoRow /\ row.status = "resolved"
  <2>1. row \in InboundRow /\ row.status = "resolved"
    BY <1>1 DEF Noted, InboundRow
  <2> QED BY <2>1, NoRowAssumption
<1>3. PICK r : r = terms[n].resident
  OBVIOUS
<1>4. PICK next : next = [Idle EXCEPT !.step = "find", !.op = "resolve", !.notice = n,
                                      !.resident = r, !.row = row]
  OBVIOUS
<1>5. /\ Goes(q, next) /\ TakesUp(q, {n}) /\ handler[q].step = "idle" /\ inbound[n] # NoRow
      /\ UNCHANGED <<sending, network, register, moves, movedBy, faults>>
  BY <1>1, <1>3, <1>4 DEF RequestResolve
<1>6. terms[n] \in Terms /\ terms[n] # NoRow /\ r \in Resident \cup {NoResident}
  BY <1>3, <1>5, UnderWay DEF ReceiverInv, StoreInv, Terms
<1>7. /\ next \in HandlerState /\ next.step = "find" /\ next.op = "resolve"
      /\ next.notice = n /\ next.call = NoCall /\ next.row = row /\ next.rest = {}
      /\ next.resident = r
  BY <1>2, <1>4, <1>6 DEF HandlerState, Idle
<1>8. Known(next) /\ Ledger(next)'
  BY <1>2, <1>3, <1>5, <1>6, <1>7 DEF Known, Ledger, InHand
<1>9. ReceiverInv'
  BY <1>5, <1>7, <1>8, UnderWay, TakeUpKeeps DEF sending
<1>10. SenderInv'
  BY <1>5, UnderWay, SenderAside DEF Received, register
<1> QED BY <1>5, <1>9, <1>10 DEF IInv

LEMMA FindToResolveKeeps ==
  ASSUME IInv, NEW q \in Handler, FindToResolve(q)
  PROVE  IInv'
<1>h. PICK h : h = handler[q]
  OBVIOUS
<1>1. /\ h \in HandlerState /\ Known(h) /\ Ledger(h) /\ h.step = "find" /\ h.op = "resolve"
      /\ h.notice \in Notice /\ h.row # NoRow /\ h.row.status = "resolved"
      /\ h.resident = terms[h.notice].resident /\ inbound[h.notice] # NoRow
      /\ ReceiverInv
      /\ UNCHANGED <<sending, network, register, history>>
  BY <1>h, UnderWay DEF FindToResolve, Known
<1>2. PICK n, row, mine : n = h.notice /\ row = inbound[n] /\ mine = h.row
  OBVIOUS
<1>3. /\ row \in InboundRow /\ row # NoRow /\ mine \in InboundRow
      /\ row.status \in {"pending", "open", "applied"} => Addressed(n)
      /\ h.resident \in Resident \cup {NoResident}
  BY <1>1, <1>2 DEF ReceiverInv, ReceiverTyped, StoreInv, HandlerState
<1>4. PICK decided : decided = [mine EXCEPT !.transition = row.transition]
  OBVIOUS
<1>5. /\ decided \in InboundRow /\ decided # NoRow /\ decided.status = "resolved"
      /\ decided.resolution = mine.resolution
  <2>1. /\ decided \in InboundRow /\ decided.status = "resolved"
        /\ decided.resolution = mine.resolution
    BY <1>1, <1>2, <1>3, <1>4 DEF InboundRow
  <2> QED BY <2>1, NoRowAssumption
<1>6. PICK enforced : enforced = [decided EXCEPT !.transition = Target(n)]
  OBVIOUS
<1>7. /\ enforced \in InboundRow /\ enforced # NoRow /\ enforced.status = "resolved"
      /\ enforced.resolution = mine.resolution
  <2>1. PICK to \in {"SUSPENDED", "ENDED"} : to = Target(n)
    BY RowsAre
  <2>2. /\ enforced \in InboundRow /\ enforced.status = "resolved"
        /\ enforced.resolution = mine.resolution
    BY <1>5, <1>6, <2>1 DEF InboundRow
  <2> QED BY <2>2, NoRowAssumption
<1>8. \/ Goes(q, Idle)
      \/ /\ row.status = "pending" /\ mine.resolution = "upheld"
         /\ Goes(q, [h EXCEPT !.step = "read", !.to = Target(n), !.row = enforced])
      \/ /\ row.status = "applied"
         /\ Goes(q, [h EXCEPT !.step = "read", !.to = "ACTIVE", !.row = decided])
      \/ /\ row.status \in {"pending", "open"} \/ mine.resolution # "reversed"
         /\ row.status \in {"pending", "open", "applied"}
         /\ Goes(q, [h EXCEPT !.step = "save", !.row = decided])
  BY <1>h, <1>1, <1>2, <1>4, <1>6, Zenon DEF FindToResolve, Reinstates
<1>9. ASSUME row.status \in {"pending", "applied"}, NEW to \in {"ACTIVE", "SUSPENDED", "ENDED"},
             NEW saved \in {decided, enforced},
             Goes(q, [h EXCEPT !.step = "read", !.to = to, !.row = saved]),
             ~ crossed[n] => IF to = "ACTIVE" THEN row.status = "applied"
                             ELSE row.status = "pending" /\ mine.resolution # "reversed"
      PROVE  IInv'
  <2>1. PICK next : next = Reading(h, h.resident, to, saved)
    OBVIOUS
  <2>2. /\ Addressed(n) /\ h.resident \in Resident
        /\ saved \in InboundRow /\ saved # NoRow /\ saved.status = "resolved"
        /\ saved.resolution = mine.resolution
    BY <1>1, <1>2, <1>3, <1>5, <1>7, <1>9 DEF Addressed
  <2>3. /\ next \in HandlerState /\ Known(next)
        /\ next.step = "read" /\ next.notice = h.notice /\ next.row = saved /\ next.to = to
        /\ next.rest = h.rest /\ next.call = h.call
    BY <1>1, <1>2, <2>1, <2>2, ToRead
  <2>4. next = [h EXCEPT !.step = "read", !.to = to, !.row = saved]
    BY <1>1, <2>1 DEF Reading, HandlerState
  <2>5. Holds(q, n)
    BY <1>h, <1>2 DEF Holds
  <2>6. ~ crossed[n] /\ row.status = "pending" => moves[n] = 0
    <3>1. row.status = "pending" => ~ Settled(n)
      BY <1>2 DEF Settled
    <3> QED BY <1>h, <1>1, <1>2, <2>5, <3>1, NobodyElse, NotMovedYet
  <2>7. ~ crossed[next.notice] => InHand(next)
    BY <1>1, <1>2, <1>9, <2>2, <2>3, <2>6 DEF InHand, Settled, Waits
  <2>8. Goes(q, next)
    BY <1>9, <2>4, Zenon
  <2> QED BY <1>h, <1>1, <2>3, <2>7, <2>8, OnlyMoves
<1>10. ASSUME row.status \in {"pending", "open"} \/ mine.resolution # "reversed",
              Goes(q, [h EXCEPT !.step = "save", !.row = decided])
       PROVE  IInv'
  <2>1. PICK next : next = Saving(h, decided)
    OBVIOUS
  <2>2. /\ next \in HandlerState /\ Known(next)
        /\ next.step = "save" /\ next.notice = h.notice /\ next.row = decided
        /\ next.rest = h.rest /\ next.call = h.call
    BY <1>1, <1>5, <2>1, ToSave
  <2>3. Holds(q, n)
    BY <1>h, <1>2 DEF Holds
  <2>4. ~ crossed[n] /\ row.status \in {"pending", "open"} => moves[n] = 0
    <3>1. row.status \in {"pending", "open"} => ~ Settled(n)
      BY <1>2 DEF Settled
    <3> QED BY <1>h, <1>1, <1>2, <2>3, <3>1, NobodyElse, NotMovedYet
  <2>5. moves[n] = 0 => \A r \in Resident : movedBy[r] # n
    BY <1>1, <1>2, NoticesAreNotAbsent DEF ReceiverInv, StoreInv
  <2>6. ~ crossed[next.notice] => InHand(next)
    BY <1>2, <1>5, <1>10, <2>2, <2>4, <2>5 DEF InHand
  <2>7. Goes(q, next)
    BY <1>10, <2>1 DEF Saving
  <2> QED BY <1>h, <1>1, <2>2, <2>6, <2>7, OnlyMoves
<1>11. CASE Goes(q, Idle)
  BY <1>h, <1>1, <1>11, IdleIs, OnlyMoves
<1>12. CASE row.status = "pending" /\ mine.resolution = "upheld"
            /\ Goes(q, [h EXCEPT !.step = "read", !.to = Target(n), !.row = enforced])
  <2>1. PICK to \in {"SUSPENDED", "ENDED"} : to = Target(n)
    BY RowsAre
  <2> QED BY <1>9, <1>12, <2>1
<1>13. CASE row.status = "applied"
            /\ Goes(q, [h EXCEPT !.step = "read", !.to = "ACTIVE", !.row = decided])
  BY <1>9, <1>13
<1> QED BY <1>8, <1>10, <1>11, <1>12, <1>13

\* The next notice of a sweep, which is due and has moved nothing.
LEMMA Swept ==
  ASSUME terms \in [Notice -> Terms \cup {NoRow}], NEW q \in Handler,
         NEW rest \in SUBSET Notice, \A n \in rest : Addressed(n), SweepsOn(q, rest),
         terms' = terms
  PROVE  \E next \in HandlerState :
           /\ Goes(q, next)
           /\ Known(next) /\ Known(next)'
           /\ \A n \in Notice : n = next.notice \/ n \in next.rest => n \in rest
           /\ next.step # "save" /\ next.call = NoCall
           /\ (\A n \in rest : ~ crossed[n] => Waits(n) /\ moves[n] = 0)' => Ledger(next)'
<1>1. CASE Goes(q, Idle)
  <2>1. PICK next : next = Idle
    OBVIOUS
  <2>2. next \in HandlerState /\ next.step # "save" /\ next.call = NoCall
    BY <2>1, IdleIs
  <2>3. Known(next) /\ Known(next)' /\ Ledger(next)'
        /\ \A n \in Notice : ~ (n = next.notice \/ n \in next.rest)
    BY <2>1, IdleHolds
  <2> QED BY <1>1, <2>1, <2>2, <2>3
<1>2. ASSUME NEW n \in rest,
             Goes(q, [Idle EXCEPT !.step = "read", !.op = "sweep", !.notice = n,
                                  !.resident = terms[n].resident, !.to = Target(n),
                                  !.row = AppliedRow(n), !.rest = rest \ {n}])
      PROVE  \E next \in HandlerState :
               /\ Goes(q, next)
               /\ Known(next) /\ Known(next)'
               /\ \A m \in Notice : m = next.notice \/ m \in next.rest => m \in rest
               /\ next.step # "save" /\ next.call = NoCall
               /\ (\A m \in rest : ~ crossed[m] => Waits(m) /\ moves[m] = 0)' => Ledger(next)'
  <2>1. PICK r, to, row, others :
           r = terms[n].resident /\ to = Target(n) /\ row = AppliedRow(n) /\ others = rest \ {n}
    OBVIOUS
  <2>2. r \in Resident /\ Addressed(n) /\ n \in Notice /\ terms[n] # NoRow
    BY <2>1 DEF Terms, Addressed
  <2>3. /\ to \in {"SUSPENDED", "ENDED"} /\ to \in RelationshipStatus
        /\ row \in InboundRow /\ row # NoRow /\ row.resolution = "none" /\ row.status = "applied"
    BY <2>1, RowsAre DEF RelationshipStatus
  <2>4. PICK next : next = [Idle EXCEPT !.step = "read", !.op = "sweep", !.notice = n,
                                        !.resident = r, !.to = to, !.row = row, !.rest = others]
    OBVIOUS
  <2>5. Goes(q, next)
    BY <1>2, <2>1, <2>4
  <2>6. /\ next \in HandlerState /\ next.step = "read" /\ next.op = "sweep" /\ next.notice = n
        /\ next.resident = r /\ next.to = to /\ next.row = row /\ next.rest = others
        /\ next.call = NoCall
    BY <2>1, <2>2, <2>3, <2>4 DEF HandlerState, Idle
  <2>7. /\ \A m \in others : Addressed(m) /\ m \in rest
        /\ n \notin others
    BY <2>1
  <2>8. Known(next)
    BY <2>1, <2>2, <2>3, <2>6, <2>7 DEF Known
  <2>9. Known(next)'
    BY <2>8, <2>6 DEF Known, Addressed
  <2>10. ASSUME (\A m \in rest : ~ crossed[m] => Waits(m) /\ moves[m] = 0)'
         PROVE  Ledger(next)'
    BY <2>3, <2>6, <2>7, <2>10 DEF Ledger, InHand
  <2>11. \A m \in Notice : m = next.notice \/ m \in next.rest => m \in rest
    BY <2>6, <2>7
  <2> QED BY <2>5, <2>6, <2>8, <2>9, <2>10, <2>11
<1> QED BY <1>1, <1>2 DEF SweepsOn

LEMMA SweepKeeps ==
  ASSUME IInv, NEW q \in Handler, Sweep(q)
  PROVE  IInv'
<1>1. /\ handler[q].step = "idle" /\ SweepsOn(q, Due) /\ TakesUp(q, Due)
      /\ UNCHANGED <<sending, network, register, moves, movedBy, faults>>
      /\ UNCHANGED <<terms, inbound>>
  BY DEF Sweep, register, sending
<1>2. ReceiverInv /\ SenderInv /\ terms \in [Notice -> Terms \cup {NoRow}]
  BY UnderWay
<1>3. PICK due \in SUBSET Notice : due = Due
  BY <1>2 DEF ReceiverInv, ReceiverTyped, Due
<1>d. \A n \in due : Addressed(n) /\ Waits(n)
  BY <1>2, <1>3 DEF ReceiverInv, StoreInv, Due, Waits
<1>4. PICK next \in HandlerState :
           /\ Goes(q, next)
           /\ Known(next) /\ Known(next)'
           /\ \A n \in Notice : n = next.notice \/ n \in next.rest => n \in due
           /\ next.step # "save" /\ next.call = NoCall
           /\ (\A n \in due : ~ crossed[n] => Waits(n) /\ moves[n] = 0)' => Ledger(next)'
  BY <1>1, <1>2, <1>3, <1>d, Swept
<1>5. \A n \in due : ~ crossed'[n] => moves[n] = 0
  <2>1. ASSUME NEW n \in due, ~ crossed'[n] PROVE moves[n] = 0
    <3>1. n \in Notice /\ ~ crossed[n] /\ \A p \in Handler : p # q => ~ Holds(p, n)
      BY <1>1, <1>2, <1>3, <2>1 DEF TakesUp, ReceiverInv, ReceiverTyped
    <3>2. ~ Settled(n)
      BY <1>d, <2>1 DEF Settled, Waits
    <3> QED BY <1>1, <1>2, <3>1, <3>2, NotMovedYet
  <2> QED BY <2>1
<1>l. Ledger(next)'
  BY <1>1, <1>4, <1>5, <1>d DEF Waits
<1>6. ReceiverInv'
  BY <1>1, <1>2, <1>3, <1>4, <1>l, TakeUpKeeps
<1>7. SenderInv'
  BY <1>1, <1>2, SenderAside DEF Received
<1> QED BY <1>1, <1>6, <1>7 DEF IInv

LEMMA WriteRelationshipKeeps ==
  ASSUME IInv, NEW q \in Handler, WriteRelationship(q)
  PROVE  IInv'
<1>h. PICK h : h = handler[q]
  OBVIOUS
<1>1. /\ h \in HandlerState /\ Known(h) /\ Ledger(h) /\ h.step = "write" /\ ReceiverInv
      /\ UNCHANGED <<sending, network, inbound, ripe, crossed, faults, terms>>
  BY <1>h, UnderWay DEF WriteRelationship, sending
<1>2. PICK n, r : n = h.notice /\ r = h.resident
  OBVIOUS
<1>3. /\ n \in Notice /\ terms[n] # NoRow /\ r \in Resident /\ r = terms[n].resident
      /\ n \notin h.rest /\ h.rest \subseteq Notice /\ h.to \in RelationshipStatus
  BY <1>1, <1>2 DEF Known, HandlerState
<1>4. PICK counts \in BOOLEAN : counts <=> h.to # "ACTIVE" /\ ~ crossed[n]
  OBVIOUS
<1>5. /\ relationship' = [relationship EXCEPT ![r] = h.to]
      /\ movedBy' = [movedBy EXCEPT ![r] = IF counts THEN n ELSE NoNotice]
      /\ moves' = IF counts THEN [moves EXCEPT ![n] = @ + 1] ELSE moves
  BY <1>h, <1>2, <1>4 DEF WriteRelationship
<1>6. PICK next : next = [h EXCEPT !.step = "save"]
  OBVIOUS
<1>7. Goes(q, next)
  BY <1>h, <1>6 DEF WriteRelationship
<1>8. /\ next \in HandlerState /\ next.step = "save" /\ next.op = h.op
      /\ next.notice = h.notice /\ next.row = h.row /\ next.to = h.to
      /\ next.rest = h.rest /\ next.call = h.call /\ next.resident = h.resident
  BY <1>1, <1>6 DEF HandlerState
<1>9. /\ moves \in [Notice -> Nat] /\ movedBy \in [Resident -> Notice \cup {NoNotice}]
      /\ relationship \in [Resident -> RelationshipStatus] /\ crossed \in [Notice -> BOOLEAN]
  BY <1>1 DEF ReceiverInv, ReceiverTyped
<1>10. /\ moves' \in [Notice -> Nat] /\ movedBy' \in [Resident -> Notice \cup {NoNotice}]
       /\ \A m \in Notice : m # n => moves'[m] = moves[m]
       /\ moves'[n] = IF counts THEN moves[n] + 1 ELSE moves[n]
       /\ \A x \in Resident : x # r => movedBy'[x] = movedBy[x]
       /\ movedBy'[r] = IF counts THEN n ELSE NoNotice
  BY <1>3, <1>5, <1>9
<1>11. ReceiverTyped'
  BY <1>1, <1>3, <1>5, <1>9, <1>10 DEF ReceiverInv, ReceiverTyped
<1>12. StoreInv'
  <2>1. \A m \in Notice : moves[m] # 0 => moves'[m] # 0
    BY <1>9, <1>10
  <2>2. counts => moves'[n] # 0
    BY <1>3, <1>9, <1>10
  <2>3. ASSUME NEW x \in Resident, NEW m, m = movedBy'[x], m # NoNotice
        PROVE  terms'[m] # NoRow /\ terms'[m].resident = x /\ moves'[m] # 0
    <3>1. CASE x = r
      BY <1>1, <1>3, <1>10, <2>2, <2>3, <3>1
    <3>2. CASE x # r
      <4>1. m = movedBy[x] /\ m \in Notice
        BY <1>9, <1>10, <2>3, <3>2
      <4> QED BY <1>1, <2>1, <2>3, <4>1 DEF ReceiverInv, StoreInv
    <3> QED BY <3>1, <3>2
  <2> QED BY <1>1, <2>3 DEF ReceiverInv, StoreInv, Addressed
<1>13. Received /\ \A m \in Notice : Same(m) \/ Holds(q, m)
  BY <1>h, <1>1, <1>2, <1>10, NoticesAreNotAbsent DEF Received, Same, Holds
<1>14. Known(next)'
  BY <1>1, <1>8 DEF Known, Addressed
<1>15. ~ crossed[n] => InHand(h)
  BY <1>1, <1>2 DEF Ledger
<1>16. Ledger(next)'
  <2>1. ASSUME ~ crossed'[n] PROVE InHand(next)'
    <3>1. CASE h.to = "ACTIVE"
      <4>1. h.row.status = "resolved" /\ ~ counts
        BY <1>1, <1>2, <1>4, <1>15, <2>1, <3>1 DEF InHand
      <4>2. ASSUME NEW x \in Resident, movedBy'[x] = n PROVE FALSE
        <5>1. x # r /\ movedBy[x] = n
          BY <1>3, <1>10, <4>1, <4>2, NoticesAreNotAbsent
        <5> QED BY <1>1, <1>3, <5>1, NoticesAreNotAbsent DEF ReceiverInv, StoreInv
      <4> QED BY <1>2, <1>8, <4>1, <4>2 DEF InHand
    <3>2. CASE h.to # "ACTIVE"
      <4>1. h.row.status \in {"applied", "resolved"} /\ h.row.resolution # "reversed"
        BY <1>1, <1>2, <1>15, <2>1, <3>2 DEF InHand
      <4> QED BY <1>2, <1>8, <4>1 DEF InHand
    <3> QED BY <3>1, <3>2
  <2>2. \A m \in h.rest : ~ crossed'[m] => Waits(m)' /\ moves'[m] = 0
    BY <1>1, <1>3, <1>10 DEF Ledger, Waits
  <2> QED BY <1>2, <1>8, <2>1, <2>2 DEF Ledger
<1>17. \A m \in Notice : ~ crossed'[m] /\ (m = next.notice \/ m \in next.rest) =>
         \A p \in Handler : p # q => ~ Holds(p, m)
  BY <1>h, <1>1, <1>8, NobodyElse DEF Holds
<1>18. \A m \in Notice : ~ crossed'[m] /\ moves'[m] # 0 /\ Holds(q, m) =>
         Settled(m)' \/ (next.step = "save" /\ next.notice = m)
  BY <1>h, <1>1, <1>2, <1>3, <1>8, <1>10 DEF Holds, Ledger
<1>19. MovesOnce'
  <2>1. counts => moves[n] = 0
    BY <1>1, <1>2, <1>4, <1>15 DEF InHand
  <2> QED BY <1>1, <1>9, <1>10, <2>1 DEF ReceiverInv, MovesOnce
<1>20. ReversalHolds'
  <2>1. counts => inbound[n] = NoRow \/ inbound[n].resolution # "reversed"
    BY <1>1, <1>2, <1>3, <1>4, <1>15 DEF InHand, Waits, ReceiverInv, StoreInv
  <2>2. ASSUME NEW m \in Notice, inbound[m] # NoRow, inbound[m].resolution = "reversed",
               ~ crossed[m], NEW x \in Resident, movedBy'[x] = m
        PROVE  FALSE
    <3>1. movedBy[x] = m \/ (counts /\ m = n)
      BY <1>10, <2>2, NoticesAreNotAbsent
    <3> QED BY <1>1, <2>1, <2>2, <3>1 DEF ReceiverInv, ReversalHolds
  <2> QED BY <1>1, <2>2 DEF ReversalHolds
<1>21. ReceiverInv'
  BY <1>1, <1>7, <1>8, <1>11, <1>12, <1>13, <1>14, <1>16, <1>17, <1>18, <1>19, <1>20, HandlerKeeps
<1>22. SenderInv'
  BY <1>1, <1>13, UnderWay, SenderAside
<1> QED BY <1>1, <1>21, <1>22 DEF IInv

LEMMA SaveInboundKeeps ==
  ASSUME IInv, NEW q \in Handler, SaveInbound(q)
  PROVE  IInv'
<1>h. PICK h : h = handler[q]
  OBVIOUS
<1>1. /\ h \in HandlerState /\ Known(h) /\ Ledger(h) /\ h.step = "save" /\ ReceiverInv
      /\ terms \in [Notice -> Terms \cup {NoRow}]
      /\ UNCHANGED <<terms, outbound, network, relationship, ripe, crossed, moves, movedBy, faults>>
  BY <1>h, UnderWay DEF SaveInbound, history
<1>2. PICK n, row : n = h.notice /\ row = h.row
  OBVIOUS
<1>3. /\ n \in Notice /\ terms[n] # NoRow /\ row \in InboundRow /\ row # NoRow
      /\ n \notin h.rest /\ h.rest \subseteq Notice
      /\ row.status \in {"pending", "open", "applied"} => Addressed(n)
      /\ row.resolution = "reversed" => row.status = "resolved"
      /\ \A m \in h.rest : Addressed(m)
      /\ h.call # NoCall => h.call.notice = n
  BY <1>1, <1>2 DEF Known, HandlerState
<1>4. /\ inbound' = [inbound EXCEPT ![n] = row] /\ Answers(h.call, "ok")
      /\ SweepsOn(q, h.rest) \/ Goes(q, Idle)
  BY <1>h, <1>2 DEF SaveInbound
<1>5. /\ inbound' \in [Notice -> InboundRow \cup {NoRow}] /\ inbound'[n] = row
      /\ \A m \in Notice : m # n => inbound'[m] = inbound[m]
  BY <1>1, <1>3, <1>4 DEF ReceiverInv, ReceiverTyped
<1>6. Received /\ \A m \in Notice : Same(m) \/ Holds(q, m)
  BY <1>h, <1>1, <1>2, <1>3, <1>5 DEF Received, Same, Holds
<1>7. ~ crossed[n] => /\ moves[n] # 0 => row.status \in {"applied", "resolved"}
                      /\ row.resolution = "reversed" => \A r \in Resident : movedBy[r] # n
  BY <1>1, <1>2 DEF Ledger, InHand
<1>8. \A m \in h.rest : ~ crossed[m] => Waits(m)' /\ moves[m] = 0
  BY <1>1, <1>3, <1>5 DEF Ledger, Waits
<1>9. PICK next \in HandlerState :
           /\ Goes(q, next) /\ Known(next)' /\ Ledger(next)'
           /\ \A m \in Notice : m = next.notice \/ m \in next.rest => m \in h.rest
  <2>1. CASE Goes(q, Idle)
    <3>1. PICK next : next = Idle
      OBVIOUS
    <3> QED BY <2>1, <3>1, IdleHolds
  <2>2. CASE SweepsOn(q, h.rest)
    <3>1. PICK rest \in SUBSET Notice : rest = h.rest
      BY <1>3
    <3>2. PICK next \in HandlerState :
             /\ Goes(q, next)
             /\ Known(next) /\ Known(next)'
             /\ \A m \in Notice : m = next.notice \/ m \in next.rest => m \in rest
             /\ next.step # "save" /\ next.call = NoCall
             /\ (\A m \in rest : ~ crossed[m] => Waits(m) /\ moves[m] = 0)' => Ledger(next)'
      BY <1>1, <1>3, <2>2, <3>1, Swept
    <3>3. Ledger(next)'
      BY <1>1, <1>8, <3>1, <3>2
    <3> QED BY <3>1, <3>2, <3>3
  <2> QED BY <1>4, <2>1, <2>2
<1>10. ReceiverTyped'
  BY <1>1, <1>5 DEF ReceiverInv, ReceiverTyped
<1>11. StoreInv'
  <2>1. ASSUME NEW m \in Notice, NEW x, x = inbound'[m], x # NoRow
        PROVE  /\ terms[m] # NoRow
               /\ x.status \in {"pending", "open", "applied"} => Addressed(m)
               /\ x.resolution = "reversed" => x.status = "resolved"
    <3>1. CASE m = n
      BY <1>3, <1>5, <2>1, <3>1
    <3>2. CASE m # n
      BY <1>1, <1>5, <2>1, <3>2 DEF ReceiverInv, StoreInv
    <3> QED BY <3>1, <3>2
  <2>2. \A m \in Notice : inbound'[m] # NoRow =>
          /\ terms'[m] # NoRow
          /\ inbound'[m].status \in {"pending", "open", "applied"} => Addressed(m)'
          /\ inbound'[m].resolution = "reversed" => inbound'[m].status = "resolved"
    BY <1>1, <2>1 DEF Addressed
  <2> QED BY <1>1, <2>2 DEF ReceiverInv, StoreInv
<1>12. \A m \in Notice : ~ crossed'[m] /\ (m = next.notice \/ m \in next.rest) =>
         \A p \in Handler : p # q => ~ Holds(p, m)
  <2>1. \A m \in h.rest : Holds(q, m)
    BY <1>h DEF Holds
  <2> QED BY <1>1, <1>9, <2>1, NobodyElse
<1>13. \A m \in Notice : ~ crossed'[m] /\ moves'[m] # 0 /\ Holds(q, m) => Settled(m)'
  BY <1>h, <1>1, <1>2, <1>3, <1>5, <1>7, <1>8 DEF Holds, Settled
<1>14. MovesOnce'
  BY <1>1 DEF ReceiverInv, MovesOnce
<1>15. ReversalHolds'
  <2>1. ASSUME NEW m \in Notice, inbound'[m] # NoRow, inbound'[m].resolution = "reversed",
               ~ crossed[m]
        PROVE  \A r \in Resident : movedBy[r] # m
    <3>1. CASE m = n
      BY <1>5, <1>7, <2>1, <3>1
    <3>2. CASE m # n
      BY <1>1, <1>5, <2>1, <3>2 DEF ReceiverInv, ReversalHolds
    <3> QED BY <3>1, <3>2
  <2> QED BY <1>1, <2>1 DEF ReversalHolds
<1>16. ReceiverInv'
  BY <1>1, <1>6, <1>9, <1>10, <1>11, <1>12, <1>13, <1>14, <1>15, HandlerKeeps
<1>17. SenderInv'
  BY <1>1, <1>3, <1>4, <1>5, <1>6, UnderWay, SenderStays
<1> QED BY <1>1, <1>16, <1>17 DEF IInv

LEMMA StopKeeps ==
  ASSUME IInv, NEW q \in Handler, Stop(q)
  PROVE  IInv'
<1>1. /\ Goes(q, Idle) /\ faults' = faults + 1 /\ ReceiverInv /\ SenderInv
      /\ crossed' = [n \in Notice |-> crossed[n] \/ Holds(q, n)]
      /\ UNCHANGED <<sending, network, register, moves, movedBy>>
      /\ UNCHANGED <<terms, inbound, relationship, ripe>>
  BY UnderWay DEF Stop, sending, register
<1>2. /\ crossed' \in [Notice -> BOOLEAN]
      /\ \A n \in Notice : crossed[n] => crossed'[n]
      /\ \A n \in Notice : ~ crossed'[n] => ~ Holds(q, n)
  BY <1>1 DEF ReceiverInv, ReceiverTyped, Holds
<1>3. Received /\ \A n \in Notice : Same(n)
  BY <1>1 DEF Received, Same
<1>4. ReceiverTyped' /\ MovesOnce' /\ ReversalHolds'
  BY <1>1, <1>2 DEF ReceiverInv, ReceiverTyped, MovesOnce, ReversalHolds
<1>5. StoreInv'
  BY <1>1 DEF ReceiverInv, StoreInv, Addressed
<1>6. PICK next : next = Idle
  OBVIOUS
<1>7. /\ next \in HandlerState /\ Goes(q, next) /\ Known(next)' /\ Ledger(next)'
      /\ \A n \in Notice : ~ (n = next.notice \/ n \in next.rest)
  BY <1>1, <1>6, IdleHolds
<1>8. ReceiverInv'
  BY <1>1, <1>2, <1>3, <1>4, <1>5, <1>7, HandlerKeeps
<1>9. SenderInv'
  BY <1>1, <1>3, SenderAside
<1>10. faults' \in Nat
  BY <1>1 DEF IInv
<1> QED BY <1>8, <1>9, <1>10 DEF IInv

----------------------------------------------------------------------------
(* The theorems.                                                            *)

LEMMA InvInit == Init => IInv
<1> SUFFICES ASSUME Init PROVE IInv
  OBVIOUS
<1>1. AtRest \in DeskState /\ AtRest.step = "idle" /\ AtRest.rest = {}
  BY DEF AtRest, DeskState
<1>2. SenderInv
  BY <1>1 DEF Init, SenderInv, SenderTyped, SentIsReceived, AtDesk
<1>3. ReceiverTyped
  BY DEF Init, ReceiverTyped, RelationshipStatus
<1>4. StoreInv /\ MovesOnce /\ ReversalHolds /\ SettledInv
  BY DEF Init, StoreInv, MovesOnce, ReversalHolds, SettledInv
<1>5. PICK x : x = Idle
  OBVIOUS
<1>6. HandlersInv
  BY <1>5, IdleHolds DEF Init, HandlersInv
<1>7. AloneInv
  BY IdleIs, NoticesAreNotAbsent DEF Init, AloneInv, Holds
<1> QED BY <1>2, <1>3, <1>4, <1>6, <1>7 DEF Init, IInv, ReceiverInv

LEMMA InvNext == IInv /\ [Next]_vars => IInv'
<1> SUFFICES ASSUME IInv, [Next]_vars PROVE IInv'
  OBVIOUS
<1>1. CASE UNCHANGED vars
  BY <1>1, ElsewhereKeeps
     DEF vars, sending, register, history, IInv, ReceiverInv, ReceiverTyped
<1>2. ASSUME NEW d \in Desk, Send(d) PROVE IInv'
  BY <1>2, NotifyKeeps, RetryFailedKeeps, AwaitKeeps, StopDeskKeeps DEF Send
<1>3. ASSUME NEW q \in Handler, Step(q) PROVE IInv'
  BY <1>3, FindRepeatKeeps, MatchCredentialKeeps, FindToResolveKeeps, ReadRelationshipKeeps,
     WriteRelationshipKeeps, SaveInboundKeeps DEF Step
<1>4. ASSUME NEW q \in Handler, Handle(q) PROVE IInv'
  BY <1>3, <1>4, ArriveKeeps, RequestResolveKeeps, SweepKeeps, StopKeeps DEF Handle
<1>5. CASE Next
  BY <1>2, <1>4, <1>5, LoseKeeps, RipenKeeps, TransitionRelationshipKeeps DEF Next
<1> QED BY <1>1, <1>5

LEMMA Invariance == Spec => []IInv
<1> QED BY InvInit, InvNext, PTL DEF Spec

\* The tables, the desks, the handlers and the calls hold what they are declared
\* to hold, however many of them there are.
THEOREM TypeCorrect == Spec => []TypeOK
<1>1. IInv => TypeOK
  BY DEF IInv, SenderInv, SenderTyped, ReceiverInv, ReceiverTyped, HandlersInv, TypeOK
<1> QED BY <1>1, Invariance, PTL

\* What the sender records as delivered is on the receiver's record: an answer "ok"
\* follows the save, and no save takes a row away.
THEOREM DeliveredIsOnRecord == Spec => []SentIsReceived
<1>1. IInv => SentIsReceived
  BY DEF IInv, SenderInv
<1> QED BY <1>1, Invariance, PTL

\* A notice moves a relationship once, however often it is sent, retried and swept.
THEOREM NoticeMovesOnce == Spec => []MovesOnce
<1>1. IInv => MovesOnce
  BY DEF IInv, ReceiverInv
<1> QED BY <1>1, Invariance, PTL

\* A notice that a person reversed no longer holds the relationship it moved.
THEOREM ReversalIsKept == Spec => []ReversalHolds
<1>1. IInv => ReversalHolds
  BY DEF IInv, ReceiverInv
<1> QED BY <1>1, Invariance, PTL

=============================================================================
