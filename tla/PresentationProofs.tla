------------------------- MODULE PresentationProofs -------------------------
(***************************************************************************)
(* Theorems about presentations, for any number of handlers, replicas,      *)
(* credentials and requests.                                                *)
(***************************************************************************)
EXTENDS Presentation, TLAPS

\* What a handler holds at each step.
Holding(h) ==
  /\ h.step = "idle" \/ h.replica \in Replica
  /\ h.step = "assign" => h.list \in SUBSET Own
  /\ h.step = "keep" => h.list \in SUBSET Peers
  /\ h.step \in {"find", "check", "complete"} => h.op = "answer"

\* An answer whose credential was known to be revoked when it came will not be
\* accepted: the replica's list names the credential from here to the check.
Doomed(h) ==
  \/ /\ h.card \in revoked \cap Own
     /\ h.step \in {"load", "assign", "find", "check"}
     /\ h.step = "assign" => h.card \in h.list
     /\ h.step \in {"find", "check"} =>
          cache[h.replica].own # NoList /\ h.card \in cache[h.replica].own
  \/ /\ h.card \in PeerHeld(h.replica)
     /\ h.step \in {"load", "assign", "find", "check"}

\* ... unless that list was set back.
AnswerInv ==
  \A p \in Handler :
    handler[p].op = "answer" /\ handler[p].late /\ ~ handler[p].behind => Doomed(handler[p])

IInv ==
  /\ TypeOK
  /\ \A p \in Handler : Holding(handler[p])
  /\ AnswerInv
  /\ RevokedIsRefused

----------------------------------------------------------------------------
(* What a handler does leaves the others as they were.                      *)

LEMMA IdleHolds ==
  Idle \in HandlerState /\ Holding(Idle) /\ Idle.op # "answer" /\ Idle.step = "idle"
BY DEF Idle, HandlerState, Holding

\* What is known to be revoked stays so while no list is assigned.
LEMMA DoomedStays ==
  ASSUME cache' = cache, revoked \subseteq revoked', NEW h, Doomed(h)
  PROVE  Doomed(h)'
<1>1. PeerHeld(h.replica) \subseteq PeerHeld(h.replica)'
  BY DEF PeerHeld
<1> QED BY <1>1 DEF Doomed

\* One handler goes on, and no list is assigned.
LEMMA HandlerMoves ==
  ASSUME IInv, NEW q \in Handler, NEW next \in HandlerState, Goes(q, next), Holding(next),
         cache' = cache, revoked \subseteq revoked',
         next.op = "answer" /\ next.late /\ ~ next.behind => Doomed(next)
  PROVE  /\ handler' \in [Handler -> HandlerState]
         /\ \A p \in Handler : Holding(handler'[p])
         /\ AnswerInv'
<1>1. handler \in [Handler -> HandlerState]
  BY DEF IInv, TypeOK
<1>2. handler' = [handler EXCEPT ![q] = next]
  BY DEF Goes
<1>3. handler' \in [Handler -> HandlerState]
  BY <1>1, <1>2
<1>4. \A p \in Handler : Holding(handler'[p])
  BY <1>1, <1>2 DEF IInv
<1>5. ASSUME NEW p \in Handler,
             handler'[p].op = "answer", handler'[p].late, ~ handler'[p].behind
      PROVE  Doomed(handler[p])'
  <2>1. PICK h : h = handler'[p]
    OBVIOUS
  <2>2. Doomed(h)
    <3>1. CASE p = q
      BY <1>1, <1>2, <1>5, <2>1, <3>1
    <3>2. CASE p # q
      BY <1>1, <1>2, <1>5, <2>1, <3>2 DEF IInv, AnswerInv
    <3> QED BY <3>1, <3>2
  <2>3. Doomed(h)'
    BY <2>2, DoomedStays
  <2> QED BY <2>1, <2>3 DEF Doomed, PeerHeld
<1> QED BY <1>3, <1>4, <1>5 DEF AnswerInv

----------------------------------------------------------------------------
(* The actions.                                                             *)

\* A handler goes on with neither the lists nor the requests changed.
LEMMA QuietMoves ==
  ASSUME IInv, NEW q \in Handler, NEW next \in HandlerState, Goes(q, next), Holding(next),
         next.op = "answer" /\ next.late /\ ~ next.behind => Doomed(next),
         UNCHANGED <<cache, requests, lapsed>>,
         revoked \subseteq revoked', revoked' \subseteq Card,
         suspended' \subseteq Own \ revoked', overlaps' \in 0 .. MaxOverlaps
  PROVE  IInv'
<1>1. /\ handler' \in [Handler -> HandlerState]
      /\ \A p \in Handler : Holding(handler'[p])
      /\ AnswerInv'
  BY HandlerMoves
<1>2. TypeOK'
  BY <1>1 DEF IInv, TypeOK
<1>3. RevokedIsRefused'
  BY DEF IInv, RevokedIsRefused
<1>4. \A p \in Handler : Holding(handler[p])'
  BY <1>1 DEF Holding
<1> QED BY <1>1, <1>2, <1>3, <1>4 DEF IInv

\* The decisions, the verification and the sync begin with an empty answer.
LEMMA BeginStep ==
  ASSUME IInv, NEW q \in Handler, NEW r \in Replica,
         NEW op \in {"refresh", "sync"}, NEW step \in {"load", "fetch"},
         Begin(q, r, op, step),
         UNCHANGED <<cache, requests, lapsed>>,
         revoked \subseteq revoked', revoked' \subseteq Card,
         suspended' \subseteq Own \ revoked'
  PROVE  IInv'
<1> DEFINE next == [Idle EXCEPT !.op = op, !.step = step, !.replica = r]
<1>1. next \in HandlerState /\ Holding(next) /\ next.op # "answer"
  BY IdleHolds DEF HandlerState, Holding
<1>2. Goes(q, next) /\ overlaps' \in 0 .. MaxOverlaps
  BY PresentationAssumption DEF Begin, Begins, IInv, TypeOK
<1> HIDE DEF next
<1> QED BY <1>1, <1>2, QuietMoves

LEMMA DecisionStep ==
  ASSUME IInv, NEW q \in Handler, NEW r \in Replica, NEW c \in Own,
         Revoke(q, r, c) \/ Suspend(q, r, c) \/ Reinstate(q, r, c)
  PROVE  IInv'
<1>1. revoked \subseteq Card /\ suspended \subseteq Own \ revoked
  BY DEF IInv, TypeOK
<1>2. /\ UNCHANGED <<cache, requests, lapsed>>
      /\ Begin(q, r, "refresh", "load")
      /\ revoked \subseteq revoked' /\ revoked' \subseteq Card
      /\ suspended' \subseteq Own \ revoked'
  BY <1>1 DEF Revoke, Suspend, Reinstate, NoLongerSuspended, Card
<1> QED BY <1>2, BeginStep

LEMMA VerifyStep ==
  ASSUME IInv, NEW q \in Handler, NEW r \in Replica, Verify(q, r) \/ StartSync(q, r)
  PROVE  IInv'
<1>1. revoked \subseteq Card /\ suspended \subseteq Own \ revoked
  BY DEF IInv, TypeOK
<1>2. CASE Verify(q, r)
  BY <1>1, <1>2, BeginStep DEF Verify, lists
<1>3. CASE StartSync(q, r)
  BY <1>1, <1>3, BeginStep DEF StartSync, lists
<1> QED BY <1>2, <1>3

\* An answer whose credential is known to be revoked is doomed from the start.
LEMMA PostStep ==
  ASSUME IInv, NEW q \in Handler, NEW r \in Replica, NEW v \in VpRequest,
         NEW c \in Card \cup {NoCard}, PostAnswer(q, r, v, c)
  PROVE  IInv'
<1> DEFINE next == [Idle EXCEPT !.op = "answer", !.step = "load", !.replica = r,
                                !.request = v, !.card = c,
                                !.late = KnownRevoked(r, c), !.paused = c \in suspended]
<1>1. KnownRevoked(r, c) \in BOOLEAN /\ (c \in suspended) \in BOOLEAN
  BY DEF KnownRevoked
<1>2. next \in HandlerState
  BY <1>1, IdleHolds DEF HandlerState
<1>3. /\ next.step = "load" /\ next.replica = r /\ next.card = c
      /\ next.late = KnownRevoked(r, c)
  BY DEF Idle
<1>4. Holding(next)
  BY <1>3 DEF Holding
<1>5. next.late => Doomed(next)
  BY <1>3 DEF Doomed, KnownRevoked
<1>6. /\ Goes(q, next)
      /\ overlaps' \in 0 .. MaxOverlaps
      /\ UNCHANGED <<lists, cache, requests, lapsed>>
  BY PresentationAssumption DEF PostAnswer, Begins, IInv, TypeOK
<1>7. revoked \subseteq Card /\ suspended \subseteq Own \ revoked
  BY DEF IInv, TypeOK
<1> HIDE DEF next
<1> QED BY <1>2, <1>4, <1>5, <1>6, <1>7, QuietMoves DEF lists

\* The list read names what is revoked.
LEMMA LoadStep ==
  ASSUME IInv, NEW q \in Handler, LoadList(q) \/ FetchPeer(q)
  PROVE  IInv'
<1> DEFINE h == handler[q]
<1>1. h \in HandlerState /\ Holding(h)
      /\ (h.op = "answer" /\ h.late /\ ~ h.behind => Doomed(h))
  BY DEF IInv, TypeOK, AnswerInv
<1>2. revoked \subseteq Card /\ suspended \subseteq Own \ revoked /\ overlaps \in 0 .. MaxOverlaps
  BY DEF IInv, TypeOK
<1>3. UNCHANGED <<lists, cache, requests, lapsed, overlaps>>
  BY DEF LoadList, FetchPeer
<1>4. CASE LoadList(q)
  <2> DEFINE next == [h EXCEPT !.step = "assign", !.list = revoked \cap Own]
  <2>1. revoked \cap Own \in SUBSET Card
    BY <1>2
  <2>2. next \in HandlerState
    BY <1>1, <2>1 DEF HandlerState
  <2>3. /\ next.step = "assign" /\ next.list = revoked \cap Own /\ next.card = h.card
        /\ next.replica = h.replica /\ next.op = h.op /\ next.late = h.late
        /\ next.behind = h.behind
    BY <1>1 DEF HandlerState
  <2>4. h.step = "load" /\ Goes(q, next)
    BY <1>4 DEF LoadList
  <2> HIDE DEF next
  <2>5. Holding(next)
    BY <1>1, <2>3, <2>4 DEF Holding
  <2>6. next.op = "answer" /\ next.late /\ ~ next.behind => Doomed(next)
    BY <1>1, <2>3, <2>4 DEF Doomed
  <2> QED BY <1>2, <1>3, <2>2, <2>4, <2>5, <2>6, QuietMoves DEF lists
<1>5. CASE FetchPeer(q)
  <2> DEFINE next == [h EXCEPT !.step = "keep", !.list = revoked \cap Peers]
  <2>1. revoked \cap Peers \in SUBSET Card
    BY <1>2
  <2>2. next \in HandlerState
    BY <1>1, <2>1 DEF HandlerState
  <2>3. /\ next.step = "keep" /\ next.list = revoked \cap Peers /\ next.card = h.card
        /\ next.replica = h.replica /\ next.op = h.op /\ next.late = h.late
        /\ next.behind = h.behind
    BY <1>1 DEF HandlerState
  <2>4. h.step = "fetch" /\ Goes(q, next)
    BY <1>5 DEF FetchPeer
  <2> HIDE DEF next
  <2>5. Holding(next)
    BY <1>1, <2>3, <2>4 DEF Holding
  <2>6. next.op = "answer" /\ next.late /\ ~ next.behind => Doomed(next)
    BY <1>1, <2>3, <2>4 DEF Doomed
  <2> QED BY <1>2, <1>3, <2>2, <2>4, <2>5, <2>6, QuietMoves DEF lists
<1> QED BY <1>4, <1>5

\* A list put in the place of another: who is judged by it meanwhile is behind if it
\* lost an entry.
LEMMA PutBackMoves ==
  ASSUME IInv, NEW q \in Handler, NEW r \in Replica, NEW old, NEW new,
         NEW next \in HandlerState, Holding(next),
         PutBack(q, r, old, new, next),
         UNCHANGED <<lists, requests, lapsed, overlaps>>,
         cache' \in [Replica -> Lists],
         next.op = "answer" /\ next.late /\ ~ next.behind => Doomed(next)',
         \A h \in HandlerState :
           /\ Doomed(h)
           /\ ~ (old \ new # {} /\ h.op = "answer" /\ h.replica = r)
           /\ h.op = "answer"
           => Doomed(h)'
  PROVE  IInv'
<1>1. handler \in [Handler -> HandlerState]
  BY DEF IInv, TypeOK
<1>2. ASSUME NEW p \in Handler
      PROVE  /\ handler'[p] \in HandlerState
             /\ Holding(handler'[p])
             /\ handler'[p].op = "answer" /\ handler'[p].late /\ ~ handler'[p].behind
                  => Doomed(handler[p])'
  <2>1. CASE p = q
    <3>1. handler'[p] = next
      BY <2>1 DEF PutBack
    <3> QED BY <3>1 DEF Doomed, PeerHeld
  <2>2. CASE p # q
    <3> DEFINE caught == old \ new # {} /\ handler[p].op = "answer" /\ handler[p].replica = r
    <3>1. handler'[p] = [handler[p] EXCEPT !.behind = @ \/ caught]
      BY <2>2 DEF PutBack
    <3>2. handler[p] \in HandlerState /\ Holding(handler[p])
      BY <1>1 DEF IInv
    <3>3. caught \in BOOLEAN
      OBVIOUS
    <3> HIDE DEF caught
    <3>b. (handler[p].behind \/ caught) \in BOOLEAN
      OBVIOUS
    <3>4. handler'[p] \in HandlerState
      BY <3>1, <3>2, <3>b DEF HandlerState
    <3>5. /\ handler'[p].step = handler[p].step /\ handler'[p].replica = handler[p].replica
          /\ handler'[p].list = handler[p].list /\ handler'[p].card = handler[p].card
          /\ handler'[p].op = handler[p].op /\ handler'[p].late = handler[p].late
          /\ handler'[p].behind = (handler[p].behind \/ caught)
      BY <3>1, <3>2 DEF HandlerState
    <3>6. Holding(handler'[p])
      BY <3>2, <3>5 DEF Holding
    <3>7. ASSUME handler'[p].op = "answer", handler'[p].late, ~ handler'[p].behind
          PROVE  Doomed(handler[p])'
      <4>1. PICK h : h = handler[p]
        OBVIOUS
      <4>2. Doomed(h) /\ ~ caught /\ h.op = "answer"
        BY <3>5, <3>7, <4>1 DEF IInv, AnswerInv
      <4>3. Doomed(h)'
        BY <3>2, <4>1, <4>2 DEF caught
      <4>4. /\ handler'[p].step = h.step /\ handler'[p].replica = h.replica
            /\ handler'[p].list = h.list /\ handler'[p].card = h.card
        BY <3>5, <4>1
      <4> QED BY <4>3, <4>4 DEF Doomed, PeerHeld
    <3> QED BY <3>4, <3>6, <3>7
  <2> QED BY <2>1, <2>2
<1>3. handler' \in [Handler -> HandlerState]
  BY <1>2 DEF PutBack
<1>4. TypeOK'
  BY <1>3 DEF IInv, TypeOK, lists
<1>5. \A p \in Handler : Holding(handler[p])'
  BY <1>2 DEF Holding
<1>6. AnswerInv'
  BY <1>2 DEF AnswerInv
<1>7. RevokedIsRefused'
  BY DEF IInv, RevokedIsRefused
<1> QED BY <1>4, <1>5, <1>6, <1>7 DEF IInv

LEMMA AssignStep ==
  ASSUME IInv, NEW q \in Handler, AssignList(q)
  PROVE  IInv'
<1> DEFINE h == handler[q]
           r == h.replica
           next == IF h.op = "answer" THEN [h EXCEPT !.step = "find"] ELSE Idle
<1>1. h \in HandlerState /\ Holding(h)
      /\ (h.op = "answer" /\ h.late /\ ~ h.behind => Doomed(h))
  BY DEF IInv, TypeOK, AnswerInv
<1>2. /\ h.step = "assign" /\ r \in Replica /\ h.list \in SUBSET Own /\ h.list # NoList
      /\ cache' = [cache EXCEPT ![r].own = h.list]
      /\ PutBack(q, r, OwnHeld(r), h.list, next)
      /\ UNCHANGED <<lists, requests, lapsed, overlaps>>
  BY <1>1, PresentationAssumption DEF AssignList, Holding, Card
<1>3. cache \in [Replica -> Lists]
  BY DEF IInv, TypeOK
<1>4. /\ cache' \in [Replica -> Lists]
      /\ cache'[r].own = h.list
      /\ \A s \in Replica : cache'[s].peer = cache[s].peer
      /\ \A s \in Replica \ {r} : cache'[s].own = cache[s].own
  BY <1>2, <1>3 DEF Lists
<1>5. next \in HandlerState /\ Holding(next)
  <2>1. CASE h.op = "answer"
    <3>1. next = [h EXCEPT !.step = "find"]
      BY <2>1
    <3>2. next \in HandlerState /\ next.step = "find" /\ next.replica = r /\ next.op = h.op
      BY <1>1, <3>1 DEF HandlerState
    <3> HIDE DEF next
    <3> QED BY <1>2, <2>1, <3>2 DEF Holding
  <2>2. CASE h.op # "answer"
    BY <2>2, IdleHolds
  <2> QED BY <2>1, <2>2
<1>p. \A s \in Replica : PeerHeld(s)' = PeerHeld(s)
  BY <1>2, <1>4 DEF PeerHeld, lists
<1>n. PICK n : n = next
  OBVIOUS
<1>6. ASSUME n.op = "answer", n.late, ~ n.behind
      PROVE  Doomed(n)'
  <2>1. h.op = "answer"
    BY <1>6, <1>n, IdleHolds
  <2>2. /\ n.step = "find" /\ n.card = h.card /\ n.replica = r
        /\ n.late = h.late /\ n.behind = h.behind
    BY <1>1, <1>n, <2>1 DEF HandlerState
  <2>3. Doomed(h)
    BY <1>1, <1>6, <2>1, <2>2
  <2>4. CASE h.card \in revoked \cap Own /\ h.card \in h.list
    <3>1. n.card \in revoked' \cap Own
      BY <1>2, <2>2, <2>4 DEF lists
    <3>2. cache'[n.replica].own # NoList /\ n.card \in cache'[n.replica].own
      BY <1>2, <1>4, <2>2, <2>4
    <3> QED BY <2>2, <3>1, <3>2 DEF Doomed
  <2>5. CASE h.card \in PeerHeld(r)
    <3>1. n.card \in PeerHeld(n.replica)'
      BY <1>2, <1>p, <2>2, <2>5
    <3> QED BY <2>2, <3>1 DEF Doomed
  <2> QED BY <1>2, <2>3, <2>4, <2>5 DEF Doomed
<1>7. ASSUME NEW g \in HandlerState, Doomed(g), g.op = "answer",
             ~ (OwnHeld(r) \ h.list # {} /\ g.op = "answer" /\ g.replica = r)
      PROVE  Doomed(g)'
  <2>1. CASE g.replica = r
    <3>1. OwnHeld(r) \subseteq h.list
      BY <1>7, <2>1
    <3>2. PeerHeld(g.replica)' = PeerHeld(g.replica)
      BY <1>2, <1>p, <2>1
    <3>3. g.card \in OwnHeld(r) => cache'[g.replica].own # NoList /\ g.card \in cache'[g.replica].own
      BY <1>2, <1>4, <2>1, <3>1
    <3> QED BY <1>2, <1>7, <2>1, <3>2, <3>3 DEF Doomed, OwnHeld, lists
  <2>2. CASE g.replica # r
    <3>1. cache'[g.replica] = cache[g.replica]
      BY <1>2, <1>3, <2>2
    <3>2. PeerHeld(g.replica)' = PeerHeld(g.replica)
      BY <1>2, <3>1 DEF PeerHeld, lists
    <3> QED BY <1>2, <1>7, <3>1, <3>2 DEF Doomed, lists
  <2> QED BY <2>1, <2>2
<1>8. \A g \in HandlerState :
        /\ Doomed(g)
        /\ ~ (OwnHeld(r) \ h.list # {} /\ g.op = "answer" /\ g.replica = r)
        /\ g.op = "answer"
        => Doomed(g)'
  BY <1>7
<1> HIDE DEF next
<1> QED BY <1>2, <1>4, <1>5, <1>n, <1>6, <1>8, PutBackMoves

LEMMA KeepStep ==
  ASSUME IInv, NEW q \in Handler, KeepPeer(q)
  PROVE  IInv'
<1> DEFINE h == handler[q]
<1>r. PICK r : r = h.replica
  OBVIOUS
<1>1. h \in HandlerState /\ Holding(h)
  BY DEF IInv, TypeOK
<1>2. /\ h.step = "keep" /\ r \in Replica /\ h.list \in SUBSET Peers /\ h.list # NoList
      /\ cache' = [cache EXCEPT ![r].peer = h.list]
      /\ PutBack(q, r, PeerHeld(r), h.list, Idle)
      /\ UNCHANGED <<lists, requests, lapsed, overlaps>>
  BY <1>1, <1>r, PresentationAssumption DEF KeepPeer, Holding, Card
<1>3. cache \in [Replica -> Lists]
  BY DEF IInv, TypeOK
<1>4. /\ cache' \in [Replica -> Lists]
      /\ cache'[r].peer = h.list
      /\ \A s \in Replica : cache'[s].own = cache[s].own
      /\ \A s \in Replica \ {r} : cache'[s].peer = cache[s].peer
  BY <1>2, <1>3 DEF Lists
<1>5. cache'[r].peer = h.list /\ h.list # NoList /\ revoked' = revoked
  BY <1>2, <1>4 DEF lists
<1>p. PeerHeld(r)' = h.list
  BY <1>5 DEF PeerHeld
<1>6. ASSUME NEW g \in HandlerState, Doomed(g), g.op = "answer",
             ~ (PeerHeld(r) \ h.list # {} /\ g.op = "answer" /\ g.replica = r)
      PROVE  Doomed(g)'
  <2>1. CASE g.replica = r
    <3>1. PeerHeld(r) \subseteq h.list
      BY <1>6, <2>1
    <3>2. PeerHeld(g.replica)' = h.list
      BY <1>p, <2>1
    <3>3. cache'[g.replica].own = cache[g.replica].own
      BY <1>2, <1>4, <2>1
    <3> QED BY <1>5, <1>6, <2>1, <3>1, <3>2, <3>3 DEF Doomed
  <2>2. CASE g.replica # r
    <3>1. cache'[g.replica] = cache[g.replica]
      BY <1>2, <1>3, <2>2
    <3>2. PeerHeld(g.replica)' = PeerHeld(g.replica)
      BY <1>5, <3>1 DEF PeerHeld
    <3> QED BY <1>5, <1>6, <3>1, <3>2 DEF Doomed
  <2> QED BY <2>1, <2>2
<1>7. \A g \in HandlerState :
        /\ Doomed(g)
        /\ ~ (PeerHeld(r) \ h.list # {} /\ g.op = "answer" /\ g.replica = r)
        /\ g.op = "answer"
        => Doomed(g)'
  BY <1>6
<1> QED BY <1>2, <1>4, <1>7, IdleHolds, PutBackMoves

\* A verdict accepts nothing that is doomed.
LEMMA VerdictHolds ==
  ASSUME NEW h \in HandlerState, Holding(h), h.step \in {"find", "check"}, NEW valid \in BOOLEAN
  PROVE  /\ Verdict(h, valid) \in HandlerState /\ Holding(Verdict(h, valid))
         /\ Verdict(h, valid).step = "complete"
         /\ Verdict(h, valid).late = (h.late /\ valid)
         /\ Verdict(h, valid).behind = (h.behind /\ valid)
         /\ Verdict(h, valid).op = h.op
<1>1. (h.late /\ valid) \in BOOLEAN /\ (h.paused /\ valid) \in BOOLEAN
      /\ (h.behind /\ valid) \in BOOLEAN
  BY DEF HandlerState
<1>b. PICK late, paused, behind \in BOOLEAN :
        late = (h.late /\ valid) /\ paused = (h.paused /\ valid) /\ behind = (h.behind /\ valid)
  BY <1>1
<1>v. Verdict(h, valid) = [h EXCEPT !.step = "complete", !.valid = valid, !.late = late,
                                    !.paused = paused, !.behind = behind]
  BY <1>b, Zenon DEF Verdict
<1>2. /\ Verdict(h, valid) \in HandlerState
      /\ Verdict(h, valid).step = "complete"
      /\ Verdict(h, valid).replica = h.replica
      /\ Verdict(h, valid).late = (h.late /\ valid)
      /\ Verdict(h, valid).behind = (h.behind /\ valid)
      /\ Verdict(h, valid).op = h.op
  BY <1>b, <1>v DEF HandlerState
<1> QED BY <1>2 DEF Holding

LEMMA FindStep ==
  ASSUME IInv, NEW q \in Handler, FindRequest(q)
  PROVE  IInv'
<1> DEFINE h == handler[q]
<1>1. h \in HandlerState /\ Holding(h)
      /\ (h.op = "answer" /\ h.late /\ ~ h.behind => Doomed(h))
  BY DEF IInv, TypeOK, AnswerInv
<1>2. h.step = "find" /\ UNCHANGED <<lists, cache, requests, lapsed, overlaps>>
  BY DEF FindRequest
<1>3. PICK next : /\ Goes(q, next)
                  /\ \/ next = Verdict(h, FALSE)
                     \/ next = Idle
                     \/ next = [h EXCEPT !.step = "check"]
  <2>1. \/ Goes(q, Verdict(h, FALSE))
        \/ Goes(q, Idle)
        \/ Goes(q, [h EXCEPT !.step = "check"])
    BY DEF FindRequest
  <2> QED BY <2>1
<1>4. /\ next \in HandlerState /\ Holding(next)
      /\ next.op = "answer" /\ next.late /\ ~ next.behind => Doomed(next)
  <2>1. CASE next = Verdict(h, FALSE)
    BY <1>1, <1>2, <2>1, VerdictHolds
  <2>2. CASE next = Idle
    BY <2>2, IdleHolds
  <2>3. CASE next = [h EXCEPT !.step = "check"]
    <3>1. /\ next \in HandlerState
          /\ next.step = "check" /\ next.card = h.card /\ next.replica = h.replica
          /\ next.op = h.op /\ next.late = h.late /\ next.behind = h.behind
      BY <1>1, <2>3 DEF HandlerState
    <3> QED BY <1>1, <1>2, <3>1 DEF Holding, Doomed
  <2> QED BY <1>3, <2>1, <2>2, <2>3
<1>5. revoked \subseteq Card /\ suspended \subseteq Own \ revoked /\ overlaps \in 0 .. MaxOverlaps
  BY DEF IInv, TypeOK
<1> QED BY <1>2, <1>3, <1>4, <1>5, QuietMoves DEF lists

\* The check refuses what is doomed.
LEMMA CheckStep ==
  ASSUME IInv, NEW q \in Handler, CheckPresentation(q)
  PROVE  IInv'
<1> DEFINE h == handler[q]
<1>1. h \in HandlerState /\ Holding(h)
      /\ (h.op = "answer" /\ h.late /\ ~ h.behind => Doomed(h))
  BY DEF IInv, TypeOK, AnswerInv
<1>2. h.step = "check" /\ h.replica \in Replica
      /\ UNCHANGED <<lists, cache, requests, lapsed, overlaps>>
  BY <1>1 DEF CheckPresentation, Holding
<1>3. PICK sound \in BOOLEAN : Goes(q, Verdict(h, sound /\ NotRevoked(h.replica, h.card)))
  BY DEF CheckPresentation
<1> DEFINE valid == sound /\ NotRevoked(h.replica, h.card)
<1>4. valid \in BOOLEAN
  BY DEF NotRevoked
<1>5. ASSUME Doomed(h)
      PROVE  ~ valid
  <2>1. cache[h.replica] \in Lists
    BY <1>2 DEF IInv, TypeOK
  <2>2. CASE h.card \in revoked \cap Own /\ h.card \in cache[h.replica].own
    BY <2>2 DEF NotRevoked, ListFor
  <2>3. CASE h.card \in PeerHeld(h.replica)
    <3>1. h.card \in Peers /\ h.card \notin Own
      BY <2>1, <2>3, PresentationAssumption DEF PeerHeld, Lists
    <3> QED BY <2>3, <3>1 DEF NotRevoked, ListFor, PeerHeld
  <2> QED BY <1>2, <1>5, <2>2, <2>3 DEF Doomed
<1> DEFINE next == Verdict(h, valid)
<1>6. /\ next \in HandlerState /\ Holding(next)
      /\ next.late = (h.late /\ valid) /\ next.behind = (h.behind /\ valid) /\ next.op = h.op
  <2> HIDE DEF valid
  <2> QED BY <1>1, <1>2, <1>4, VerdictHolds
<1>7. next.op = "answer" /\ next.late /\ ~ next.behind => Doomed(next)
  <2> HIDE DEF next, valid
  <2> QED BY <1>1, <1>5, <1>6
<1>8. Goes(q, next)
  BY <1>3
<1>9. revoked \subseteq Card /\ suspended \subseteq Own \ revoked /\ overlaps \in 0 .. MaxOverlaps
  BY DEF IInv, TypeOK
<1> HIDE DEF next
<1> QED BY <1>2, <1>6, <1>7, <1>8, <1>9, QuietMoves DEF lists

\* The row a verdict is kept in says of it what the handler holds.
LEMMA CompleteStep ==
  ASSUME IInv, NEW q \in Handler, CompleteRequest(q)
  PROVE  IInv'
<1> DEFINE h == handler[q]
           v == h.request
           row == [status |-> IF h.valid THEN "fulfilled" ELSE "failed", card |-> h.card,
                   late |-> h.late, paused |-> h.paused, behind |-> h.behind]
<1>1. h \in HandlerState
      /\ (h.op = "answer" /\ h.late /\ ~ h.behind => Doomed(h))
  BY DEF IInv, TypeOK, AnswerInv
<1>2. /\ h.step = "complete" /\ Goes(q, Idle)
      /\ UNCHANGED <<lists, cache, lapsed, overlaps>>
      /\ requests' = requests \/ requests' = [requests EXCEPT ![v] = row]
  BY DEF CompleteRequest
<1>3. row \in RequestRow
  BY <1>1 DEF HandlerState, RequestRow
<1>4. row.late => row.behind
  BY <1>1, <1>2 DEF IInv, Holding, Doomed
<1>5. /\ handler' \in [Handler -> HandlerState]
      /\ \A p \in Handler : Holding(handler'[p])
      /\ AnswerInv'
  BY <1>2, IdleHolds, HandlerMoves DEF lists
<1>6. RevokedIsRefused'
  <2> HIDE DEF row
  <2> QED BY <1>2, <1>4 DEF IInv, TypeOK, RevokedIsRefused
<1>7. TypeOK'
  <2> HIDE DEF row
  <2> QED BY <1>2, <1>3, <1>5 DEF IInv, TypeOK, lists
<1> QED BY <1>5, <1>6, <1>7 DEF IInv, Holding

LEMMA RequestStep ==
  ASSUME IInv, NEW v \in VpRequest, CreateRequest(v) \/ ExpireRequest(v)
  PROVE  IInv'
<1>1. UNCHANGED <<lists, cache, handler, overlaps>>
  BY DEF CreateRequest, ExpireRequest
<1>2. (\A p \in Handler : Holding(handler[p])') /\ AnswerInv'
  BY <1>1 DEF IInv, Holding, AnswerInv, Doomed, PeerHeld, lists
<1>3. CASE CreateRequest(v)
  <2> DEFINE row == [status |-> "pending", card |-> NoCard, late |-> FALSE,
                     paused |-> FALSE, behind |-> FALSE]
  <2>1. row \in RequestRow /\ ~ row.late
    BY DEF RequestRow
  <2>2. requests' = [requests EXCEPT ![v] = row] /\ lapsed' = lapsed
    BY <1>3 DEF CreateRequest
  <2> HIDE DEF row
  <2>3. TypeOK' /\ RevokedIsRefused'
    BY <1>1, <2>1, <2>2 DEF IInv, TypeOK, RevokedIsRefused, lists
  <2> QED BY <1>2, <2>3 DEF IInv
<1>4. CASE ExpireRequest(v)
  <2>1. requests' = requests /\ lapsed' = lapsed \cup {v}
    BY <1>4 DEF ExpireRequest
  <2>2. TypeOK' /\ RevokedIsRefused'
    BY <1>1, <2>1 DEF IInv, TypeOK, RevokedIsRefused, lists
  <2> QED BY <1>2, <2>2 DEF IInv
<1> QED BY <1>3, <1>4

LEMMA PeerRevokesStep ==
  ASSUME IInv, NEW c \in Peers, PeerRevokes(c)
  PROVE  IInv'
<1>1. /\ revoked' = revoked \cup {c}
      /\ UNCHANGED <<suspended, cache, requests, lapsed, handler, overlaps>>
  BY DEF PeerRevokes
<1>2. TypeOK'
  BY <1>1, PresentationAssumption DEF IInv, TypeOK, Card
<1>3. AnswerInv'
  <2>1. ASSUME NEW p \in Handler, handler'[p].op = "answer", handler'[p].late,
               ~ handler'[p].behind
        PROVE  Doomed(handler[p])'
    <3>1. PICK h : h = handler[p]
      OBVIOUS
    <3>2. Doomed(h)
      BY <1>1, <2>1, <3>1 DEF IInv, AnswerInv
    <3>3. Doomed(h)'
      BY <1>1, <3>2, DoomedStays
    <3>4. handler'[p] = h
      BY <1>1, <3>1
    <3> QED BY <3>3, <3>4 DEF Doomed, PeerHeld
  <2> QED BY <2>1 DEF AnswerInv
<1>4. RevokedIsRefused' /\ \A p \in Handler : Holding(handler[p])'
  BY <1>1 DEF IInv, RevokedIsRefused, Holding
<1> QED BY <1>2, <1>3, <1>4 DEF IInv

LEMMA StopStep ==
  ASSUME IInv, NEW q \in Handler, Stop(q)
  PROVE  IInv'
<1>1. Goes(q, Idle) /\ UNCHANGED <<lists, cache, requests, lapsed, overlaps>>
  BY DEF Stop
<1>2. revoked \subseteq Card /\ suspended \subseteq Own \ revoked /\ overlaps \in 0 .. MaxOverlaps
  BY DEF IInv, TypeOK
<1> QED BY <1>1, <1>2, IdleHolds, QuietMoves DEF lists

\* A replica that restarts takes its answers with its lists.
LEMMA RestartStep ==
  ASSUME IInv, NEW r \in Replica, Restart(r)
  PROVE  IInv'
<1>1. /\ cache' = [cache EXCEPT ![r] = Empty]
      /\ handler' = [q \in Handler |-> IF handler[q].replica = r THEN Idle ELSE handler[q]]
      /\ UNCHANGED <<lists, requests, lapsed>>
  BY DEF Restart
<1>2. overlaps' \in 0 .. MaxOverlaps
  BY PresentationAssumption DEF Restart, IInv, TypeOK
<1>3. TypeOK'
  BY <1>1, <1>2, IdleHolds DEF IInv, TypeOK, Empty, Lists, lists
<1>4. \A p \in Handler : Holding(handler[p])'
  BY <1>1, IdleHolds DEF IInv, Holding
<1>5. ASSUME NEW p \in Handler, handler'[p].op = "answer", handler'[p].late,
             ~ handler'[p].behind
      PROVE  Doomed(handler[p])'
  <2>1. handler'[p] = handler[p] /\ handler[p].replica # r
    BY <1>1, <1>5, IdleHolds
  <2>2. Doomed(handler[p])
    BY <1>5, <2>1 DEF IInv, AnswerInv
  <2>3. cache'[handler[p].replica] = cache[handler[p].replica]
    BY <1>1, <2>1 DEF IInv, TypeOK
  <2> QED BY <1>1, <2>1, <2>2, <2>3 DEF Doomed, PeerHeld, lists
<1>6. RevokedIsRefused'
  BY <1>1 DEF IInv, RevokedIsRefused
<1> QED BY <1>3, <1>4, <1>5, <1>6 DEF IInv, AnswerInv

----------------------------------------------------------------------------
(* The invariant, and what follows.                                         *)

LEMMA InvInit == Init => IInv
<1> SUFFICES ASSUME Init PROVE IInv
  OBVIOUS
<1>1. TypeOK
  BY IdleHolds, PresentationAssumption DEF Init, TypeOK, Empty, Lists
<1>2. \A p \in Handler : handler[p] = Idle
  BY DEF Init
<1>3. (\A p \in Handler : Holding(handler[p])) /\ AnswerInv
  BY <1>2, IdleHolds DEF AnswerInv
<1>4. RevokedIsRefused
  BY DEF Init, RevokedIsRefused
<1> QED BY <1>1, <1>3, <1>4 DEF IInv

LEMMA InvNext == IInv /\ [Next]_vars => IInv'
<1> SUFFICES ASSUME IInv, [Next]_vars PROVE IInv'
  OBVIOUS
<1>1. ASSUME NEW q \in Handler, NEW r \in Replica, Request(q, r)
      PROVE  IInv'
  BY <1>1, DecisionStep, VerifyStep, PostStep DEF Request
<1>2. ASSUME NEW q \in Handler, Step(q)
      PROVE  IInv'
  BY <1>2, LoadStep, AssignStep, KeepStep, FindStep, CheckStep, CompleteStep DEF Step
<1>3. CASE UNCHANGED vars
  BY <1>3 DEF vars, lists, IInv, TypeOK, Holding, AnswerInv, Doomed, PeerHeld, RevokedIsRefused
<1> QED
  BY <1>1, <1>2, <1>3, StopStep, RequestStep, PeerRevokesStep, RestartStep DEF Next

LEMMA Invariance == Spec => []IInv
<1> QED BY InvInit, InvNext, PTL DEF Spec

\* The tables, the lists in memory and the handlers are as declared: a list of ours
\* names our credentials, a peer's the peer's (syncStatusList, syncFederatedStatusLists).
THEOREM TypeCorrect == Spec => []TypeOK
<1>1. IInv => TypeOK
  BY DEF IInv
<1> QED BY <1>1, Invariance, PTL

\* A presentation that arrives after its credential was known to be revoked is
\* refused on every replica (VpVerifier.verify), but for a list set back meanwhile.
THEOREM RevokedCredentialRefused == Spec => []RevokedIsRefused
<1>1. IInv => RevokedIsRefused
  BY DEF IInv
<1> QED BY <1>1, Invariance, PTL

\* A verdict is given once (completeRequest).
THEOREM VerdictGivenOnce == Spec => VerdictStands
<1> DEFINE Stands == \A v \in VpRequest :
             requests[v] # NoRow /\ requests[v].status # "pending" => requests'[v] = requests[v]
<1>1. ASSUME IInv, [Next]_vars
      PROVE  Stands
  <2>1. requests \in [VpRequest -> RequestRow \cup {NoRow}]
    BY <1>1 DEF IInv, TypeOK
  <2>2. ASSUME NEW v \in VpRequest, CreateRequest(v)
        PROVE  Stands
    BY <2>1, <2>2 DEF CreateRequest
  <2>3. ASSUME NEW q \in Handler, CompleteRequest(q)
        PROVE  Stands
    BY <2>1, <2>3 DEF CompleteRequest, StillPending
  <2>4. CASE UNCHANGED requests
    BY <2>4
  <2>5. ASSUME NEW q \in Handler, NEW r \in Replica, Request(q, r)
        PROVE  UNCHANGED requests
    BY <2>5 DEF Request, Revoke, Suspend, Reinstate, Verify, StartSync, PostAnswer
  <2>6. ASSUME NEW q \in Handler, Step(q), ~ CompleteRequest(q)
        PROVE  UNCHANGED requests
    BY <2>6 DEF Step, LoadList, AssignList, FetchPeer, KeepPeer, FindRequest, CheckPresentation
  <2> QED
    BY <1>1, <2>2, <2>3, <2>4, <2>5, <2>6
    DEF Next, vars, Stop, ExpireRequest, PeerRevokes, Restart
<1> QED BY <1>1, Invariance, PTL DEF Spec, VerdictStands

=============================================================================
