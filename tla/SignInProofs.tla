---------------------------- MODULE SignInProofs ----------------------------
(***************************************************************************)
(* Theorems about how people sign in: operators and their keys (Operators), *)
(* for any number of handlers, accounts and keys and any bound on wrong     *)
(* answers, and the one-time codes of residents (OneTimeCodes), for any     *)
(* number of requests and any limits.                                       *)
(***************************************************************************)
EXTENDS Operators, OneTimeCodes, FiniteSetTheorems, WellFoundedInduction, TLAPS

\* What a handler holds at each step.
Holding(h) ==
  /\ h.step # "idle" => h.account \in Account
  /\ h.step = "check" => h.op = "login"
  /\ h.op = "login" => h.row # NoRow
  /\ h.step = "owner" => h.op \in {"issueKey", "rotateKey", "authenticateKey"}
  /\ h.step = "mint" => h.op \in {"issueKey", "rotateKey"}
  /\ h.step = "update" => h.op \in {"setDisabled", "rotateKey", "revokeKey", "authenticateKey"}
  /\ h.op = "setDisabled" => h.row # NoRow
  /\ h.op \in {"rotateKey", "revokeKey", "authenticateKey"} => h.key \in Key /\ h.held # NoRow
  /\ h.row # NoRow => h.account \in Account
  /\ h.held # NoRow => h.key \in Key

\* Until somebody writes the row it was read from, a copy is that row; a key's
\* expiry is never later than in any copy of it, unless an old copy was written.
Faithful(h) ==
  /\ h.row # NoRow => /\ Exists(accounts, h.account)
                      /\ ~ h.behind => accounts[h.account] = h.row
  /\ h.held # NoRow => /\ Exists(keys, h.key)
                       /\ ~ h.behind => keys[h.key] = h.held
                       /\ h.key \notin lost => keys[h.key].expires <= h.held.expires

CopyInv == \A p \in Handler : Faithful(handler[p])

\* What was decided of an account or a key is what its row says.
DecisionInv ==
  /\ \A a \in Account \ lost : a \in barred => Exists(accounts, a) /\ accounts[a].disabled
  /\ \A k \in Key \ lost :
       /\ k \in barred => Exists(keys, k) /\ keys[k].revoked
       /\ Exists(keys, k) => keys[k].expires <= retires[k]
  /\ \A k \in Key : ~ Exists(keys, k) => retires[k] = Forever

\* A request that should be refused is under way only if its row was written back
\* from an old copy, or it has yet to look at the owner of its key.
RightlyLate(h) ==
  /\ h.late \cap Account \subseteq barred
  /\ h.late \cap Key \subseteq lost \/ h.op # "authenticateKey"
  /\ h.op = "login" \/ (h.op = "authenticateKey" /\ h.step = "update") => h.late \subseteq lost
  /\ h.late \cap Account \subseteq {h.account}

LateInv == \A p \in Handler : RightlyLate(handler[p])

\* While an account is open, its counter is the wrong answers it was given; a
\* locked one has begun again, and nobody is at its door with a fresh copy.
AtDoor(h) == h.step = "check" => h.row.locked <= clock

CountInv ==
  /\ \A a \in Account : ~ Exists(accounts, a) => wrong[a] = 0
  /\ \A a \in Account \ lost : Exists(accounts, a) =>
       IF accounts[a].locked <= clock THEN wrong[a] = accounts[a].failed
       ELSE accounts[a].failed = 0 /\ wrong[a] <= MaxFailedLogins
  /\ \A p \in Handler : AtDoor(handler[p])

\* The tables and what is held of them.
StoreInv ==
  /\ accounts \in [Account -> OperatorRecord \cup {NoRow}]
  /\ keys \in [Key -> OperatorKeyRecord \cup {NoRow}]
  /\ handler \in [Handler -> HandlerState]
  /\ lost \subseteq Account \cup Key
  /\ \A p \in Handler : Holding(handler[p])
  /\ CopyInv

TypeInv == TypeOK /\ StoreInv

IInv ==
  /\ TypeInv
  /\ DecisionInv
  /\ LateInv
  /\ CountInv
  /\ KillSwitchHolds

----------------------------------------------------------------------------
(* Time.                                                                    *)

Longest == CHOOSE n \in Life \cup Overlap : \A m \in Life \cup Overlap : m <= n

\* Nothing that is asked for lasts longer than forever.
LEMMA ForeverIsLast ==
  /\ Forever \in Nat
  /\ MaxClock \in Nat /\ Lockout \in Nat
  /\ \A t \in 0 .. MaxClock, span \in Life \cup Overlap :
       t + span \in 0 .. Forever /\ t + span < Forever
<1>1. Longest \in Life \cup Overlap /\ \A m \in Life \cup Overlap : m <= Longest
  BY OperatorAssumption DEF Longest
<1>2. Longest \in Nat /\ MaxClock \in Nat /\ Lockout \in Nat /\ Life \cup Overlap \subseteq Nat
  BY <1>1, OperatorAssumption
<1>3. Forever = 1 + MaxClock + Longest
  BY DEF Forever, Longest
<1> QED BY <1>1, <1>2, <1>3

LEMMA IdleHolds ==
  /\ Idle \in HandlerState /\ Holding(Idle)
  /\ Idle.row = NoRow /\ Idle.held = NoRow /\ Idle.late = {} /\ ~ Idle.behind
  /\ Idle.op = "idle" /\ Idle.step = "idle"
<1>1. (CHOOSE n \in Life : TRUE) \in Life
  BY OperatorAssumption
<1> QED BY <1>1 DEF Idle, HandlerState, Holding
----------------------------------------------------------------------------
(* The tables, and what handlers hold of them.                              *)

\* Rows are made, and none is written over.
Grows ==
  /\ accounts' \in [Account -> OperatorRecord \cup {NoRow}]
  /\ keys' \in [Key -> OperatorKeyRecord \cup {NoRow}]
  /\ lost' = lost
  /\ \A a \in Account : Exists(accounts, a) => accounts'[a] = accounts[a]
  /\ \A k \in Key : Exists(keys, k) => keys'[k] = keys[k]

LEMMA FaithfulStays ==
  ASSUME Grows, NEW h, Holding(h), Faithful(h)
  PROVE  Faithful(h)'
<1>1. h.row # NoRow => /\ h.account \in Account /\ Exists(accounts, h.account)
                       /\ accounts'[h.account] = accounts[h.account]
  BY DEF Grows, Faithful, Holding
<1>2. h.held # NoRow => /\ h.key \in Key /\ Exists(keys, h.key)
                        /\ keys'[h.key] = keys[h.key]
  BY DEF Grows, Faithful, Holding
<1>3. lost' = lost
  BY DEF Grows
<1> QED BY <1>1, <1>2, <1>3 DEF Faithful, Exists

\* One handler goes on.
LEMMA HandlerMoves ==
  ASSUME StoreInv, Grows, NEW q \in Handler, NEW next \in HandlerState, Goes(q, next),
         Holding(next), Faithful(next)
  PROVE  StoreInv'
<1>1. handler' = [handler EXCEPT ![q] = next] /\ handler \in [Handler -> HandlerState]
  BY DEF Goes, StoreInv
<1>2. handler' \in [Handler -> HandlerState]
  BY <1>1
<1>3. \A p \in Handler : Holding(handler'[p])
  BY <1>1 DEF StoreInv
<1>4. ASSUME NEW p \in Handler PROVE Faithful(handler[p])'
  <2>1. PICK h : h = handler'[p]
    OBVIOUS
  <2>2. Faithful(h) /\ Holding(h)
    <3>1. CASE p = q
      BY <1>1, <2>1, <3>1
    <3>2. CASE p # q
      BY <1>1, <2>1, <3>2 DEF StoreInv, CopyInv
    <3> QED BY <3>1, <3>2
  <2>3. Faithful(h)'
    BY <2>2, FaithfulStays
  <2> QED BY <2>1, <2>3 DEF Faithful
<1> QED BY <1>2, <1>3, <1>4 DEF StoreInv, Grows, CopyInv, Holding

\* A handler that holds nothing, or nothing new, is faithful.
LEMMA StoreStays == StoreInv /\ UNCHANGED <<accounts, keys, lost>> => Grows
BY DEF StoreInv, Grows

LEMMA EndsStore ==
  ASSUME StoreInv, Grows, NEW q \in Handler, Ends(q)
  PROVE  StoreInv'
<1>1. Faithful(Idle)
  BY IdleHolds DEF Faithful
<1> QED BY <1>1, IdleHolds, HandlerMoves DEF Ends

\* What becomes of the others when q writes a row: they fall behind if they hold it.
Overtaken(g, h, caught, allowed) ==
  /\ h.op = g.op /\ h.step = g.step /\ h.account = g.account /\ h.key = g.key
  /\ h.row = g.row /\ h.held = g.held /\ h.span = g.span /\ h.disable = g.disable
  /\ h.behind = (g.behind \/ caught)
  /\ h.late = g.late \ allowed

Overtake(g, caught, allowed) == [g EXCEPT !.behind = @ \/ caught, !.late = @ \ allowed]

LEMMA OvertakenHolds ==
  ASSUME NEW g \in HandlerState, NEW caught \in BOOLEAN, NEW allowed
  PROVE  /\ Overtake(g, caught, allowed) \in HandlerState
         /\ Overtaken(g, Overtake(g, caught, allowed), caught, allowed)
         /\ Holding(g) => Holding(Overtake(g, caught, allowed))
<1>h. PICK h : h = Overtake(g, caught, allowed)
  OBVIOUS
<1>1. PICK b \in BOOLEAN : b = (g.behind \/ caught)
  BY DEF HandlerState
<1>2. g.late \ allowed \in SUBSET (Account \cup Key)
  BY DEF HandlerState
<1>3. PICK l \in SUBSET (Account \cup Key) : l = g.late \ allowed
  BY <1>2
<1>4. h = [g EXCEPT !.behind = b, !.late = l]
  BY <1>h, <1>1, <1>3, Zenon DEF Overtake
<1>5. h \in HandlerState
  BY <1>4 DEF HandlerState
<1>6. /\ h.op = g.op /\ h.step = g.step /\ h.account = g.account /\ h.key = g.key
      /\ h.row = g.row /\ h.held = g.held /\ h.span = g.span /\ h.disable = g.disable
      /\ h.behind = b /\ h.late = l
  BY <1>4 DEF HandlerState
<1>7. Overtaken(g, h, caught, allowed)
  BY <1>1, <1>3, <1>6 DEF Overtaken
<1>8. Holding(g) => Holding(h)
  BY <1>6 DEF Holding
<1> QED BY <1>h, <1>5, <1>7, <1>8

\* Who is no longer held to be late when q writes an account.
Allowed(q) ==
  IF handler[q].op = "setDisabled" /\ ~ handler[q].disable THEN {handler[q].account} ELSE {}

LEMMA WriteAccountStore ==
  ASSUME StoreInv, NEW q \in Handler, NEW row \in OperatorRecord,
         handler[q].row # NoRow, WriteAccount(q, row), UNCHANGED keys
  PROVE  LET a == handler[q].account IN
         /\ StoreInv'
         /\ a \in Account
         /\ accounts' = [accounts EXCEPT ![a] = row]
         /\ lost \subseteq lost' /\ lost' \subseteq lost \cup {a}
         /\ handler[q].behind => a \in lost'
         /\ handler'[q] = Idle
         /\ \A p \in Handler \ {q} :
              Overtaken(handler[p], handler'[p],
                        handler[p].account = a /\ handler[p].row # NoRow, Allowed(q))
<1>a. PICK a : a = handler[q].account
  OBVIOUS
<1>1. /\ handler \in [Handler -> HandlerState] /\ a \in Account
      /\ accounts \in [Account -> OperatorRecord \cup {NoRow}]
  BY <1>a DEF StoreInv, Holding
<1>2. /\ accounts' = [accounts EXCEPT ![a] = row]
      /\ lost' = IF handler[q].behind THEN lost \cup {a} ELSE lost
  BY <1>a DEF WriteAccount
<1>3. handler' = [p \in Handler |->
                    IF p = q THEN Idle
                    ELSE [handler[p] EXCEPT !.behind = @ \/ (handler[p].account = a
                                                             /\ handler[p].row # NoRow),
                                            !.late = @ \ Allowed(q)]]
  BY <1>a DEF WriteAccount, Overtakes, Allowed
<1>4. handler'[q] = Idle
  BY <1>3
<1>5. ASSUME NEW p \in Handler \ {q}
      PROVE  /\ handler'[p] \in HandlerState
             /\ Overtaken(handler[p], handler'[p],
                          handler[p].account = a /\ handler[p].row # NoRow, Allowed(q))
             /\ Holding(handler'[p])
  <2>1. PICK caught \in BOOLEAN : caught = (handler[p].account = a /\ handler[p].row # NoRow)
    OBVIOUS
  <2>2. handler'[p] = Overtake(handler[p], caught, Allowed(q))
    <3>1. handler'[p] = [handler[p] EXCEPT !.behind = @ \/ (handler[p].account = a
                                                             /\ handler[p].row # NoRow),
                                            !.late = @ \ Allowed(q)]
      BY <1>3
    <3> QED BY <2>1, <3>1, Zenon DEF Overtake
  <2>3. handler[p] \in HandlerState /\ Holding(handler[p])
    BY <1>1 DEF StoreInv
  <2>4. /\ handler'[p] \in HandlerState /\ Holding(handler'[p])
        /\ Overtaken(handler[p], handler'[p], caught, Allowed(q))
    BY <2>2, <2>3, OvertakenHolds
  <2> QED BY <2>1, <2>4 DEF Overtaken
<1>6. handler' \in [Handler -> HandlerState]
  BY <1>3, <1>4, <1>5, IdleHolds
<1>7. \A p \in Handler : Holding(handler'[p])
  BY <1>4, <1>5, IdleHolds
<1>8. lost \subseteq lost' /\ lost' \subseteq lost \cup {a}
  BY <1>2
<1>9. ASSUME NEW p \in Handler PROVE Faithful(handler[p])'
  <2>1. CASE p = q
    BY <1>4, <2>1, IdleHolds DEF Faithful
  <2>2. CASE p # q
    <3>1. PICK g : g = handler[p]
      OBVIOUS
    <3>2. PICK h : h = handler'[p]
      OBVIOUS
    <3>3. Overtaken(g, h, g.account = a /\ g.row # NoRow, Allowed(q))
      BY <1>5, <2>2, <3>1, <3>2
    <3>4. Faithful(g) /\ Holding(g)
      BY <3>1 DEF StoreInv, CopyInv
    <3>5. h.row # NoRow => /\ accounts'[h.account] # NoRow
                           /\ ~ h.behind => accounts'[h.account] = h.row
      <4>1. CASE g.account = a
        <5>1. accounts'[a] # NoRow
          BY <1>1, <1>2, NoRowAssumption
        <5> QED BY <3>3, <4>1, <5>1 DEF Overtaken
      <4>2. CASE g.account # a
        <5>1. g.row # NoRow => accounts'[g.account] = accounts[g.account]
          BY <1>1, <1>2, <3>4, <4>2 DEF Holding
        <5> QED BY <3>3, <3>4, <4>2, <5>1 DEF Overtaken, Faithful, Exists
      <4> QED BY <4>1, <4>2
    <3>6. h.held # NoRow => /\ keys'[h.key] # NoRow
                            /\ ~ h.behind => keys'[h.key] = h.held
                            /\ h.key \notin lost' => keys'[h.key].expires <= h.held.expires
      BY <1>8, <3>3, <3>4 DEF Overtaken, Faithful, Exists
    <3> QED BY <3>2, <3>5, <3>6 DEF Faithful, Exists
  <2> QED BY <2>1, <2>2
<1>10. StoreInv'
  <2>1. accounts' \in [Account -> OperatorRecord \cup {NoRow}]
    BY <1>1, <1>2
  <2>2. lost' \subseteq Account \cup Key
    BY <1>1, <1>8 DEF StoreInv
  <2> QED BY <1>6, <1>7, <1>9, <2>1, <2>2 DEF StoreInv, CopyInv, Holding
<1> QED BY <1>a, <1>1, <1>2, <1>4, <1>5, <1>8, <1>10

\* A key is written back as it was read, or revoked, or to expire sooner.
LEMMA WriteKeyStore ==
  ASSUME StoreInv, NEW q \in Handler, NEW row \in OperatorKeyRecord,
         handler[q].held # NoRow, row.expires <= handler[q].held.expires,
         WriteKey(q, row), UNCHANGED accounts
  PROVE  LET k == handler[q].key IN
         /\ StoreInv'
         /\ k \in Key
         /\ keys' = [keys EXCEPT ![k] = row]
         /\ lost \subseteq lost' /\ lost' \subseteq lost \cup {k}
         /\ handler[q].behind => k \in lost'
         /\ handler'[q] = Idle
         /\ \A p \in Handler \ {q} :
              Overtaken(handler[p], handler'[p],
                        handler[p].key = k /\ handler[p].held # NoRow, {})
<1>k. PICK k : k = handler[q].key
  OBVIOUS
<1>1. /\ handler \in [Handler -> HandlerState] /\ k \in Key
      /\ keys \in [Key -> OperatorKeyRecord \cup {NoRow}]
  BY <1>k DEF StoreInv, Holding
<1>2. /\ keys' = [keys EXCEPT ![k] = row]
      /\ lost' = IF handler[q].behind THEN lost \cup {k} ELSE lost
  BY <1>k DEF WriteKey
<1>3. handler' = [p \in Handler |->
                    IF p = q THEN Idle
                    ELSE [handler[p] EXCEPT !.behind = @ \/ (handler[p].key = k
                                                             /\ handler[p].held # NoRow),
                                            !.late = @ \ {}]]
  BY <1>k DEF WriteKey, Overtakes
<1>4. handler'[q] = Idle
  BY <1>3
<1>5. ASSUME NEW p \in Handler \ {q}
      PROVE  /\ handler'[p] \in HandlerState
             /\ Overtaken(handler[p], handler'[p],
                          handler[p].key = k /\ handler[p].held # NoRow, {})
             /\ Holding(handler'[p])
  <2>1. PICK caught \in BOOLEAN : caught = (handler[p].key = k /\ handler[p].held # NoRow)
    OBVIOUS
  <2>2. handler'[p] = Overtake(handler[p], caught, {})
    <3>1. handler'[p] = [handler[p] EXCEPT !.behind = @ \/ (handler[p].key = k
                                                             /\ handler[p].held # NoRow),
                                            !.late = @ \ {}]
      BY <1>3
    <3> QED BY <2>1, <3>1, Zenon DEF Overtake
  <2>3. handler[p] \in HandlerState /\ Holding(handler[p])
    BY <1>1 DEF StoreInv
  <2>4. /\ handler'[p] \in HandlerState /\ Holding(handler'[p])
        /\ Overtaken(handler[p], handler'[p], caught, {})
    BY <2>2, <2>3, OvertakenHolds
  <2> QED BY <2>1, <2>4 DEF Overtaken
<1>6. handler' \in [Handler -> HandlerState]
  BY <1>3, <1>4, <1>5, IdleHolds
<1>7. \A p \in Handler : Holding(handler'[p])
  BY <1>4, <1>5, IdleHolds
<1>8. lost \subseteq lost' /\ lost' \subseteq lost \cup {k}
  BY <1>2
<1>q. k \notin lost' => row.expires <= keys[k].expires
  BY <1>k, <1>2 DEF StoreInv, CopyInv, Faithful
<1>9. ASSUME NEW p \in Handler PROVE Faithful(handler[p])'
  <2>1. CASE p = q
    BY <1>4, <2>1, IdleHolds DEF Faithful
  <2>2. CASE p # q
    <3>1. PICK g : g = handler[p]
      OBVIOUS
    <3>2. PICK h : h = handler'[p]
      OBVIOUS
    <3>3. Overtaken(g, h, g.key = k /\ g.held # NoRow, {})
      BY <1>5, <2>2, <3>1, <3>2
    <3>4. Faithful(g) /\ Holding(g) /\ g \in HandlerState
      BY <1>1, <3>1 DEF StoreInv, CopyInv
    <3>5. h.row # NoRow => /\ accounts'[h.account] # NoRow
                           /\ ~ h.behind => accounts'[h.account] = h.row
      BY <3>3, <3>4 DEF Overtaken, Faithful, Exists
    <3>6. h.held # NoRow => /\ keys'[h.key] # NoRow
                            /\ ~ h.behind => keys'[h.key] = h.held
                            /\ h.key \notin lost' => keys'[h.key].expires <= h.held.expires
      <4>1. CASE g.key = k
        <5>1. keys'[k] = row /\ row # NoRow
          BY <1>1, <1>2, NoRowAssumption
        <5>2. ASSUME g.held # NoRow, k \notin lost'
              PROVE  row.expires <= g.held.expires
          <6>1. keys[k].expires <= g.held.expires /\ row.expires <= keys[k].expires
            BY <1>8, <1>q, <3>4, <4>1, <5>2 DEF Faithful
          <6>2. keys[k] \in OperatorKeyRecord /\ g.held \in OperatorKeyRecord
            BY <1>1, <3>4, <4>1, <5>2 DEF Faithful, Exists, HandlerState
          <6>3. keys[k].expires \in Nat /\ g.held.expires \in Nat /\ row.expires \in Nat
            BY <6>2, ForeverIsLast DEF OperatorKeyRecord
          <6> QED BY <6>1, <6>3
        <5> QED BY <3>3, <4>1, <5>1, <5>2 DEF Overtaken
      <4>2. CASE g.key # k
        <5>1. g.held # NoRow => keys'[g.key] = keys[g.key]
          BY <1>1, <1>2, <3>4, <4>2 DEF Holding
        <5> QED BY <1>8, <3>3, <3>4, <4>2, <5>1 DEF Overtaken, Faithful, Exists
      <4> QED BY <4>1, <4>2
    <3> QED BY <3>2, <3>5, <3>6 DEF Faithful, Exists
  <2> QED BY <2>1, <2>2
<1>10. StoreInv'
  <2>1. keys' \in [Key -> OperatorKeyRecord \cup {NoRow}]
    BY <1>1, <1>2
  <2>2. lost' \subseteq Account \cup Key
    BY <1>1, <1>8 DEF StoreInv
  <2> QED BY <1>6, <1>7, <1>9, <2>1, <2>2 DEF StoreInv, CopyInv, Holding
<1> QED BY <1>k, <1>1, <1>2, <1>4, <1>5, <1>8, <1>10

----------------------------------------------------------------------------
(* What the invariant asks of one handler, and of what a step leaves alone.  *)

\* All of TypeOK that the store does not say.
Bounds ==
  /\ clock \in 0 .. MaxClock
  /\ wrong \in [Account -> Nat]
  /\ barred \subseteq Account \cup Key
  /\ retires \in [Key -> 0 .. Forever]
  /\ overlaps \in 0 .. MaxOverlaps
  /\ letIn \subseteq Account \cup Key

LEMMA TypeFromBounds ==
  /\ TypeInv <=> StoreInv /\ Bounds
  /\ TypeInv' <=> StoreInv' /\ Bounds'
BY DEF TypeInv, TypeOK, StoreInv, Bounds

LEMMA IdleIsNotLate == RightlyLate(Idle) /\ AtDoor(Idle) /\ RightlyLate(Idle)' /\ AtDoor(Idle)'
BY IdleHolds DEF RightlyLate, AtDoor

\* A handler that goes on as it was, with less against it, is still rightly late.
LEMMA LateStays ==
  ASSUME NEW g, NEW h, RightlyLate(g), h.op = g.op, h.step = g.step, h.account = g.account,
         h.late \subseteq g.late, lost \subseteq lost', h.late \cap barred \subseteq barred'
  PROVE  RightlyLate(h)'
BY DEF RightlyLate

LEMMA DoorStays ==
  ASSUME NEW g, NEW h, AtDoor(g), h.step = g.step, h.row = g.row, clock' = clock
  PROVE  AtDoor(h)'
BY DEF AtDoor

\* One handler goes on, and the others are what they were.
LEMMA HandlersMove ==
  ASSUME LateInv, \A p \in Handler : AtDoor(handler[p]),
         handler \in [Handler -> HandlerState],
         NEW q \in Handler, NEW next, Goes(q, next),
         RightlyLate(next)', AtDoor(next)',
         lost' = lost, barred \subseteq barred', clock' = clock
  PROVE  LateInv' /\ (\A p \in Handler : AtDoor(handler[p]))'
<1>1. ASSUME NEW p \in Handler PROVE RightlyLate(handler[p])' /\ AtDoor(handler[p])'
  <2>1. PICK g : g = handler[p]
    OBVIOUS
  <2>2. CASE p = q
    <3>1. handler'[p] = next
      BY <2>2 DEF Goes
    <3> QED BY <3>1 DEF RightlyLate, AtDoor
  <2>3. CASE p # q
    <3>1. handler'[p] = g
      BY <2>1, <2>3 DEF Goes
    <3>2. RightlyLate(g) /\ AtDoor(g)
      BY <2>1 DEF LateInv
    <3>3. RightlyLate(g)' /\ AtDoor(g)'
      BY <3>2, LateStays, DoorStays
    <3> QED BY <3>1, <3>3 DEF RightlyLate, AtDoor
  <2> QED BY <2>2, <2>3
<1> QED BY <1>1 DEF LateInv

\* A row is written: q is done, and the others go on as they were, maybe behind.
LEMMA OthersOvertaken ==
  ASSUME LateInv, \A p \in Handler : AtDoor(handler[p]),
         handler \in [Handler -> HandlerState],
         NEW q \in Handler, handler'[q] = Idle, NEW allowed,
         \A p \in Handler \ {q} :
            \E caught : Overtaken(handler[p], handler'[p], caught, allowed),
         lost \subseteq lost', barred \ allowed \subseteq barred', clock' = clock
  PROVE  LateInv' /\ (\A p \in Handler : AtDoor(handler[p]))'
<1>1. ASSUME NEW p \in Handler PROVE RightlyLate(handler[p])' /\ AtDoor(handler[p])'
  <2>1. CASE p = q
    BY <2>1, IdleIsNotLate DEF RightlyLate, AtDoor
  <2>2. CASE p # q
    <3>1. PICK g : g = handler[p]
      OBVIOUS
    <3>2. PICK h : h = handler'[p]
      OBVIOUS
    <3>3. PICK caught : Overtaken(g, h, caught, allowed) /\ RightlyLate(g) /\ AtDoor(g)
      BY <2>2, <3>1, <3>2 DEF LateInv
    <3>4. RightlyLate(h)' /\ AtDoor(h)'
      BY <3>3, LateStays, DoorStays DEF Overtaken
    <3> QED BY <3>2, <3>4 DEF RightlyLate, AtDoor
  <2> QED BY <2>1, <2>2
<1> QED BY <1>1 DEF LateInv
----------------------------------------------------------------------------
(* Requests.                                                                *)

LEMMA BeginsKeeps ==
  ASSUME IInv, NEW q \in Handler, NEW next \in HandlerState, Begins(q, next),
         Holding(next), Faithful(next), RightlyLate(next), AtDoor(next)
  PROVE  IInv'
<1>1. /\ Goes(q, next)
      /\ UNCHANGED <<clock, accounts, keys, wrong, barred, retires, letIn, lost>>
      /\ overlaps' \in 0 .. MaxOverlaps
  <2>1. overlaps \in Nat
    BY DEF IInv, TypeInv, TypeOK
  <2>2. MaxOverlaps \in Nat
    BY OperatorAssumption
  <2> QED BY <2>1, <2>2 DEF Begins, decisions
<1>2. StoreInv /\ Bounds /\ CountInv /\ LateInv
  BY TypeFromBounds DEF IInv
<1>3. StoreInv'
  BY <1>1, <1>2, StoreStays, HandlerMoves
<1>4. Bounds'
  BY <1>1, <1>2 DEF Bounds
<1>5. RightlyLate(next)' /\ AtDoor(next)'
  BY <1>1 DEF RightlyLate, AtDoor
<1>6. LateInv' /\ (\A p \in Handler : AtDoor(handler[p]))'
  BY <1>1, <1>2, <1>5, HandlersMove DEF CountInv, StoreInv
<1>7. CountInv'
  BY <1>1, <1>2, <1>6 DEF CountInv, Exists
<1>8. DecisionInv' /\ KillSwitchHolds'
  BY <1>1 DEF IInv, DecisionInv, KillSwitchHolds, Exists
<1> QED BY <1>3, <1>4, <1>6, <1>7, <1>8, TypeFromBounds DEF IInv

\* createOperator and issueKey hold no row.
LEMMA RequestNamesKeep ==
  ASSUME IInv, NEW q \in Handler, NEW a \in Account,
         RequestCreate(q, a) \/ \E life \in Life : RequestKey(q, a, life)
  PROVE  IInv'
<1>1. CASE RequestCreate(q, a)
  <2>1. PICK next : next = [Idle EXCEPT !.op = "create", !.step = "create", !.account = a]
    OBVIOUS
  <2>2. /\ next \in HandlerState /\ next.op = "create" /\ next.step = "create"
        /\ next.account = a /\ next.row = NoRow /\ next.held = NoRow /\ next.late = {}
    BY <2>1, IdleHolds DEF HandlerState
  <2>3. Begins(q, next)
    BY <1>1, <2>1 DEF RequestCreate
  <2>4. Holding(next) /\ Faithful(next) /\ RightlyLate(next) /\ AtDoor(next)
    BY <2>2 DEF Holding, Faithful, RightlyLate, AtDoor
  <2> QED BY <2>2, <2>3, <2>4, BeginsKeeps
<1>2. ASSUME NEW life \in Life, RequestKey(q, a, life) PROVE IInv'
  <2>1. PICK next : next = [Idle EXCEPT !.op = "issueKey", !.step = "owner", !.account = a,
                                        !.span = life]
    OBVIOUS
  <2>2. /\ next \in HandlerState /\ next.op = "issueKey" /\ next.step = "owner"
        /\ next.account = a /\ next.row = NoRow /\ next.held = NoRow /\ next.late = {}
    BY <2>1, IdleHolds DEF HandlerState
  <2>3. Begins(q, next)
    BY <1>2, <2>1 DEF RequestKey
  <2>4. Holding(next) /\ Faithful(next) /\ RightlyLate(next) /\ AtDoor(next)
    BY <2>2 DEF Holding, Faithful, RightlyLate, AtDoor
  <2> QED BY <2>2, <2>3, <2>4, BeginsKeeps
<1> QED BY <1>1, <1>2

\* setDisabled and login hold the account as it was read.
LEMMA RequestAccountsKeep ==
  ASSUME IInv, NEW q \in Handler, NEW a \in Account,
         RequestLogin(q, a) \/ \E disable \in BOOLEAN : RequestDisabled(q, a, disable)
  PROVE  IInv'
<1>1. accounts[a] # NoRow /\ accounts[a] \in OperatorRecord
  BY DEF RequestLogin, RequestDisabled, Exists, IInv, TypeInv, StoreInv
<1>2. CASE RequestLogin(q, a)
  <2>1. PICK row \in OperatorRecord : row = accounts[a] /\ row # NoRow
    BY <1>1
  <2>2. PICK late \in SUBSET (Account \cup Key) : late = {a} \cap barred
    OBVIOUS
  <2>3. PICK next : next = [Idle EXCEPT !.op = "login", !.step = "check", !.account = a,
                                        !.row = row, !.late = late]
    OBVIOUS
  <2>4. /\ next \in HandlerState /\ next.op = "login" /\ next.step = "check"
        /\ next.account = a /\ next.row = row /\ next.held = NoRow /\ next.late = late
    BY <2>3, IdleHolds DEF HandlerState
  <2>5. Begins(q, next)
    BY <1>2, <2>1, <2>2, <2>3 DEF RequestLogin
  <2>6. Holding(next) /\ Faithful(next)
    BY <1>1, <2>1, <2>4 DEF Holding, Faithful, Exists
  <2>7. ~ accounts[a].disabled /\ row.locked <= clock
    BY <1>2, <2>1 DEF RequestLogin, Open
  <2>8. late \subseteq lost
    BY <1>1, <2>2, <2>7 DEF IInv, DecisionInv
  <2>9. RightlyLate(next) /\ AtDoor(next)
    BY <2>2, <2>4, <2>7, <2>8 DEF RightlyLate, AtDoor
  <2> QED BY <2>4, <2>5, <2>6, <2>9, BeginsKeeps
<1>3. ASSUME NEW disable \in BOOLEAN, RequestDisabled(q, a, disable) PROVE IInv'
  <2>1. PICK row \in OperatorRecord : row = accounts[a] /\ row # NoRow
    BY <1>1
  <2>3. PICK next : next = [Idle EXCEPT !.op = "setDisabled", !.step = "update",
                                        !.account = a, !.disable = disable, !.row = row]
    OBVIOUS
  <2>4. /\ next \in HandlerState /\ next.op = "setDisabled" /\ next.step = "update"
        /\ next.account = a /\ next.row = row /\ next.held = NoRow /\ next.late = {}
    BY <2>3, IdleHolds DEF HandlerState
  <2>5. Begins(q, next)
    BY <1>3, <2>1, <2>3 DEF RequestDisabled
  <2>6. Holding(next) /\ Faithful(next) /\ RightlyLate(next) /\ AtDoor(next)
    BY <1>1, <2>1, <2>4 DEF Holding, Faithful, Exists, RightlyLate, AtDoor
  <2> QED BY <2>4, <2>5, <2>6, BeginsKeeps
<1> QED BY <1>2, <1>3

\* rotateKey, revokeKey and authenticateKey hold the key as it was read.
LEMMA ReadsKeeps ==
  ASSUME IInv, NEW q \in Handler, NEW k \in Key, NEW overlap \in Life \cup Overlap,
         NEW op \in {"rotateKey", "revokeKey", "authenticateKey"},
         Exists(keys, k), Reads(q, op, k, overlap),
         op = "authenticateKey" => Usable(keys[k])
  PROVE  IInv'
<1>1. keys[k] # NoRow /\ keys[k] \in OperatorKeyRecord
  BY DEF Exists, IInv, TypeInv, StoreInv
<1>2. PICK row \in OperatorKeyRecord : row = keys[k] /\ row # NoRow
  BY <1>1
<1>3. PICK a \in Account : a = row.owner
  BY DEF OperatorKeyRecord
<1>4. PICK late \in SUBSET (Account \cup Key) :
         late = {j \in {k, a} : j \in barred \/ (j = k /\ retires[k] < clock)}
  OBVIOUS
<1>5. PICK step \in {"owner", "update"} : step = IF op = "revokeKey" THEN "update" ELSE "owner"
  OBVIOUS
<1>6. PICK next : next = [Idle EXCEPT !.op = op, !.key = k, !.held = row, !.account = a,
                                      !.span = overlap, !.step = step, !.late = late]
  OBVIOUS
<1>7. /\ next \in HandlerState /\ next.op = op /\ next.step = step /\ next.key = k
      /\ next.account = a /\ next.row = NoRow /\ next.held = row /\ next.late = late
  BY <1>6, IdleHolds DEF HandlerState
<1>8. Begins(q, next)
  BY <1>2, <1>3, <1>4, <1>5, <1>6, Zenon DEF Reads
<1>9. Holding(next) /\ AtDoor(next)
  BY <1>2, <1>5, <1>7 DEF Holding, AtDoor
<1>10. row.expires \in Nat
  BY ForeverIsLast DEF OperatorKeyRecord
<1>11. Faithful(next)
  BY <1>1, <1>2, <1>7, <1>10 DEF Faithful, Exists
<1>12. k \notin Account /\ a \notin Key
  BY OperatorAssumption
<1>13. op = "authenticateKey" => late \cap Key \subseteq lost
  <2>1. SUFFICES ASSUME op = "authenticateKey", k \notin lost, k \in late PROVE FALSE
    BY <1>4, <1>12
  <2>2. ~ row.revoked /\ row.expires >= clock
    BY <1>2, <2>1 DEF Usable
  <2>3. k \notin barred /\ row.expires <= retires[k]
    BY <1>2, <2>1, <2>2 DEF IInv, DecisionInv, Exists
  <2>4. retires[k] < clock
    BY <1>4, <2>1, <2>3
  <2>5. retires[k] \in Nat /\ clock \in Nat
    BY ForeverIsLast DEF IInv, TypeInv, TypeOK
  <2> QED BY <1>10, <2>2, <2>3, <2>4, <2>5
<1>14. late \cap Account \subseteq barred /\ late \cap Account \subseteq {a}
  BY <1>4, <1>12
<1>15. RightlyLate(next)
  BY <1>5, <1>7, <1>13, <1>14 DEF RightlyLate
<1> QED BY <1>7, <1>8, <1>9, <1>11, <1>15, BeginsKeeps

LEMMA RequestKeeps ==
  ASSUME IInv, NEW q \in Handler, Request(q)
  PROVE  IInv'
<1>1. Idle.span \in Life \cup Overlap
  BY IdleHolds DEF HandlerState
<1>2. CASE \E a \in Account :
             \/ RequestCreate(q, a)
             \/ RequestLogin(q, a)
             \/ \E disable \in BOOLEAN : RequestDisabled(q, a, disable)
             \/ \E life \in Life : RequestKey(q, a, life)
  BY <1>2, RequestNamesKeep, RequestAccountsKeep
<1>3. ASSUME NEW k \in Key, RequestRevocation(q, k) PROVE IInv'
  BY <1>1, <1>3, ReadsKeeps DEF RequestRevocation
<1>4. ASSUME NEW k \in Key, PresentKey(q, k) PROVE IInv'
  BY <1>1, <1>4, ReadsKeeps DEF PresentKey
<1>5. ASSUME NEW k \in Key, NEW overlap \in Overlap, RequestRotation(q, k, overlap) PROVE IInv'
  BY <1>5, ReadsKeeps DEF RequestRotation
<1> QED BY <1>2, <1>3, <1>4, <1>5 DEF Request
----------------------------------------------------------------------------
(* Steps that write no row that is there.                                   *)

LEMMA GoesKeeps ==
  ASSUME IInv, NEW q \in Handler, NEW next \in HandlerState, Goes(q, next),
         Holding(next), Faithful(next), RightlyLate(next), AtDoor(next),
         UNCHANGED <<clock, accounts, keys, history>>
  PROVE  IInv'
<1>1. /\ UNCHANGED <<clock, accounts, keys, wrong, barred, retires, letIn, overlaps, lost>>
  BY DEF history, decisions
<1>2. StoreInv /\ Bounds /\ CountInv /\ LateInv
  BY TypeFromBounds DEF IInv
<1>3. StoreInv'
  BY <1>1, <1>2, StoreStays, HandlerMoves
<1>4. Bounds'
  BY <1>1, <1>2 DEF Bounds
<1>5. RightlyLate(next)' /\ AtDoor(next)'
  BY <1>1 DEF RightlyLate, AtDoor
<1>6. LateInv' /\ (\A p \in Handler : AtDoor(handler[p]))'
  BY <1>1, <1>2, <1>5, HandlersMove DEF CountInv, StoreInv
<1>7. CountInv'
  BY <1>1, <1>2, <1>6 DEF CountInv, Exists
<1>8. DecisionInv' /\ KillSwitchHolds'
  BY <1>1 DEF IInv, DecisionInv, KillSwitchHolds, Exists
<1> QED BY <1>3, <1>4, <1>6, <1>7, <1>8, TypeFromBounds DEF IInv

LEMMA EndsKeeps ==
  ASSUME IInv, NEW q \in Handler, Ends(q), UNCHANGED <<clock, accounts, keys, history>>
  PROVE  IInv'
<1>1. Faithful(Idle)
  BY IdleHolds DEF Faithful
<1> QED BY <1>1, IdleHolds, IdleIsNotLate, GoesKeeps DEF Ends

\* An account that was not there starts with no wrong answers, and nothing was
\* decided of it.
LEMMA CreateKeeps ==
  ASSUME IInv, NEW q \in Handler, CreateOperator(q)
  PROVE  IInv'
<1>a. PICK a : a = handler[q].account
  OBVIOUS
<1>1. StoreInv /\ Bounds /\ CountInv /\ LateInv /\ DecisionInv
  BY TypeFromBounds DEF IInv
<1>2. /\ UNCHANGED <<clock, keys, wrong, barred, retires, letIn, overlaps, lost>>
      /\ Ends(q)
      /\ accounts' = IF Exists(accounts, a) THEN accounts
                     ELSE [accounts EXCEPT ![a] = NewAccount]
  BY <1>a DEF CreateOperator, history, decisions
<1>3. a \in Account
  BY <1>a, <1>1 DEF CreateOperator, StoreInv, Holding
<1>4. NewAccount \in OperatorRecord /\ NewAccount.failed = 0 /\ NewAccount.locked = 0
  BY OperatorAssumption DEF NewAccount, OperatorRecord
<1>5. CASE Exists(accounts, a)
  BY <1>2, <1>5, EndsKeeps DEF history, decisions
<1>6. CASE ~ Exists(accounts, a)
  <2>1. /\ accounts' = [accounts EXCEPT ![a] = NewAccount]
        /\ accounts \in [Account -> OperatorRecord \cup {NoRow}]
    BY <1>1, <1>2, <1>6 DEF StoreInv
  <2>2. Grows
    BY <1>1, <1>2, <1>4, <1>6, <2>1 DEF Grows, StoreInv, Exists
  <2>3. StoreInv'
    BY <1>1, <1>2, <2>2, EndsStore
  <2>4. LateInv' /\ (\A p \in Handler : AtDoor(handler[p]))'
    BY <1>1, <1>2, IdleIsNotLate, HandlersMove DEF CountInv, StoreInv, Ends
  <2>5. \A b \in Account : b # a => accounts'[b] = accounts[b]
    BY <2>1
  <2>6. accounts'[a] = NewAccount /\ NewAccount # NoRow /\ wrong[a] = 0 /\ (a \in barred => a \in lost)
    BY <1>1, <1>3, <1>4, <1>6, <2>1, NoRowAssumption DEF CountInv, DecisionInv
  <2>7. clock \in Nat
    BY <1>1 DEF Bounds
  <2>8. CountInv'
    <3>1. \A b \in Account : accounts'[b] = NoRow => wrong'[b] = 0
      BY <1>1, <1>2, <2>5, <2>6 DEF CountInv, Exists
    <3>2. ASSUME NEW b \in Account \ lost', accounts'[b] # NoRow
          PROVE  IF accounts'[b].locked <= clock' THEN wrong'[b] = accounts'[b].failed
                 ELSE accounts'[b].failed = 0 /\ wrong'[b] <= MaxFailedLogins
      <4>1. CASE b = a
        BY <1>2, <1>4, <2>6, <2>7, <4>1
      <4>2. CASE b # a
        BY <1>1, <1>2, <2>5, <3>2, <4>2 DEF CountInv, Exists
      <4> QED BY <4>1, <4>2
    <3> QED BY <2>4, <3>1, <3>2 DEF CountInv, Exists
  <2>9. DecisionInv'
    BY <1>1, <1>2, <2>5, <2>6 DEF DecisionInv, Exists
  <2>10. Bounds' /\ KillSwitchHolds'
    BY <1>1, <1>2 DEF Bounds, KillSwitchHolds, IInv
  <2> QED BY <2>3, <2>4, <2>8, <2>9, <2>10, TypeFromBounds DEF IInv
<1> QED BY <1>5, <1>6

\* Nothing was decided of a key that was not there, and it expires by forever.
LEMMA MintKeeps ==
  ASSUME IInv, NEW q \in Handler, NEW k \in Key, MintKey(q, k)
  PROVE  IInv'
<1>h. PICK h : h = handler[q]
  OBVIOUS
<1>1. StoreInv /\ Bounds /\ CountInv /\ LateInv /\ DecisionInv
  BY TypeFromBounds DEF IInv
<1>2. h \in HandlerState /\ Holding(h) /\ Faithful(h) /\ RightlyLate(h)
  BY <1>h, <1>1 DEF StoreInv, CopyInv, LateInv
<1>3. /\ h.step = "mint" /\ h.account \in Account /\ ~ Exists(keys, k)
      /\ h.op \in {"issueKey", "rotateKey"}
  BY <1>h, <1>2 DEF MintKey, Holding
<1>4. PICK life \in Life \cup Overlap \cup {0} : life = IF h.op = "rotateKey" THEN 0 ELSE h.span
  BY <1>2 DEF HandlerState
<1>5. PICK expires \in 0 .. Forever : expires = ExpiresAt(life)
  <2>1. clock \in 0 .. MaxClock
    BY <1>1 DEF Bounds
  <2>2. life # 0 => life \in Life \cup Overlap
    BY <1>4
  <2> QED BY <2>1, <2>2, ForeverIsLast DEF ExpiresAt
<1>6. PICK row \in OperatorKeyRecord :
         row = [owner |-> h.account, expires |-> expires, revoked |-> FALSE]
  BY <1>3 DEF OperatorKeyRecord
<1>7. row # NoRow /\ row.expires = expires
  BY <1>6, NoRowAssumption
<1>8. /\ keys' = [keys EXCEPT ![k] = row]
      /\ UNCHANGED <<clock, accounts, wrong, barred, retires, letIn, overlaps, lost>>
  BY <1>h, <1>4, <1>5, <1>6 DEF MintKey, history, decisions
<1>9. keys'[k] = row /\ (\A j \in Key : j # k => keys'[j] = keys[j])
  BY <1>1, <1>8 DEF StoreInv
<1>10. Grows
  BY <1>1, <1>3, <1>8, <1>9 DEF Grows, StoreInv, Exists
<1>11. PICK next \in HandlerState :
         /\ Goes(q, next) /\ Holding(next) /\ Faithful(next)
         /\ RightlyLate(next) /\ AtDoor(next)
  <2>1. CASE h.op = "rotateKey"
    <3>1. PICK next : next = [h EXCEPT !.step = "update"]
      OBVIOUS
    <3>2. /\ next \in HandlerState /\ next.op = "rotateKey" /\ next.step = "update"
          /\ next.account = h.account /\ next.key = h.key /\ next.row = h.row
          /\ next.held = h.held /\ next.behind = h.behind /\ next.late = h.late
      BY <1>2, <2>1, <3>1 DEF HandlerState
    <3>3. Goes(q, next)
      BY <1>h, <2>1, <3>1 DEF MintKey
    <3>4. Holding(next) /\ Faithful(next) /\ AtDoor(next)
      BY <1>2, <1>3, <2>1, <3>2 DEF Holding, Faithful, AtDoor
    <3>5. RightlyLate(next)
      BY <1>2, <2>1, <3>2 DEF RightlyLate
    <3> QED BY <3>2, <3>3, <3>4, <3>5
  <2>2. CASE h.op # "rotateKey"
    <3>1. Faithful(Idle) /\ Goes(q, Idle)
      BY <1>h, <2>2, IdleHolds DEF Faithful, MintKey, Ends
    <3> QED BY <3>1, IdleHolds, IdleIsNotLate
  <2> QED BY <2>1, <2>2
<1>12. StoreInv'
  BY <1>1, <1>10, <1>11, HandlerMoves
<1>13. RightlyLate(next)' /\ AtDoor(next)'
  BY <1>8, <1>11 DEF RightlyLate, AtDoor
<1>14. LateInv' /\ (\A p \in Handler : AtDoor(handler[p]))'
  BY <1>1, <1>8, <1>11, <1>13, HandlersMove DEF CountInv, StoreInv
<1>15. CountInv'
  BY <1>1, <1>8, <1>14 DEF CountInv, Exists
<1>16. DecisionInv'
  <2>1. retires[k] = Forever /\ (k \in barred => k \in lost)
    BY <1>1, <1>3 DEF DecisionInv
  <2>2. expires <= Forever
    BY <1>5, ForeverIsLast
  <2>3. \A a \in Account \ lost' : a \in barred' => Exists(accounts, a)' /\ accounts'[a].disabled
    BY <1>1, <1>8 DEF DecisionInv, Exists
  <2>4. ASSUME NEW j \in Key PROVE
          /\ j \notin lost' => /\ j \in barred' => keys'[j] # NoRow /\ keys'[j].revoked
                               /\ keys'[j] # NoRow => keys'[j].expires <= retires'[j]
          /\ keys'[j] = NoRow => retires'[j] = Forever
    <3>1. CASE j = k
      BY <1>7, <1>8, <1>9, <2>1, <2>2, <3>1
    <3>2. CASE j # k
      BY <1>1, <1>8, <1>9, <3>2 DEF DecisionInv, Exists
    <3> QED BY <3>1, <3>2
  <2> QED BY <2>3, <2>4 DEF DecisionInv, Exists
<1>17. Bounds' /\ KillSwitchHolds'
  BY <1>1, <1>8 DEF Bounds, KillSwitchHolds, IInv
<1> QED BY <1>12, <1>14, <1>15, <1>16, <1>17, TypeFromBounds DEF IInv

\* A key is let on only while its owner is enabled.
LEMMA OwnerKeeps ==
  ASSUME IInv, NEW q \in Handler, FindOwner(q)
  PROVE  IInv'
<1>h. PICK h : h = handler[q]
  OBVIOUS
<1>1. h \in HandlerState /\ Holding(h) /\ Faithful(h) /\ RightlyLate(h)
  BY <1>h DEF IInv, TypeInv, StoreInv, CopyInv, LateInv
<1>2. h.step = "owner" /\ h.account \in Account
  BY <1>h, <1>1 DEF FindOwner, Holding
<1>3. UNCHANGED <<clock, accounts, keys, history>>
  BY DEF FindOwner
<1>4. CASE accounts[h.account].disabled
  BY <1>h, <1>3, <1>4, EndsKeeps DEF FindOwner
<1>5. CASE ~ accounts[h.account].disabled
  <2>1. PICK step \in {"update", "mint"} :
          step = IF h.op = "authenticateKey" THEN "update" ELSE "mint"
    OBVIOUS
  <2>2. PICK next : next = [h EXCEPT !.step = step]
    OBVIOUS
  <2>3. /\ next \in HandlerState /\ next.op = h.op /\ next.step = step
        /\ next.account = h.account /\ next.key = h.key /\ next.row = h.row
        /\ next.held = h.held /\ next.behind = h.behind /\ next.late = h.late
    BY <1>1, <2>1, <2>2 DEF HandlerState
  <2>4. Goes(q, next)
    BY <1>h, <1>5, <2>1, <2>2 DEF FindOwner
  <2>5. Holding(next) /\ Faithful(next) /\ AtDoor(next)
    BY <1>1, <1>2, <2>1, <2>3 DEF Holding, Faithful, AtDoor
  <2>6. h.op = "authenticateKey" => h.late \subseteq lost
    <3>1. h.late \subseteq Account \cup Key
      BY <1>1 DEF HandlerState
    <3>2. h.account \in barred => h.account \in lost
      BY <1>2, <1>5 DEF IInv, DecisionInv
    <3> QED BY <1>1, <3>1, <3>2 DEF RightlyLate
  <2>7. RightlyLate(next)
    BY <1>1, <1>2, <2>1, <2>3, <2>6 DEF RightlyLate
  <2> QED BY <1>3, <2>3, <2>4, <2>5, <2>7, GoesKeeps
<1> QED BY <1>4, <1>5
----------------------------------------------------------------------------
(* Steps that write an account.                                             *)

\* What is left to show when a handler writes the account it holds.
LEMMA AccountWriteKeeps ==
  ASSUME IInv, NEW q \in Handler, NEW row \in OperatorRecord, NEW a \in Account,
         a = handler[q].account, handler[q].row # NoRow, WriteAccount(q, row),
         UNCHANGED <<clock, keys, retires, overlaps>>,
         \A b \in Account : b # a => wrong'[b] = wrong[b],
         wrong' \in [Account -> Nat],
         barred' \subseteq Account \cup Key, barred \ Allowed(q) \subseteq barred',
         barred' \subseteq barred \cup {a},
         a \notin lost' => /\ a \in barred' => row.disabled
                           /\ IF row.locked <= clock THEN wrong'[a] = row.failed
                              ELSE row.failed = 0 /\ wrong'[a] <= MaxFailedLogins,
         letIn' \subseteq letIn \cup lost
  PROVE  IInv'
<1>1. StoreInv /\ Bounds /\ CountInv /\ LateInv /\ DecisionInv
  BY TypeFromBounds DEF IInv
<1>2. /\ StoreInv' /\ accounts' = [accounts EXCEPT ![a] = row]
      /\ lost \subseteq lost' /\ lost' \subseteq lost \cup {a} /\ handler'[q] = Idle
      /\ \A p \in Handler \ {q} :
            \E caught : Overtaken(handler[p], handler'[p], caught, Allowed(q))
  BY <1>1, WriteAccountStore
<1>3. LateInv' /\ (\A p \in Handler : AtDoor(handler[p]))'
  BY <1>1, <1>2, OthersOvertaken DEF CountInv, StoreInv
<1>4. accounts'[a] = row /\ row # NoRow /\ \A b \in Account : b # a => accounts'[b] = accounts[b]
  BY <1>1, <1>2, NoRowAssumption DEF StoreInv
<1>5. a \notin Key
  BY OperatorAssumption
<1>6. CountInv'
  <2>1. \A b \in Account : accounts'[b] = NoRow => wrong'[b] = 0
    BY <1>1, <1>4 DEF CountInv, Exists
  <2>2. ASSUME NEW b \in Account \ lost', accounts'[b] # NoRow
        PROVE  IF accounts'[b].locked <= clock' THEN wrong'[b] = accounts'[b].failed
               ELSE accounts'[b].failed = 0 /\ wrong'[b] <= MaxFailedLogins
    <3>1. CASE b = a
      BY <1>4, <2>2, <3>1
    <3>2. CASE b # a
      BY <1>1, <1>2, <1>4, <2>2, <3>2 DEF CountInv, Exists
    <3> QED BY <3>1, <3>2
  <2> QED BY <1>3, <2>1, <2>2 DEF CountInv, Exists
<1>7. DecisionInv'
  <2>1. ASSUME NEW b \in Account \ lost', b \in barred'
        PROVE  accounts'[b] # NoRow /\ accounts'[b].disabled
    <3>1. CASE b = a
      BY <1>4, <2>1, <3>1
    <3>2. CASE b # a
      BY <1>1, <1>2, <1>4, <2>1, <3>2 DEF DecisionInv, Exists
    <3> QED BY <3>1, <3>2
  <2>2. \A k \in Key : (k \in barred' => k \in barred) /\ (k \notin lost' => k \notin lost)
    BY <1>2, <1>5
  <2> QED BY <1>1, <2>1, <2>2 DEF DecisionInv, Exists
<1>8. KillSwitchHolds'
  BY <1>2 DEF IInv, KillSwitchHolds
<1>9. Bounds'
  BY <1>1 DEF Bounds, StoreInv
<1> QED BY <1>2, <1>3, <1>6, <1>7, <1>8, <1>9, TypeFromBounds DEF IInv

\* The copy a handler holds of an account; if it is not behind, it is the account.
LEMMA HeldAccount ==
  ASSUME IInv, NEW q \in Handler, handler[q].row # NoRow
  PROVE  /\ handler[q].account \in Account
         /\ handler[q].row \in OperatorRecord
         /\ Exists(accounts, handler[q].account)
         /\ ~ handler[q].behind => accounts[handler[q].account] = handler[q].row
         /\ handler[q].disable \in BOOLEAN
         /\ handler[q].behind \in BOOLEAN
BY DEF IInv, TypeInv, StoreInv, CopyInv, Faithful, Holding, HandlerState

\* The copy a handler holds of a key.
LEMMA HeldKey ==
  ASSUME IInv, NEW q \in Handler, handler[q].held # NoRow
  PROVE  /\ handler[q].key \in Key
         /\ handler[q].held \in OperatorKeyRecord
         /\ Exists(keys, handler[q].key)
         /\ ~ handler[q].behind => keys[handler[q].key] = handler[q].held
         /\ handler[q].key \notin lost =>
               keys[handler[q].key].expires <= handler[q].held.expires
         /\ handler[q].behind \in BOOLEAN
BY DEF IInv, TypeInv, StoreInv, CopyInv, Faithful, Holding, HandlerState

LEMMA LostWhenBehind ==
  ASSUME NEW q, NEW row, WriteAccount(q, row), handler[q].account \notin lost',
         handler[q].behind \in BOOLEAN
  PROVE  ~ handler[q].behind /\ handler[q].account \notin lost
BY DEF WriteAccount

\* Disabling is on the row that the next request reads, and enabling takes the
\* decision back.
LEMMA SetDisabledKeeps ==
  ASSUME IInv, NEW q \in Handler, SetDisabled(q)
  PROVE  IInv'
<1>a. PICK a : a = handler[q].account
  OBVIOUS
<1>1. /\ handler[q].op = "setDisabled"
      /\ WriteAccount(q, [handler[q].row EXCEPT !.disabled = handler[q].disable])
      /\ barred' = IF handler[q].disable THEN barred \cup {a} ELSE barred \ {a}
      /\ UNCHANGED <<clock, keys, wrong, retires, letIn, overlaps>>
  BY <1>a DEF SetDisabled
<1>2. handler[q].row # NoRow
  BY <1>1 DEF IInv, TypeInv, StoreInv, Holding
<1>3. PICK old \in OperatorRecord : old = handler[q].row
  BY <1>2, HeldAccount
<1>4. PICK disable \in BOOLEAN : disable = handler[q].disable
  BY <1>2, HeldAccount
<1>5. PICK row : row = [old EXCEPT !.disabled = disable]
  OBVIOUS
<1>6. /\ row \in OperatorRecord /\ row.disabled = disable
      /\ row.failed = old.failed /\ row.locked = old.locked
  BY <1>5 DEF OperatorRecord
<1>7. WriteAccount(q, row)
  BY <1>1, <1>3, <1>4, <1>5, Zenon
<1>8. Allowed(q) = IF disable THEN {} ELSE {a}
  BY <1>a, <1>1, <1>4 DEF Allowed
<1>9. a \in Account /\ Exists(accounts, a) /\ (~ handler[q].behind => accounts[a] = old)
  BY <1>a, <1>2, <1>3, HeldAccount
<1>10. a \notin lost' => accounts[a] = old /\ a \notin lost
  BY <1>a, <1>2, <1>7, <1>9, HeldAccount, LostWhenBehind
<1>11. a \notin lost' => IF row.locked <= clock THEN wrong'[a] = row.failed
                         ELSE row.failed = 0 /\ wrong'[a] <= MaxFailedLogins
  BY <1>1, <1>6, <1>9, <1>10 DEF IInv, CountInv
<1>12. /\ a \in barred' => row.disabled
       /\ barred' \subseteq Account \cup Key /\ barred \ Allowed(q) \subseteq barred'
       /\ barred' \subseteq barred \cup {a}
  BY <1>1, <1>4, <1>6, <1>8, <1>9 DEF IInv, TypeInv, TypeOK
<1>13. wrong' \in [Account -> Nat]
  BY <1>1 DEF IInv, TypeInv, TypeOK
<1> QED BY <1>a, <1>1, <1>2, <1>6, <1>7, <1>9, <1>11, <1>12, <1>13, AccountWriteKeeps

\* The row a sign-in leaves, whatever it counts.
SignInRow(old, confirmed, n, t) ==
  [old EXCEPT !.confirmed = confirmed, !.failed = n, !.locked = t]

LEMMA RowWritten ==
  ASSUME NEW old \in OperatorRecord, NEW confirmed \in BOOLEAN,
         NEW n \in 0 .. MaxFailedLogins - 1, NEW t \in 0 .. MaxClock + Lockout, NEW row,
         row = SignInRow(old, confirmed, n, t)
  PROVE  /\ row \in OperatorRecord /\ row.disabled = old.disabled
         /\ row.failed = n /\ row.locked = t
<1>1. PICK counts : counts = 0 .. MaxFailedLogins - 1
  OBVIOUS
<1>2. PICK times : times = 0 .. MaxClock + Lockout
  OBVIOUS
<1>3. OperatorRecord = [disabled : BOOLEAN, confirmed : BOOLEAN, failed : counts, locked : times]
  BY <1>1, <1>2 DEF OperatorRecord
<1>4. n \in counts /\ t \in times
  BY <1>1, <1>2
<1> QED BY <1>3, <1>4 DEF SignInRow

\* Counting on writes one field of them.
LEMMA RowKept ==
  ASSUME NEW old \in OperatorRecord, NEW n \in 0 .. MaxFailedLogins - 1
  PROVE  /\ old.confirmed \in BOOLEAN /\ old.locked \in 0 .. MaxClock + Lockout
         /\ [old EXCEPT !.failed = n] = SignInRow(old, old.confirmed, n, old.locked)
<1>1. PICK counts : counts = 0 .. MaxFailedLogins - 1
  OBVIOUS
<1>2. PICK times : times = 0 .. MaxClock + Lockout
  OBVIOUS
<1>3. old \in [disabled : BOOLEAN, confirmed : BOOLEAN, failed : counts, locked : times]
  BY <1>1, <1>2 DEF OperatorRecord
<1> QED BY <1>2, <1>3 DEF SignInRow

\* A wrong answer is counted on the row it was given at, and the last one locks.
LEMMA FailKeeps ==
  ASSUME IInv, NEW q \in Handler, FailLogin(q)
  PROVE  IInv'
<1>a. PICK a : a = handler[q].account
  OBVIOUS
<1>1. /\ handler[q].step = "check"
      /\ WriteAccount(q, Counted(handler[q].row))
      /\ wrong' = [wrong EXCEPT ![a] = @ + 1]
      /\ UNCHANGED <<clock, keys, barred, retires, letIn, overlaps>>
  BY <1>a DEF FailLogin, decisions
<1>2. handler[q].row # NoRow /\ handler[q].op = "login"
  BY <1>1 DEF IInv, TypeInv, StoreInv, Holding
<1>3. PICK old \in OperatorRecord : old = handler[q].row
  BY <1>2, HeldAccount
<1>4. /\ clock \in 0 .. MaxClock /\ MaxClock \in Nat /\ Lockout \in Nat \ {0}
      /\ MaxFailedLogins \in Nat \ {0}
      /\ old.failed \in 0 .. MaxFailedLogins - 1 /\ old.locked \in Nat
  BY OperatorAssumption DEF IInv, TypeInv, TypeOK, OperatorRecord
<1>5. PICK row : row = Counted(old)
  OBVIOUS
<1>6. /\ row \in OperatorRecord /\ row.disabled = old.disabled
      /\ IF old.failed + 1 >= MaxFailedLogins
           THEN row.failed = 0 /\ row.locked = clock + Lockout
           ELSE row.failed = old.failed + 1 /\ row.locked = old.locked
  <2>1. CASE old.failed + 1 >= MaxFailedLogins
    <3>1. row = [old EXCEPT !.failed = 0, !.locked = clock + Lockout]
      BY <1>5, <2>1 DEF Counted, Locks
    <3>2. 0 \in 0 .. MaxFailedLogins - 1 /\ clock + Lockout \in 0 .. MaxClock + Lockout
      BY <1>4
    <3>3. PICK n \in 0 .. MaxFailedLogins - 1, t \in 0 .. MaxClock + Lockout :
             n = 0 /\ t = clock + Lockout
      BY <3>2
    <3>4. row = [old EXCEPT !.failed = n, !.locked = t]
      BY <3>1, <3>3
    <3>5. row = SignInRow(old, old.confirmed, n, t)
      <4>1. PICK counts : counts = 0 .. MaxFailedLogins - 1
        OBVIOUS
      <4>2. PICK times : times = 0 .. MaxClock + Lockout
        OBVIOUS
      <4>3. old \in [disabled : BOOLEAN, confirmed : BOOLEAN, failed : counts, locked : times]
        BY <4>1, <4>2 DEF OperatorRecord
      <4> QED BY <3>4, <4>3 DEF SignInRow
    <3>6. old.confirmed \in BOOLEAN /\ row = SignInRow(old, old.confirmed, n, t)
      BY <3>4, <3>5 DEF OperatorRecord
    <3> QED BY <2>1, <3>3, <3>6, RowWritten
  <2>2. CASE ~ (old.failed + 1 >= MaxFailedLogins)
    <3>1. row = [old EXCEPT !.failed = old.failed + 1]
      BY <1>5, <2>2 DEF Counted, Locks
    <3>2. old.failed + 1 \in 0 .. MaxFailedLogins - 1
      BY <1>4, <2>2
    <3>3. PICK n \in 0 .. MaxFailedLogins - 1 : n = old.failed + 1
      BY <3>2
    <3>4. /\ old.confirmed \in BOOLEAN /\ old.locked \in 0 .. MaxClock + Lockout
          /\ row = SignInRow(old, old.confirmed, n, old.locked)
      BY <3>1, <3>3, RowKept
    <3> QED BY <2>2, <3>3, <3>4, RowWritten
  <2> QED BY <2>1, <2>2
<1>7. WriteAccount(q, row)
  BY <1>1, <1>3, <1>5
<1>8. a \in Account /\ Exists(accounts, a) /\ (~ handler[q].behind => accounts[a] = old)
  BY <1>a, <1>2, <1>3, HeldAccount
<1>9. a \notin lost' => accounts[a] = old /\ a \notin lost
  BY <1>a, <1>2, <1>7, <1>8, HeldAccount, LostWhenBehind
<1>10. old.locked <= clock
  BY <1>1, <1>3 DEF IInv, CountInv, AtDoor
<1>11. wrong \in [Account -> Nat] /\ wrong'[a] = wrong[a] + 1
  BY <1>1, <1>8 DEF IInv, TypeInv, TypeOK
<1>12. a \notin lost' => IF row.locked <= clock THEN wrong'[a] = row.failed
                         ELSE row.failed = 0 /\ wrong'[a] <= MaxFailedLogins
  <2>1. SUFFICES ASSUME a \notin lost' PROVE IF row.locked <= clock THEN wrong'[a] = row.failed
                         ELSE row.failed = 0 /\ wrong'[a] <= MaxFailedLogins
    OBVIOUS
  <2>2. wrong[a] = old.failed
    BY <1>8, <1>9, <1>10, <2>1 DEF IInv, CountInv
  <2>3. wrong'[a] = old.failed + 1
    BY <1>11, <2>2
  <2> QED BY <1>4, <1>6, <1>10, <2>3
<1>13. a \notin lost' => (a \in barred' => row.disabled)
  BY <1>1, <1>6, <1>8, <1>9 DEF IInv, DecisionInv
<1>14. \A b \in Account : b # a => wrong'[b] = wrong[b]
  BY <1>1, <1>11
<1>15. wrong' \in [Account -> Nat]
  <2>1. wrong[a] + 1 \in Nat
    BY <1>8, <1>11
  <2> QED BY <1>1, <1>11, <2>1
<1>16. barred \subseteq Account \cup Key
  BY DEF IInv, TypeInv, TypeOK
<1> QED BY <1>a, <1>1, <1>2, <1>6, <1>7, <1>8, <1>12, <1>13, <1>14, <1>15, <1>16,
           AccountWriteKeeps

\* Whoever gets in had nothing against it from its start, or the row was lost.
LEMMA PassKeeps ==
  ASSUME IInv, NEW q \in Handler, PassLogin(q)
  PROVE  IInv'
<1>a. PICK a : a = handler[q].account
  OBVIOUS
<1>1. /\ handler[q].step = "check"
      /\ WriteAccount(q, SignedIn(handler[q].row))
      /\ wrong' = [wrong EXCEPT ![a] = 0]
      /\ letIn' = letIn \cup handler[q].late
      /\ UNCHANGED <<clock, keys, barred, retires, overlaps>>
  BY <1>a DEF PassLogin, LetIn, decisions
<1>2. handler[q].row # NoRow /\ handler[q].op = "login"
  BY <1>1 DEF IInv, TypeInv, StoreInv, Holding
<1>3. PICK old \in OperatorRecord : old = handler[q].row
  BY <1>2, HeldAccount
<1>4. /\ clock \in Nat /\ MaxClock \in Nat /\ Lockout \in Nat \ {0}
      /\ MaxFailedLogins \in Nat \ {0} /\ RequireMfa \in BOOLEAN
  BY OperatorAssumption DEF IInv, TypeInv, TypeOK
<1>5. PICK row : row = SignedIn(old)
  OBVIOUS
<1>6. /\ row \in OperatorRecord /\ row.disabled = old.disabled
      /\ row.failed = 0 /\ row.locked = 0
  <2>1. PICK confirmed \in BOOLEAN : confirmed = (old.confirmed \/ MfaEnforced(old))
    BY <1>4 DEF MfaEnforced, OperatorRecord
  <2>2. row = [old EXCEPT !.confirmed = confirmed, !.failed = 0, !.locked = 0]
    BY <1>5, <2>1, Zenon DEF SignedIn
  <2>3. 0 \in 0 .. MaxFailedLogins - 1 /\ 0 \in 0 .. MaxClock + Lockout
    BY <1>4
  <2>4. PICK n \in 0 .. MaxFailedLogins - 1, t \in 0 .. MaxClock + Lockout : n = 0 /\ t = 0
    BY <2>3
  <2>5. row = SignInRow(old, confirmed, n, t)
    BY <2>2, <2>4 DEF SignInRow
  <2> QED BY <2>4, <2>5, RowWritten
<1>7. WriteAccount(q, row)
  BY <1>1, <1>3, <1>5
<1>8. a \in Account /\ Exists(accounts, a) /\ (~ handler[q].behind => accounts[a] = old)
  BY <1>a, <1>2, <1>3, HeldAccount
<1>9. a \notin lost' => accounts[a] = old /\ a \notin lost
  BY <1>a, <1>2, <1>7, <1>8, HeldAccount, LostWhenBehind
<1>10. wrong \in [Account -> Nat] /\ wrong'[a] = 0
  BY <1>1, <1>8 DEF IInv, TypeInv, TypeOK
<1>11. row.locked <= clock /\ wrong'[a] = row.failed
  BY <1>4, <1>6, <1>10
<1>12. a \notin lost' => (a \in barred' => row.disabled)
  BY <1>1, <1>6, <1>8, <1>9 DEF IInv, DecisionInv
<1>13. \A b \in Account : b # a => wrong'[b] = wrong[b]
  BY <1>1, <1>10
<1>14. wrong' \in [Account -> Nat]
  BY <1>1, <1>10
<1>15. barred \subseteq Account \cup Key
  BY DEF IInv, TypeInv, TypeOK
<1>16. letIn' \subseteq letIn \cup lost
  BY <1>1, <1>2 DEF IInv, LateInv, RightlyLate
<1> QED BY <1>a, <1>1, <1>2, <1>6, <1>7, <1>8, <1>11, <1>12, <1>13, <1>14, <1>15, <1>16,
           AccountWriteKeeps
----------------------------------------------------------------------------
(* Steps that write a key.                                                  *)

\* What is left to show when a handler writes the key it holds.
LEMMA KeyWriteKeeps ==
  ASSUME IInv, NEW q \in Handler, NEW row \in OperatorKeyRecord, NEW k \in Key,
         k = handler[q].key, handler[q].held # NoRow,
         row.expires <= handler[q].held.expires, WriteKey(q, row),
         UNCHANGED <<clock, accounts, wrong, overlaps>>,
         retires' \in [Key -> 0 .. Forever], \A j \in Key : j # k => retires'[j] = retires[j],
         barred \subseteq barred', barred' \subseteq barred \cup {k},
         k \notin lost' => (k \in barred' => row.revoked) /\ row.expires <= retires'[k],
         letIn' \subseteq letIn \cup lost
  PROVE  IInv'
<1>1. StoreInv /\ Bounds /\ CountInv /\ LateInv /\ DecisionInv
  BY TypeFromBounds DEF IInv
<1>2. /\ StoreInv' /\ keys' = [keys EXCEPT ![k] = row]
      /\ lost \subseteq lost' /\ lost' \subseteq lost \cup {k} /\ handler'[q] = Idle
      /\ \A p \in Handler \ {q} :
            \E caught : Overtaken(handler[p], handler'[p], caught, {})
  <2>1. /\ StoreInv' /\ keys' = [keys EXCEPT ![k] = row]
        /\ lost \subseteq lost' /\ lost' \subseteq lost \cup {k} /\ handler'[q] = Idle
    BY <1>1, WriteKeyStore
  <2>2. ASSUME NEW p \in Handler \ {q}
        PROVE  Overtaken(handler[p], handler'[p],
                         handler[p].key = k /\ handler[p].held # NoRow, {})
    BY <1>1, WriteKeyStore
  <2> QED BY <2>1, <2>2, Zenon
<1>3. LateInv' /\ (\A p \in Handler : AtDoor(handler[p]))'
  <2>1. (\A p \in Handler : AtDoor(handler[p])) /\ handler \in [Handler -> HandlerState]
    BY <1>1 DEF CountInv, StoreInv
  <2>2. PICK allowed : allowed = {}
    OBVIOUS
  <2>3. barred \ allowed \subseteq barred'
    BY <2>2
  <2>4. \A p \in Handler \ {q} : \E caught : Overtaken(handler[p], handler'[p], caught, allowed)
    BY <1>2, <2>2
  <2> QED BY <1>1, <1>2, <2>1, <2>3, <2>4, OthersOvertaken
<1>4. keys'[k] = row /\ row # NoRow /\ \A j \in Key : j # k => keys'[j] = keys[j]
  BY <1>1, <1>2, NoRowAssumption DEF StoreInv
<1>5. k \notin Account
  BY OperatorAssumption
<1>6. CountInv'
  BY <1>1, <1>2, <1>3 DEF CountInv, Exists
<1>7. DecisionInv'
  <2>1. \A a \in Account \ lost' : a \in barred' => accounts'[a] # NoRow /\ accounts'[a].disabled
    BY <1>1, <1>2, <1>5 DEF DecisionInv, Exists
  <2>2. ASSUME NEW j \in Key PROVE
          /\ j \notin lost' => /\ j \in barred' => keys'[j] # NoRow /\ keys'[j].revoked
                               /\ keys'[j] # NoRow => keys'[j].expires <= retires'[j]
          /\ keys'[j] = NoRow => retires'[j] = Forever
    <3>1. CASE j = k
      BY <1>4, <3>1
    <3>2. CASE j # k
      BY <1>1, <1>2, <1>4, <3>2 DEF DecisionInv, Exists
    <3> QED BY <3>1, <3>2
  <2> QED BY <2>1, <2>2 DEF DecisionInv, Exists
<1>8. KillSwitchHolds'
  BY <1>2 DEF IInv, KillSwitchHolds
<1>9. Bounds'
  <2>1. barred' \subseteq Account \cup Key /\ letIn' \subseteq Account \cup Key
    BY <1>1 DEF Bounds, StoreInv
  <2> QED BY <1>1, <2>1 DEF Bounds
<1> QED BY <1>2, <1>3, <1>6, <1>7, <1>8, <1>9, TypeFromBounds DEF IInv

LEMMA KeyLostWhenBehind ==
  ASSUME NEW q, NEW row, WriteKey(q, row), handler[q].key \notin lost',
         handler[q].behind \in BOOLEAN
  PROVE  ~ handler[q].behind /\ handler[q].key \notin lost
BY DEF WriteKey

\* Of a key nobody else wrote since it was read, what was decided is on the copy.
LEMMA DecidedOfCopy ==
  ASSUME IInv, NEW q \in Handler, handler[q].held # NoRow, NEW row, WriteKey(q, row),
         handler[q].key \notin lost'
  PROVE  /\ handler[q].key \in barred => handler[q].held.revoked
         /\ handler[q].held.expires <= retires[handler[q].key]
<1>1. ~ handler[q].behind /\ handler[q].key \notin lost
  BY HeldKey, KeyLostWhenBehind
<1> QED BY <1>1, HeldKey DEF IInv, DecisionInv

\* Revoking is on the row that the next request reads.
LEMMA RevokeKeeps ==
  ASSUME IInv, NEW q \in Handler, RevokeKey(q)
  PROVE  IInv'
<1>k. PICK k : k = handler[q].key
  OBVIOUS
<1>1. /\ handler[q].op = "revokeKey"
      /\ WriteKey(q, [handler[q].held EXCEPT !.revoked = TRUE])
      /\ barred' = barred \cup {k}
      /\ UNCHANGED <<clock, accounts, wrong, retires, letIn, overlaps>>
  BY <1>k DEF RevokeKey
<1>2. handler[q].held # NoRow
  BY <1>1 DEF IInv, TypeInv, StoreInv, Holding
<1>3. PICK old \in OperatorKeyRecord : old = handler[q].held
  BY <1>2, HeldKey
<1>4. PICK row : row = [old EXCEPT !.revoked = TRUE]
  OBVIOUS
<1>5. row \in OperatorKeyRecord /\ row.revoked /\ row.expires = old.expires
  BY <1>4 DEF OperatorKeyRecord
<1>6. WriteKey(q, row)
  BY <1>1, <1>3, <1>4
<1>7. k \notin lost' => row.expires <= retires'[k]
  BY <1>k, <1>1, <1>2, <1>3, <1>5, <1>6, DecidedOfCopy
<1>8. old.expires \in Nat
  BY ForeverIsLast DEF OperatorKeyRecord
<1>9. k \in Key /\ row.expires <= handler[q].held.expires
  BY <1>k, <1>2, <1>3, <1>5, <1>8, HeldKey
<1>10. retires' \in [Key -> 0 .. Forever] /\ \A j \in Key : retires'[j] = retires[j]
  BY <1>1 DEF IInv, TypeInv, TypeOK
<1> QED BY <1>k, <1>1, <1>2, <1>5, <1>6, <1>7, <1>9, <1>10, KeyWriteKeeps

\* The key a rotation replaces expires by the end of the overlap, and no later than
\* it would have.
LEMMA RetireKeeps ==
  ASSUME IInv, NEW q \in Handler, RetireKey(q)
  PROVE  IInv'
<1>k. PICK k : k = handler[q].key
  OBVIOUS
<1>e. PICK due : due = clock + handler[q].span
  OBVIOUS
<1>1. /\ handler[q].op = "rotateKey"
      /\ retires' = [retires EXCEPT ![k] = IF due < @ THEN due ELSE @]
      /\ UNCHANGED <<clock, accounts, wrong, barred, letIn, overlaps>>
  BY <1>k, <1>e DEF RetireKey
<1>2. handler[q].held # NoRow
  BY <1>1 DEF IInv, TypeInv, StoreInv, Holding
<1>3. PICK old \in OperatorKeyRecord : old = handler[q].held
  BY <1>2, HeldKey
<1>4. /\ old.expires \in 0 .. Forever /\ Forever \in Nat /\ due \in 0 .. Forever
      /\ retires \in [Key -> 0 .. Forever] /\ k \in Key
  <2>1. handler[q].span \in Life \cup Overlap /\ clock \in 0 .. MaxClock
    BY DEF IInv, TypeInv, TypeOK, HandlerState
  <2> QED BY <1>k, <1>e, <1>2, <2>1, ForeverIsLast, HeldKey DEF OperatorKeyRecord, IInv, TypeInv, TypeOK
<1>5. PICK ends \in 0 .. Forever : ends = IF due < retires[k] THEN due ELSE retires[k]
  BY <1>4
<1>6. retires' = [retires EXCEPT ![k] = ends]
  BY <1>1, <1>5
<1>7. /\ retires' \in [Key -> 0 .. Forever] /\ retires'[k] = ends
      /\ \A j \in Key : j # k => retires'[j] = retires[j]
  BY <1>4, <1>6
<1>8. CASE old.expires > due
  <2>1. PICK row : row = [old EXCEPT !.expires = due]
    OBVIOUS
  <2>2. row \in OperatorKeyRecord /\ row.expires = due /\ row.revoked = old.revoked
    BY <1>4, <2>1 DEF OperatorKeyRecord
  <2>3. Retires(handler[q].held, handler[q].span) = due /\ due # handler[q].held.expires
    BY <1>e, <1>3, <1>4, <1>8 DEF Retires
  <2>4. WriteKey(q, row)
    BY <1>3, <2>1, <2>3 DEF RetireKey
  <2>5. k \notin lost' => (k \in barred' => row.revoked) /\ row.expires <= ends
    <3>1. k \notin lost' => (k \in barred => old.revoked) /\ old.expires <= retires[k]
      BY <1>k, <1>2, <1>3, <2>4, DecidedOfCopy
    <3>2. retires[k] \in Nat
      BY <1>4
    <3> QED BY <1>1, <1>4, <1>5, <1>8, <2>2, <3>1, <3>2
  <2>6. row.expires <= handler[q].held.expires
    BY <1>3, <1>4, <1>8, <2>2
  <2> QED BY <1>k, <1>1, <1>2, <1>4, <1>7, <2>2, <2>4, <2>5, <2>6, KeyWriteKeeps
<1>9. CASE ~ (old.expires > due)
  <2>1. Retires(handler[q].held, handler[q].span) = handler[q].held.expires
    BY <1>e, <1>3, <1>9 DEF Retires
  <2>2. Ends(q) /\ UNCHANGED <<keys, lost>>
    BY <2>1 DEF RetireKey
  <2>3. StoreInv /\ Bounds /\ CountInv /\ LateInv /\ DecisionInv
    BY TypeFromBounds DEF IInv
  <2>4. StoreInv'
    BY <1>1, <2>2, <2>3, StoreStays, EndsStore
  <2>5. LateInv' /\ (\A p \in Handler : AtDoor(handler[p]))'
    BY <1>1, <2>2, <2>3, IdleIsNotLate, HandlersMove DEF CountInv, StoreInv, Ends
  <2>6. CountInv'
    BY <1>1, <2>2, <2>3, <2>5 DEF CountInv, Exists
  <2>7. keys[k] # NoRow /\ (k \notin lost => keys[k].expires <= old.expires)
    BY <1>k, <1>2, <1>3, HeldKey DEF Exists
  <2>8. k \notin lost => keys[k].expires <= ends
    <3>1. ASSUME k \notin lost PROVE keys[k].expires <= ends
      <4>1. keys[k].expires <= old.expires /\ keys[k].expires <= retires[k]
        BY <1>4, <2>3, <2>7, <3>1 DEF DecisionInv, Exists
      <4>2. keys[k] \in OperatorKeyRecord
        BY <1>4, <2>3, <2>7 DEF StoreInv
      <4>3. keys[k].expires \in Nat /\ retires[k] \in Nat
        BY <1>4, <4>2 DEF OperatorKeyRecord
      <4> QED BY <1>4, <1>5, <1>9, <4>1, <4>3
    <3> QED BY <3>1
  <2>9. DecisionInv'
    <3>1. \A a \in Account \ lost : a \in barred => accounts[a] # NoRow /\ accounts[a].disabled
      BY <2>3 DEF DecisionInv, Exists
    <3>2. ASSUME NEW j \in Key PROVE
            /\ j \notin lost => /\ j \in barred => keys[j] # NoRow /\ keys[j].revoked
                                /\ keys[j] # NoRow => keys[j].expires <= retires'[j]
            /\ keys[j] = NoRow => retires'[j] = Forever
      <4>1. CASE j = k
        BY <1>7, <2>3, <2>7, <2>8, <4>1 DEF DecisionInv, Exists
      <4>2. CASE j # k
        BY <1>7, <2>3, <4>2 DEF DecisionInv, Exists
      <4> QED BY <4>1, <4>2
    <3> QED BY <1>1, <2>2, <3>1, <3>2 DEF DecisionInv, Exists
  <2>10. KillSwitchHolds' /\ Bounds'
    BY <1>1, <1>7, <2>2, <2>3 DEF IInv, KillSwitchHolds, Bounds
  <2> QED BY <2>4, <2>5, <2>6, <2>9, <2>10, TypeFromBounds DEF IInv
<1> QED BY <1>8, <1>9

\* Whatever key is accepted had nothing against it from its start, or was lost.
LEMMA UseKeeps ==
  ASSUME IInv, NEW q \in Handler, UseKey(q)
  PROVE  IInv'
<1>k. PICK k : k = handler[q].key
  OBVIOUS
<1>1. /\ handler[q].op = "authenticateKey" /\ handler[q].step = "update"
      /\ WriteKey(q, handler[q].held)
      /\ letIn' = letIn \cup handler[q].late
      /\ UNCHANGED <<clock, accounts, wrong, barred, retires, overlaps>>
  BY DEF UseKey, LetIn, decisions
<1>2. handler[q].held # NoRow
  BY <1>1 DEF IInv, TypeInv, StoreInv, Holding
<1>3. PICK row \in OperatorKeyRecord : row = handler[q].held
  BY <1>2, HeldKey
<1>4. k \notin lost' => (k \in barred' => row.revoked) /\ row.expires <= retires'[k]
  BY <1>k, <1>1, <1>2, <1>3, DecidedOfCopy
<1>5. row.expires \in Nat
  BY ForeverIsLast DEF OperatorKeyRecord
<1>6. k \in Key /\ row.expires <= handler[q].held.expires
  BY <1>k, <1>2, <1>3, <1>5, HeldKey
<1>7. retires' \in [Key -> 0 .. Forever] /\ \A j \in Key : retires'[j] = retires[j]
  BY <1>1 DEF IInv, TypeInv, TypeOK
<1>8. letIn' \subseteq letIn \cup lost
  BY <1>1 DEF IInv, LateInv, RightlyLate
<1> QED BY <1>k, <1>1, <1>2, <1>3, <1>4, <1>6, <1>7, <1>8, KeyWriteKeeps

----------------------------------------------------------------------------

\* A lock that ends finds a counter that has begun again.
LEMMA TickKeeps ==
  ASSUME IInv, Tick
  PROVE  IInv'
<1>1. StoreInv /\ Bounds /\ CountInv /\ LateInv /\ DecisionInv
  BY TypeFromBounds DEF IInv
<1>2. /\ clock < MaxClock /\ clock' = clock + 1
      /\ wrong' = [a \in Account |->
                     IF Exists(accounts, a) /\ accounts[a].locked = clock + 1
                       THEN 0 ELSE wrong[a]]
      /\ UNCHANGED <<accounts, keys, handler, barred, retires, letIn, overlaps, lost>>
  BY DEF Tick, decisions
<1>3. clock \in Nat /\ MaxClock \in Nat /\ wrong \in [Account -> Nat]
      /\ MaxFailedLogins \in Nat /\ Lockout \in Nat
  BY <1>1, OperatorAssumption DEF Bounds
<1>4. StoreInv'
  BY <1>1, <1>2 DEF StoreInv, CopyInv, Faithful, Exists, Holding
<1>5. Bounds'
  <2>1. clock' \in 0 .. MaxClock
    BY <1>1, <1>2, <1>3 DEF Bounds
  <2>2. wrong' \in [Account -> Nat]
    BY <1>2, <1>3
  <2> QED BY <1>1, <1>2, <2>1, <2>2 DEF Bounds
<1>6. LateInv'
  BY <1>1, <1>2 DEF LateInv, RightlyLate
<1>7. DecisionInv' /\ KillSwitchHolds'
  BY <1>1, <1>2 DEF IInv, DecisionInv, KillSwitchHolds, Exists
<1>8. ASSUME NEW p \in Handler PROVE AtDoor(handler[p])'
  <2>1. CASE handler[p].step = "check"
    <3>1. handler[p].row \in OperatorRecord /\ handler[p].row.locked <= clock
      BY <1>1, <2>1 DEF CountInv, AtDoor, StoreInv, Holding, HandlerState
    <3>2. handler[p].row.locked \in Nat
      BY <1>3, <3>1 DEF OperatorRecord
    <3>3. handler[p].row.locked <= clock + 1
      BY <1>3, <3>1, <3>2
    <3> QED BY <1>2, <3>3 DEF AtDoor
  <2>2. CASE handler[p].step # "check"
    BY <1>2, <2>2 DEF AtDoor
  <2> QED BY <2>1, <2>2
<1>9. \A a \in Account : accounts[a] = NoRow => wrong'[a] = 0
  BY <1>1, <1>2 DEF CountInv, Exists
<1>10. ASSUME NEW a \in Account \ lost, accounts[a] # NoRow
       PROVE  IF accounts[a].locked <= clock + 1 THEN wrong'[a] = accounts[a].failed
              ELSE accounts[a].failed = 0 /\ wrong'[a] <= MaxFailedLogins
  <2>1. accounts[a] \in OperatorRecord
    BY <1>1, <1>10 DEF StoreInv
  <2>2. accounts[a].locked \in Nat
    BY <1>3, <2>1 DEF OperatorRecord
  <2>3. wrong'[a] = IF accounts[a].locked = clock + 1 THEN 0 ELSE wrong[a]
    BY <1>2, <1>10 DEF Exists
  <2>4. IF accounts[a].locked <= clock THEN wrong[a] = accounts[a].failed
        ELSE accounts[a].failed = 0 /\ wrong[a] <= MaxFailedLogins
    BY <1>1, <1>10 DEF CountInv, Exists
  <2> QED BY <1>3, <2>2, <2>3, <2>4
<1>11. CountInv'
  BY <1>2, <1>8, <1>9, <1>10 DEF CountInv, Exists
<1> QED BY <1>4, <1>5, <1>6, <1>7, <1>11, TypeFromBounds DEF IInv

LEMMA InvInit == Init => IInv
<1> SUFFICES ASSUME Init PROVE IInv
  OBVIOUS
<1>1. \A p \in Handler : handler[p] = Idle
  BY DEF Init
<1>2. StoreInv
  <2>1. handler \in [Handler -> HandlerState]
    BY IdleHolds DEF Init
  <2>2. \A p \in Handler : Holding(handler[p]) /\ Faithful(handler[p])
    BY <1>1, IdleHolds DEF Faithful
  <2> QED BY <2>1, <2>2 DEF Init, StoreInv, CopyInv
<1>3. Bounds
  BY ForeverIsLast, OperatorAssumption DEF Init, Bounds
<1>4. LateInv /\ DecisionInv /\ KillSwitchHolds
  BY <1>1, IdleIsNotLate DEF Init, LateInv, DecisionInv, KillSwitchHolds, Exists
<1>5. CountInv
  BY <1>1, IdleIsNotLate DEF Init, CountInv, Exists
<1> QED BY <1>2, <1>3, <1>4, <1>5, TypeFromBounds DEF IInv

LEMMA InvNext == IInv /\ [Next]_vars => IInv'
<1> SUFFICES ASSUME IInv, [Next]_vars PROVE IInv'
  OBVIOUS
<1>1. CASE Tick
  BY <1>1, TickKeeps
<1>2. ASSUME NEW q \in Handler, Request(q) PROVE IInv'
  BY <1>2, RequestKeeps
<1>3. ASSUME NEW q \in Handler, Step(q) PROVE IInv'
  <2>1. CASE AskForCode(q)
    BY <2>1, EndsKeeps DEF AskForCode
  <2>2. CASE \E k \in Key : MintKey(q, k)
    BY <2>2, MintKeeps
  <2> QED BY <1>3, <2>1, <2>2, CreateKeeps, SetDisabledKeeps, FailKeeps, PassKeeps, OwnerKeeps,
             RevokeKeeps, RetireKeeps, UseKeeps DEF Step
<1>4. ASSUME NEW q \in Handler, Stop(q) PROVE IInv'
  BY <1>4, EndsKeeps DEF Stop
<1>5. CASE UNCHANGED vars
  BY <1>5 DEF vars, history, decisions, IInv, TypeInv, TypeOK, StoreInv, CopyInv, Faithful,
              DecisionInv, LateInv, RightlyLate, CountInv, AtDoor, KillSwitchHolds, Exists
<1> QED BY <1>1, <1>2, <1>3, <1>4, <1>5 DEF Next

LEMMA Invariance == Spec => []IInv
<1> QED BY InvInit, InvNext, PTL DEF Spec

\* The rows keep to their columns: a counter of failed sign-ins never reaches the
\* bound that would have locked the account, and no expiry is later than forever
\* (countFailure, rotateKey).
THEOREM TypeCorrect == Spec => []TypeOK
<1>1. IInv => TypeOK
  BY DEF IInv, TypeInv
<1> QED BY <1>1, Invariance, PTL

\* Disabling an operator, revoking a key and rotating it out hold against every
\* later request, unless a handler wrote the row back from an old copy
\* (setDisabled, revokeKey, rotateKey, login, authenticateKey).
THEOREM DecisionsHold == Spec => []KillSwitchHolds
<1>1. IInv => KillSwitchHolds
  BY DEF IInv
<1> QED BY <1>1, Invariance, PTL

\* Between two openings an account takes the configured number of wrong answers at
\* most, unless a handler wrote it back from an old copy (login, countFailure).
THEOREM GuessesAreBounded == Spec => []GuessesBounded
<1>1. ASSUME IInv PROVE GuessesBounded
  <2>1. SUFFICES ASSUME NEW a \in Account, a \notin lost PROVE wrong[a] <= MaxFailedLogins
    BY DEF GuessesBounded
  <2>2. CountInv /\ accounts \in [Account -> OperatorRecord \cup {NoRow}]
        /\ MaxFailedLogins \in Nat \ {0}
    BY <1>1, OperatorAssumption DEF IInv, TypeInv, StoreInv
  <2>3. CASE accounts[a] = NoRow
    BY <2>2, <2>3 DEF CountInv, Exists
  <2>4. CASE accounts[a] # NoRow
    <3>1. accounts[a].failed \in 0 .. MaxFailedLogins - 1
      BY <2>2, <2>4 DEF OperatorRecord
    <3> QED BY <2>1, <2>2, <2>4, <3>1 DEF CountInv, Exists
  <2> QED BY <2>3, <2>4
<1> QED BY <1>1, Invariance, PTL

----------------------------------------------------------------------------
(* The one-time codes of residents: challenges in their order.              *)

\* A set of challenges has a first and a last one.
LEMMA FirstAndLast ==
  ASSUME NEW S \in SUBSET Challenge, S # {}
  PROVE  Min(S) \in S /\ Max(S) \in S
<1>0. MaxIssued \in Nat
  BY CodeAssumption, NoChallengeRowAssumption
<1>1. \E x \in S : \A y \in S : x <= y
  <2>1. S \subseteq Nat
    BY <1>0 DEF Challenge
  <2>2. PICK x \in S : \A y \in S : ~ (<<y, x>> \in OpToRel(<, Nat))
    BY <2>1, NatLessThanWellFounded, WFMin
  <2>3. ASSUME NEW y \in S PROVE x <= y
    <3>1. x \in Nat /\ y \in Nat
      BY <2>1
    <3>2. ~ (y < x)
      BY <2>2, <3>1 DEF OpToRel
    <3> QED BY <3>1, <3>2
  <2> QED BY <2>3
<1>2. \E x \in S : \A y \in S : x >= y
  <2> DEFINE T == {MaxIssued - c : c \in S}
  <2>1. T \subseteq Nat /\ T # {}
    <3>1. T \subseteq Nat
      BY <1>0 DEF Challenge
    <3> QED BY <3>1
  <2>2. PICK x \in T : \A y \in T : ~ (<<y, x>> \in OpToRel(<, Nat))
    <3> HIDE DEF T
    <3> QED BY <2>1, NatLessThanWellFounded, WFMin
  <2>3. ASSUME NEW y \in T PROVE x <= y
    <3> HIDE DEF T
    <3>1. x \in Nat /\ y \in Nat
      BY <2>1
    <3>2. ~ (y < x)
      BY <2>2, <3>1 DEF OpToRel
    <3> QED BY <3>1, <3>2
  <2>4. PICK c \in S : x = MaxIssued - c
    OBVIOUS
  <2>5. \A d \in S : c >= d
    <3> TAKE d \in S
    <3>1. x <= MaxIssued - d
      BY <2>3
    <3> QED BY <3>1, <2>4, <1>0 DEF Challenge
  <2> QED BY <2>5
<1> QED BY <1>1, <1>2 DEF Min, Max

\* Challenges are made in a row, so the number of them names the next.
Segment ==
  /\ IsFiniteSet(Issued)
  /\ Cardinality(Issued) \in Nat
  /\ Issued = 1 .. Cardinality(Issued)

\* What a handler holds at each step: the challenge it will write is a row.
CodeHolding(h, issued) ==
  /\ h.step \in {"send", "window", "write"} => h.held \in issued /\ h.copy # NoChallengeRow
  /\ h.step \in {"idle", "save"} => h.held = NoChallenge
  /\ h.step \in {"window", "write"} => HasAttempts(h.copy)

CodeTypeInv == OtpTypeOK /\ Segment /\ \A q \in Requester : CodeHolding(request[q], Issued)

\* A code that signed somebody in: its row says so, and whoever else holds the
\* row read it before that.
Spent(c) ==
  /\ uses[c] = 1
  /\ challenges[c].consumed
  /\ \A q \in Requester : request[q].held = c => request[q].behind

SpentInv ==
  \A c \in Challenge : uses[c] # 0 => c \in Issued /\ (c \in stale \/ Spent(c))

\* Nobody holds the row of a spent code as if it were as it was read.
NotFresh(h) ==
  h.held \in Challenge /\ h.held \notin stale /\ uses[h.held] # 0 => h.behind

LEMMA IdleHoldsNone ==
  /\ NoRequest \in RequestState /\ CodeHolding(NoRequest, Issued)
  /\ NoRequest.held = NoChallenge /\ NoRequest.step = "idle"
BY DEF NoRequest, RequestState, CodeHolding

LEMMA NoneIsNoChallenge ==
  NoChallenge \notin Challenge /\ MaxIssued \in Nat
BY CodeAssumption, NoChallengeRowAssumption DEF NoChallenge, Challenge

LEMMA InitCodes == OtpInit => CodeTypeInv /\ SpentInv
<1> SUFFICES ASSUME OtpInit PROVE CodeTypeInv /\ SpentInv
  OBVIOUS
<1>1. Issued = {}
  BY DEF OtpInit, Issued
<1>2. Segment
  <2>1. IsFiniteSet(Issued) /\ Cardinality(Issued) = 0
    BY <1>1, FS_EmptySet
  <2> QED BY <1>1, <2>1 DEF Segment
<1>3. OtpTypeOK
  BY <1>1, IdleHoldsNone, CodeAssumption, NoChallengeRowAssumption DEF OtpInit, OtpTypeOK
<1>4. \A q \in Requester : CodeHolding(request[q], Issued)
  BY IdleHoldsNone DEF OtpInit
<1>5. SpentInv
  BY DEF OtpInit, SpentInv
<1> QED BY <1>2, <1>3, <1>4, <1>5 DEF CodeTypeInv

\* A handler that goes on, holding what its step needs; if it holds a challenge
\* that was used, it is behind.
LEMMA GoesOn ==
  ASSUME CodeTypeInv, SpentInv, NEW q \in Requester, NEW next \in RequestState,
         OtpGoes(q, next), CodeHolding(next, Issued),
         NotFresh(next),
         UNCHANGED <<challenges, uses, stale>>
  PROVE  /\ request' \in [Requester -> RequestState]
         /\ \A p \in Requester : CodeHolding(request'[p], Issued)
         /\ Issued' = Issued /\ Segment' /\ SpentInv'
<1>1. /\ request' \in [Requester -> RequestState]
      /\ \A p \in Requester : request'[p] = IF p = q THEN next ELSE request[p]
  BY DEF OtpGoes, CodeTypeInv, OtpTypeOK
<1>2. \A p \in Requester : CodeHolding(request'[p], Issued)
  BY <1>1 DEF CodeTypeInv
<1>3. Issued' = Issued
  BY DEF Issued
<1>4. Segment'
  BY <1>3 DEF Segment, CodeTypeInv
<1>5. SpentInv'
  BY <1>1, <1>3 DEF SpentInv, Spent, NotFresh
<1> QED BY <1>1, <1>2, <1>3, <1>4, <1>5

\* The same, for the types.
LEMMA GoesOnTyped ==
  ASSUME CodeTypeInv, SpentInv, NEW q \in Requester, NEW next \in RequestState,
         OtpGoes(q, next), CodeHolding(next, Issued),
         NotFresh(next),
         UNCHANGED <<challenges, time, otpHistory>>, crossings' \in 0 .. MaxCrossings
  PROVE  CodeTypeInv' /\ SpentInv'
<1>1. UNCHANGED <<challenges, uses, stale, expired, past, misses>>
  BY DEF time, otpHistory
<1>2. /\ request' \in [Requester -> RequestState]
      /\ \A p \in Requester : CodeHolding(request'[p], Issued)
      /\ Issued' = Issued /\ Segment' /\ SpentInv'
  BY <1>1, GoesOn
<1>3. OtpTypeOK'
  BY <1>1, <1>2 DEF OtpTypeOK, CodeTypeInv
<1> QED BY <1>2, <1>3 DEF CodeTypeInv

LEMMA StopsTyped ==
  ASSUME CodeTypeInv, SpentInv, NEW q \in Requester, OtpGoes(q, NoRequest),
         UNCHANGED <<challenges, time, otpHistory, crossings>>
  PROVE  CodeTypeInv' /\ SpentInv'
<1>1. crossings' \in 0 .. MaxCrossings
  BY DEF CodeTypeInv, OtpTypeOK
<1> QED BY <1>1, IdleHoldsNone, NoneIsNoChallenge, GoesOnTyped DEF NotFresh

LEMMA BeginsTyped ==
  ASSUME CodeTypeInv, SpentInv, NEW q \in Requester, NEW next \in RequestState,
         OtpBegins(q, next), CodeHolding(next, Issued),
         NotFresh(next)
  PROVE  CodeTypeInv' /\ SpentInv'
<1>1. crossings' \in 0 .. MaxCrossings
  BY CodeAssumption, NoChallengeRowAssumption DEF OtpBegins, CodeTypeInv, OtpTypeOK
<1> QED BY <1>1, GoesOnTyped DEF OtpBegins

LEMMA RequestCodes ==
  ASSUME CodeTypeInv, SpentInv, NEW q \in Requester, OtpRequest(q)
  PROVE  CodeTypeInv' /\ SpentInv'
<1>1. CASE RequestIssue(q)
  <2>1. PICK next : next = [NoRequest EXCEPT !.step = "save"]
    OBVIOUS
  <2>2. /\ next \in RequestState /\ CodeHolding(next, Issued)
        /\ next.held = NoChallenge
    BY <2>1 DEF NoRequest, RequestState, CodeHolding
  <2> QED BY <1>1, <2>1, <2>2, NoneIsNoChallenge, BeginsTyped
         DEF RequestIssue, NotFresh
<1>2. ASSUME NEW right \in BOOLEAN, RequestVerify(q, right)
      PROVE  CodeTypeInv' /\ SpentInv'
  <2>1. PICK c : c = Newest(Active)
    OBVIOUS
  <2>2. c \in Active
    <3>1. Active # {} /\ Active \in SUBSET Challenge
      BY <1>2 DEF RequestVerify, Newest, Active, Issued
    <3> QED BY <2>1, <3>1, FirstAndLast DEF Newest
  <2>3. PICK row : row = challenges[c]
    OBVIOUS
  <2>4. /\ c \in Challenge /\ c \in Issued
        /\ row \in OtpChallengeRecord /\ row # NoChallengeRow
        /\ ~ row.consumed /\ HasAttempts(row)
    BY <1>2, <2>1, <2>2, <2>3 
       DEF Active, Issued, RequestVerify, CodeTypeInv, OtpTypeOK
  <2>5. PICK next : next = [NoRequest EXCEPT !.step = "window", !.held = c, !.copy = row,
                                          !.right = right]
    OBVIOUS
  <2>6. /\ next \in RequestState /\ next.held = c /\ next.copy = row /\ next.step = "window"
    BY <2>4, <2>5 DEF NoRequest, RequestState
  <2>7. CodeHolding(next, Issued)
    BY <2>4, <2>6 DEF CodeHolding
  <2>8. c \notin stale => uses[c] = 0
    BY <2>3, <2>4 DEF SpentInv, Spent
  <2>9. OtpBegins(q, next)
    BY <1>2, <2>1, <2>3, <2>5 DEF RequestVerify
  <2> QED BY <2>6, <2>7, <2>8, <2>9, BeginsTyped DEF NotFresh
<1> QED BY <1>1, <1>2 DEF OtpRequest

LEMMA CountWindowCodes ==
  ASSUME CodeTypeInv, SpentInv, NEW q \in Requester, CountWindow(q)
  PROVE  CodeTypeInv' /\ SpentInv'
<1>1. CASE OtpGoes(q, NoRequest)
  BY <1>1, StopsTyped DEF CountWindow
<1>2. CASE OtpGoes(q, [request[q] EXCEPT !.step = "write"])
  <2>1. /\ request[q] \in RequestState /\ CodeHolding(request[q], Issued)
        /\ request[q].step = "window"
    BY DEF CodeTypeInv, OtpTypeOK, CountWindow
  <2>2. PICK next : next = [request[q] EXCEPT !.step = "write"]
    OBVIOUS
  <2>3. /\ next \in RequestState /\ next.step = "write" /\ next.held = request[q].held
        /\ next.copy = request[q].copy /\ next.behind = request[q].behind
    BY <2>1, <2>2 DEF RequestState
  <2>4. CodeHolding(next, Issued)
    BY <2>1, <2>3 DEF CodeHolding
  <2>5. NotFresh(next)
    BY <2>3 DEF SpentInv, Spent, NotFresh
  <2>6. crossings' \in 0 .. MaxCrossings
    BY DEF CodeTypeInv, OtpTypeOK, CountWindow
  <2> QED BY <1>2, <2>2, <2>3, <2>4, <2>5, <2>6, GoesOnTyped DEF CountWindow
<1> QED BY <1>1, <1>2 DEF CountWindow

\* The next challenge is one nobody used and nobody holds.
LEMMA SaveCodes ==
  ASSUME CodeTypeInv, SpentInv, NEW q \in Requester, SaveChallenge(q)
  PROVE  CodeTypeInv' /\ SpentInv'
<1>1. PICK n \in Nat : n = Cardinality(Issued) /\ Issued = 1 .. n
  BY DEF CodeTypeInv, Segment
<1>2. PICK c : c = n + 1
  OBVIOUS
<1>c. c = Cardinality(Issued) + 1
  BY <1>1, <1>2
<1>3. c \in Challenge /\ c \notin Issued
  <2>2. c \in Challenge
    BY <1>c DEF SaveChallenge
  <2>3. c \notin 1 .. n
    BY <1>2
  <2> QED BY <1>1, <2>2, <2>3
<1>4. NewChallenge \in OtpChallengeRecord /\ NewChallenge # NoChallengeRow
  <2>1. NewChallenge \in OtpChallengeRecord
    BY CodeAssumption, NoChallengeRowAssumption DEF NewChallenge, OtpChallengeRecord
  <2> QED BY <2>1, CodeAssumption, NoChallengeRowAssumption
<1>5. /\ challenges' \in [Challenge -> OtpChallengeRecord \cup {NoChallengeRow}]
      /\ challenges'[c] = NewChallenge
      /\ \A d \in Challenge : d # c => challenges'[d] = challenges[d]
  BY <1>c, <1>3, <1>4 DEF SaveChallenge, CodeTypeInv, OtpTypeOK
<1>6. Issued' = Issued \cup {c}
  BY <1>3, <1>4, <1>5 DEF Issued
<1>7. Issued' = 1 .. c /\ Segment'
  <2>1. Issued' = 1 .. c
    <3>1. 1 .. c = (1 .. n) \cup {c}
      BY <1>2
    <3> QED BY <1>1, <1>6, <3>1
  <2>2. IsFiniteSet(Issued') /\ Cardinality(Issued') = c
    <3>1. IsFiniteSet(Issued)
      BY DEF CodeTypeInv, Segment
    <3>2. /\ IsFiniteSet(Issued \cup {c})
          /\ Cardinality(Issued \cup {c}) = Cardinality(Issued) + 1
      BY <1>3, <3>1, FS_AddElement
    <3> QED BY <1>1, <1>2, <1>6, <3>2
  <2>3. c \in Nat
    BY <1>2
  <2> QED BY <2>1, <2>2, <2>3 DEF Segment
<1>8. request[q] \in RequestState /\ request[q].step = "save"
  BY DEF CodeTypeInv, OtpTypeOK, SaveChallenge
<1>9. PICK next : next = [request[q] EXCEPT !.step = "send", !.held = c,
                                           !.copy = NewChallenge]
  OBVIOUS
<1>10. /\ next \in RequestState /\ next.held = c
       /\ next.copy = NewChallenge /\ next.step = "send"
  BY <1>3, <1>4, <1>8, <1>9 DEF RequestState
<1>11. /\ request' \in [Requester -> RequestState]
       /\ \A p \in Requester : request'[p] = IF p = q THEN next ELSE request[p]
  BY <1>c, <1>9, <1>10 DEF SaveChallenge, OtpGoes, CodeTypeInv, OtpTypeOK
<1>12. \A p \in Requester : CodeHolding(request'[p], Issued')
  <2>1. CodeHolding(next, Issued')
    BY <1>4, <1>6, <1>10 DEF CodeHolding
  <2>2. \A p \in Requester : CodeHolding(request[p], Issued')
    BY <1>6 DEF CodeTypeInv, CodeHolding
  <2> QED BY <1>11, <2>1, <2>2
<1>13. UNCHANGED <<expired, past, uses, misses, stale, crossings>>
  BY DEF SaveChallenge, time, otpHistory
<1>14. OtpTypeOK'
  BY <1>5, <1>6, <1>11, <1>13 DEF OtpTypeOK, CodeTypeInv
<1>15. SpentInv'
  <2>1. uses[c] = 0
    BY <1>3 DEF SpentInv
  <2> QED BY <1>5, <1>6, <1>10, <1>11, <1>13, <2>1 DEF SpentInv, Spent
<1> QED BY <1>7, <1>12, <1>14 , <1>15 DEF CodeTypeInv

\* A row written back from a copy.  Who else holds it is behind from then on.
LEMMA UpdateCodes ==
  ASSUME CodeTypeInv, NEW q \in Requester, NEW row \in OtpChallengeRecord,
         Update(q, row),
         request[q].held \in Issued,
         UNCHANGED <<time, crossings>>,
         uses' \in [Challenge -> Nat], misses' \in [Challenge -> Nat]
  PROVE  /\ CodeTypeInv'
         /\ Issued' = Issued
         /\ challenges'[request[q].held] = row
         /\ \A d \in Challenge : d # request[q].held => challenges'[d] = challenges[d]
         /\ stale' = IF request[q].behind THEN stale \cup {request[q].held} ELSE stale
         /\ \A p \in Requester : p # q =>
              /\ request'[p].held = request[p].held /\ request'[p].copy = request[p].copy
              /\ request'[p].step = request[p].step
              /\ request[p].behind \/ request[p].held = request[q].held => request'[p].behind
         /\ request'[q].held = NoChallenge /\ request'[q].step = "idle"
<1>1. PICK c : c = request[q].held
  OBVIOUS
<1>2. c \in Challenge /\ c \in Issued /\ row # NoChallengeRow
  BY <1>1, CodeAssumption, NoChallengeRowAssumption DEF Issued
<1>3. /\ challenges' \in [Challenge -> OtpChallengeRecord \cup {NoChallengeRow}]
      /\ challenges'[c] = row
      /\ \A d \in Challenge : d # c => challenges'[d] = challenges[d]
  BY <1>1, <1>2 DEF Update, CodeTypeInv, OtpTypeOK
<1>4. Issued' = Issued
  BY <1>2, <1>3 DEF Issued
<1>5. stale' = IF request[q].behind THEN stale \cup {c} ELSE stale
  BY <1>1 DEF Update
<1>6. stale' \subseteq Issued
  BY <1>2, <1>5 DEF CodeTypeInv, OtpTypeOK
<1>7. ASSUME NEW p \in Requester
      PROVE  /\ request'[p] \in RequestState /\ CodeHolding(request'[p], Issued)
             /\ p # q => /\ request'[p].held = request[p].held
                         /\ request'[p].copy = request[p].copy
                         /\ request'[p].step = request[p].step
                         /\ request[p].behind \/ request[p].held = c => request'[p].behind
             /\ p = q => request'[p].held = NoChallenge /\ request'[p].step = "idle"
  <2>1. CASE p = q
    <3>1. request'[p] = NoRequest
      BY <2>1 DEF Update
    <3> QED BY <2>1, <3>1, IdleHoldsNone
  <2>2. CASE p # q
    <3>1. PICK b \in BOOLEAN : b = (request[p].behind \/ request[p].held = c)
      OBVIOUS
    <3>2. PICK h \in RequestState : h = request[p]
      BY DEF CodeTypeInv, OtpTypeOK
    <3>3. request'[p] = [h EXCEPT !.behind = b]
      BY <1>1, <2>2, <3>1, <3>2 DEF Update
    <3>4. PICK next : next = [h EXCEPT !.behind = b]
      OBVIOUS
    <3>5. /\ next \in RequestState /\ next.step = h.step /\ next.held = h.held
          /\ next.copy = h.copy /\ next.behind = b
      BY <3>4 DEF RequestState
    <3>6. CodeHolding(h, Issued)
      BY <3>2 DEF CodeTypeInv
    <3>7. CodeHolding(next, Issued)
      BY <3>5, <3>6 DEF CodeHolding
    <3> QED BY <2>2, <3>1, <3>2, <3>3, <3>4, <3>5, <3>7
  <2> QED BY <2>1, <2>2
<1>8. request' \in [Requester -> RequestState]
  BY <1>7 DEF Update
<1>9. UNCHANGED <<expired, past, crossings>>
  BY DEF time
<1>10. OtpTypeOK'
  BY <1>3, <1>4, <1>6, <1>8, <1>9 DEF OtpTypeOK, CodeTypeInv
<1>11. Segment'
  BY <1>4 DEF Segment, CodeTypeInv
<1>12. CodeTypeInv'
  BY <1>4, <1>7, <1>10, <1>11 DEF CodeTypeInv
<1> QED BY <1>1, <1>3, <1>4, <1>5, <1>7, <1>12

LEMMA WriteHolds ==
  ASSUME CodeTypeInv, NEW q \in Requester,
         request[q].step \in {"send", "window", "write"}
  PROVE  /\ request[q].held \in Issued /\ request[q].held \in Challenge
         /\ request[q].copy \in OtpChallengeRecord
         /\ request[q].step = "write" => request[q].copy.failed < MaxAttemptsPerChallenge
<1>1. request[q] \in RequestState /\ CodeHolding(request[q], Issued)
  BY DEF CodeTypeInv, OtpTypeOK
<1> QED BY <1>1 DEF CodeHolding, RequestState, HasAttempts, Issued

\* A write that signs nobody in: of a code already used it is an old copy.
LEMMA UpdateSpentInv ==
  ASSUME CodeTypeInv, SpentInv, NEW q \in Requester,
         NEW row \in OtpChallengeRecord,
         Update(q, row),
         request[q].held \in Issued, UNCHANGED <<time, crossings, uses>>,
         misses' \in [Challenge -> Nat]
  PROVE  CodeTypeInv' /\ SpentInv'
<1>0. uses' \in [Challenge -> Nat]
  BY DEF CodeTypeInv, OtpTypeOK
<1>1. /\ CodeTypeInv' /\ Issued' = Issued
      /\ \A d \in Challenge : d # request[q].held => challenges'[d] = challenges[d]
      /\ stale' = IF request[q].behind THEN stale \cup {request[q].held} ELSE stale
      /\ \A p \in Requester : p # q =>
           /\ request'[p].held = request[p].held
           /\ request[p].behind \/ request[p].held = request[q].held => request'[p].behind
      /\ request'[q].held = NoChallenge
  BY <1>0, UpdateCodes
<1>2. ASSUME NEW d \in Challenge, uses'[d] # 0
      PROVE  d \in Issued' /\ (d \in stale' \/ Spent(d)')
  <2>1. uses[d] # 0 /\ d \in Issued /\ (d \in stale \/ Spent(d))
    BY <1>2 DEF SpentInv
  <2>2. d \in stale => d \in stale'
    BY <1>1
  <2>3. CASE Spent(d) /\ d = request[q].held
    BY <1>1, <2>3 DEF Spent
  <2>4. CASE Spent(d) /\ d # request[q].held
    <3>1. uses'[d] = 1 /\ challenges'[d].consumed
      BY <1>1, <2>4 DEF Spent
    <3>2. ASSUME NEW p \in Requester, request'[p].held = d PROVE request'[p].behind
      <4>1. p # q
        BY <1>1, <3>2, NoneIsNoChallenge
      <4>2. request[p].held = d
        BY <1>1, <3>2, <4>1
      <4>3. request[p].behind
        BY <2>4, <4>2 DEF Spent
      <4> QED BY <1>1, <4>1, <4>3
    <3>3. Spent(d)'
      BY <3>1, <3>2 DEF Spent
    <3> QED BY <1>1, <2>1, <3>3
  <2> QED BY <1>1, <2>1, <2>2, <2>3, <2>4
<1> QED BY <1>1, <1>2 DEF SpentInv

LEMMA WriteCodes ==
  ASSUME CodeTypeInv, SpentInv, NEW q \in Requester,
         RecordChannel(q) \/ CountFailure(q)
  PROVE  CodeTypeInv' /\ SpentInv'
<1>1. CASE RecordChannel(q)
  <2>1. misses' \in [Challenge -> Nat]
    BY <1>1 DEF RecordChannel, CodeTypeInv, OtpTypeOK
  <2> QED BY <1>1, <2>1, WriteHolds, UpdateSpentInv DEF RecordChannel
<1>2. CASE CountFailure(q)
  <2>1. PICK c : c = request[q].held
    OBVIOUS
  <2>2. PICK copy : copy = request[q].copy
    OBVIOUS
  <2>3. /\ c \in Challenge /\ c \in Issued /\ copy \in OtpChallengeRecord
        /\ copy.failed < MaxAttemptsPerChallenge
    BY <1>2, <2>1, <2>2, WriteHolds DEF CountFailure
  <2>4. PICK row : row = [copy EXCEPT !.failed = @ + 1]
    OBVIOUS
  <2>5. row \in OtpChallengeRecord
    BY <2>3, <2>4, CodeAssumption, NoChallengeRowAssumption DEF OtpChallengeRecord
  <2>6. misses' \in [Challenge -> Nat]
    BY <1>2, <2>1, <2>3 DEF CountFailure, CodeTypeInv, OtpTypeOK
  <2> QED BY <1>2, <2>1, <2>2, <2>3, <2>4, <2>5, <2>6, UpdateSpentInv DEF CountFailure
<1> QED BY <1>1, <1>2

\* The first use of a code consumes it in the row, and every other copy is old.
LEMMA ConsumeCodes ==
  ASSUME CodeTypeInv, SpentInv, NEW q \in Requester, ConsumeChallenge(q)
  PROVE  CodeTypeInv' /\ SpentInv'
<1>1. PICK c : c = request[q].held
  OBVIOUS
<1>2. PICK copy : copy = request[q].copy
  OBVIOUS
<1>3. c \in Challenge /\ c \in Issued /\ copy \in OtpChallengeRecord
  BY <1>1, <1>2, WriteHolds DEF ConsumeChallenge
<1>4. PICK row : row = Consumed(copy)
  OBVIOUS
<1>5. row \in OtpChallengeRecord /\ row.consumed
  BY <1>3, <1>4 DEF Consumed, OtpChallengeRecord
<1>6. /\ uses' \in [Challenge -> Nat] /\ uses'[c] = uses[c] + 1
      /\ \A d \in Challenge : d # c => uses'[d] = uses[d]
  BY <1>1, <1>3 DEF ConsumeChallenge, CodeTypeInv, OtpTypeOK
<1>7. /\ UNCHANGED <<time, crossings>> /\ misses' \in [Challenge -> Nat]
      /\ Update(q, row)
  BY <1>2, <1>4 DEF ConsumeChallenge, CodeTypeInv, OtpTypeOK
<1>8. /\ CodeTypeInv' /\ Issued' = Issued /\ challenges'[c] = row
      /\ \A d \in Challenge : d # c => challenges'[d] = challenges[d]
      /\ stale' = IF request[q].behind THEN stale \cup {c} ELSE stale
      /\ \A p \in Requester : p # q =>
           /\ request'[p].held = request[p].held
           /\ request[p].behind \/ request[p].held = c => request'[p].behind
      /\ request'[q].held = NoChallenge
  BY <1>1, <1>3, <1>5, <1>6, <1>7, UpdateCodes
<1>9. ASSUME NEW d \in Challenge, d # c, uses'[d] # 0
      PROVE  d \in Issued' /\ (d \in stale' \/ Spent(d)')
  <2>1. uses[d] # 0 /\ d \in Issued /\ (d \in stale \/ Spent(d))
    BY <1>6, <1>9 DEF SpentInv
  <2>2. d \in stale => d \in stale'
    BY <1>8
  <2>3. CASE Spent(d)
    <3>1. uses'[d] = 1 /\ challenges'[d].consumed
      BY <1>6, <1>8, <1>9, <2>3 DEF Spent
    <3>2. ASSUME NEW p \in Requester, request'[p].held = d PROVE request'[p].behind
      <4>1. p # q
        BY <1>8, <3>2, NoneIsNoChallenge
      <4>2. request[p].held = d
        BY <1>8, <3>2, <4>1
      <4>3. request[p].behind
        BY <2>3, <4>2 DEF Spent
      <4> QED BY <1>8, <4>1, <4>3
    <3>3. Spent(d)'
      BY <3>1, <3>2 DEF Spent
    <3> QED BY <1>8, <2>1, <3>3
  <2> QED BY <1>8, <2>1, <2>2, <2>3
<1>10. c \in Issued' /\ (c \in stale' \/ Spent(c)')
  <2>1. CASE request[q].behind \/ c \in stale
    BY <1>3, <1>8, <2>1
  <2>2. CASE ~ request[q].behind /\ c \notin stale
    <3>1. uses[c] = 0
      BY <1>1, <1>3, <2>2 DEF SpentInv, Spent
    <3>2. uses'[c] = 1
      BY <1>6, <3>1
    <3> QED BY <1>3, <1>5, <1>8, <3>2, NoneIsNoChallenge DEF Spent
  <2> QED BY <2>1, <2>2
<1> QED BY <1>8, <1>9, <1>10 DEF SpentInv

LEMMA TimeCodes ==
  ASSUME CodeTypeInv, SpentInv, Expire \/ LeaveWindow
  PROVE  CodeTypeInv' /\ SpentInv'
<1>1. UNCHANGED <<challenges, request, uses, misses, stale, crossings>>
  BY DEF Expire, LeaveWindow, otpHistory
<1>2. Issued' = Issued
  BY <1>1 DEF Issued
<1>3. expired' \subseteq Issued /\ past' \subseteq expired'
  <2>0. /\ expired \subseteq Issued /\ past \subseteq expired
        /\ Issued \subseteq Challenge
    BY DEF CodeTypeInv, OtpTypeOK, Issued
  <2>1. CASE Expire
    <3>1. Min(Issued \ expired) \in Issued \ expired
      BY <2>0, <2>1, FirstAndLast DEF Expire
    <3> QED BY <2>0, <2>1, <3>1 DEF Expire
  <2>2. CASE LeaveWindow
    <3>1. Min(expired \ past) \in expired \ past
      BY <2>0, <2>2, FirstAndLast DEF LeaveWindow
    <3> QED BY <2>0, <2>2, <3>1 DEF LeaveWindow
  <2> QED BY <2>1, <2>2
<1>4. OtpTypeOK'
  BY <1>1, <1>2, <1>3 DEF OtpTypeOK, CodeTypeInv
<1>5. Segment' /\ \A p \in Requester : CodeHolding(request'[p], Issued')
  BY <1>1, <1>2 DEF Segment, CodeTypeInv
<1>6. SpentInv'
  BY <1>1, <1>2 DEF SpentInv, Spent
<1> QED BY <1>4, <1>5, <1>6 DEF CodeTypeInv

LEMMA NextCodes ==
  CodeTypeInv /\ SpentInv /\ [OtpNext]_otpVars => CodeTypeInv' /\ SpentInv'
<1> SUFFICES ASSUME CodeTypeInv, SpentInv, [OtpNext]_otpVars
             PROVE  CodeTypeInv' /\ SpentInv'
  OBVIOUS
<1>1. CASE UNCHANGED otpVars
  <2>1. UNCHANGED <<challenges, expired, past, request, uses, misses, stale, crossings>>
    BY <1>1 DEF otpVars, time, otpHistory
  <2>2. Issued' = Issued
    BY <2>1 DEF Issued
  <2> QED BY <2>1, <2>2 DEF CodeTypeInv, OtpTypeOK, Segment, SpentInv, Spent
<1>2. ASSUME NEW q \in Requester, OtpStop(q) PROVE CodeTypeInv' /\ SpentInv'
  BY <1>2, StopsTyped DEF OtpStop
<1> QED BY <1>1, <1>2, TimeCodes, RequestCodes, SaveCodes, WriteCodes, CountWindowCodes,
           ConsumeCodes
        DEF OtpNext, OtpStep

\* Every variable of a resident's challenges keeps its type, for any number of
\* requests and any limits (issue, verify).
THEOREM CodesTypeCorrect == OtpSpec => []OtpTypeOK
<1>1. CodeTypeInv => OtpTypeOK
  BY DEF CodeTypeInv
<1> QED BY <1>1, InitCodes, NextCodes, PTL DEF OtpSpec

\* However many requests overlap and wherever they stop, a code signs somebody
\* in once, unless its row was written back from an old copy (verify, issue).
THEOREM CodeSignsInOnce == OtpSpec => []CodeWorksOnce
<1>1. CodeTypeInv /\ SpentInv => CodeWorksOnce
  BY DEF CodeTypeInv, OtpTypeOK, SpentInv, Spent, CodeWorksOnce
<1> QED BY <1>1, InitCodes, NextCodes, PTL DEF OtpSpec

----------------------------------------------------------------------------
(* How many codes a window holds.  The limit is read before the code is     *)
(* saved, so what counts is the codes together with the requests that were  *)
(* let past the limit and have not saved theirs.                            *)

Savers == {q \in Requester : request[q].step = "save"}

WindowInv ==
  Cardinality(Recent) + Cardinality(Savers) < MaxChallengesPerWindow + Cardinality(Requester)

LEMMA CountsAreNat ==
  ASSUME CodeTypeInv
  PROVE  /\ IsFiniteSet(Recent) /\ Cardinality(Recent) \in Nat
         /\ IsFiniteSet(Savers) /\ Cardinality(Savers) \in Nat
         /\ Cardinality(Savers) <= Cardinality(Requester) /\ Cardinality(Requester) \in Nat
<1>1. Recent \subseteq Issued /\ IsFiniteSet(Issued)
  BY DEF Recent, CodeTypeInv, Segment
<1>2. Savers \subseteq Requester
  BY DEF Savers
<1> QED BY <1>1, <1>2, RequesterAssumption, FS_Subset, FS_CardinalityType

\* A step that lets nobody past the limit and saves nothing.
LEMMA NoMoreCodes ==
  ASSUME CodeTypeInv, WindowInv,
         Recent' \subseteq Recent, Savers' \subseteq Savers
  PROVE  WindowInv'
<1>1. /\ Cardinality(Recent') <= Cardinality(Recent)
      /\ Cardinality(Savers') <= Cardinality(Savers)
      /\ Cardinality(Recent') \in Nat /\ Cardinality(Savers') \in Nat
      /\ Cardinality(Recent) \in Nat /\ Cardinality(Savers) \in Nat
      /\ Cardinality(Requester) \in Nat
  BY CountsAreNat, FS_Subset, FS_CardinalityType
<1> QED BY <1>1, CodeAssumption, NoChallengeRowAssumption DEF WindowInv

\* A handler that goes on without being one that saves.
LEMMA SaversLeave ==
  ASSUME CodeTypeInv, NEW q \in Requester, NEW next, OtpGoes(q, next), next.step # "save"
  PROVE  Savers' = Savers \ {q}
BY DEF Savers, OtpGoes, CodeTypeInv, OtpTypeOK

LEMMA RequestWindow ==
  ASSUME CodeTypeInv, WindowInv,
         NEW q \in Requester, OtpRequest(q)
  PROVE  WindowInv'
<1>1. Recent' = Recent
  BY DEF OtpRequest, RequestIssue, RequestVerify, OtpBegins, time,
         Recent, Issued
<1>2. CASE RequestIssue(q)
  <2>1. Cardinality(Recent) < MaxChallengesPerWindow
    BY <1>2 DEF RequestIssue
  <2>2. Savers' \subseteq Requester
    BY DEF Savers
  <2>3. /\ Cardinality(Savers') <= Cardinality(Requester)
        /\ Cardinality(Savers') \in Nat /\ Cardinality(Requester) \in Nat
        /\ Cardinality(Recent) \in Nat
    BY <2>2, RequesterAssumption, CountsAreNat, FS_Subset, FS_CardinalityType
  <2>4. Cardinality(Recent') = Cardinality(Recent)
    BY <1>1
  <2> QED BY <2>1, <2>3, <2>4, CodeAssumption, NoChallengeRowAssumption DEF WindowInv
<1>3. ASSUME NEW right \in BOOLEAN, RequestVerify(q, right)
      PROVE  WindowInv'
  <2>1. PICK next : /\ next = [NoRequest EXCEPT !.step = "window",
                                !.held = Newest(Active),
                                !.copy = challenges[Newest(Active)], !.right = right]
                    /\ OtpGoes(q, next)
    BY <1>3 DEF RequestVerify, OtpBegins
  <2>2. next.step # "save"
    BY <2>1 DEF NoRequest
  <2> QED BY <1>1, <2>1, <2>2, SaversLeave, NoMoreCodes
<1> QED BY <1>2, <1>3 DEF OtpRequest

LEMMA SaveWindow ==
  ASSUME CodeTypeInv, WindowInv,
         NEW q \in Requester, SaveChallenge(q)
  PROVE  WindowInv'
<1>1. PICK c : c = Cardinality(Issued) + 1
  OBVIOUS
<1>2. Recent' \subseteq Recent \cup {c}
  BY <1>1 DEF SaveChallenge, Recent, Issued, time, CodeTypeInv, OtpTypeOK
<1>3. /\ Cardinality(Recent') <= Cardinality(Recent) + 1
      /\ Cardinality(Recent') \in Nat
  <2>1. /\ IsFiniteSet(Recent \cup {c})
        /\ Cardinality(Recent \cup {c}) <= Cardinality(Recent) + 1
    <3>1. IsFiniteSet(Recent) /\ Cardinality(Recent) \in Nat
      BY CountsAreNat
    <3>2. /\ IsFiniteSet(Recent \cup {c})
          /\ Cardinality(Recent \cup {c}) = IF c \in Recent
                                                  THEN Cardinality(Recent)
                                                  ELSE Cardinality(Recent) + 1
      BY <3>1, FS_AddElement
    <3> QED BY <3>1, <3>2
  <2>2. /\ Cardinality(Recent') <= Cardinality(Recent \cup {c})
        /\ Cardinality(Recent') \in Nat /\ Cardinality(Recent \cup {c}) \in Nat
    BY <1>2, <2>1, FS_Subset, FS_CardinalityType
  <2> QED BY <2>1, <2>2, CountsAreNat
<1>4. PICK next : next = [request[q] EXCEPT !.step = "send", !.held = c,
                                           !.copy = NewChallenge]
  OBVIOUS
<1>5. next.step # "save" /\ OtpGoes(q, next) /\ q \in Savers
  <2>1. request[q] \in RequestState
    BY DEF CodeTypeInv, OtpTypeOK
  <2> QED BY <1>1, <1>4, <2>1 DEF SaveChallenge, RequestState, Savers
<1>6. Cardinality(Savers') = Cardinality(Savers) - 1
  BY <1>5, SaversLeave, CountsAreNat, FS_RemoveElement
<1> QED BY <1>3, <1>6, CountsAreNat, CodeAssumption, NoChallengeRowAssumption DEF WindowInv

LEMMA UpdateWindow ==
  ASSUME CodeTypeInv, WindowInv, UNCHANGED time,
         NEW q \in Requester, NEW row \in OtpChallengeRecord, Update(q, row),
         request[q].held \in Issued
  PROVE  WindowInv'
<1>1. Issued' = Issued
  BY CodeAssumption, NoChallengeRowAssumption DEF Update, Issued, CodeTypeInv, OtpTypeOK
<1>2. Recent' = Recent
  BY <1>1 DEF Recent, time
<1>3. ASSUME NEW p \in Requester, request'[p].step = "save"
      PROVE  request[p].step = "save"
  <2>1. CASE p = q
    BY <1>3, <2>1 DEF Update, NoRequest
  <2>2. CASE p # q
    <3>1. PICK b : b = (request[p].behind \/ request[p].held = request[q].held)
      OBVIOUS
    <3>2. PICK h \in RequestState : h = request[p]
      BY DEF CodeTypeInv, OtpTypeOK
    <3>3. request'[p] = [h EXCEPT !.behind = b]
      BY <2>2, <3>1, <3>2 DEF Update
    <3> QED BY <1>3, <3>2, <3>3 DEF RequestState
  <2> QED BY <2>1, <2>2
<1>4. Savers' \subseteq Savers
  BY <1>3 DEF Savers
<1> QED BY <1>2, <1>4, NoMoreCodes

LEMMA NextWindow ==
  CodeTypeInv /\ WindowInv /\ [OtpNext]_otpVars
    => WindowInv'
<1> SUFFICES ASSUME CodeTypeInv, WindowInv,
                    [OtpNext]_otpVars
             PROVE  WindowInv'
  OBVIOUS
<1>1. CASE UNCHANGED <<challenges, past, request>>
  BY <1>1, NoMoreCodes DEF Recent, Issued, Savers
<1>2. CASE LeaveWindow
  BY <1>2, NoMoreCodes DEF LeaveWindow, Recent, Issued, Savers
<1>3. ASSUME NEW q \in Requester, OtpGoes(q, NoRequest), UNCHANGED <<challenges, past>>
      PROVE  WindowInv'
  <2>1. NoRequest.step # "save"
    BY DEF NoRequest
  <2>2. Recent' = Recent
    BY <1>3 DEF Recent, Issued
  <2> QED BY <1>3, <2>1, <2>2, SaversLeave, NoMoreCodes
<1>4. ASSUME NEW q \in Requester, CountWindow(q) PROVE WindowInv'
  <2>1. Recent' = Recent
    BY <1>4 DEF CountWindow, time, Recent, Issued
  <2>2. CASE OtpGoes(q, [request[q] EXCEPT !.step = "write"])
    <3>1. [request[q] EXCEPT !.step = "write"].step # "save"
      BY DEF CodeTypeInv, OtpTypeOK, RequestState
    <3> QED BY <2>1, <2>2, <3>1, SaversLeave, NoMoreCodes
  <2> QED BY <1>3, <1>4, <2>2 DEF CountWindow, time
<1>5. ASSUME NEW q \in Requester,
             RecordChannel(q) \/ CountFailure(q) \/ ConsumeChallenge(q)
      PROVE  WindowInv'
  <2>1. /\ request[q].held \in Issued
        /\ request[q].copy \in OtpChallengeRecord
        /\ CountFailure(q) => request[q].copy.failed < MaxAttemptsPerChallenge
    BY <1>5, WriteHolds DEF RecordChannel, CountFailure, ConsumeChallenge
  <2>2. PICK copy \in OtpChallengeRecord : copy = request[q].copy
    BY <2>1
  <2>3. CASE RecordChannel(q)
    BY <2>1, <2>3, UpdateWindow DEF RecordChannel
  <2>4. CASE CountFailure(q)
    <3>1. PICK row : row = [copy EXCEPT !.failed = @ + 1]
      OBVIOUS
    <3>2. row \in OtpChallengeRecord
      BY <2>1, <2>2, <2>4, <3>1, CodeAssumption, NoChallengeRowAssumption DEF OtpChallengeRecord
    <3> QED BY <2>1, <2>2, <2>4, <3>1, <3>2, UpdateWindow DEF CountFailure
  <2>5. CASE ConsumeChallenge(q)
    <3>1. PICK row : row = Consumed(copy)
      OBVIOUS
    <3>2. row \in OtpChallengeRecord
      BY <3>1 DEF Consumed, OtpChallengeRecord
    <3> QED BY <2>1, <2>2, <2>5, <3>1, <3>2, UpdateWindow DEF ConsumeChallenge
  <2> QED BY <1>5, <2>3, <2>4, <2>5
<1>6. ASSUME NEW q \in Requester, OtpStop(q) PROVE WindowInv'
  BY <1>3, <1>6 DEF OtpStop, time
<1>7. CASE Expire
  BY <1>1, <1>7 DEF Expire
<1>8. CASE UNCHANGED otpVars
  BY <1>1, <1>8 DEF otpVars, time
<1> QED BY <1>2, <1>4, <1>5, <1>6, <1>7, <1>8, RequestWindow, SaveWindow DEF OtpNext, OtpStep

LEMMA InitWindow == OtpInit => WindowInv
<1> SUFFICES ASSUME OtpInit PROVE WindowInv
  OBVIOUS
<1>1. Recent = {} /\ Savers = {}
  BY DEF OtpInit, Recent, Issued, Savers, NoRequest
<1>2. Cardinality(Requester) \in Nat \ {0}
  BY RequesterAssumption, FS_CardinalityType, FS_EmptySet
<1>3. Cardinality(Recent) = 0 /\ Cardinality(Savers) = 0
  BY <1>1, FS_EmptySet
<1> QED BY <1>2, <1>3, CodeAssumption DEF WindowInv

----------------------------------------------------------------------------
(* Sums over challenges.  The fold is a recursive function, so it is the    *)
(* one that satisfies its equation: the number of marks does, and by a      *)
(* least counterexample nothing else.                                       *)

Pick(s) == CHOOSE x \in s : TRUE

Adds(g, count, S) ==
  g = [s \in SUBSET S |-> IF s = {} THEN 0 ELSE count[Pick(s)] + g[s \ {Pick(s)}]]

\* What the fold computes.
LEMMA TotalAdds ==
  ASSUME NEW count, NEW S
  PROVE  Total(count, S) = (CHOOSE g : Adds(g, count, S))[S]
BY DEF Total, MapThenSumSet, MapThenFoldSet, Adds, Pick

\* One mark for each thing counted.
Marks(count, S) == UNION {{c} \X (1 .. count[c]) : c \in S}

LEMMA MarksAreFinite ==
  ASSUME NEW S, IsFiniteSet(S), NEW count, \A c \in S : count[c] \in Nat
  PROVE  IsFiniteSet(Marks(count, S)) /\ Cardinality(Marks(count, S)) \in Nat
<1> DEFINE Of(c) == {c} \X (1 .. count[c])
           Parts == {Of(c) : c \in S}
<1>1. IsFiniteSet(Parts)
  <2>1. [c \in S |-> Of(c)] \in Surjection(S, Parts)
    BY DEF Surjection
  <2> HIDE DEF Parts
  <2> QED BY <2>1, FS_Surjection
<1>2. ASSUME NEW c \in S PROVE IsFiniteSet(Of(c))
  <2>1. PICK n \in Nat : n = count[c]
    OBVIOUS
  <2>2. IsFiniteSet(1 .. n)
    BY FS_Interval
  <2>3. IsFiniteSet({c})
    BY FS_Singleton
  <2> QED BY <2>1, <2>2, <2>3, FS_Product
<1>3. IsFiniteSet(UNION Parts)
  <2>1. \A P \in Parts : IsFiniteSet(P)
    BY <1>2
  <2> HIDE DEF Parts
  <2> QED BY <1>1, <2>1, FS_UNION
<1>4. IsFiniteSet(Marks(count, S))
  BY <1>3 DEF Marks
<1> QED BY <1>4, FS_CardinalityType

\* One more.
LEMMA OneMore ==
  ASSUME NEW S, IsFiniteSet(S), NEW count, \A c \in S : count[c] \in Nat, NEW x \in S
  PROVE  Cardinality(Marks(count, S)) = count[x] + Cardinality(Marks(count, S \ {x}))
<1> DEFINE A == {x} \X (1 .. count[x])
           B == Marks(count, S \ {x})
<1>1. IsFiniteSet(A) /\ Cardinality(A) = count[x]
  <2>1. IsFiniteSet({x}) /\ Cardinality({x}) = 1
    BY FS_Singleton
  <2>2. count[x] \in Nat /\ IsFiniteSet(1 .. count[x]) /\ Cardinality(1 .. count[x]) = count[x]
    <3> DEFINE n == count[x]
    <3>1. n \in Nat
      OBVIOUS
    <3> HIDE DEF n
    <3>2. IsFiniteSet(1 .. n) /\ Cardinality(1 .. n) = IF 1 > n THEN 0 ELSE n - 1 + 1
      BY <3>1, FS_Interval
    <3>3. Cardinality(1 .. n) = n
      BY <3>1, <3>2
    <3> QED BY <3>1, <3>2, <3>3 DEF n
  <2>3. IsFiniteSet(A) /\ Cardinality(A) = 1 * count[x]
    BY <2>1, <2>2, FS_Product
  <2> QED BY <2>2, <2>3
<1>2. IsFiniteSet(B) /\ Cardinality(B) \in Nat
  BY MarksAreFinite, FS_Subset
<1>3. Marks(count, S) = A \cup B
  BY DEF Marks
<1>4. A \cap B = {}
  BY DEF Marks
<1>5. Cardinality(A \cup B) = Cardinality(A) + Cardinality(B) - Cardinality(A \cap B)
  <2> HIDE DEF A, B
  <2> QED BY <1>1, <1>2, FS_Union
<1>6. Cardinality(A \cap B) = 0
  BY <1>4, FS_EmptySet
<1>7. Cardinality(A \cup B) = Cardinality(A) + Cardinality(B)
  <2> HIDE DEF A, B
  <2> QED BY <1>1, <1>2, <1>5, <1>6
<1> QED BY <1>1, <1>3, <1>7

\* The fold over a finite set is the number of marks.
LEMMA TotalCounts ==
  ASSUME NEW S, IsFiniteSet(S), NEW count, \A c \in S : count[c] \in Nat
  PROVE  Total(count, S) = Cardinality(Marks(count, S))
<1> DEFINE size == [s \in SUBSET S |-> Cardinality(Marks(count, s))]
           sum == CHOOSE g : Adds(g, count, S)
<1>1. ASSUME NEW s \in SUBSET S
      PROVE  Cardinality(Marks(count, s)) =
               IF s = {} THEN 0 ELSE count[Pick(s)] + Cardinality(Marks(count, s \ {Pick(s)}))
  <2>1. CASE s = {}
    <3>1. Marks(count, s) = {}
      BY <2>1 DEF Marks
    <3> QED BY <2>1, <3>1, FS_EmptySet
  <2>2. CASE s # {}
    <3>1. Pick(s) \in s
      BY <2>2 DEF Pick
    <3>2. IsFiniteSet(s)
      BY FS_Subset
    <3> QED BY <2>2, <3>1, <3>2, OneMore
  <2> QED BY <2>1, <2>2
<1>2. Adds(size, count, S)
  <2>1. ASSUME NEW s \in SUBSET S
        PROVE  size[s] = IF s = {} THEN 0 ELSE count[Pick(s)] + size[s \ {Pick(s)}]
    <3>1. s \ {Pick(s)} \in SUBSET S
      OBVIOUS
    <3> QED BY <1>1, <3>1
  <2>2. size = [s \in SUBSET S |-> size[s]]
    OBVIOUS
  <2>3. size = [s \in SUBSET S |-> IF s = {} THEN 0 ELSE count[Pick(s)] + size[s \ {Pick(s)}]]
    <3> HIDE DEF size
    <3> QED BY <2>1, <2>2
  <2> QED BY <2>3 DEF Adds
<1>3. Adds(sum, count, S)
  <2> HIDE DEF size
  <2> QED BY <1>2
<1>4. ASSUME NEW s \in SUBSET S, sum[s] # size[s] PROVE FALSE
  <2> DEFINE Sizes == {Cardinality(t) : t \in {u \in SUBSET S : sum[u] # size[u]}}
  <2> HIDE DEF sum, size
  <2>1. \A t \in SUBSET S : IsFiniteSet(t) /\ Cardinality(t) \in Nat
    BY FS_Subset, FS_CardinalityType
  <2>2. Sizes \subseteq Nat /\ Sizes # {}
    BY <1>4, <2>1
  <2>3. PICK n \in Sizes : \A m \in Sizes : ~ (<<m, n>> \in OpToRel(<, Nat))
    <3> HIDE DEF Sizes
    <3> QED BY <2>2, NatLessThanWellFounded, WFMin
  <2>4. PICK t \in SUBSET S : sum[t] # size[t] /\ n = Cardinality(t)
    OBVIOUS
  <2>5. sum[t] = IF t = {} THEN 0 ELSE count[Pick(t)] + sum[t \ {Pick(t)}]
    BY <1>3 DEF Adds
  <2>6. size[t] = IF t = {} THEN 0 ELSE count[Pick(t)] + size[t \ {Pick(t)}]
    BY <1>2 DEF Adds
  <2>7. t # {}
    BY <2>4, <2>5, <2>6
  <2>8. Pick(t) \in t
    BY <2>7 DEF Pick
  <2>9. Cardinality(t \ {Pick(t)}) = n - 1
    BY <2>1, <2>4, <2>8, FS_RemoveElement
  <2>10. n - 1 \in Nat /\ n \in Nat /\ n - 1 < n
    <3>1. Cardinality(t \ {Pick(t)}) \in Nat
      BY <2>1
    <3> QED BY <2>1, <2>4, <2>9, <3>1
  <2>11. sum[t \ {Pick(t)}] = size[t \ {Pick(t)}]
    <3>1. n - 1 \notin Sizes
      BY <2>3, <2>10 DEF OpToRel
    <3> QED BY <2>9, <3>1
  <2> QED BY <2>4, <2>5, <2>6, <2>7, <2>11
<1>5. Total(count, S) = sum[S]
  BY TotalAdds
<1> QED BY <1>4, <1>5

----------------------------------------------------------------------------
(* How many wrong guesses a window holds.  While no row was written back    *)
(* from an old copy, a row counts what was judged against it; so a request  *)
(* let past the bound was let past it by the number of marks, and there are *)
(* as many such requests at a time as there are requests.                   *)

Writers == {q \in Requester : request[q].step = "write"}

Matches(h) ==
  h.step \in {"send", "window", "write"} /\ ~ h.behind => challenges[h.held] = h.copy

MatchInv ==
  stale = {} =>
    /\ \A c \in Challenge : misses[c] = IF c \in Issued THEN challenges[c].failed ELSE 0
    /\ \A q \in Requester : Matches(request[q])

Guesses == Marks(misses, Recent)

GuessInv ==
  stale = {} =>
    Cardinality(Guesses) + Cardinality(Writers)
      < MaxAttemptsPerWindow + Cardinality(Requester)

LEMMA GuessesAreFinite ==
  ASSUME CodeTypeInv
  PROVE  /\ IsFiniteSet(Guesses) /\ Cardinality(Guesses) \in Nat
         /\ Total(misses, Recent) = Cardinality(Guesses)
         /\ IsFiniteSet(Writers) /\ Cardinality(Writers) \in Nat
         /\ Cardinality(Writers) <= Cardinality(Requester) /\ Cardinality(Requester) \in Nat
<1>1. IsFiniteSet(Recent) /\ \A c \in Recent : misses[c] \in Nat
  BY CountsAreNat DEF Recent, Issued, CodeTypeInv, OtpTypeOK
<1>2. Writers \subseteq Requester
  BY DEF Writers
<1>3. /\ IsFiniteSet(Writers) /\ Cardinality(Writers) \in Nat
      /\ Cardinality(Writers) <= Cardinality(Requester) /\ Cardinality(Requester) \in Nat
  BY <1>2, RequesterAssumption, FS_Subset, FS_CardinalityType
<1> QED BY <1>1, <1>3, MarksAreFinite, TotalCounts DEF Guesses

\* What the code sums is the number of guesses.
LEMMA FailuresAreGuesses ==
  ASSUME CodeTypeInv, MatchInv, stale = {}
  PROVE  Failures = Cardinality(Guesses)
<1>1. \A c \in Recent : Failed[c] = misses[c] /\ misses[c] \in Nat
  BY DEF Recent, Failed, MatchInv, CodeTypeInv, OtpTypeOK, Issued
<1>2. IsFiniteSet(Recent)
  BY CountsAreNat
<1>3. Failures = Cardinality(Marks(Failed, Recent))
  BY <1>1, <1>2, TotalCounts DEF Failures
<1>4. Marks(Failed, Recent) = Marks(misses, Recent)
  BY <1>1 DEF Marks
<1> QED BY <1>3, <1>4 DEF Guesses

\* A step that judges nothing and lets nobody past the bound.
LEMMA NoMoreGuesses ==
  ASSUME CodeTypeInv, GuessInv, stale' = {} => stale = {},
         Guesses' \subseteq Guesses, Writers' \subseteq Writers
  PROVE  GuessInv'
<1>1. /\ Cardinality(Guesses') <= Cardinality(Guesses)
      /\ Cardinality(Writers') <= Cardinality(Writers)
      /\ Cardinality(Guesses') \in Nat /\ Cardinality(Writers') \in Nat
      /\ Cardinality(Guesses) \in Nat /\ Cardinality(Writers) \in Nat
      /\ Cardinality(Requester) \in Nat
  BY GuessesAreFinite, FS_Subset, FS_CardinalityType
<1> QED BY <1>1, CodeAssumption DEF GuessInv

\* A request that goes on in a step that writes no row and is not let past.
LEMMA GoesOnGuess ==
  ASSUME CodeTypeInv, MatchInv, GuessInv, NEW q \in Requester, NEW next, OtpGoes(q, next),
         UNCHANGED <<challenges, past, misses, stale>>,
         stale = {} => Matches(next), next.step # "write"
  PROVE  MatchInv' /\ GuessInv'
<1>1. \A p \in Requester : request'[p] = IF p = q THEN next ELSE request[p]
  BY DEF OtpGoes, CodeTypeInv, OtpTypeOK
<1>2. Issued' = Issued /\ Recent' = Recent
  BY DEF Issued, Recent
<1>3. MatchInv'
  BY <1>1, <1>2 DEF MatchInv, Matches
<1>4. Guesses' \subseteq Guesses
  BY <1>2 DEF Guesses
<1>5. Writers' \subseteq Writers
  BY <1>1 DEF Writers
<1> QED BY <1>3, <1>4, <1>5, NoMoreGuesses

LEMMA RequestGuess ==
  ASSUME CodeTypeInv, MatchInv, GuessInv, NEW q \in Requester, OtpRequest(q)
  PROVE  MatchInv' /\ GuessInv'
<1>1. CASE RequestIssue(q)
  <2>1. PICK next : next = [NoRequest EXCEPT !.step = "save"] /\ OtpGoes(q, next)
    BY <1>1 DEF RequestIssue, OtpBegins
  <2>2. next.step = "save"
    BY <2>1 DEF NoRequest
  <2>3. UNCHANGED <<challenges, past, misses, stale>>
    BY <1>1 DEF RequestIssue, OtpBegins, time, otpHistory
  <2> QED BY <2>1, <2>2, <2>3, GoesOnGuess DEF Matches
<1>2. ASSUME NEW right \in BOOLEAN, RequestVerify(q, right) PROVE MatchInv' /\ GuessInv'
  <2>1. PICK c : c = Newest(Active)
    OBVIOUS
  <2>2. PICK row : row = challenges[c]
    OBVIOUS
  <2>3. PICK next : next = [NoRequest EXCEPT !.step = "window", !.held = c, !.copy = row,
                                             !.right = right]
    OBVIOUS
  <2>4. next.step = "window" /\ next.held = c /\ next.copy = row
    BY <2>3 DEF NoRequest
  <2>5. OtpGoes(q, next) /\ UNCHANGED <<challenges, past, misses, stale>>
    BY <1>2, <2>1, <2>2, <2>3 DEF RequestVerify, OtpBegins, time, otpHistory
  <2> QED BY <2>2, <2>4, <2>5, GoesOnGuess DEF Matches
<1> QED BY <1>1, <1>2 DEF OtpRequest

LEMMA StopGuess ==
  ASSUME CodeTypeInv, MatchInv, GuessInv, NEW q \in Requester, OtpGoes(q, NoRequest),
         UNCHANGED <<challenges, past, misses, stale>>
  PROVE  MatchInv' /\ GuessInv'
<1>1. NoRequest.step = "idle"
  BY DEF NoRequest
<1> QED BY <1>1, GoesOnGuess DEF Matches

\* Whoever is let past the bound is so while there are fewer guesses than it allows.
LEMMA CountWindowGuess ==
  ASSUME CodeTypeInv, MatchInv, GuessInv, NEW q \in Requester, CountWindow(q)
  PROVE  MatchInv' /\ GuessInv'
<1>1. UNCHANGED <<challenges, past, misses, stale>>
  BY DEF CountWindow, time, otpHistory
<1>2. CASE WindowSpent
  BY <1>1, <1>2, StopGuess DEF CountWindow
<1>3. CASE ~ WindowSpent
  <2>1. PICK h \in RequestState : h = request[q] /\ h.step = "window"
    BY DEF CodeTypeInv, OtpTypeOK, CountWindow
  <2>2. PICK next : next = [h EXCEPT !.step = "write"]
    OBVIOUS
  <2>3. next.held = h.held /\ next.copy = h.copy /\ next.behind = h.behind
    BY <2>1, <2>2 DEF RequestState
  <2>4. \A p \in Requester : request'[p] = IF p = q THEN next ELSE request[p]
    BY <1>3, <2>1, <2>2 DEF CountWindow, OtpGoes, CodeTypeInv, OtpTypeOK
  <2>5. Issued' = Issued /\ Recent' = Recent /\ Guesses' = Guesses
    BY <1>1 DEF Issued, Recent, Guesses
  <2>6. stale = {} => Matches(next)
    BY <2>1, <2>3 DEF MatchInv, Matches
  <2>7. MatchInv'
    BY <1>1, <2>4, <2>5, <2>6 DEF MatchInv, Matches
  <2>8. ASSUME stale' = {}
        PROVE  Cardinality(Guesses') + Cardinality(Writers')
                 < MaxAttemptsPerWindow + Cardinality(Requester)
    <3>1. Cardinality(Guesses) < MaxAttemptsPerWindow /\ Cardinality(Guesses) \in Nat
      BY <1>1, <1>3, <2>8, FailuresAreGuesses, GuessesAreFinite, CodeAssumption DEF WindowSpent
    <3>2. Writers' \subseteq Requester
      BY DEF Writers
    <3>3. /\ Cardinality(Writers') <= Cardinality(Requester)
          /\ Cardinality(Writers') \in Nat /\ Cardinality(Requester) \in Nat
      BY <3>2, RequesterAssumption, FS_Subset, FS_CardinalityType
    <3> QED BY <2>5, <3>1, <3>3, CodeAssumption
  <2> QED BY <2>7, <2>8 DEF GuessInv
<1> QED BY <1>2, <1>3

\* A new code has been guessed at by nobody.
LEMMA SaveGuess ==
  ASSUME CodeTypeInv, MatchInv, GuessInv, NEW q \in Requester, SaveChallenge(q)
  PROVE  MatchInv' /\ GuessInv'
<1>1. PICK c : c = Cardinality(Issued) + 1
  OBVIOUS
<1>2. c \in Challenge /\ c \notin Issued
  <2>1. c \notin Issued
    BY <1>1 DEF CodeTypeInv, Segment
  <2> QED BY <1>1, <2>1 DEF SaveChallenge
<1>3. NewChallenge \in OtpChallengeRecord /\ NewChallenge.failed = 0 /\ NewChallenge # NoChallengeRow
  <2>1. NewChallenge \in OtpChallengeRecord /\ NewChallenge.failed = 0
    BY CodeAssumption DEF NewChallenge, OtpChallengeRecord
  <2> QED BY <2>1, NoChallengeRowAssumption
<1>4. /\ challenges'[c] = NewChallenge
      /\ \A d \in Challenge : d # c => challenges'[d] = challenges[d]
  BY <1>1, <1>2 DEF SaveChallenge, CodeTypeInv, OtpTypeOK
<1>5. Issued' = Issued \cup {c}
  BY <1>2, <1>3, <1>4 DEF Issued
<1>6. UNCHANGED <<past, misses, stale>>
  BY DEF SaveChallenge, time, otpHistory
<1>7. PICK h \in RequestState : h = request[q]
  BY DEF CodeTypeInv, OtpTypeOK
<1>8. PICK next : next = [h EXCEPT !.step = "send", !.held = c, !.copy = NewChallenge]
  OBVIOUS
<1>9. next.step = "send" /\ next.held = c /\ next.copy = NewChallenge
  BY <1>7, <1>8 DEF RequestState
<1>10. \A p \in Requester : request'[p] = IF p = q THEN next ELSE request[p]
  BY <1>1, <1>7, <1>8 DEF SaveChallenge, OtpGoes, CodeTypeInv, OtpTypeOK
<1>11. \A p \in Requester : request[p].step \in {"send", "window", "write"} =>
         request[p].held \in Challenge /\ request[p].held # c
  BY <1>2, WriteHolds
<1>12. MatchInv'
  <2>1. ASSUME stale = {}, NEW d \in Challenge
        PROVE  misses'[d] = IF d \in Issued' THEN challenges'[d].failed ELSE 0
    BY <1>2, <1>3, <1>4, <1>5, <1>6, <2>1 DEF MatchInv
  <2>2. ASSUME stale = {}, NEW p \in Requester PROVE Matches(request[p])'
    <3>1. CASE p = q
      BY <1>4, <1>9, <1>10, <3>1 DEF Matches
    <3>2. CASE p # q
      BY <1>4, <1>10, <1>11, <2>2, <3>2 DEF MatchInv, Matches
    <3> QED BY <3>1, <3>2
  <2> QED BY <1>6, <2>1, <2>2 DEF MatchInv, Matches
<1>13. CASE stale = {}
  <2>1. misses[c] = 0
    BY <1>2, <1>13 DEF MatchInv
  <2>2. Recent' \subseteq Recent \cup {c}
    BY <1>5, <1>6 DEF Recent
  <2>3. Guesses' \subseteq Guesses
    BY <1>6, <2>1, <2>2 DEF Guesses, Marks
  <2>4. Writers' \subseteq Writers
    BY <1>9, <1>10 DEF Writers
  <2> QED BY <1>6, <1>12, <2>3, <2>4, NoMoreGuesses
<1> QED BY <1>6, <1>12, <1>13 DEF GuessInv

\* A row written back keeps the books, unless it was an old copy.
LEMMA UpdateMatch ==
  ASSUME CodeTypeInv, MatchInv, NEW q \in Requester, NEW row \in OtpChallengeRecord,
         Update(q, row),
         request[q].step \in {"send", "write"},
         UNCHANGED <<time, crossings>>,
         uses' \in [Challenge -> Nat], misses' \in [Challenge -> Nat],
         \A d \in Challenge : d # request[q].held => misses'[d] = misses[d],
         stale = {} /\ challenges[request[q].held] = request[q].copy =>
           misses'[request[q].held] = row.failed
  PROVE  /\ MatchInv'
         /\ Recent' = Recent
         /\ Writers' = Writers \ {q}
         /\ stale' = {} => stale = {}
<1>1. PICK c : c = request[q].held
  OBVIOUS
<1>2. c \in Issued /\ c \in Challenge
  BY <1>1, WriteHolds
<1>3. /\ Issued' = Issued
      /\ challenges'[c] = row
      /\ \A d \in Challenge : d # c => challenges'[d] = challenges[d]
      /\ stale' = IF request[q].behind THEN stale \cup {c} ELSE stale
      /\ \A p \in Requester : p # q =>
           /\ request'[p].held = request[p].held /\ request'[p].copy = request[p].copy
           /\ request'[p].step = request[p].step
           /\ request[p].behind \/ request[p].held = c => request'[p].behind
      /\ request'[q].step = "idle"
  BY <1>1, <1>2, UpdateCodes
<1>4. ASSUME stale' = {}
      PROVE  /\ stale = {}
             /\ \A d \in Challenge : misses'[d] = IF d \in Issued' THEN challenges'[d].failed ELSE 0
             /\ \A p \in Requester : Matches(request[p])'
  <2>1. stale = {} /\ ~ request[q].behind
    BY <1>3, <1>4
  <2>2. challenges[c] = request[q].copy
    BY <1>1, <2>1 DEF MatchInv, Matches
  <2>3. misses'[c] = row.failed
    BY <1>1, <2>1, <2>2
  <2>4. \A d \in Challenge : misses'[d] = IF d \in Issued' THEN challenges'[d].failed ELSE 0
    BY <1>1, <1>2, <1>3, <2>1, <2>3 DEF MatchInv
  <2>5. ASSUME NEW p \in Requester PROVE Matches(request[p])'
    <3>1. CASE p = q
      BY <1>3, <3>1 DEF Matches
    <3>2. CASE p # q /\ request[p].step \in {"send", "window", "write"}
      <4>1. request[p].held \in Challenge
        BY <3>2, WriteHolds
      <4> QED BY <1>3, <2>1, <3>2, <4>1 DEF MatchInv, Matches
    <3>3. CASE p # q /\ request[p].step \notin {"send", "window", "write"}
      BY <1>3, <3>3 DEF Matches
    <3> QED BY <3>1, <3>2, <3>3
  <2> QED BY <2>1, <2>4, <2>5
<1>5. Recent' = Recent
  BY <1>3 DEF Recent, time
<1>6. Writers' = Writers \ {q}
  BY <1>3 DEF Writers
<1> QED BY <1>4, <1>5, <1>6 DEF MatchInv

LEMMA RecordChannelGuess ==
  ASSUME CodeTypeInv, MatchInv, GuessInv, NEW q \in Requester, RecordChannel(q)
  PROVE  MatchInv' /\ GuessInv'
<1>1. PICK row \in OtpChallengeRecord : row = request[q].copy
  BY WriteHolds DEF RecordChannel
<1>2. /\ Update(q, row) /\ request[q].step = "send" /\ UNCHANGED <<time, crossings, uses, misses>>
      /\ uses' \in [Challenge -> Nat] /\ misses' \in [Challenge -> Nat]
  BY <1>1 DEF RecordChannel, CodeTypeInv, OtpTypeOK
<1>3. stale = {} => misses[request[q].held] = challenges[request[q].held].failed
  BY <1>2, WriteHolds DEF MatchInv
<1>4. /\ MatchInv' /\ Recent' = Recent /\ Writers' = Writers \ {q}
      /\ stale' = {} => stale = {}
  BY <1>1, <1>2, <1>3, UpdateMatch
<1>5. Guesses' \subseteq Guesses
  BY <1>2, <1>4 DEF Guesses
<1> QED BY <1>4, <1>5, NoMoreGuesses

LEMMA ConsumeGuess ==
  ASSUME CodeTypeInv, MatchInv, GuessInv, NEW q \in Requester, ConsumeChallenge(q)
  PROVE  MatchInv' /\ GuessInv'
<1>1. PICK copy \in OtpChallengeRecord : copy = request[q].copy
  BY WriteHolds DEF ConsumeChallenge
<1>2. PICK row : row = Consumed(copy)
  OBVIOUS
<1>3. row \in OtpChallengeRecord /\ row.failed = copy.failed
  BY <1>2 DEF Consumed, OtpChallengeRecord
<1>4. /\ Update(q, row) /\ request[q].step = "write" /\ UNCHANGED <<time, crossings, misses>>
      /\ uses' \in [Challenge -> Nat] /\ misses' \in [Challenge -> Nat]
  <2>1. request[q].held \in Challenge
    BY WriteHolds DEF ConsumeChallenge
  <2> QED BY <1>1, <1>2, <2>1 DEF ConsumeChallenge, CodeTypeInv, OtpTypeOK
<1>5. stale = {} => misses[request[q].held] = challenges[request[q].held].failed
  BY <1>4, WriteHolds DEF MatchInv
<1>6. /\ MatchInv' /\ Recent' = Recent /\ Writers' = Writers \ {q}
      /\ stale' = {} => stale = {}
  BY <1>1, <1>3, <1>4, <1>5, UpdateMatch
<1>7. Guesses' \subseteq Guesses
  BY <1>4, <1>6 DEF Guesses
<1> QED BY <1>6, <1>7, NoMoreGuesses

\* A wrong answer is one mark more, and one request less that was let past.
LEMMA CountFailureGuess ==
  ASSUME CodeTypeInv, MatchInv, GuessInv, NEW q \in Requester, CountFailure(q)
  PROVE  MatchInv' /\ GuessInv'
<1>1. PICK c \in Challenge : c = request[q].held
  BY WriteHolds DEF CountFailure
<1>2. PICK copy \in OtpChallengeRecord : copy = request[q].copy
  BY WriteHolds DEF CountFailure
<1>3. PICK row : row = [copy EXCEPT !.failed = @ + 1]
  OBVIOUS
<1>4. row \in OtpChallengeRecord /\ row.failed = copy.failed + 1
  <2>1. copy.failed < MaxAttemptsPerChallenge
    BY <1>2, WriteHolds DEF CountFailure
  <2> QED BY <1>2, <1>3, <2>1, CodeAssumption DEF OtpChallengeRecord
<1>5. /\ Update(q, row) /\ request[q].step = "write" /\ UNCHANGED <<time, crossings>>
      /\ uses' \in [Challenge -> Nat] /\ misses' \in [Challenge -> Nat]
      /\ misses'[c] = misses[c] + 1
      /\ \A d \in Challenge : d # c => misses'[d] = misses[d]
  BY <1>1, <1>2, <1>3 DEF CountFailure, CodeTypeInv, OtpTypeOK
<1>6. stale = {} => misses[c] = challenges[c].failed
  BY <1>1, <1>5, WriteHolds DEF MatchInv
<1>7. /\ MatchInv' /\ Recent' = Recent /\ Writers' = Writers \ {q}
      /\ stale' = {} => stale = {}
  BY <1>1, <1>2, <1>4, <1>5, <1>6, UpdateMatch
<1>8. Guesses' \subseteq Guesses \cup {<<c, misses[c] + 1>>}
  <2>1. \A d \in Challenge : misses[d] \in Nat
    BY DEF CodeTypeInv, OtpTypeOK
  <2>2. Recent \subseteq Challenge
    BY DEF Recent, Issued
  <2>3. ASSUME NEW d \in Recent, NEW i \in 1 .. misses'[d]
        PROVE  <<d, i>> \in Guesses \/ <<d, i>> = <<c, misses[c] + 1>>
    <3>1. i \in 1 .. misses[d] \/ (d = c /\ i = misses[c] + 1)
      BY <1>5, <2>1, <2>2, <2>3
    <3> QED BY <2>3, <3>1 DEF Guesses, Marks
  <2> QED BY <1>7, <2>3 DEF Guesses, Marks
<1>9. ASSUME stale' = {}
      PROVE  Cardinality(Guesses') + Cardinality(Writers')
               < MaxAttemptsPerWindow + Cardinality(Requester)
  <2>1. PICK mark : mark = <<c, misses[c] + 1>>
    OBVIOUS
  <2>2. /\ IsFiniteSet(Guesses \cup {mark}) /\ Cardinality(Guesses \cup {mark}) \in Nat
        /\ Cardinality(Guesses \cup {mark}) <= Cardinality(Guesses) + 1
    <3>1. IsFiniteSet(Guesses) /\ Cardinality(Guesses) \in Nat
      BY GuessesAreFinite
    <3>2. /\ IsFiniteSet(Guesses \cup {mark})
          /\ Cardinality(Guesses \cup {mark}) = IF mark \in Guesses THEN Cardinality(Guesses)
                                                ELSE Cardinality(Guesses) + 1
      BY <3>1, FS_AddElement
    <3> QED BY <3>1, <3>2
  <2>3. Cardinality(Guesses') <= Cardinality(Guesses \cup {mark}) /\ Cardinality(Guesses') \in Nat
    BY <1>8, <2>1, <2>2, FS_Subset, FS_CardinalityType
  <2>4. q \in Writers
    BY <1>5 DEF Writers
  <2>5. Cardinality(Writers') = Cardinality(Writers) - 1
    BY <1>7, <2>4, GuessesAreFinite, FS_RemoveElement
  <2>6. Cardinality(Guesses) + Cardinality(Writers) < MaxAttemptsPerWindow + Cardinality(Requester)
    BY <1>7, <1>9 DEF GuessInv
  <2> QED BY <2>2, <2>3, <2>5, <2>6, GuessesAreFinite, CodeAssumption
<1> QED BY <1>7, <1>9 DEF GuessInv

LEMMA NextGuess ==
  CodeTypeInv /\ MatchInv /\ GuessInv /\ [OtpNext]_otpVars => MatchInv' /\ GuessInv'
<1> SUFFICES ASSUME CodeTypeInv, MatchInv, GuessInv, [OtpNext]_otpVars
             PROVE  MatchInv' /\ GuessInv'
  OBVIOUS
<1>1. CASE UNCHANGED <<challenges, request, misses, stale>> /\ past \subseteq past'
  <2>1. Issued' = Issued /\ Recent' \subseteq Recent
    BY <1>1 DEF Issued, Recent
  <2>2. Guesses' \subseteq Guesses
    BY <1>1, <2>1 DEF Guesses, Marks
  <2>3. Writers' \subseteq Writers
    BY <1>1 DEF Writers
  <2>4. MatchInv'
    BY <1>1, <2>1 DEF MatchInv, Matches
  <2> QED BY <1>1, <2>2, <2>3, <2>4, NoMoreGuesses
<1>2. CASE Expire \/ LeaveWindow \/ UNCHANGED otpVars
  <2>1. UNCHANGED <<challenges, request, misses, stale>> /\ past \subseteq past'
    BY <1>2 DEF Expire, LeaveWindow, otpVars, time, otpHistory
  <2> QED BY <1>1, <2>1
<1>3. ASSUME NEW q \in Requester, OtpStop(q) PROVE MatchInv' /\ GuessInv'
  BY <1>3, StopGuess DEF OtpStop, time, otpHistory
<1> QED BY <1>2, <1>3, RequestGuess, SaveGuess, RecordChannelGuess, CountWindowGuess,
           CountFailureGuess, ConsumeGuess
        DEF OtpNext, OtpStep

LEMMA InitGuess == OtpInit => MatchInv /\ GuessInv
<1> SUFFICES ASSUME OtpInit PROVE MatchInv /\ GuessInv
  OBVIOUS
<1>1. Recent = {} /\ Writers = {} /\ Issued = {}
  BY DEF OtpInit, Recent, Issued, Writers, NoRequest
<1>2. MatchInv
  BY <1>1 DEF OtpInit, MatchInv, Matches, NoRequest
<1>3. Guesses = {}
  BY <1>1 DEF Guesses, Marks
<1>4. Cardinality(Requester) \in Nat \ {0}
  BY RequesterAssumption, FS_CardinalityType, FS_EmptySet
<1>5. Cardinality(Guesses) = 0 /\ Cardinality(Writers) = 0
  BY <1>1, <1>3, FS_EmptySet
<1> QED BY <1>2, <1>4, <1>5, CodeAssumption DEF GuessInv

\* However many requests overlap and wherever they stop, no window judges more
\* wrong guesses than its limit and one for each other request, unless a row was
\* written back from an old copy; nor holds more codes than its limit and one for
\* each other request (beginOtpLogin, verify).
THEOREM GuessesStayInTheWindow == OtpSpec => []AttemptsBounded
<1>1. CodeTypeInv /\ WindowInv /\ GuessInv => AttemptsBounded
  BY CountsAreNat, GuessesAreFinite, CodeAssumption DEF WindowInv, GuessInv, AttemptsBounded
<1>2. CodeTypeInv /\ WindowInv /\ [OtpNext]_otpVars => WindowInv'
  BY NextWindow
<1> QED BY <1>1, <1>2, InitCodes, NextCodes, InitWindow, InitGuess, NextGuess, PTL DEF OtpSpec

=============================================================================
