-------------------------- MODULE IdentityLinksProofs --------------------------
(***************************************************************************)
(* Theorems about identity links, for any number of handlers, people,       *)
(* identifiers, merges, links and faults.                                   *)
(***************************************************************************)
EXTENDS IdentityLinks, TLAPS, WellFoundedInduction, FiniteSetTheorems

\* A row is still about the person and the identifier of link l.
SameLink(row, l) ==
  /\ row.person = links[l].person
  /\ row.identifier = links[l].identifier
  /\ row.foundational = links[l].foundational

\* A handler has the id of a link that it has not written yet.
Reserves(h) == h.step = "open" \/ (h.step = "close" /\ h.op # "unlink")

Moves(h) == h.op \in {"merge", "split"}

\* A merge or a split has not reached its last write of the merge record.
Concludes(h) == h.step \in {"close", "open", "record", "conclude"}

\* Pairs of links on the same identifier.
Paired(pairs) ==
  \A pair \in pairs :
    /\ pair[1] \in Written /\ pair[2] \in Written
    /\ links[pair[1]].identifier = links[pair[2]].identifier

----------------------------------------------------------------------------
(* What a handler holds, whatever the others do.                            *)

HoldsLink(h) ==
  /\ h.step \in {"find", "detach"} =>
       h.op = "unlink" /\ h.link \in Written /\ KeysOf(h.link) \subseteq h.keys
  /\ h.step = "detach" => h.target = links[h.link].person /\ h.record # NoRow
  /\ h.step \in {"save", "close"} =>
       /\ h.link \in Written /\ KeysOf(h.link) \subseteq h.keys
       /\ h.copy # NoRow /\ SameLink(h.copy, h.link)
  /\ h.step = "save" => /\ h.op \in {"dispute", "resolve"}
                        /\ h.copy.status = IF h.op = "dispute" THEN "DISPUTED" ELSE "ACTIVE"
  /\ h.step = "close" => h.op \in {"unlink", "relink", "merge", "split"}
  /\ Moves(h) /\ Concludes(h) =>
       h.link \in Written /\ KeysOf(h.link) \subseteq h.keys /\ SameLink(h.copy, h.link)

HoldsTarget(h) ==
  /\ Reserves(h) => h.to \in Link /\ h.to <= issued /\ links[h.to] = NoRow
  /\ Reserves(h) \/ h.step \in {"record", "restore"} =>
       /\ h.op \notin {"unlink", "dispute", "resolve"}
       /\ h.target \in Person \cap h.keys
       /\ h.copy # NoRow /\ h.copy.identifier \in h.keys
  /\ h.step = "record" => h.to \in Written /\ links[h.to].identifier = h.copy.identifier
  /\ h.step = "restore" => h.op = "relink" /\ h.record # NoRow
  /\ h.step \in {"conclude", "end", "replace"} =>
       /\ Moves(h) /\ h.target \in Person
       /\ h.copy # NoRow /\ h.copy.person \in h.keys

HoldsRest(h) ==
  /\ ~ Moves(h) => h.rest = {}
  /\ \A pair \in h.rest :
       /\ pair[1] \in Written /\ pair[1] # h.link
       /\ SameLink(pair[2], pair[1]) /\ KeysOf(pair[1]) \subseteq h.keys
  /\ \A pair, other \in h.rest : pair[1] = other[1] => pair = other
  /\ Paired(h.moved)
  /\ h.step = "conclude" => h.rest = {} /\ h.moved # {}

\* The second link of each pair a merge moved is what its split moves back.
HoldsMerge(h) ==
  /\ h.op = "merge" /\ h.step # "idle" => h.record # NoRow
  /\ h.op = "merge" /\ Concludes(h) => h.merge \in Merge /\ merges[h.merge] = NoRow
  /\ h.op = "split" /\ h.step # "idle" =>
       /\ Concludes(h)
       /\ h.merge \in Merge /\ merges[h.merge] # NoRow
       /\ h.target = merges[h.merge].duplicate
       /\ \A pair \in merges[h.merge].moved : links[pair[2]].identifier \in h.keys
       /\ h.step \in {"close", "open"} => \E pair \in merges[h.merge].moved : pair[2] = h.link
       /\ \A back \in h.rest : \E pair \in merges[h.merge].moved : pair[2] = back[1]

Holding(h) ==
  /\ h.step = "idle" => h = Idle
  /\ HoldsLink(h)
  /\ HoldsTarget(h)
  /\ HoldsRest(h)
  /\ HoldsMerge(h)

----------------------------------------------------------------------------
(* What a handler may claim of the persons and identifiers that are not     *)
(* crossed.                                                                 *)

\* Before a link is opened its identifier has no current link but the one that is
\* being closed.
ClaimsLink(h) ==
  /\ Reserves(h) /\ h.copy.identifier \notin crossed =>
       Current(h.copy.identifier) \subseteq (IF h.step = "open" THEN {} ELSE {h.link})
  /\ h.step = "save" \/ (h.step = "close" /\ h.op = "unlink") =>
       h.copy.identifier \in crossed \/ InForce(h.link)
  /\ \A pair \in h.rest : links[pair[1]].identifier \notin crossed => InForce(pair[1])

\* A foundational link is closed once the row no longer matches its identifier; a
\* row gets its identifier back once the link is there again.
ClaimsSubject(h) ==
  /\ h.op = "unlink" /\ h.step \in {"find", "close"} =>
       LET row == links[h.link] IN
       row.foundational /\ KeysOf(h.link) \cap crossed = {} =>
         register[row.person].subject # row.identifier
  /\ h.op = "relink" /\ h.step \in {"record", "restore"} =>
       \/ h.target \in crossed \/ h.copy.identifier \in crossed
       \/ <<h.target, h.copy.identifier>> \notin disowned

\* A merge closes links of a person who is not under dispute.
ClaimsDispute(h) ==
  h.op = "merge" =>
    /\ h.step = "close" /\ h.copy.person \notin crossed => ~ Restricted(h.copy.person)
    /\ \A pair \in h.rest, p \in Person \ crossed :
         links[pair[1]].person = p => ~ Restricted(p)

Pending(h, l) == (h.link = l /\ h.step \in {"close", "open"}) \/ \E pair \in h.rest : pair[1] = l

Leads(i, p) == Current(i) # {} /\ \A l \in Current(i) : links[l].person = p

\* Each identifier that moved is still to be moved back, or leads to the duplicate.
ClaimsSplit(h) ==
  h.op = "split" /\ h.step # "idle" =>
    LET moved == merges[h.merge].moved IN
    /\ \A pair, other \in moved :
         \/ links[pair[2]].identifier \in crossed
         \/ links[other[2]].identifier # links[pair[2]].identifier
         \/ pair[2] = other[2]
    /\ \A pair \in moved, i \in Identifier \ crossed :
         links[pair[2]].identifier = i => Pending(h, pair[2]) \/ Leads(i, h.target)

Claims(h) == ClaimsLink(h) /\ ClaimsSubject(h) /\ ClaimsDispute(h) /\ ClaimsSplit(h)

----------------------------------------------------------------------------
Typed ==
  /\ links \in [Link -> LinkRow \cup {NoRow}]
  /\ opened \subseteq Written
  /\ merges \in [Merge -> MergeRow \cup {NoRow}]
  /\ register \in [Person -> RegisterRow]
  /\ issued \in 0 .. MaxLinks
  /\ \A l \in Written : l <= issued
  /\ crossed \subseteq Person \cup Identifier
  /\ disowned \subseteq Person \X Identifier
  /\ faults \in Nat

MergesInv ==
  \A m \in Merge : merges[m] # NoRow => merges[m].moved # {} /\ Paired(merges[m].moved)

OneInv == \A i \in Identifier \ crossed : \A l, k \in Current(i) : l = k

Away(p, i) == register[p].subject # i /\ \A l \in Current(i) : links[l].person # p

DisownedInv ==
  \A p \in Person \ crossed, i \in Identifier \ crossed : <<p, i>> \in disowned => Away(p, i)

StoreInv == Typed /\ MergesInv /\ OneInv /\ DisownedInv

HandlersInv ==
  /\ handler \in [Handler -> HandlerState]
  /\ \A q \in Handler : Holding(handler[q]) /\ Claims(handler[q])

\* What two handlers under way have in hand is crossed.
AloneInv ==
  \A p, q \in Handler : p # q /\ handler[p].step # "idle" /\ handler[q].step # "idle" =>
    handler[p].keys \subseteq crossed

\* Two handlers hold two ids.
DrawnInv ==
  \A p, q \in Handler : p # q =>
    LET g == handler[p]
        h == handler[q]
    IN  /\ Reserves(g) /\ Reserves(h) => g.to # h.to
        /\ g.op = "merge" /\ Concludes(g) /\ h.op = "merge" /\ Concludes(h) => g.merge # h.merge

IInv == StoreInv /\ HandlersInv /\ AloneInv /\ DrawnInv

----------------------------------------------------------------------------
(* What stays.                                                              *)

\* A link keeps its person and its identifier.
Linked ==
  \A l \in Written :
    /\ l \in Written'
    /\ links'[l].person = links[l].person
    /\ links'[l].identifier = links[l].identifier
    /\ links'[l].foundational = links[l].foundational

\* A merge keeps what it moved, and for whom.
Merged ==
  \A m \in Merge : merges[m] # NoRow =>
    /\ merges'[m] # NoRow
    /\ merges'[m].duplicate = merges[m].duplicate
    /\ merges'[m].moved = merges[m].moved

LEMMA LinkedWritten ==
  ASSUME Linked, NEW l \in Written
  PROVE  /\ l \in Written'
         /\ KeysOf(l)' = KeysOf(l)
         /\ \A row : SameLink(row, l) => SameLink(row, l)'
<1>1. /\ l \in Written'
      /\ links'[l].person = links[l].person
      /\ links'[l].identifier = links[l].identifier
      /\ links'[l].foundational = links[l].foundational
  BY DEF Linked
<1>2. KeysOf(l)' = KeysOf(l)
  BY <1>1, Zenon DEF KeysOf
<1>3. ASSUME NEW row, SameLink(row, l) PROVE SameLink(row, l)'
  BY <1>1, <1>3, Zenon DEF SameLink
<1> QED BY <1>1, <1>2, <1>3

LEMMA PairedStays ==
  ASSUME Linked, NEW pairs, Paired(pairs)
  PROVE  Paired(pairs)'
BY DEF Linked, Paired

\* What another handler holds stays so, as long as nobody uses the id it drew.
LEMMA HoldingStays ==
  ASSUME NEW h, Holding(h), Linked, Merged, issued \in Nat, issued' \in Nat, issued <= issued',
         h.step = "idle" \/ h.to \in Int,
         Reserves(h) => links'[h.to] = NoRow,
         h.op = "merge" /\ Concludes(h) => merges'[h.merge] = NoRow,
         Typed, MergesInv
  PROVE  Holding(h)'
<1>1. HoldsLink(h)'
  <2>1. h.link \in Written =>
          /\ h.link \in Written' /\ KeysOf(h.link)' = KeysOf(h.link)
          /\ SameLink(h.copy, h.link) => SameLink(h.copy, h.link)'
    BY LinkedWritten
  <2>2. h.link \in Written => links'[h.link].person = links[h.link].person
    BY DEF Linked
  <2>3. HoldsLink(h)
    BY DEF Holding
  <2> QED BY <2>1, <2>2, <2>3 DEF HoldsLink, Moves, Concludes
<1>2. HoldsTarget(h)'
  <2>1. Reserves(h) => h.to <= issued'
    BY DEF Holding, HoldsTarget, Reserves
  <2>2. h.step = "record" => h.to \in Written' /\ links'[h.to].identifier = h.copy.identifier
    BY DEF Holding, HoldsTarget, Linked
  <2>3. HoldsTarget(h)
    BY DEF Holding
  <2> QED BY <2>1, <2>2, <2>3 DEF HoldsTarget, Reserves, Moves
<1>3. HoldsRest(h)'
  <2>1. HoldsRest(h) /\ Paired(h.moved)'
    BY PairedStays DEF Holding, HoldsRest
  <2>2. \A pair \in h.rest :
          /\ pair[1] \in Written' /\ pair[1] # h.link
          /\ SameLink(pair[2], pair[1])' /\ KeysOf(pair[1])' \subseteq h.keys
    BY <2>1, LinkedWritten DEF HoldsRest
  <2> QED BY <2>1, <2>2 DEF HoldsRest, Moves
<1>4. HoldsMerge(h)'
  <2>1. CASE h.op = "split" /\ h.step # "idle"
    <3>m. PICK m : m = h.merge
      OBVIOUS
    <3>1. HoldsMerge(h) /\ m \in Merge /\ merges[m] # NoRow
      BY <2>1, <3>m DEF Holding, HoldsMerge
    <3>2. /\ merges'[m] # NoRow /\ merges'[m].duplicate = merges[m].duplicate
          /\ merges'[m].moved = merges[m].moved
      BY <3>1 DEF Merged
    <3>3. \A pair \in merges[m].moved : links'[pair[2]].identifier = links[pair[2]].identifier
      BY <3>1 DEF Linked, MergesInv, Paired
    <3> QED BY <2>1, <3>m, <3>1, <3>2, <3>3 DEF HoldsMerge, Concludes
  <2>2. CASE ~ (h.op = "split" /\ h.step # "idle")
    BY <2>2 DEF Holding, HoldsMerge, Concludes
  <2> QED BY <2>1, <2>2
<1> QED BY <1>1, <1>2, <1>3, <1>4 DEF Holding

LEMMA IdleIs ==
  /\ Idle \in HandlerState /\ Idle.step = "idle" /\ Idle.op = "idle" /\ Idle.keys = {}
  /\ Idle.rest = {} /\ Idle.moved = {} /\ Idle.merge = NoMerge /\ Idle.to = NoLink
BY DEF Idle, HandlerState, NoLink

LEMMA IdleHolds ==
  ASSUME NEW x, x = Idle
  PROVE  /\ x \in HandlerState /\ Holding(x) /\ Holding(x)' /\ Claims(x) /\ Claims(x)'
         /\ x.step = "idle" /\ x.op = "idle" /\ x.keys = {}
<1>1. /\ x \in HandlerState /\ x.step = "idle" /\ x.op = "idle" /\ x.keys = {}
      /\ x.rest = {} /\ x.moved = {}
  BY IdleIs
<1>2. Holding(x) /\ Holding(x)'
  BY <1>1 DEF Holding, HoldsLink, HoldsTarget, HoldsRest, HoldsMerge, Moves, Concludes, Reserves, Paired
<1>3. Claims(x) /\ Claims(x)'
  BY <1>1 DEF Claims, ClaimsLink, ClaimsSubject, ClaimsDispute, ClaimsSplit, Reserves
<1> QED BY <1>1, <1>2, <1>3

\* Of what is crossed nothing is claimed.
LEMMA CrossedClaimsNothing ==
  ASSUME NEW h, Holding(h), h.keys \subseteq crossed
  PROVE  Claims(h)
<1>1. ClaimsLink(h)
  BY DEF Holding, HoldsLink, HoldsTarget, HoldsRest, ClaimsLink, KeysOf, SameLink
<1>2. ClaimsSubject(h)
  BY DEF Holding, HoldsLink, HoldsTarget, ClaimsSubject, KeysOf
<1>3. ClaimsDispute(h)
  BY DEF Holding, HoldsLink, HoldsRest, ClaimsDispute, KeysOf, SameLink
<1>4. ClaimsSplit(h)
  BY DEF Holding, HoldsMerge, ClaimsSplit
<1> QED BY <1>1, <1>2, <1>3, <1>4 DEF Claims

LEMMA CrossedClaimsNothingThen ==
  ASSUME NEW h, Holding(h)', h.keys \subseteq crossed'
  PROVE  Claims(h)'
<1>1. ClaimsLink(h)'
  BY DEF Holding, HoldsLink, HoldsTarget, HoldsRest, ClaimsLink, KeysOf, SameLink
<1>2. ClaimsSubject(h)'
  BY DEF Holding, HoldsLink, HoldsTarget, ClaimsSubject, KeysOf
<1>3. ClaimsDispute(h)'
  BY DEF Holding, HoldsLink, HoldsRest, ClaimsDispute, KeysOf, SameLink
<1>4. ClaimsSplit(h)'
  BY DEF Holding, HoldsMerge, ClaimsSplit
<1> QED BY <1>1, <1>2, <1>3, <1>4 DEF Claims

\* More is crossed, and nothing else is different.
LEMMA ClaimsStay ==
  ASSUME NEW h, Claims(h), UNCHANGED <<links, merges, register, disowned>>,
         crossed \subseteq crossed'
  PROVE  Claims(h)'
<1>1. /\ \A l : InForce(l)' <=> InForce(l)
      /\ \A i : Current(i)' = Current(i) /\ \A p : Leads(i, p)' <=> Leads(i, p)
      /\ \A p : Restricted(p)' <=> Restricted(p)
      /\ \A l : KeysOf(l)' = KeysOf(l)
  BY DEF InForce, Current, Leads, Restricted, CurrentOf, Written, KeysOf
<1>2. ClaimsLink(h)'
  BY <1>1 DEF Claims, ClaimsLink, Reserves
<1>3. ClaimsSubject(h)'
  BY <1>1 DEF Claims, ClaimsSubject
<1>4. ClaimsDispute(h)'
  BY <1>1 DEF Claims, ClaimsDispute
<1>5. ClaimsSplit(h)'
  BY <1>1 DEF Claims, ClaimsSplit, Pending
<1> QED BY <1>2, <1>3, <1>4, <1>5 DEF Claims

----------------------------------------------------------------------------
(* One step of a handler among the others.                                  *)

LEMMA UnderWay ==
  ASSUME IInv, NEW q \in Handler
  PROVE  /\ handler[q] \in HandlerState /\ Holding(handler[q]) /\ Claims(handler[q])
         /\ StoreInv /\ Typed /\ MergesInv /\ OneInv /\ DisownedInv
BY DEF IInv, HandlersInv, StoreInv

LEMMA IdsAreIntegers ==
  /\ MaxLinks \in Nat /\ Link \subseteq Nat /\ NoLink \notin Link /\ NoLink \in Nat
  /\ \A h \in HandlerState : h.to \in Nat
BY IdentityLinksAssumption DEF Link, NoLink, HandlerState

\* What a step of a handler under way has left to show.
LEMMA StepKeeps ==
  ASSUME IInv, NEW q \in Handler, NEW next \in HandlerState, handler[q].step # "idle",
         Goes(q, next), next.keys = handler[q].keys \/ next.step = "idle",
         Linked, Merged, issued <= issued', crossed \subseteq crossed', StoreInv',
         \A l \in Link : links[l] = NoRow =>
           links'[l] = NoRow \/ (Reserves(handler[q]) /\ l = handler[q].to),
         \A m \in Merge : merges[m] = NoRow =>
           \/ merges'[m] = NoRow
           \/ handler[q].op = "merge" /\ Concludes(handler[q]) /\ m = handler[q].merge,
         Holding(next)', Claims(next)',
         Reserves(next) => issued < next.to \/ (Reserves(handler[q]) /\ next.to = handler[q].to),
         next.op = "merge" /\ Concludes(next) =>
           handler[q].op = "merge" /\ Concludes(handler[q]) /\ next.merge = handler[q].merge
  PROVE  IInv'
<1>1. /\ handler \in [Handler -> HandlerState] /\ handler' = [handler EXCEPT ![q] = next]
      /\ handler' \in [Handler -> HandlerState] /\ handler'[q] = next
      /\ \A p \in Handler : p # q => handler'[p] = handler[p]
  BY DEF IInv, HandlersInv, Goes
<1>2. issued \in Nat /\ issued' \in Nat
  BY IdentityLinksAssumption DEF IInv, StoreInv, Typed
<1>3. ASSUME NEW p \in Handler, p # q, NEW h, h = handler[p]
      PROVE  Holding(h)' /\ Claims(h)'
  <2>1. h \in HandlerState /\ Holding(h) /\ Typed /\ MergesInv
    BY <1>3, UnderWay
  <2>2. h.to \in Int
    BY <2>1, IdsAreIntegers
  <2>3. Reserves(h) => links'[h.to] = NoRow
    <3>1. Reserves(h) => h.to \in Link /\ links[h.to] = NoRow
      BY <2>1 DEF Holding, HoldsTarget
    <3>2. Reserves(h) /\ Reserves(handler[q]) => h.to # handler[q].to
      BY <1>3 DEF IInv, DrawnInv
    <3> QED BY <3>1, <3>2
  <2>4. h.op = "merge" /\ Concludes(h) => merges'[h.merge] = NoRow
    <3>1. h.op = "merge" /\ Concludes(h) => h.merge \in Merge /\ merges[h.merge] = NoRow
      BY <2>1 DEF Holding, HoldsMerge
    <3>2. h.op = "merge" /\ Concludes(h) /\ handler[q].op = "merge" /\ Concludes(handler[q]) =>
            h.merge # handler[q].merge
      BY <1>3 DEF IInv, DrawnInv
    <3> QED BY <3>1, <3>2
  <2>5. Holding(h)'
    BY <1>2, <2>1, <2>2, <2>3, <2>4, HoldingStays
  <2>6. h.keys \subseteq crossed
    <3>1. CASE h.step = "idle"
      BY <2>1, <3>1, IdleIs DEF Holding
    <3>2. CASE h.step # "idle"
      BY <1>3, <3>2 DEF IInv, AloneInv
    <3> QED BY <3>1, <3>2
  <2> QED BY <2>5, <2>6, CrossedClaimsNothingThen
<1>4. HandlersInv'
  <2>1. ASSUME NEW p \in Handler, NEW h, h = handler'[p] PROVE Holding(h)' /\ Claims(h)'
    BY <1>1, <1>3, <2>1
  <2> QED BY <1>1, <2>1 DEF HandlersInv
<1>5. AloneInv'
  <2>1. ASSUME NEW p \in Handler, NEW o \in Handler, p # o,
               handler'[p].step # "idle", handler'[o].step # "idle"
        PROVE  handler'[p].keys \subseteq crossed'
    <3>1. \A x \in Handler : handler'[x].step # "idle" =>
            handler[x].step # "idle" /\ handler'[x].keys = handler[x].keys
      BY <1>1
    <3> QED BY <2>1, <3>1 DEF IInv, AloneInv
  <2> QED BY <2>1 DEF AloneInv
<1>6. DrawnInv'
  <2>1. ASSUME NEW p \in Handler, p # q, NEW h, h = handler[p]
        PROVE  /\ Reserves(h) /\ Reserves(next) => h.to # next.to
               /\ h.op = "merge" /\ Concludes(h) /\ next.op = "merge" /\ Concludes(next) =>
                    h.merge # next.merge
    <3>1. h \in HandlerState /\ Holding(h)
      BY <2>1, UnderWay
    <3>2. Reserves(h) => h.to \in Nat /\ h.to <= issued
      BY <3>1, IdsAreIntegers DEF Holding, HoldsTarget
    <3>3. next.to \in Nat
      BY IdsAreIntegers
    <3>4. /\ Reserves(h) /\ Reserves(handler[q]) => h.to # handler[q].to
          /\ h.op = "merge" /\ Concludes(h) /\ handler[q].op = "merge" /\ Concludes(handler[q]) =>
               h.merge # handler[q].merge
      BY <2>1 DEF IInv, DrawnInv
    <3> QED BY <1>2, <3>2, <3>3, <3>4
  <2>2. ASSUME NEW p \in Handler, NEW o \in Handler, p # o,
               NEW g, g = handler'[p], NEW h, h = handler'[o]
        PROVE  /\ Reserves(g) /\ Reserves(h) => g.to # h.to
               /\ g.op = "merge" /\ Concludes(g) /\ h.op = "merge" /\ Concludes(h) =>
                    g.merge # h.merge
    <3>1. CASE p = q
      BY <1>1, <2>1, <2>2, <3>1
    <3>2. CASE o = q
      BY <1>1, <2>1, <2>2, <3>2
    <3>3. CASE p # q /\ o # q
      BY <1>1, <2>2, <3>3 DEF IInv, DrawnInv
    <3> QED BY <3>1, <3>2, <3>3
  <2> QED BY <2>2 DEF DrawnInv, Reserves, Concludes
<1> QED BY <1>4, <1>5, <1>6 DEF IInv

\* The tables stay.
LEMMA TablesStay ==
  ASSUME StoreInv, UNCHANGED <<tables, disowned>>, crossed \subseteq crossed',
         crossed' \subseteq Person \cup Identifier, issued' \in 0 .. MaxLinks, issued <= issued',
         faults' \in Nat
  PROVE  StoreInv' /\ Linked /\ Merged
<1>1. /\ UNCHANGED <<links, opened, merges, register>> /\ Written' = Written
      /\ \A i : Current(i)' = Current(i)
  BY DEF tables, Written, Current, InForce
<1>2. Linked /\ Merged
  BY <1>1 DEF Linked, Merged
<1>3. Typed'
  <2>1. \A l \in Written' : l <= issued'
    BY <1>1, IdsAreIntegers DEF StoreInv, Typed, Written
  <2> QED BY <1>1, <2>1 DEF StoreInv, Typed
<1>4. MergesInv'
  BY <1>1 DEF StoreInv, MergesInv, Paired
<1>5. OneInv'
  BY <1>1 DEF StoreInv, OneInv
<1>6. DisownedInv'
  BY <1>1 DEF StoreInv, DisownedInv, Away
<1> QED BY <1>2, <1>3, <1>4, <1>5, <1>6 DEF StoreInv

\* What the start of a request has left to show.
LEMMA StartKeeps ==
  ASSUME IInv, NEW q \in Handler, NEW request \in HandlerState, Start(q, request),
         handler[q].step = "idle", UNCHANGED <<tables, disowned>>, Holding(request)', Claims(request),
         issued' \in 0 .. MaxLinks, issued <= issued',
         Reserves(request) => issued < request.to,
         request.op = "merge" => \A r \in Handler : handler[r].merge # request.merge
  PROVE  IInv'
<1>1. /\ handler \in [Handler -> HandlerState] /\ handler' = [handler EXCEPT ![q] = request]
      /\ handler' \in [Handler -> HandlerState] /\ handler'[q] = request
      /\ \A p \in Handler : p # q => handler'[p] = handler[p]
  BY DEF IInv, HandlersInv, Start
<1>2. issued \in Nat /\ issued' \in Nat
  BY IdentityLinksAssumption DEF IInv, StoreInv, Typed
<1>3. \A p \in Handler : handler[p].keys \subseteq Person \cup Identifier
                         /\ (handler[p].step = "idle" => handler[p].keys = {})
  <2>1. ASSUME NEW p \in Handler
        PROVE  handler[p].keys \subseteq Person \cup Identifier
               /\ (handler[p].step = "idle" => handler[p].keys = {})
    BY <1>1, UnderWay, IdleIs DEF Holding, HandlerState
  <2> QED BY <2>1
<1>4. request.keys \subseteq Person \cup Identifier
  BY DEF HandlerState
<1>5. PICK rivals : rivals = UNION {Busy(key) : key \in request.keys}
  OBVIOUS
<1>6. \A r \in rivals : r \in Handler /\ handler[r].step # "idle"
  <2>1. ASSUME NEW r \in rivals PROVE r \in Handler /\ handler[r].step # "idle"
    <3>1. PICK key \in request.keys : r \in Busy(key)
      BY <1>5
    <3> QED BY <1>3, <3>1 DEF Busy
  <2> QED BY <2>1
<1>7. \/ /\ \A r \in Handler : handler[r].step = "idle"
         /\ crossed' = crossed /\ faults' = faults
      \/ /\ rivals # {} /\ faults' = faults + 1
         /\ crossed' = crossed \cup request.keys \cup UNION {handler[r].keys : r \in rivals}
  BY <1>5, Zenon DEF Start
<1>8. /\ crossed \subseteq crossed' /\ crossed' \subseteq Person \cup Identifier
      /\ faults' \in Nat
  <2>1. crossed \subseteq Person \cup Identifier /\ faults \in Nat
    BY DEF IInv, StoreInv, Typed
  <2>2. UNION {handler[r].keys : r \in rivals} \subseteq Person \cup Identifier
    BY <1>3, <1>6
  <2> QED BY <1>4, <1>7, <2>1, <2>2
<1>9. StoreInv' /\ Linked /\ Merged
  BY <1>8, TablesStay DEF IInv
<1>10. UNCHANGED <<links, merges, register, disowned>>
  BY DEF tables
<1>11. ASSUME NEW p \in Handler, p # q, NEW h, h = handler[p]
       PROVE  Holding(h)' /\ Claims(h)'
  <2>1. h \in HandlerState /\ Holding(h) /\ Claims(h) /\ Typed /\ MergesInv
    BY <1>11, UnderWay
  <2>2. h.to \in Int
    BY <2>1, IdsAreIntegers
  <2>3. /\ Reserves(h) => links'[h.to] = NoRow
        /\ h.op = "merge" /\ Concludes(h) => merges'[h.merge] = NoRow
    BY <1>10, <2>1 DEF Holding, HoldsTarget, HoldsMerge
  <2>4. Holding(h)'
    BY <1>2, <1>9, <2>1, <2>2, <2>3, HoldingStays
  <2> QED BY <1>8, <1>10, <2>1, <2>4, ClaimsStay
<1>12. Claims(request)'
  BY <1>8, <1>10, ClaimsStay
<1>13. HandlersInv'
  <2>1. ASSUME NEW p \in Handler, NEW h, h = handler'[p] PROVE Holding(h)' /\ Claims(h)'
    BY <1>1, <1>11, <1>12, <2>1
  <2> QED BY <1>1, <2>1 DEF HandlersInv
<1>14. AloneInv'
  <2>1. ASSUME NEW p \in Handler, NEW o \in Handler, p # o,
               handler'[p].step # "idle", handler'[o].step # "idle"
        PROVE  handler'[p].keys \subseteq crossed'
    <3>1. /\ rivals # {}
          /\ crossed' = crossed \cup request.keys \cup UNION {handler[r].keys : r \in rivals}
      BY <1>1, <1>7, <2>1
    <3>2. CASE p = q
      BY <1>1, <3>1, <3>2
    <3>3. CASE p \in rivals
      BY <1>1, <1>6, <3>1, <3>3
    <3>4. CASE p # q /\ p \notin rivals
      <4>1. PICK r \in rivals : TRUE
        BY <3>1
      <4>2. r \in Handler /\ r # p /\ handler[r].step # "idle" /\ handler[p].step # "idle"
        BY <1>1, <1>6, <2>1, <3>4, <4>1
      <4> QED BY <1>1, <1>8, <3>4, <4>2 DEF IInv, AloneInv
    <3> QED BY <3>2, <3>3, <3>4
  <2> QED BY <2>1 DEF AloneInv
<1>15. DrawnInv'
  <2>1. ASSUME NEW p \in Handler, p # q, NEW h, h = handler[p]
        PROVE  /\ Reserves(h) /\ Reserves(request) => h.to # request.to
               /\ request.op = "merge" => h.merge # request.merge
    <3>1. h \in HandlerState /\ Holding(h)
      BY <2>1, UnderWay
    <3>2. Reserves(h) => h.to \in Nat /\ h.to <= issued
      BY <3>1, IdsAreIntegers DEF Holding, HoldsTarget
    <3>3. request.to \in Nat
      BY IdsAreIntegers
    <3> QED BY <1>2, <2>1, <3>2, <3>3
  <2>2. ASSUME NEW p \in Handler, NEW o \in Handler, p # o,
               NEW g, g = handler'[p], NEW h, h = handler'[o]
        PROVE  /\ Reserves(g) /\ Reserves(h) => g.to # h.to
               /\ g.op = "merge" /\ Concludes(g) /\ h.op = "merge" /\ Concludes(h) =>
                    g.merge # h.merge
    <3>1. CASE p = q
      BY <1>1, <2>1, <2>2, <3>1
    <3>2. CASE o = q
      BY <1>1, <2>1, <2>2, <3>2
    <3>3. CASE p # q /\ o # q
      BY <1>1, <2>2, <3>3 DEF IInv, DrawnInv
    <3> QED BY <3>1, <3>2, <3>3
  <2> QED BY <2>2 DEF DrawnInv, Reserves, Concludes
<1> QED BY <1>9, <1>13, <1>14, <1>15 DEF IInv

----------------------------------------------------------------------------
(* The requests.                                                            *)

LEMMA OpeningIs ==
  ASSUME NEW p \in Person, NEW i \in Identifier, NEW f \in BOOLEAN,
         NEW row, row = Opening(p, i, f)
  PROVE  /\ row \in LinkRow /\ row # NoRow /\ row.person = p /\ row.identifier = i
         /\ row.foundational = f /\ row.status = "ACTIVE"
<1>1. /\ row \in LinkRow /\ row.person = p /\ row.identifier = i
      /\ row.foundational = f /\ row.status = "ACTIVE"
  BY DEF Opening, LinkRow, LinkStatus
<1> QED BY <1>1, NoRowAssumption

\* An id that is drawn is nobody's yet.
LEMMA DrawnIs ==
  ASSUME Typed, Draw
  PROVE  /\ issued + 1 \in Link /\ issued' = issued + 1 /\ issued' \in 0 .. MaxLinks
         /\ issued \in Nat /\ links[issued + 1] = NoRow
<1>1. /\ issued \in 0 .. MaxLinks /\ issued' = issued + 1 /\ issued + 1 <= MaxLinks
      /\ MaxLinks \in Nat
  BY IdentityLinksAssumption DEF Typed, Draw, Fresh
<1>2. issued + 1 \in Link /\ issued' \in 0 .. MaxLinks /\ ~ (issued + 1 <= issued)
  BY <1>1 DEF Link
<1>3. links[issued + 1] = NoRow
  BY <1>2 DEF Typed, Written
<1> QED BY <1>1, <1>2, <1>3

\* A link to open, for an identifier that has none.
LEMMA OpeningRequestKeeps ==
  ASSUME IInv, NEW q \in Handler, handler[q].step = "idle", NEW op \in {"link", "backfill"},
         NEW p \in Person, NEW i \in Identifier, NEW f \in BOOLEAN, Current(i) = {},
         NEW request, Start(q, request), Draw, UNCHANGED <<tables, disowned>>,
         request \in HandlerState, request.op = op, request.step = "open",
         request.keys = {p, i}, request.to = issued + 1, request.target = p,
         request.copy = Opening(p, i, f), request.rest = {}, request.moved = {}
  PROVE  IInv'
<1>1. /\ issued + 1 \in Link /\ issued' = issued + 1 /\ issued' \in 0 .. MaxLinks
      /\ issued \in Nat /\ links[issued + 1] = NoRow /\ issued <= issued' /\ issued < issued + 1
  BY UnderWay, DrawnIs
<1>2. PICK row : row = Opening(p, i, f)
  OBVIOUS
<1>3. row # NoRow /\ row.identifier = i
  BY <1>2, OpeningIs
<1>4. UNCHANGED <<links, merges>>
  BY DEF tables
<1>5. Holding(request)'
  BY <1>1, <1>2, <1>3, <1>4
     DEF Holding, HoldsLink, HoldsTarget, HoldsRest, HoldsMerge, Moves, Concludes, Reserves, Paired
<1>6. Claims(request)
  BY <1>2, <1>3 DEF Claims, ClaimsLink, ClaimsSubject, ClaimsDispute, ClaimsSplit, Reserves
<1> QED BY <1>1, <1>5, <1>6, StartKeeps

LEMMA RequestLinkKeeps ==
  ASSUME IInv, NEW q \in Handler, handler[q].step = "idle", NEW p \in Person,
         NEW i \in Identifier, RequestLink(q, p, i)
  PROVE  IInv'
<1>1. PICK row, id : row = Opening(p, i, FALSE) /\ id = issued + 1
  OBVIOUS
<1>2. row \in LinkRow
  BY <1>1, OpeningIs
<1>3. PICK request : request = [Idle EXCEPT !.op = "link", !.step = "open", !.keys = {p, i},
                                            !.to = id, !.target = p, !.copy = row]
  OBVIOUS
<1>4. /\ Start(q, request) /\ Draw /\ UNCHANGED <<tables, disowned>> /\ Current(i) = {}
  BY <1>1, <1>3 DEF RequestLink
<1>5. id \in Link
  BY <1>1, <1>4, UnderWay, DrawnIs
<1>6. /\ request \in HandlerState /\ request.op = "link" /\ request.step = "open"
      /\ request.keys = {p, i} /\ request.to = id /\ request.target = p
      /\ request.copy = row /\ request.rest = {} /\ request.moved = {}
  BY <1>2, <1>3, <1>5 DEF HandlerState, Idle
<1> QED BY <1>1, <1>4, <1>6, OpeningRequestKeeps

LEMMA BackfillKeeps ==
  ASSUME IInv, NEW q \in Handler, handler[q].step = "idle", NEW p \in Person, Backfill(q, p)
  PROVE  IInv'
<1>0. PICK i : i = register[p].subject
  OBVIOUS
<1>1. i \in Identifier /\ Current(i) = {}
  BY <1>0, UnderWay DEF Backfill, Backed, Typed, RegisterRow
<1>2. PICK row, id : row = Opening(p, i, TRUE) /\ id = issued + 1
  OBVIOUS
<1>3. row \in LinkRow
  BY <1>1, <1>2, OpeningIs
<1>4. PICK request : request = [Idle EXCEPT !.op = "backfill", !.step = "open", !.keys = {p, i},
                                            !.to = id, !.target = p, !.copy = row]
  OBVIOUS
<1>5. /\ Start(q, request) /\ Draw /\ UNCHANGED <<tables, disowned>>
  BY <1>0, <1>2, <1>4 DEF Backfill
<1>6. id \in Link
  BY <1>2, <1>5, UnderWay, DrawnIs
<1>7. /\ request \in HandlerState /\ request.op = "backfill" /\ request.step = "open"
      /\ request.keys = {p, i} /\ request.to = id /\ request.target = p
      /\ request.copy = row /\ request.rest = {} /\ request.moved = {}
  BY <1>1, <1>3, <1>4, <1>6 DEF HandlerState, Idle
<1> QED BY <1>1, <1>2, <1>5, <1>7, OpeningRequestKeeps

LEMMA RowsAreNotAbsent == \A row \in LinkRow \cup RegisterRow \cup MergeRow : row # NoRow
BY NoRowAssumption

\* The row of a link that was opened.
LEMMA RowIs ==
  ASSUME Typed, NEW l \in Written, NEW row, row = links[l]
  PROVE  /\ l \in Link /\ row \in LinkRow /\ row # NoRow /\ SameLink(row, l)
         /\ row.person \in Person /\ row.identifier \in Identifier
         /\ row.status \in LinkStatus /\ row.foundational \in BOOLEAN
         /\ KeysOf(l) = {row.person, row.identifier}
<1>1. l \in Link /\ row \in LinkRow /\ row # NoRow
  BY DEF Typed, Written
<1>2. /\ row.person \in Person /\ row.identifier \in Identifier
      /\ row.status \in LinkStatus /\ row.foundational \in BOOLEAN
  BY <1>1 DEF LinkRow
<1>3. SameLink(row, l) /\ KeysOf(l) = {row.person, row.identifier}
  BY DEF SameLink, KeysOf
<1> QED BY <1>1, <1>2, <1>3

\* A dispute, or the end of one: the status is all that changes.
LEMMA DisputeRequestKeeps ==
  ASSUME IInv, NEW q \in Handler, handler[q].step = "idle", NEW op \in {"dispute", "resolve"},
         NEW l \in Written, InForce(l), NEW status,
         status = IF op = "dispute" THEN "DISPUTED" ELSE "ACTIVE",
         NEW row, row = links[l], NEW copy, copy = [row EXCEPT !.status = status],
         NEW request, Start(q, request), UNCHANGED <<tables, issued, disowned>>,
         NEW keys, keys = KeysOf(l),
         request = [Idle EXCEPT !.op = op, !.step = "save", !.keys = keys, !.link = l,
                                !.copy = copy]
  PROVE  IInv'
<1>1. /\ l \in Link /\ row \in LinkRow /\ SameLink(row, l) /\ keys \subseteq Person \cup Identifier
  BY UnderWay, RowIs
<1>2. status \in {"DISPUTED", "ACTIVE"}
  OBVIOUS
<1>3. /\ copy \in LinkRow /\ copy.status = status /\ copy.person = row.person
      /\ copy.identifier = row.identifier /\ copy.foundational = row.foundational
  BY <1>1, <1>2 DEF LinkRow, LinkStatus
<1>4. SameLink(copy, l) /\ copy # NoRow
  BY <1>1, <1>3, NoRowAssumption DEF SameLink
<1>5. /\ request \in HandlerState /\ request.op = op /\ request.step = "save"
      /\ request.keys = keys /\ request.link = l /\ request.copy = copy
      /\ request.rest = {} /\ request.moved = {}
  BY <1>1, <1>3 DEF HandlerState, Idle
<1>6. UNCHANGED <<links, merges>> /\ Written' = Written /\ KeysOf(l)' = KeysOf(l)
  BY DEF tables, Written, KeysOf
<1>7. Holding(request)'
  <2>1. SameLink(request.copy, request.link)' /\ KeysOf(request.link)' \subseteq request.keys
    BY <1>3, <1>5, <1>6, <1>1 DEF SameLink, KeysOf
  <2>2. HoldsLink(request)'
    <3>1. request.copy.status = IF request.op = "dispute" THEN "DISPUTED" ELSE "ACTIVE"
      BY <1>3, <1>5
    <3>2. request.link \in Written' /\ request.copy # NoRow /\ request.op \in {"dispute", "resolve"}
      BY <1>4, <1>5, <1>6
    <3> QED BY <1>5, <2>1, <3>1, <3>2 DEF HoldsLink, Moves
  <2>3. HoldsTarget(request)' /\ HoldsRest(request)' /\ HoldsMerge(request)'
    BY <1>5 DEF HoldsTarget, HoldsRest, HoldsMerge, Reserves, Moves, Paired
  <2> QED BY <1>5, <2>2, <2>3 DEF Holding
<1>8. Claims(request)
  BY <1>5 DEF Claims, ClaimsLink, ClaimsSubject, ClaimsDispute, ClaimsSplit, Reserves
<1>9. issued' \in 0 .. MaxLinks /\ issued <= issued'
  BY UnderWay DEF Typed
<1>10. ~ Reserves(request) /\ request.op # "merge"
  BY <1>5 DEF Reserves
<1> QED BY <1>5, <1>7, <1>8, <1>9, <1>10, StartKeeps

LEMMA RequestDisputeKeeps ==
  ASSUME IInv, NEW q \in Handler, handler[q].step = "idle", NEW l \in Link, RequestDispute(q, l)
  PROVE  IInv'
<1>1. PICK row, copy, keys :
         row = links[l] /\ copy = [row EXCEPT !.status = "DISPUTED"] /\ keys = KeysOf(l)
  OBVIOUS
<1>2. PICK request : request = [Idle EXCEPT !.op = "dispute", !.step = "save", !.keys = keys,
                                            !.link = l, !.copy = copy]
  OBVIOUS
<1>3. Start(q, request) /\ l \in Written /\ InForce(l) /\ UNCHANGED <<tables, issued, disowned>>
  BY <1>1, <1>2 DEF RequestDispute, InForce, Written
<1> QED BY <1>1, <1>2, <1>3, DisputeRequestKeeps

LEMMA RequestResolveDisputeKeeps ==
  ASSUME IInv, NEW q \in Handler, handler[q].step = "idle", NEW l \in Link,
         RequestResolveDispute(q, l)
  PROVE  IInv'
<1>1. PICK row, copy, keys :
         row = links[l] /\ copy = [row EXCEPT !.status = "ACTIVE"] /\ keys = KeysOf(l)
  OBVIOUS
<1>2. PICK request : request = [Idle EXCEPT !.op = "resolve", !.step = "save", !.keys = keys,
                                            !.link = l, !.copy = copy]
  OBVIOUS
<1>3. Start(q, request) /\ l \in Written /\ InForce(l) /\ UNCHANGED <<tables, issued, disowned>>
  BY <1>1, <1>2 DEF RequestResolveDispute, InForce, Written
<1> QED BY <1>1, <1>2, <1>3, DisputeRequestKeeps

LEMMA RequestUnlinkKeeps ==
  ASSUME IInv, NEW q \in Handler, handler[q].step = "idle", NEW l \in Link, RequestUnlink(q, l)
  PROVE  IInv'
<1>1. PICK row, keys, p : row = links[l] /\ keys = KeysOf(l) /\ p = links[l].person
  OBVIOUS
<1>2. l \in Written /\ InForce(l) /\ UNCHANGED <<tables, issued, disowned>>
  BY DEF RequestUnlink
<1>3. /\ row \in LinkRow /\ row # NoRow /\ SameLink(row, l) /\ keys = {row.person, row.identifier}
      /\ p = row.person /\ p \in Person /\ keys \subseteq Person \cup Identifier
  BY <1>1, <1>2, UnderWay, RowIs
<1>4. PICK record : record = register[p]
  OBVIOUS
<1>5. record \in RegisterRow
  BY <1>3, <1>4, UnderWay DEF Typed
<1>6. UNCHANGED <<links, merges>> /\ Written' = Written
  BY <1>2 DEF tables, Written
<1>7. issued' \in 0 .. MaxLinks /\ issued <= issued'
  BY <1>2, UnderWay DEF Typed
<1>8. CASE Detaches(l, record)
  <2>1. PICK request : request = [Idle EXCEPT !.op = "unlink", !.keys = keys, !.link = l,
                                              !.step = "detach", !.target = p, !.record = record]
    OBVIOUS
  <2>2. Start(q, [[Idle EXCEPT !.op = "unlink", !.keys = keys, !.link = l]
                    EXCEPT !.step = "detach", !.target = p, !.record = record])
    BY <1>1, <1>4, <1>8 DEF RequestUnlink
  <2>3. request = [[Idle EXCEPT !.op = "unlink", !.keys = keys, !.link = l]
                     EXCEPT !.step = "detach", !.target = p, !.record = record]
    BY <2>1 DEF Idle
  <2>4. Start(q, request)
    BY <2>2, <2>3, Zenon
  <2>5. /\ request \in HandlerState /\ request.op = "unlink" /\ request.step = "detach"
        /\ request.keys = keys /\ request.link = l /\ request.target = p
        /\ request.record = record /\ request.rest = {} /\ request.moved = {}
    BY <1>3, <1>5, <2>1 DEF HandlerState, Idle
  <2>6. KeysOf(request.link)' \subseteq request.keys /\ request.target = links'[request.link].person
    BY <1>1, <1>6, <2>5 DEF KeysOf
  <2>7. record # NoRow
    BY <1>8, <1>5, RowsAreNotAbsent
  <2>8. HoldsLink(request)'
    BY <1>2, <1>6, <2>5, <2>6, <2>7 DEF HoldsLink, Moves
  <2>9. HoldsTarget(request)' /\ HoldsRest(request)' /\ HoldsMerge(request)'
    BY <2>5 DEF HoldsTarget, HoldsRest, HoldsMerge, Reserves, Moves, Paired
  <2>10. Holding(request)'
    BY <2>5, <2>8, <2>9 DEF Holding
  <2>11. Claims(request)
    BY <2>5 DEF Claims, ClaimsLink, ClaimsSubject, ClaimsDispute, ClaimsSplit, Reserves
  <2>12. ~ Reserves(request) /\ request.op # "merge"
    BY <2>5 DEF Reserves
  <2> QED BY <1>2, <1>7, <2>4, <2>5, <2>10, <2>11, <2>12, StartKeeps
<1>9. CASE ~ Detaches(l, record)
  <2>1. PICK request : request = [Idle EXCEPT !.op = "unlink", !.keys = keys, !.link = l,
                                              !.step = "close", !.copy = row]
    OBVIOUS
  <2>2. Start(q, [[Idle EXCEPT !.op = "unlink", !.keys = keys, !.link = l]
                    EXCEPT !.step = "close", !.copy = row])
    BY <1>1, <1>4, <1>9 DEF RequestUnlink
  <2>3. request = [[Idle EXCEPT !.op = "unlink", !.keys = keys, !.link = l]
                     EXCEPT !.step = "close", !.copy = row]
    BY <2>1 DEF Idle
  <2>4. Start(q, request)
    BY <2>2, <2>3, Zenon
  <2>5. /\ request \in HandlerState /\ request.op = "unlink" /\ request.step = "close"
        /\ request.keys = keys /\ request.link = l /\ request.copy = row
        /\ request.rest = {} /\ request.moved = {}
    BY <1>3, <2>1 DEF HandlerState, Idle
  <2>6. KeysOf(request.link)' \subseteq request.keys /\ SameLink(request.copy, request.link)'
    BY <1>1, <1>6, <2>5 DEF KeysOf, SameLink
  <2>7. HoldsLink(request)'
    BY <1>2, <1>3, <1>6, <2>5, <2>6 DEF HoldsLink, Moves
  <2>8. HoldsTarget(request)' /\ HoldsRest(request)' /\ HoldsMerge(request)'
    BY <2>5 DEF HoldsTarget, HoldsRest, HoldsMerge, Reserves, Moves, Paired
  <2>9. Holding(request)'
    BY <2>5, <2>7, <2>8 DEF Holding
  <2>10. row.foundational => register[row.person].subject # row.identifier
    BY <1>1, <1>2, <1>3, <1>4, <1>9 DEF Detaches
  <2>11. Claims(request)
    BY <1>1, <1>2, <2>5, <2>10
       DEF Claims, ClaimsLink, ClaimsSubject, ClaimsDispute, ClaimsSplit, Reserves
  <2>12. ~ Reserves(request) /\ request.op # "merge"
    BY <2>5 DEF Reserves
  <2> QED BY <1>2, <1>7, <2>4, <2>5, <2>9, <2>11, <2>12, StartKeeps
<1> QED BY <1>8, <1>9

LEMMA RequestRelinkKeeps ==
  ASSUME IInv, NEW q \in Handler, handler[q].step = "idle", NEW l \in Link, NEW p \in Person,
         RequestRelink(q, l, p)
  PROVE  IInv'
<1>1. PICK row, keys, id : row = links[l] /\ keys = KeysOf(l) \cup {p} /\ id = issued + 1
  OBVIOUS
<1>2. PICK record : record = IF register[p].subject = Detached THEN register[p] ELSE NoRow
  OBVIOUS
<1>3. PICK request : request = [Idle EXCEPT !.op = "relink", !.step = "close", !.keys = keys,
                                            !.link = l, !.copy = row, !.to = id, !.target = p,
                                            !.record = record]
  OBVIOUS
<1>4. /\ l \in Written /\ Current(row.identifier) \subseteq {l} /\ Draw
      /\ Start(q, request) /\ UNCHANGED <<tables, disowned>>
  BY <1>1, <1>2, <1>3 DEF RequestRelink, NotMovedOn
<1>5. /\ id \in Link /\ issued' = issued + 1 /\ issued' \in 0 .. MaxLinks
      /\ issued \in Nat /\ links[id] = NoRow /\ issued <= issued' /\ issued < id /\ id <= issued'
  BY <1>1, <1>4, UnderWay, DrawnIs
<1>6. /\ row \in LinkRow /\ row # NoRow /\ SameLink(row, l) /\ row.identifier \in keys
      /\ keys \subseteq Person \cup Identifier /\ KeysOf(l) \subseteq keys /\ p \in keys
  BY <1>1, <1>4, UnderWay, RowIs
<1>7. record \in RegisterRow \cup {NoRow}
  BY <1>2, UnderWay DEF Typed
<1>8. /\ request \in HandlerState /\ request.op = "relink" /\ request.step = "close"
      /\ request.keys = keys /\ request.link = l /\ request.copy = row /\ request.to = id
      /\ request.target = p /\ request.record = record
      /\ request.rest = {} /\ request.moved = {}
  BY <1>3, <1>5, <1>6, <1>7 DEF HandlerState, Idle
<1>9. UNCHANGED <<links, merges>> /\ Written' = Written
  BY <1>4 DEF tables, Written
<1>10. KeysOf(request.link)' \subseteq request.keys /\ SameLink(request.copy, request.link)'
  BY <1>6, <1>8, <1>9 DEF KeysOf, SameLink
<1>11. HoldsLink(request)'
  BY <1>4, <1>6, <1>8, <1>9, <1>10 DEF HoldsLink, Moves
<1>12. HoldsTarget(request)'
  BY <1>5, <1>6, <1>8, <1>9 DEF HoldsTarget, Reserves, Moves
<1>13. HoldsRest(request)' /\ HoldsMerge(request)'
  BY <1>8 DEF HoldsRest, HoldsMerge, Moves, Paired
<1>14. Holding(request)'
  BY <1>8, <1>11, <1>12, <1>13 DEF Holding
<1>15. Claims(request)
  BY <1>4, <1>8 DEF Claims, ClaimsLink, ClaimsSubject, ClaimsDispute, ClaimsSplit
<1> QED BY <1>4, <1>5, <1>8, <1>14, <1>15, StartKeeps

\* A set of links has an oldest.
LEMMA OldestIs ==
  ASSUME NEW pairs \in SUBSET (Link \X LinkRow), pairs # {}
  PROVE  Oldest(pairs) \in pairs
<1>1. PICK less : less = OpToRel(<, Nat)
  OBVIOUS
<1>2. IsWellFoundedOn(less, Nat)
  BY <1>1, NatLessThanWellFounded
<1>3. \A x, y \in Nat : x < y => <<x, y>> \in less
  BY <1>1 DEF OpToRel
<1>4. PICK ids : ids = {pair[1] : pair \in pairs}
  OBVIOUS
<1>5. ids \subseteq Nat /\ ids # {}
  BY <1>4, IdsAreIntegers
<1>6. PICK x \in ids : \A y \in ids : ~ (<<y, x>> \in less)
  BY <1>2, <1>5, WFMin
<1>7. PICK first \in pairs : x = first[1]
  BY <1>4
<1>8. ASSUME NEW other \in pairs PROVE first[1] <= other[1]
  <2>1. other[1] \in ids /\ other[1] \in Nat /\ x \in Nat
    BY <1>4, <1>5
  <2>2. ~ (other[1] < x)
    BY <1>3, <1>6, <2>1
  <2> QED BY <1>7, <2>1, <2>2
<1> QED BY <1>8 DEF Oldest

LEMMA MovingIs ==
  ASSUME NEW h \in HandlerState, NEW pairs \in SUBSET (Link \X LinkRow), pairs # {},
         issued + 1 \in Link, NEW next, next = Moving(h, pairs)
  PROVE  \E first \in pairs :
           /\ next \in HandlerState /\ next.step = "close"
           /\ next.link = first[1] /\ next.copy = first[2]
           /\ next.to = issued + 1 /\ next.rest = pairs \ {first}
           /\ next.op = h.op /\ next.keys = h.keys /\ next.target = h.target
           /\ next.record = h.record /\ next.merge = h.merge /\ next.moved = h.moved
<1>1. PICK first \in pairs : first = Oldest(pairs)
  BY OldestIs
<1>2. PICK l, row, id, others :
         l = first[1] /\ row = first[2] /\ id = issued + 1 /\ others = pairs \ {first}
  OBVIOUS
<1>3. next = [h EXCEPT !.step = "close", !.link = l, !.copy = row, !.to = id, !.rest = others]
  BY <1>1, <1>2 DEF Moving
<1>4. l \in Link /\ row \in LinkRow /\ id \in Link /\ others \in SUBSET (Link \X LinkRow)
  BY <1>2
<1>5. /\ next \in HandlerState /\ next.step = "close" /\ next.link = l /\ next.copy = row
      /\ next.to = id /\ next.rest = others
      /\ next.op = h.op /\ next.keys = h.keys /\ next.target = h.target
      /\ next.record = h.record /\ next.merge = h.merge /\ next.moved = h.moved
  BY <1>3, <1>4 DEF HandlerState
<1> QED BY <1>2, <1>5

\* Links that may be moved one after the other, with their rows.
ToMove(h, pairs) ==
  /\ h.target \in Person /\ h.target \in h.keys /\ Paired(h.moved)
  /\ \A pair \in pairs :
       /\ pair[1] \in Written /\ SameLink(pair[2], pair[1]) /\ KeysOf(pair[1]) \subseteq h.keys
       /\ links[pair[1]].identifier \notin crossed => InForce(pair[1])
  /\ \A pair, other \in pairs : pair[1] = other[1] => pair = other

MergeMoves(h, pairs) ==
  /\ h.record # NoRow /\ h.merge \in Merge /\ merges[h.merge] = NoRow
  /\ \A pair \in pairs, p \in Person \ crossed :
       links[pair[1]].person = p => ~ Restricted(p)

SplitMoves(h, pairs) ==
  LET moved == merges[h.merge].moved IN
  /\ h.merge \in Merge /\ merges[h.merge] # NoRow /\ h.target = merges[h.merge].duplicate
  /\ \A pair \in moved : links[pair[2]].identifier \in h.keys
  /\ \A pair \in moved, i \in Identifier \ crossed :
       links[pair[2]].identifier = i =>
         (\E back \in pairs : back[1] = pair[2]) \/ Leads(i, h.target)
  /\ \A pair, other \in moved :
       \/ links[pair[2]].identifier \in crossed
       \/ links[other[2]].identifier # links[pair[2]].identifier
       \/ pair[2] = other[2]
  /\ \A back \in pairs : \E pair \in moved : pair[2] = back[1]

LEMMA MovingKeeps ==
  ASSUME Typed, OneInv, NEW h \in HandlerState, Moves(h), Draw, UNCHANGED <<links, merges>>,
         NEW pairs \in SUBSET (Link \X LinkRow), pairs # {}, ToMove(h, pairs),
         h.op = "merge" => MergeMoves(h, pairs), h.op = "split" => SplitMoves(h, pairs),
         NEW next, next = Moving(h, pairs)
  PROVE  /\ next \in HandlerState /\ Holding(next)' /\ Claims(next)
         /\ next.step = "close" /\ next.op = h.op /\ next.keys = h.keys /\ next.merge = h.merge
         /\ next.to = issued + 1
<1>1. /\ issued + 1 \in Link /\ issued' = issued + 1 /\ issued' \in 0 .. MaxLinks
      /\ issued \in Nat /\ links[issued + 1] = NoRow
  BY DrawnIs
<1>2. PICK first \in pairs :
        /\ next \in HandlerState /\ next.step = "close"
        /\ next.link = first[1] /\ next.copy = first[2]
        /\ next.to = issued + 1 /\ next.rest = pairs \ {first}
        /\ next.op = h.op /\ next.keys = h.keys /\ next.target = h.target
        /\ next.record = h.record /\ next.merge = h.merge /\ next.moved = h.moved
  BY <1>1, MovingIs
<1>3. /\ Written' = Written /\ \A l : KeysOf(l)' = KeysOf(l)
      /\ \A row, l : SameLink(row, l)' <=> SameLink(row, l)
      /\ \A some : Paired(some)' <=> Paired(some)
  BY DEF Written, KeysOf, SameLink, Paired
<1>4. PICK l, row : l = first[1] /\ row = first[2]
  OBVIOUS
<1>5. /\ l \in Written /\ row \in LinkRow /\ row # NoRow /\ SameLink(row, l)
      /\ KeysOf(l) \subseteq h.keys
      /\ links[l].identifier \notin crossed => InForce(l)
  BY <1>4, RowsAreNotAbsent DEF ToMove
<1>6. row.identifier = links[l].identifier /\ row.identifier \in h.keys
  BY <1>5 DEF SameLink, KeysOf
<1>7. next.op \in {"merge", "split"} /\ next.link = l /\ next.copy = row
  BY <1>2, <1>4 DEF Moves
<1>8. HoldsLink(next)'
  <2>1. KeysOf(next.link)' \subseteq next.keys /\ SameLink(next.copy, next.link)'
    BY <1>2, <1>3, <1>5, <1>7
  <2> QED BY <1>2, <1>3, <1>5, <1>7, <2>1 DEF HoldsLink, Moves
<1>9. HoldsTarget(next)'
  <2>1. next.to \in Link /\ next.to <= issued' /\ links'[next.to] = NoRow
    BY <1>1, <1>2
  <2>2. next.target \in Person \cap next.keys /\ next.copy # NoRow /\ next.copy.identifier \in next.keys
    BY <1>2, <1>5, <1>6, <1>7 DEF ToMove
  <2> QED BY <1>2, <1>7, <2>1, <2>2 DEF HoldsTarget
<1>10. HoldsRest(next)'
  <2>1. \A pair \in next.rest :
          /\ pair[1] \in Written' /\ pair[1] # next.link
          /\ SameLink(pair[2], pair[1])' /\ KeysOf(pair[1])' \subseteq next.keys
    <3>1. ASSUME NEW pair \in next.rest
          PROVE  pair[1] \in Written /\ pair[1] # next.link
                 /\ SameLink(pair[2], pair[1]) /\ KeysOf(pair[1]) \subseteq next.keys
      BY <1>2, <3>1 DEF ToMove
    <3> QED BY <1>3, <3>1
  <2>2. \A pair, other \in next.rest : pair[1] = other[1] => pair = other
    BY <1>2 DEF ToMove
  <2>3. Paired(next.moved)'
    BY <1>2, <1>3 DEF ToMove
  <2> QED BY <1>2, <1>7, <2>1, <2>2, <2>3 DEF HoldsRest, Moves
<1>11. HoldsMerge(next)'
  <2>1. CASE h.op = "merge"
    BY <1>2, <2>1 DEF HoldsMerge, MergeMoves
  <2>2. CASE h.op = "split"
    <3>1. PICK m, moved : m = h.merge /\ moved = merges[m].moved
      OBVIOUS
    <3>2. /\ m \in Merge /\ merges[m] # NoRow /\ h.target = merges[m].duplicate
          /\ \A pair \in moved : links[pair[2]].identifier \in h.keys
          /\ \A back \in pairs : \E pair \in moved : pair[2] = back[1]
      BY <2>2, <3>1 DEF SplitMoves
    <3>3. \E pair \in moved : pair[2] = next.link
      BY <1>2, <3>2
    <3>4. \A back \in next.rest : \E pair \in moved : pair[2] = back[1]
      BY <1>2, <3>2
    <3> QED BY <1>2, <2>2, <3>1, <3>2, <3>3, <3>4 DEF HoldsMerge, Concludes
  <2> QED BY <2>1, <2>2 DEF Moves
<1>12. Holding(next)'
  BY <1>2, <1>8, <1>9, <1>10, <1>11 DEF Holding
<1>13. ClaimsLink(next)
  <2>1. ASSUME row.identifier \notin crossed PROVE Current(row.identifier) \subseteq {l}
    <3>1. l \in Current(row.identifier) /\ row.identifier \in Identifier
      <4>1. l \in Current(row.identifier)
        BY <1>5, <1>6, <2>1 DEF Current
      <4> QED BY <1>5, <4>1 DEF LinkRow
    <3> QED BY <2>1, <3>1 DEF OneInv
  <2>2. \A pair \in next.rest : links[pair[1]].identifier \notin crossed => InForce(pair[1])
    BY <1>2 DEF ToMove
  <2> QED BY <1>2, <1>7, <2>1, <2>2 DEF ClaimsLink
<1>14. ClaimsSubject(next)
  BY <1>7 DEF ClaimsSubject
<1>15. ClaimsDispute(next)
  <2>1. ASSUME h.op = "merge"
        PROVE  /\ row.person \notin crossed => ~ Restricted(row.person)
               /\ \A pair \in next.rest, p \in Person \ crossed :
                    links[pair[1]].person = p => ~ Restricted(p)
    <3>1. \A pair \in pairs, p \in Person \ crossed :
            links[pair[1]].person = p => ~ Restricted(p)
      BY <2>1 DEF MergeMoves
    <3>2. row.person = links[l].person /\ row.person \in Person
      BY <1>5 DEF SameLink, LinkRow
    <3> QED BY <1>2, <1>4, <3>1, <3>2
  <2> QED BY <1>2, <1>7, <2>1 DEF ClaimsDispute
<1>16. ClaimsSplit(next)
  <2>1. CASE h.op = "split"
    <3>1. PICK m, moved : m = h.merge /\ moved = merges[m].moved
      OBVIOUS
    <3>2. /\ \A pair \in moved, i \in Identifier \ crossed :
               \/ links[pair[2]].identifier # i
               \/ \E back \in pairs : back[1] = pair[2]
               \/ Leads(i, h.target)
          /\ \A pair, other \in moved :
               \/ links[pair[2]].identifier \in crossed
               \/ links[other[2]].identifier # links[pair[2]].identifier
               \/ pair[2] = other[2]
      BY <2>1, <3>1 DEF SplitMoves
    <3>3. \A k : (\E back \in pairs : back[1] = k) => Pending(next, k)
      BY <1>2 DEF Pending
    <3> QED BY <1>2, <2>1, <3>1, <3>2, <3>3 DEF ClaimsSplit
  <2>2. CASE h.op # "split"
    BY <1>2, <2>2 DEF ClaimsSplit
  <2> QED BY <2>1, <2>2
<1> QED BY <1>2, <1>12, <1>13, <1>14, <1>15, <1>16 DEF Claims

LEMMA RequestMergeKeeps ==
  ASSUME IInv, NEW q \in Handler, handler[q].step = "idle", NEW m \in Merge, NEW s \in Person,
         NEW d \in Person, RequestMerge(q, m, s, d)
  PROVE  IInv'
<1>1. PICK pairs, keys, record :
         /\ pairs = {<<l, links[l]>> : l \in CurrentOf(d)}
         /\ keys = {s, d} \cup KeysOfAll(CurrentOf(d)) /\ record = register[d]
  OBVIOUS
<1>2. PICK h : h = [Idle EXCEPT !.op = "merge", !.merge = m, !.target = s, !.keys = keys,
                                !.record = record]
  OBVIOUS
<1>3. PICK request : request = Moving(h, pairs)
  OBVIOUS
<1>4. /\ merges[m] = NoRow /\ \A r \in Handler : handler[r].merge # m
      /\ pairs # {} /\ ~ Restricted(d) /\ Draw /\ UNCHANGED <<tables, disowned>>
  BY <1>1 DEF RequestMerge, Undisputed
<1>5. Start(q, request)
  BY <1>1, <1>2, <1>3 DEF RequestMerge
<1>6. UNCHANGED <<links, merges>>
  BY <1>4 DEF tables
<1>7. \A l \in CurrentOf(d) :
        /\ l \in Written /\ l \in Link /\ links[l] \in LinkRow /\ SameLink(links[l], l)
        /\ InForce(l) /\ links[l].person = d /\ KeysOf(l) \subseteq Person \cup Identifier
        /\ KeysOf(l) \subseteq keys
  <2>1. ASSUME NEW l \in CurrentOf(d)
        PROVE  /\ l \in Written /\ InForce(l) /\ links[l].person = d /\ KeysOf(l) \subseteq keys
    BY <1>1 DEF CurrentOf, KeysOfAll
  <2>2. ASSUME NEW l \in CurrentOf(d)
        PROVE  /\ l \in Link /\ links[l] \in LinkRow /\ SameLink(links[l], l)
               /\ KeysOf(l) \subseteq Person \cup Identifier
    BY <2>1, UnderWay, RowIs
  <2> QED BY <2>1, <2>2
<1>8. keys \subseteq Person \cup Identifier
  BY <1>1, <1>7 DEF KeysOfAll
<1>9. record \in RegisterRow /\ record # NoRow
  BY <1>1, UnderWay, RowsAreNotAbsent DEF Typed
<1>10. /\ h \in HandlerState /\ h.op = "merge" /\ h.merge = m /\ h.target = s /\ h.keys = keys
       /\ h.record = record /\ h.moved = {}
  BY <1>2, <1>8, <1>9 DEF HandlerState, Idle
<1>11. pairs \in SUBSET (Link \X LinkRow)
  BY <1>1, <1>7
<1>12. ToMove(h, pairs)
  <2>1. h.target \in Person /\ h.target \in h.keys /\ Paired(h.moved)
    BY <1>1, <1>10 DEF Paired
  <2>2. \A pair \in pairs :
          /\ pair[1] \in Written /\ SameLink(pair[2], pair[1]) /\ KeysOf(pair[1]) \subseteq h.keys
          /\ InForce(pair[1])
    BY <1>1, <1>7, <1>10
  <2>3. \A pair, other \in pairs : pair[1] = other[1] => pair = other
    BY <1>1
  <2> QED BY <2>1, <2>2, <2>3 DEF ToMove
<1>13. MergeMoves(h, pairs)
  <2>1. \A pair \in pairs : links[pair[1]].person = d
    BY <1>1, <1>7
  <2> QED BY <1>4, <1>9, <1>10, <2>1 DEF MergeMoves
<1>14. Moves(h) /\ h.op # "split"
  BY <1>10 DEF Moves
<1>15. Typed /\ OneInv
  BY UnderWay
<1>16. /\ request \in HandlerState /\ Holding(request)' /\ Claims(request)
       /\ request.step = "close" /\ request.op = h.op /\ request.keys = h.keys
       /\ request.merge = h.merge /\ request.to = issued + 1
  BY <1>3, <1>4, <1>6, <1>10, <1>11, <1>12, <1>13, <1>14, <1>15, MovingKeeps
<1>17. issued' \in 0 .. MaxLinks /\ issued <= issued' /\ issued < issued + 1
  BY <1>4, <1>15, DrawnIs
<1> QED BY <1>4, <1>5, <1>10, <1>16, <1>17, StartKeeps

LEMMA RequestSplitKeeps ==
  ASSUME IInv, NEW q \in Handler, handler[q].step = "idle", NEW m \in Merge, RequestSplit(q, m)
  PROVE  IInv'
<1>1. PICK row, moved, ids : /\ row = merges[m] /\ moved = row.moved
                             /\ ids = {pair[2] : pair \in row.moved}
  OBVIOUS
<1>2. PICK pairs, keys, d : /\ pairs = {<<l, links[l]>> : l \in ids} /\ d = row.duplicate
                            /\ keys = {row.survivor, row.duplicate} \cup KeysOfAll(ids)
  OBVIOUS
<1>3. PICK h : h = [Idle EXCEPT !.op = "split", !.merge = m, !.target = d, !.keys = keys]
  OBVIOUS
<1>4. PICK request : request = Moving(h, pairs)
  OBVIOUS
<1>5. row # NoRow /\ (\A pair \in moved : InForce(pair[2])) /\ Draw
      /\ UNCHANGED <<tables, disowned>>
  BY <1>1 DEF RequestSplit, NoneMovedSince
<1>6. Start(q, request)
  BY <1>1, <1>2, <1>3, <1>4 DEF RequestSplit
<1>7. UNCHANGED <<links, merges>>
  BY <1>5 DEF tables
<1>8. Typed /\ OneInv /\ MergesInv
  BY UnderWay
<1>9. row \in MergeRow /\ row.survivor \in Person /\ d \in Person /\ moved \subseteq Link \X Link
  BY <1>1, <1>2, <1>5, <1>8 DEF Typed, MergeRow
<1>10. moved # {} /\ Paired(moved)
  BY <1>1, <1>5, <1>8 DEF MergesInv
<1>11. \A l \in ids :
         /\ l \in Written /\ l \in Link /\ links[l] \in LinkRow /\ SameLink(links[l], l)
         /\ InForce(l) /\ KeysOf(l) \subseteq Person \cup Identifier
         /\ links[l].identifier \in Identifier
         /\ KeysOf(l) \subseteq keys /\ links[l].identifier \in keys
  <2>1. ASSUME NEW l \in ids
        PROVE  /\ l \in Written /\ InForce(l)
               /\ KeysOf(l) \subseteq keys /\ links[l].identifier \in keys
    <3>1. l \in Written /\ InForce(l) /\ KeysOf(l) \subseteq keys
      BY <1>1, <1>2, <1>5, <1>10 DEF Paired, KeysOfAll
    <3> QED BY <3>1 DEF KeysOf
  <2>2. ASSUME NEW l \in ids
        PROVE  /\ l \in Link /\ links[l] \in LinkRow /\ SameLink(links[l], l)
               /\ links[l].identifier \in Identifier
               /\ KeysOf(l) \subseteq Person \cup Identifier
    BY <1>8, <2>1, RowIs
  <2> QED BY <2>1, <2>2
<1>12. keys \subseteq Person \cup Identifier
  BY <1>2, <1>9, <1>11 DEF KeysOfAll
<1>13. /\ h \in HandlerState /\ h.op = "split" /\ h.merge = m /\ h.target = d /\ h.keys = keys
       /\ h.moved = {}
  BY <1>3, <1>9, <1>12 DEF HandlerState, Idle
<1>14. pairs \in SUBSET (Link \X LinkRow) /\ pairs # {}
  <2>1. \A l \in ids : <<l, links[l]>> \in pairs
    BY <1>2
  <2>2. ids # {}
    BY <1>1, <1>10
  <2>3. \A pair \in pairs : \E l \in ids : pair = <<l, links[l]>>
    BY <1>2
  <2>4. pairs \in SUBSET (Link \X LinkRow)
    BY <1>11, <2>3
  <2> QED BY <2>1, <2>2, <2>4
<1>15. ToMove(h, pairs)
  <2>1. h.target \in Person /\ h.target \in h.keys /\ Paired(h.moved)
    BY <1>2, <1>9, <1>13 DEF Paired
  <2>2. \A pair \in pairs :
          /\ pair[1] \in Written /\ SameLink(pair[2], pair[1]) /\ KeysOf(pair[1]) \subseteq h.keys
          /\ InForce(pair[1])
    BY <1>2, <1>11, <1>13
  <2>3. \A pair, other \in pairs : pair[1] = other[1] => pair = other
    BY <1>2
  <2> QED BY <2>1, <2>2, <2>3 DEF ToMove
<1>16. SplitMoves(h, pairs)
  <2>1. \A pair \in moved : pair[2] \in ids
    BY <1>1
  <2>2. \A pair \in moved : /\ links[pair[2]].identifier \in keys
                            /\ \E back \in pairs : back[1] = pair[2]
    <3>1. \A l \in ids : <<l, links[l]>> \in pairs
      BY <1>2
    <3> QED BY <1>11, <2>1, <3>1
  <2>3. ASSUME NEW pair \in moved, NEW other \in moved, links[pair[2]].identifier \notin crossed,
               links[other[2]].identifier = links[pair[2]].identifier
        PROVE  pair[2] = other[2]
    <3>1. PICK i, l, k : i = links[pair[2]].identifier /\ l = pair[2] /\ k = other[2]
      OBVIOUS
    <3>2. i \in Identifier \ crossed /\ l \in Current(i) /\ k \in Current(i)
      BY <1>11, <2>1, <2>3, <3>1 DEF Current
    <3> QED BY <1>8, <3>1, <3>2 DEF OneInv
  <2>4. \A back \in pairs : \E pair \in moved : pair[2] = back[1]
    BY <1>1, <1>2
  <2>5. merges[h.merge] = row /\ row # NoRow /\ h.merge \in Merge /\ h.target = row.duplicate
    BY <1>1, <1>2, <1>5, <1>13
  <2> QED BY <1>1, <1>13, <2>2, <2>3, <2>4, <2>5 DEF SplitMoves
<1>17. Moves(h) /\ h.op # "merge"
  BY <1>13 DEF Moves
<1>18. /\ request \in HandlerState /\ Holding(request)' /\ Claims(request)
       /\ request.step = "close" /\ request.op = h.op /\ request.keys = h.keys
       /\ request.merge = h.merge /\ request.to = issued + 1
  BY <1>4, <1>5, <1>7, <1>8, <1>13, <1>14, <1>15, <1>16, <1>17, MovingKeeps
<1>19. issued' \in 0 .. MaxLinks /\ issued <= issued' /\ issued < issued + 1
  BY <1>5, <1>8, DrawnIs
<1> QED BY <1>5, <1>6, <1>13, <1>17, <1>18, <1>19, StartKeeps

----------------------------------------------------------------------------
(* The writes.                                                              *)

\* A request that is over.
LEMMA StepEnds ==
  ASSUME IInv, NEW q \in Handler, handler[q].step # "idle", Goes(q, Idle),
         Linked, Merged, issued <= issued', crossed \subseteq crossed', StoreInv',
         \A l \in Link : links[l] = NoRow => links'[l] = NoRow,
         \A m \in Merge : merges[m] = NoRow => merges'[m] = NoRow
  PROVE  IInv'
<1>1. PICK next : next = Idle
  OBVIOUS
<1>2. /\ next \in HandlerState /\ Holding(next)' /\ Claims(next)'
      /\ next.step = "idle" /\ next.op = "idle"
  BY <1>1, IdleHolds
<1>3. Goes(q, next)
  BY <1>1
<1>4. ~ Reserves(next) /\ next.op # "merge"
  BY <1>2 DEF Reserves
<1> QED BY <1>2, <1>3, <1>4, StepKeeps

\* A link is saved with another status.
LEMMA RewriteKeeps ==
  ASSUME StoreInv, NEW l \in Written, NEW row \in LinkRow, SameLink(row, l),
         links' = [links EXCEPT ![l] = row],
         UNCHANGED <<opened, merges, register, issued, crossed, faults>>,
         row.identifier \in crossed \/ InForce(l) \/ row.status = "UNLINKED",
         disowned' \subseteq Person \X Identifier
  PROVE  /\ Linked /\ Merged /\ Typed' /\ MergesInv' /\ OneInv'
         /\ links'[l] = row /\ Written' = Written
         /\ \A k \in Link : k # l => links'[k] = links[k] /\ (InForce(k)' <=> InForce(k))
         /\ \A i \in Identifier \ crossed : Current(i)' \subseteq Current(i)
         /\ \A p \in Person, i \in Identifier \ crossed : Away(p, i) => Away(p, i)'
<1>1. Typed /\ l \in Link /\ row # NoRow /\ links[l] # NoRow
  BY RowsAreNotAbsent DEF StoreInv, Written
<1>2. /\ links'[l] = row /\ links' \in [Link -> LinkRow \cup {NoRow}]
      /\ \A k \in Link : k # l => links'[k] = links[k]
  BY <1>1 DEF Typed
<1>3. Written' = Written
  BY <1>1, <1>2 DEF Written
<1>4. \A k \in Link : k # l => (InForce(k)' <=> InForce(k))
  BY <1>2 DEF InForce
<1>5. Linked
  BY <1>2, <1>3 DEF Linked, SameLink, Written
<1>6. Merged /\ Typed'
  BY <1>1, <1>2, <1>3 DEF Merged, Typed
<1>7. MergesInv'
  <2>1. ASSUME NEW m \in Merge, merges[m] # NoRow
        PROVE  merges[m].moved # {} /\ Paired(merges[m].moved)'
    BY <1>5, <2>1, PairedStays DEF StoreInv, MergesInv
  <2> QED BY <2>1 DEF MergesInv, Paired
<1>8. ASSUME NEW i \in Identifier \ crossed PROVE Current(i)' \subseteq Current(i)
  <2>1. ASSUME NEW k \in Link, k \in Written, InForce(k)', links'[k].identifier = i
        PROVE  InForce(k) /\ links[k].identifier = i
    BY <1>2, <1>4, <1>8, <2>1 DEF InForce, SameLink, Written
  <2> QED BY <1>3, <2>1 DEF Current, Written
<1>9. OneInv'
  BY <1>8 DEF StoreInv, OneInv
<1>10. ASSUME NEW p \in Person, NEW i \in Identifier \ crossed, Away(p, i) PROVE Away(p, i)'
  <2>1. \A k \in Current(i)' : k \in Current(i) /\ links'[k].person = links[k].person
    BY <1>5, <1>8 DEF Linked, Current
  <2> QED BY <1>10, <2>1 DEF Away
<1> QED BY <1>2, <1>3, <1>4, <1>5, <1>6, <1>7, <1>8, <1>9, <1>10

LEMMA SaveDisputeKeeps ==
  ASSUME IInv, NEW q \in Handler, SaveDispute(q)
  PROVE  IInv'
<1>1. PICK h : h = handler[q]
  OBVIOUS
<1>2. /\ h.step = "save" /\ links' = [links EXCEPT ![h.link] = h.copy] /\ Goes(q, Idle)
      /\ UNCHANGED <<opened, merges, register, issued, crossed, disowned, faults>>
  BY <1>1 DEF SaveDispute
<1>3. h \in HandlerState /\ Holding(h) /\ Claims(h) /\ StoreInv
  BY <1>1, UnderWay
<1>4. PICK l, row : l = h.link /\ row = h.copy
  OBVIOUS
<1>5. l \in Written /\ row # NoRow /\ SameLink(row, l)
  BY <1>2, <1>3, <1>4 DEF Holding, HoldsLink
<1>6. row \in LinkRow
  BY <1>3, <1>4, <1>5 DEF HandlerState
<1>7. row.identifier \in crossed \/ InForce(l)
  BY <1>2, <1>3, <1>4 DEF Claims, ClaimsLink
<1>8. links' = [links EXCEPT ![l] = row]
  BY <1>2, <1>4
<1>9. disowned' \subseteq Person \X Identifier
  BY <1>2, <1>3 DEF StoreInv, Typed
<1>10. /\ Linked /\ Merged /\ Typed' /\ MergesInv' /\ OneInv'
       /\ links'[l] = row
       /\ \A k \in Link : k # l => links'[k] = links[k]
       /\ \A p \in Person, i \in Identifier \ crossed : Away(p, i) => Away(p, i)'
  BY <1>2, <1>3, <1>5, <1>6, <1>7, <1>8, <1>9, RewriteKeeps
<1>11. DisownedInv'
  BY <1>2, <1>3, <1>10 DEF StoreInv, DisownedInv
<1>12. StoreInv'
  BY <1>10, <1>11 DEF StoreInv
<1>13. /\ \A k \in Link : links[k] = NoRow => links'[k] = NoRow
       /\ \A m \in Merge : merges[m] = NoRow => merges'[m] = NoRow
  BY <1>2, <1>5, <1>10 DEF Written
<1>14. issued <= issued' /\ crossed \subseteq crossed' /\ handler[q].step # "idle"
  BY <1>1, <1>2, <1>3 DEF StoreInv, Typed
<1> QED BY <1>2, <1>10, <1>12, <1>13, <1>14, StepEnds

\* A row of the register is saved: what was disowned stays away.
LEMMA RegisterKeeps ==
  ASSUME StoreInv, UNCHANGED <<links, opened, merges, issued, crossed, disowned, faults>>,
         register' \in [Person -> RegisterRow],
         \A p \in Person \ crossed, i \in Identifier \ crossed :
           <<p, i>> \in disowned /\ register'[p].subject = i => register[p].subject = i
  PROVE  /\ StoreInv' /\ Linked /\ Merged /\ issued <= issued' /\ crossed \subseteq crossed'
         /\ \A l \in Link : links[l] = NoRow => links'[l] = NoRow
         /\ \A m \in Merge : merges[m] = NoRow => merges'[m] = NoRow
<1>1. Written' = Written /\ \A i : Current(i)' = Current(i)
  BY DEF Written, Current, InForce
<1>2. Linked /\ Merged /\ MergesInv' /\ OneInv'
  BY <1>1 DEF Linked, Merged, StoreInv, MergesInv, OneInv, Paired
<1>3. Typed' /\ issued <= issued'
  BY <1>1 DEF StoreInv, Typed
<1>4. DisownedInv'
  <2>1. ASSUME NEW p \in Person \ crossed, NEW i \in Identifier \ crossed, <<p, i>> \in disowned
        PROVE  Away(p, i)'
    BY <1>1, <2>1 DEF StoreInv, DisownedInv, Away
  <2> QED BY <2>1 DEF DisownedInv
<1> QED BY <1>2, <1>3, <1>4 DEF StoreInv

LEMMA DetachKeeps ==
  ASSUME IInv, NEW q \in Handler, Detach(q)
  PROVE  IInv'
<1>1. PICK h : h = handler[q]
  OBVIOUS
<1>2. h \in HandlerState /\ Holding(h) /\ Claims(h) /\ StoreInv /\ Typed
  BY <1>1, UnderWay
<1>3. PICK l, keys, p, record : l = h.link /\ keys = h.keys /\ p = h.target /\ record = h.record
  OBVIOUS
<1>4. PICK over : over = IF record.relationship = "ACTIVE" THEN "SUSPENDED"
                         ELSE record.relationship
  OBVIOUS
<1>5. PICK row, next : /\ row = [record EXCEPT !.subject = Detached, !.relationship = over]
                       /\ next = [h EXCEPT !.step = "find", !.record = NoRow, !.target = NoPerson]
  OBVIOUS
<1>6. h.step = "detach" /\ UNCHANGED <<links, opened, merges, issued, crossed, disowned, faults>>
  BY <1>1 DEF Detach
<1>7. Goes(q, next)
  BY <1>1, <1>5 DEF Detach
<1>8. /\ h.op = "unlink" /\ l \in Written /\ KeysOf(l) \subseteq keys
      /\ p = links[l].person /\ record # NoRow
  BY <1>2, <1>3, <1>6 DEF Holding, HoldsLink
<1>9. p \in Person /\ links[l].identifier \in Identifier
  BY <1>2, <1>8, RowIs
<1>10. record \in RegisterRow
  BY <1>2, <1>3, <1>8 DEF HandlerState
<1>11. row \in RegisterRow /\ row.subject = Detached
  <2>1. over \in {"ACTIVE", "SUSPENDED", "ENDED"}
    BY <1>4, <1>10 DEF RegisterRow
  <2> QED BY <1>5, <1>10, <2>1 DEF RegisterRow
<1>12. register' = [register EXCEPT ![p] = row]
  BY <1>1, <1>3, <1>4, <1>5 DEF Detach
<1>13. /\ register' \in [Person -> RegisterRow] /\ register'[p].subject = Detached
       /\ \A other \in Person : other # p => register'[other] = register[other]
  BY <1>2, <1>9, <1>11, <1>12 DEF Typed
<1>14. Detached \notin Identifier
  BY IdentityLinksAssumption
<1>15. /\ StoreInv' /\ Linked /\ Merged /\ issued <= issued' /\ crossed \subseteq crossed'
       /\ \A k \in Link : links[k] = NoRow => links'[k] = NoRow
       /\ \A m \in Merge : merges[m] = NoRow => merges'[m] = NoRow
  <2>1. \A o \in Person \ crossed, i \in Identifier \ crossed :
          <<o, i>> \in disowned /\ register'[o].subject = i => register[o].subject = i
    BY <1>13, <1>14
  <2> QED BY <1>2, <1>6, <1>13, <2>1, RegisterKeeps
<1>16. /\ next \in HandlerState /\ next.step = "find" /\ next.op = "unlink"
       /\ next.keys = keys /\ next.link = l /\ next.rest = h.rest /\ next.moved = h.moved
  BY <1>2, <1>3, <1>5, <1>8 DEF HandlerState
<1>17. h.rest = {} /\ Paired(h.moved)
  BY <1>2, <1>8 DEF Holding, HoldsRest, Moves
<1>18. l \in Written' /\ KeysOf(l)' = KeysOf(l) /\ Paired(h.moved)'
  BY <1>8, <1>15, <1>17, LinkedWritten, PairedStays
<1>19. Holding(next)'
  <2>1. KeysOf(next.link)' \subseteq next.keys /\ Paired(next.moved)'
    BY <1>8, <1>16, <1>18
  <2>2. HoldsLink(next)'
    BY <1>16, <1>18, <2>1 DEF HoldsLink, Moves
  <2>3. HoldsTarget(next)' /\ HoldsRest(next)' /\ HoldsMerge(next)'
    BY <1>16, <1>17, <2>1 DEF HoldsTarget, HoldsRest, HoldsMerge, Reserves, Moves
  <2> QED BY <1>16, <2>2, <2>3 DEF Holding
<1>20. Claims(next)'
  <2>1. ClaimsSubject(next)'
    <3>1. links'[next.link].person = p /\ links'[next.link].identifier \in Identifier
      BY <1>6, <1>8, <1>9, <1>16
    <3> QED BY <1>13, <1>14, <1>16, <3>1 DEF ClaimsSubject
  <2> QED BY <1>16, <1>17, <2>1 DEF Claims, ClaimsLink, ClaimsDispute, ClaimsSplit, Reserves
<1>21. ~ Reserves(next) /\ next.op # "merge" /\ next.keys = h.keys
  BY <1>3, <1>16 DEF Reserves
<1> QED BY <1>1, <1>6, <1>7, <1>15, <1>16, <1>19, <1>20, <1>21, StepKeeps

LEMMA FindToUnlinkKeeps ==
  ASSUME IInv, NEW q \in Handler, FindToUnlink(q)
  PROVE  IInv'
<1>1. PICK h : h = handler[q]
  OBVIOUS
<1>2. h \in HandlerState /\ Holding(h) /\ Claims(h) /\ StoreInv /\ Typed
  BY <1>1, UnderWay
<1>3. PICK l, row : l = h.link /\ row = links[l]
  OBVIOUS
<1>4. h.step = "find" /\ UNCHANGED <<tables, issued, crossed, disowned, faults>>
  BY <1>1 DEF FindToUnlink
<1>5. /\ h.op = "unlink" /\ l \in Written /\ KeysOf(l) \subseteq h.keys
  BY <1>2, <1>3, <1>4 DEF Holding, HoldsLink
<1>6. l \in Link /\ row \in LinkRow /\ row # NoRow /\ SameLink(row, l)
  BY <1>2, <1>3, <1>5, RowIs
<1>7. /\ crossed \subseteq crossed' /\ crossed' \subseteq Person \cup Identifier
      /\ issued' \in 0 .. MaxLinks /\ issued <= issued' /\ faults' \in Nat
  BY <1>2, <1>4 DEF Typed
<1>8. StoreInv' /\ Linked /\ Merged
  BY <1>2, <1>4, <1>7, TablesStay
<1>9. /\ \A k \in Link : links[k] = NoRow => links'[k] = NoRow
      /\ \A m \in Merge : merges[m] = NoRow => merges'[m] = NoRow
      /\ UNCHANGED <<links, merges, register>>
  BY <1>4 DEF tables
<1>10. CASE ~ InForce(l)
  <2>1. Goes(q, Idle)
    BY <1>1, <1>3, <1>10 DEF FindToUnlink
  <2> QED BY <1>1, <1>4, <1>7, <1>8, <1>9, <2>1, StepEnds
<1>11. CASE InForce(l)
  <2>1. PICK next : next = [h EXCEPT !.step = "close", !.copy = row]
    OBVIOUS
  <2>2. Goes(q, next)
    BY <1>1, <1>3, <1>11, <2>1 DEF FindToUnlink
  <2>3. /\ next \in HandlerState /\ next.step = "close" /\ next.op = "unlink"
        /\ next.keys = h.keys /\ next.link = l /\ next.copy = row
        /\ next.rest = h.rest /\ next.moved = h.moved
    BY <1>2, <1>3, <1>5, <1>6, <2>1 DEF HandlerState
  <2>4. h.rest = {} /\ Paired(h.moved)
    BY <1>2, <1>5 DEF Holding, HoldsRest, Moves
  <2>5. l \in Written' /\ KeysOf(l)' = KeysOf(l) /\ SameLink(row, l)' /\ Paired(h.moved)'
    BY <1>5, <1>6, <1>8, <2>4, LinkedWritten, PairedStays
  <2>6. Holding(next)'
    <3>1. /\ KeysOf(next.link)' \subseteq next.keys /\ SameLink(next.copy, next.link)'
          /\ Paired(next.moved)'
      BY <1>5, <2>3, <2>5
    <3>2. HoldsLink(next)'
      BY <1>6, <2>3, <2>5, <3>1 DEF HoldsLink, Moves
    <3>3. HoldsTarget(next)' /\ HoldsRest(next)' /\ HoldsMerge(next)'
      BY <2>3, <2>4, <3>1 DEF HoldsTarget, HoldsRest, HoldsMerge, Reserves, Moves
    <3> QED BY <2>3, <3>2, <3>3 DEF Holding
  <2>7. Claims(next)
    <3>1. ClaimsSubject(next)
      BY <1>2, <1>3, <1>4, <1>5, <2>3 DEF Claims, ClaimsSubject
    <3> QED BY <1>11, <2>3, <2>4, <3>1 DEF Claims, ClaimsLink, ClaimsDispute, ClaimsSplit, Reserves
  <2>8. Claims(next)'
    BY <1>4, <1>7, <1>9, <2>7, ClaimsStay
  <2>9. ~ Reserves(next) /\ next.op # "merge"
    BY <2>3 DEF Reserves
  <2> QED BY <1>1, <1>4, <1>7, <1>8, <1>9, <2>2, <2>3, <2>6, <2>8, <2>9, StepKeeps
<1> QED BY <1>10, <1>11

LEMMA ClosedIs ==
  ASSUME NEW row \in LinkRow, NEW to \in Link \cup {NoLink}, NEW closed, closed = Closed(row, to)
  PROVE  /\ closed \in LinkRow /\ closed.status = "UNLINKED" /\ closed.person = row.person
         /\ closed.identifier = row.identifier /\ closed.foundational = row.foundational
<1>1. PICK by : by = IF to = NoLink THEN row.supersededBy ELSE to
  OBVIOUS
<1>2. closed = [row EXCEPT !.status = "UNLINKED", !.supersededBy = by]
  BY <1>1 DEF Closed
<1>3. by \in Link \cup {NoLink}
  BY <1>1 DEF LinkRow
<1> QED BY <1>2, <1>3 DEF LinkRow, LinkStatus

\* What closing a link does to the tables.
LEMMA ClosingIs ==
  ASSUME IInv, NEW q \in Handler, NEW h, h = handler[q], Close(q)
  PROVE  /\ h \in HandlerState /\ Holding(h) /\ Claims(h) /\ StoreInv /\ Typed
         /\ h.step = "close" /\ h.link \in Written /\ h.link \in Link
         /\ h.copy \in LinkRow /\ SameLink(h.copy, h.link)
         /\ UNCHANGED <<opened, merges, register, issued, crossed, faults>>
         /\ Linked /\ Merged /\ Typed' /\ MergesInv' /\ OneInv' /\ Written' = Written
         /\ links'[h.link].status = "UNLINKED" /\ ~ InForce(h.link)'
         /\ \A k \in Link : k # h.link => links'[k] = links[k] /\ (InForce(k)' <=> InForce(k))
         /\ \A k \in Link : links[k] = NoRow => links'[k] = NoRow
         /\ \A i \in Identifier \ crossed : Current(i)' \subseteq Current(i) \ {h.link}
         /\ \A p \in Person, i \in Identifier \ crossed : Away(p, i) => Away(p, i)'
<1>1. h \in HandlerState /\ Holding(h) /\ Claims(h) /\ StoreInv /\ Typed
  BY UnderWay
<1>2. /\ h.step = "close" /\ UNCHANGED <<opened, merges, register, issued, crossed, faults>>
      /\ links' = [links EXCEPT ![h.link] = Closed(h.copy, h.to)]
  BY DEF Close
<1>3. PICK l, row, to, closed :
        l = h.link /\ row = h.copy /\ to = h.to /\ closed = Closed(row, to)
  OBVIOUS
<1>4. l \in Written /\ row # NoRow /\ SameLink(row, l)
  BY <1>1, <1>2, <1>3 DEF Holding, HoldsLink
<1>5. row \in LinkRow /\ to \in Link \cup {NoLink} /\ l \in Link
  BY <1>1, <1>3, <1>4 DEF HandlerState, Written
<1>6. /\ closed \in LinkRow /\ closed.status = "UNLINKED" /\ closed.person = row.person
      /\ closed.identifier = row.identifier /\ closed.foundational = row.foundational
  BY <1>3, <1>5, ClosedIs
<1>7. SameLink(closed, l) /\ links' = [links EXCEPT ![l] = closed]
  BY <1>2, <1>3, <1>4, <1>6 DEF SameLink
<1>8. disowned' \subseteq Person \X Identifier
  <2>1. <<row.person, row.identifier>> \in Person \X Identifier
    BY <1>5 DEF LinkRow
  <2>2. disowned' = disowned \/ disowned' = disowned \cup {<<row.person, row.identifier>>}
    BY <1>3 DEF Close
  <2> QED BY <1>1, <2>1, <2>2 DEF Typed
<1>9. /\ Linked /\ Merged /\ Typed' /\ MergesInv' /\ OneInv'
      /\ links'[l] = closed /\ Written' = Written
      /\ \A k \in Link : k # l => links'[k] = links[k] /\ (InForce(k)' <=> InForce(k))
      /\ \A i \in Identifier \ crossed : Current(i)' \subseteq Current(i)
      /\ \A p \in Person, i \in Identifier \ crossed : Away(p, i) => Away(p, i)'
  BY <1>1, <1>2, <1>4, <1>6, <1>7, <1>8, RewriteKeeps
<1>10. ~ InForce(l)' /\ links'[l].status = "UNLINKED"
  BY <1>6, <1>9 DEF InForce
<1>11. \A i \in Identifier \ crossed : Current(i)' \subseteq Current(i) \ {l}
  <2>1. ASSUME NEW i \in Identifier \ crossed PROVE l \notin Current(i)'
    BY <1>10 DEF Current
  <2> QED BY <1>9, <2>1
<1>12. \A k \in Link : links[k] = NoRow => links'[k] = NoRow
  BY <1>4, <1>9 DEF Written
<1> QED BY <1>1, <1>2, <1>3, <1>4, <1>5, <1>9, <1>10, <1>11, <1>12

LEMMA CloseToUnlinkKeeps ==
  ASSUME IInv, NEW q \in Handler, Close(q), handler[q].op = "unlink"
  PROVE  IInv'
<1>1. PICK h : h = handler[q]
  OBVIOUS
<1>2. /\ h \in HandlerState /\ Claims(h) /\ StoreInv /\ Typed
      /\ h.step = "close" /\ h.link \in Written /\ h.link \in Link
      /\ h.copy \in LinkRow /\ SameLink(h.copy, h.link)
      /\ UNCHANGED <<opened, merges, register, issued, crossed, faults>>
      /\ Linked /\ Merged /\ Typed' /\ MergesInv' /\ OneInv' /\ Holding(h)
      /\ \A k \in Link : links[k] = NoRow => links'[k] = NoRow
      /\ \A i \in Identifier \ crossed : Current(i)' \subseteq Current(i) \ {h.link}
      /\ \A p \in Person, i \in Identifier \ crossed : Away(p, i) => Away(p, i)'
  BY <1>1, ClosingIs
<1>3. PICK l, row, o, j : l = h.link /\ row = h.copy /\ o = row.person /\ j = row.identifier
  OBVIOUS
<1>4. /\ Goes(q, Idle)
      /\ disowned' = IF row.foundational THEN disowned \cup {<<o, j>>} ELSE disowned
  BY <1>1, <1>3 DEF Close
<1>5. o = links[l].person /\ j = links[l].identifier /\ row.foundational = links[l].foundational
  BY <1>2, <1>3 DEF SameLink
<1>6. ASSUME row.foundational, o \in Person \ crossed, j \in Identifier \ crossed
      PROVE  Away(o, j)'
  <2>1. register[o].subject # j
    <3>1. KeysOf(l) \cap crossed = {}
      BY <1>5, <1>6 DEF KeysOf
    <3> QED BY <1>1, <1>2, <1>3, <1>5, <1>6, <3>1 DEF Claims, ClaimsSubject
  <2>2. l \in Current(j)
    <3>1. InForce(l)
      BY <1>1, <1>2, <1>3, <1>6 DEF Claims, ClaimsLink
    <3> QED BY <1>2, <1>3, <1>5, <3>1 DEF Current
  <2>3. Current(j)' = {}
    BY <1>2, <1>3, <1>6, <2>2 DEF StoreInv, OneInv
  <2> QED BY <1>2, <2>1, <2>3 DEF Away
<1>7. DisownedInv'
  <2>1. ASSUME NEW p \in Person \ crossed, NEW i \in Identifier \ crossed, <<p, i>> \in disowned'
        PROVE  Away(p, i)'
    <3>1. CASE <<p, i>> \in disowned
      BY <1>2, <3>1 DEF StoreInv, DisownedInv
    <3>2. CASE <<p, i>> \notin disowned
      <4>1. row.foundational /\ p = o /\ i = j
        BY <1>4, <2>1, <3>2
      <4> QED BY <1>6, <4>1
    <3> QED BY <3>1, <3>2
  <2> QED BY <1>2, <2>1 DEF DisownedInv
<1>8. StoreInv' /\ issued <= issued' /\ crossed \subseteq crossed'
  BY <1>2, <1>7 DEF StoreInv, Typed
<1> QED BY <1>1, <1>2, <1>4, <1>8, StepEnds

LEMMA CloseToMoveKeeps ==
  ASSUME IInv, NEW q \in Handler, Close(q), handler[q].op # "unlink"
  PROVE  IInv'
<1>1. PICK h : h = handler[q]
  OBVIOUS
<1>2. /\ h \in HandlerState /\ Holding(h) /\ Claims(h) /\ StoreInv /\ Typed
      /\ h.step = "close" /\ h.link \in Written /\ h.link \in Link
      /\ h.copy \in LinkRow /\ SameLink(h.copy, h.link)
      /\ UNCHANGED <<opened, merges, register, issued, crossed, faults>>
      /\ Linked /\ Merged /\ Typed' /\ MergesInv' /\ OneInv' /\ Written' = Written
      /\ ~ InForce(h.link)'
      /\ \A k \in Link : k # h.link => links'[k] = links[k] /\ (InForce(k)' <=> InForce(k))
      /\ \A k \in Link : links[k] = NoRow => links'[k] = NoRow
      /\ \A i \in Identifier \ crossed : Current(i)' \subseteq Current(i) \ {h.link}
      /\ \A p \in Person, i \in Identifier \ crossed : Away(p, i) => Away(p, i)'
  BY <1>1, ClosingIs
<1>3. PICK l, row : l = h.link /\ row = h.copy
  OBVIOUS
<1>4. PICK next : next = [h EXCEPT !.step = "open"]
  OBVIOUS
<1>5. Goes(q, next) /\ disowned' = disowned
  BY <1>1, <1>4 DEF Close
<1>6. /\ next \in HandlerState /\ next.step = "open" /\ next.op = h.op /\ next.keys = h.keys
      /\ next.link = l /\ next.copy = row /\ next.rest = h.rest /\ next.to = h.to
      /\ next.target = h.target /\ next.record = h.record /\ next.merge = h.merge
      /\ next.moved = h.moved
  BY <1>2, <1>3, <1>4 DEF HandlerState
<1>7. h.op \in {"relink", "merge", "split"}
  BY <1>1, <1>2 DEF Holding, HoldsLink
<1>8. DisownedInv' /\ issued <= issued' /\ crossed \subseteq crossed'
  BY <1>2, <1>5 DEF StoreInv, DisownedInv, Typed
<1>9. StoreInv'
  BY <1>2, <1>8 DEF StoreInv
<1>10. Reserves(h) /\ h.to \in Link /\ links[h.to] = NoRow
  BY <1>2, <1>7 DEF Reserves, Holding, HoldsTarget
<1>11. HoldsLink(next)'
  <2>1. l \in Written' /\ KeysOf(l)' = KeysOf(l) /\ SameLink(row, l)' /\ KeysOf(l) \subseteq h.keys
    BY <1>2, <1>3, LinkedWritten DEF Holding, HoldsLink
  <2>2. KeysOf(next.link)' \subseteq next.keys /\ SameLink(next.copy, next.link)'
    BY <1>6, <2>1
  <2> QED BY <1>6, <2>1, <2>2 DEF HoldsLink
<1>12. HoldsTarget(next)'
  <2>1. h.to \in Link /\ h.to <= issued' /\ links'[h.to] = NoRow
    BY <1>2, <1>10 DEF Holding, HoldsTarget
  <2>2. h.target \in Person \cap h.keys /\ h.copy # NoRow /\ h.copy.identifier \in h.keys
    BY <1>2, <1>10 DEF Holding, HoldsTarget
  <2> QED BY <1>3, <1>6, <1>7, <2>1, <2>2 DEF HoldsTarget
<1>13. HoldsRest(next)'
  <2>1. HoldsRest(h) /\ Paired(h.moved)'
    BY <1>2, PairedStays DEF Holding, HoldsRest
  <2>2. \A pair \in h.rest :
          /\ pair[1] \in Written' /\ pair[1] # h.link
          /\ SameLink(pair[2], pair[1])' /\ KeysOf(pair[1])' \subseteq h.keys
    BY <1>2, <2>1, LinkedWritten DEF HoldsRest
  <2>3. Paired(next.moved)'
    BY <1>6, <2>1
  <2>4. \A pair \in next.rest :
          /\ pair[1] \in Written' /\ pair[1] # next.link
          /\ SameLink(pair[2], pair[1])' /\ KeysOf(pair[1])' \subseteq next.keys
    BY <1>3, <1>6, <2>2
  <2> QED BY <1>6, <2>1, <2>3, <2>4 DEF HoldsRest, Moves
<1>14. HoldsMerge(next)'
  <2>1. HoldsMerge(h)
    BY <1>2 DEF Holding
  <2>2. CASE h.op = "split"
    <3>m. PICK m, moved : m = h.merge /\ moved = merges[m].moved
      OBVIOUS
    <3>1. /\ m \in Merge /\ merges[m] # NoRow /\ h.target = merges[m].duplicate
          /\ \A pair \in moved : links[pair[2]].identifier \in h.keys
          /\ \E pair \in moved : pair[2] = l
          /\ \A back \in h.rest : \E pair \in moved : pair[2] = back[1]
      BY <1>2, <1>3, <2>1, <2>2, <3>m DEF HoldsMerge
    <3>2. \A pair \in moved : links'[pair[2]].identifier = links[pair[2]].identifier
      BY <1>2, <3>1, <3>m DEF Linked, StoreInv, MergesInv, Paired
    <3> QED BY <1>2, <1>6, <2>2, <3>m, <3>1, <3>2 DEF HoldsMerge, Concludes
  <2>3. CASE h.op # "split"
    BY <1>2, <1>6, <2>1, <2>3 DEF HoldsMerge, Concludes
  <2> QED BY <2>2, <2>3
<1>15. Holding(next)'
  BY <1>6, <1>11, <1>12, <1>13, <1>14 DEF Holding
<1>16. \A k \in Link : k \in Written /\ k # l => links'[k] = links[k] /\ (InForce(k)' <=> InForce(k))
  BY <1>2, <1>3
<1>17. ClaimsLink(next)'
  <2>1. ASSUME row.identifier \notin crossed PROVE Current(row.identifier)' = {}
    <3>1. Current(row.identifier) \subseteq {l} /\ row.identifier \in Identifier
      BY <1>2, <1>3, <1>10, <2>1 DEF Claims, ClaimsLink, LinkRow
    <3> QED BY <1>2, <1>3, <2>1, <3>1
  <2>2. ASSUME NEW pair \in h.rest, links'[pair[1]].identifier \notin crossed
        PROVE  InForce(pair[1])'
    <3>1. pair[1] \in Written /\ pair[1] # l /\ pair[1] \in Link
      BY <1>2, <1>3, <2>2 DEF Holding, HoldsRest, Written
    <3>2. InForce(pair[1])
      BY <1>2, <1>16, <2>2, <3>1 DEF Claims, ClaimsLink
    <3> QED BY <1>16, <3>1, <3>2
  <2> QED BY <1>2, <1>6, <2>1, <2>2 DEF ClaimsLink
<1>18. ClaimsSubject(next)'
  BY <1>6, <1>7 DEF ClaimsSubject
<1>19. ClaimsDispute(next)'
  <2>1. ASSUME NEW p, ~ Restricted(p) PROVE ~ Restricted(p)'
    <3>1. ASSUME NEW k \in Link, k \in Written, InForce(k)', links'[k].person = p
          PROVE  k \in CurrentOf(p) /\ links'[k].status = links[k].status
      BY <1>2, <3>1 DEF CurrentOf
    <3> QED BY <1>2, <2>1, <3>1 DEF Restricted, CurrentOf, Written
  <2>2. ASSUME NEW pair \in h.rest, h.op = "merge", NEW p \in Person \ crossed,
               links'[pair[1]].person = p
        PROVE  ~ Restricted(p)'
    <3>1. pair[1] \in Written /\ pair[1] # l /\ pair[1] \in Link
      BY <1>2, <1>3, <2>2 DEF Holding, HoldsRest, Written
    <3>2. ~ Restricted(p)
      BY <1>2, <1>16, <2>2, <3>1 DEF Claims, ClaimsDispute
    <3> QED BY <2>1, <3>2
  <2> QED BY <1>2, <1>6, <2>2 DEF ClaimsDispute
<1>20. ClaimsSplit(next)'
  <2>1. CASE h.op = "split"
    <3>m. PICK m, moved, d : m = h.merge /\ moved = merges[m].moved /\ d = h.target
      OBVIOUS
    <3>1. m \in Merge /\ merges[m] # NoRow /\ \E pair \in moved : pair[2] = l
      BY <1>2, <1>3, <2>1, <3>m DEF Holding, HoldsMerge
    <3>2. \A pair \in moved :
            /\ pair[2] \in Written /\ links'[pair[2]].identifier = links[pair[2]].identifier
            /\ links[pair[2]].identifier \in Identifier
      BY <1>2, <3>1, <3>m, RowIs DEF Linked, StoreInv, MergesInv, Paired
    <3>3. /\ \A pair, other \in moved :
               \/ links[pair[2]].identifier \in crossed
               \/ links[other[2]].identifier # links[pair[2]].identifier
               \/ pair[2] = other[2]
          /\ \A pair \in moved, i \in Identifier \ crossed :
               \/ links[pair[2]].identifier # i
               \/ Pending(h, pair[2]) \/ Leads(i, d)
      BY <1>2, <2>1, <3>m DEF Claims, ClaimsSplit
    <3>4. \A k : Pending(h, k) => Pending(next, k)
      BY <1>2, <1>3, <1>6 DEF Pending
    <3>5. ASSUME NEW pair \in moved, NEW i, i = links[pair[2]].identifier,
                 i \notin crossed, ~ Pending(h, pair[2])
          PROVE  Leads(i, d)'
      <4>1. Leads(i, d) /\ i \in Identifier
        BY <3>2, <3>3, <3>5
      <4>2. pair[2] # l
        BY <1>2, <1>3, <3>5 DEF Pending
      <4>3. links[l].identifier # i
        BY <3>1, <3>3, <3>5, <4>2
      <4>4. ASSUME NEW k \in Current(i)
            PROVE  k \in Current(i)'
        <5>1. k \in Link /\ k \in Written /\ k # l
          BY <4>3 DEF Current, Written
        <5> QED BY <1>2, <1>16, <5>1 DEF Current
      <4>5. \A k \in Current(i)' : k \in Current(i) /\ links'[k].person = links[k].person
        BY <1>2, <3>5, <4>1 DEF Linked, Current
      <4> QED BY <4>1, <4>4, <4>5 DEF Leads
    <3>6. ASSUME NEW pair \in moved, NEW i \in Identifier \ crossed,
                 links'[pair[2]].identifier = i
          PROVE  Pending(next, pair[2]) \/ Leads(i, d)'
      BY <3>2, <3>4, <3>5, <3>6
    <3> QED BY <1>2, <1>6, <2>1, <3>m, <3>2, <3>3, <3>6 DEF ClaimsSplit, Pending
  <2>2. CASE h.op # "split"
    BY <1>6, <2>2 DEF ClaimsSplit
  <2> QED BY <2>1, <2>2
<1>21. Claims(next)'
  BY <1>17, <1>18, <1>19, <1>20 DEF Claims
<1>22. Concludes(h) /\ \A m \in Merge : merges[m] = NoRow => merges'[m] = NoRow
  BY <1>2 DEF Concludes
<1> QED BY <1>1, <1>2, <1>5, <1>6, <1>8, <1>9, <1>10, <1>15, <1>21, <1>22, StepKeeps

LEMMA CloseKeeps ==
  ASSUME IInv, NEW q \in Handler, Close(q)
  PROVE  IInv'
BY CloseToUnlinkKeeps, CloseToMoveKeeps

LEMMA SuccessorIs ==
  ASSUME NEW h \in HandlerState, h.copy # NoRow, h.target \in Person, NEW row, row = Successor(h)
  PROVE  /\ row \in LinkRow /\ row.status = "ACTIVE" /\ row.person = h.target
         /\ row.identifier = h.copy.identifier
<1>1. PICK p, copy, l : p = h.target /\ copy = h.copy /\ l = h.link
  OBVIOUS
<1>2. p \in Person /\ copy \in LinkRow /\ l \in Link \cup {NoLink}
  BY <1>1 DEF HandlerState
<1>3. PICK i, f, opening : /\ i = copy.identifier /\ f = copy.foundational
                           /\ opening = Opening(p, i, f)
  OBVIOUS
<1>4. /\ opening \in LinkRow /\ opening.person = p /\ opening.identifier = i
      /\ opening.status = "ACTIVE"
  BY <1>2, <1>3, OpeningIs DEF LinkRow
<1>5. row = [opening EXCEPT !.supersedes = l]
  BY <1>1, <1>3 DEF Successor
<1> QED BY <1>1, <1>2, <1>3, <1>4, <1>5 DEF LinkRow

LEMMA OpenLinkKeeps ==
  ASSUME IInv, NEW q \in Handler, OpenLink(q)
  PROVE  IInv'
<1>1. PICK h : h = handler[q]
  OBVIOUS
<1>2. h \in HandlerState /\ Holding(h) /\ Claims(h) /\ StoreInv /\ Typed /\ MergesInv /\ OneInv
  BY <1>1, UnderWay
<1>3. PICK to, row, o, j : to = h.to /\ row = Successor(h) /\ o = h.target /\ j = h.copy.identifier
  OBVIOUS
<1>4. PICK next : next = [h EXCEPT !.step = "record"]
  OBVIOUS
<1>5. /\ h.step = "open" /\ links' = [links EXCEPT ![to] = row]
      /\ disowned' = disowned \ {<<row.person, row.identifier>>} /\ Goes(q, next)
      /\ UNCHANGED <<opened, merges, register, issued, crossed, faults>>
  BY <1>1, <1>3, <1>4 DEF OpenLink
<1>6. /\ Reserves(h) /\ to \in Link /\ to <= issued /\ links[to] = NoRow
      /\ h.op \notin {"unlink", "dispute", "resolve"} /\ o \in Person \cap h.keys
      /\ h.copy # NoRow /\ j \in h.keys
  BY <1>2, <1>3, <1>5 DEF Reserves, Holding, HoldsTarget
<1>7. /\ row \in LinkRow /\ row # NoRow /\ row.status = "ACTIVE" /\ row.person = o
      /\ row.identifier = j
  BY <1>2, <1>3, <1>6, SuccessorIs, RowsAreNotAbsent
<1>8. /\ links' \in [Link -> LinkRow \cup {NoRow}] /\ links'[to] = row
      /\ \A k \in Link : k # to => links'[k] = links[k]
  BY <1>2, <1>5, <1>6, <1>7 DEF Typed
<1>9. /\ Written' = Written \cup {to} /\ to \notin Written /\ Written \subseteq Link
      /\ \A k \in Link : k # to => (InForce(k)' <=> InForce(k))
  BY <1>6, <1>7, <1>8 DEF Written, InForce
<1>10. Linked /\ Merged
  <2>1. \A k \in Written : k \in Written' /\ links'[k] = links[k]
    BY <1>8, <1>9
  <2> QED BY <1>5, <2>1 DEF Linked, Merged
<1>11. Typed'
  <2>1. issued \in 0 .. MaxLinks /\ opened' \subseteq Written'
    BY <1>2, <1>5, <1>9 DEF Typed
  <2>2. \A k \in Written' : k <= issued'
    BY <1>2, <1>5, <1>6, <1>9 DEF Typed
  <2>3. disowned' \subseteq Person \X Identifier
    BY <1>2, <1>5 DEF Typed
  <2> QED BY <1>2, <1>5, <1>8, <2>1, <2>2, <2>3 DEF Typed
<1>12. MergesInv'
  <2>1. ASSUME NEW m \in Merge, merges[m] # NoRow, NEW moved, moved = merges[m].moved
        PROVE  moved # {} /\ Paired(moved)'
    BY <1>2, <1>10, <2>1, PairedStays DEF MergesInv
  <2>2. merges' = merges
    BY <1>5
  <2> QED BY <2>1, <2>2 DEF MergesInv, Paired
<1>13. \A i : /\ Current(i) \subseteq Current(i)'
              /\ \A k \in Current(i)' : k \in Current(i) \/ (k = to /\ i = j)
  <2>1. ASSUME NEW i, NEW k \in Link, k \in Written, k \in Current(i) PROVE k \in Current(i)'
    BY <1>8, <1>9, <2>1 DEF Current
  <2>2. ASSUME NEW i, NEW k \in Current(i)' PROVE k \in Current(i) \/ (k = to /\ i = j)
    BY <1>7, <1>8, <1>9, <2>2 DEF Current
  <2>3. \A i : Current(i) \subseteq Written
    BY DEF Current
  <2> QED BY <1>9, <2>1, <2>2, <2>3
<1>14. \A i \in Identifier \ crossed : i = j => Current(i) = {} /\ Current(i)' = {to}
  <2>1. j \notin crossed => Current(j) = {}
    BY <1>2, <1>3, <1>5, <1>6 DEF Claims, ClaimsLink
  <2>2. to \in Current(j)'
    BY <1>6, <1>7, <1>8, <1>9 DEF Current, InForce
  <2> QED BY <1>13, <2>1, <2>2
<1>15. OneInv'
  <2>1. ASSUME NEW i \in Identifier \ crossed, NEW l \in Current(i)', NEW k \in Current(i)'
        PROVE  l = k
    BY <1>2, <1>13, <1>14, <2>1 DEF OneInv
  <2> QED BY <1>5, <2>1 DEF OneInv
<1>16. DisownedInv'
  <2>1. ASSUME NEW p \in Person \ crossed, NEW i \in Identifier \ crossed, <<p, i>> \in disowned'
        PROVE  Away(p, i)'
    <3>1. <<p, i>> \in disowned /\ ~ (p = o /\ i = j)
      BY <1>5, <1>7, <2>1
    <3>2. Away(p, i)
      BY <1>2, <3>1 DEF StoreInv, DisownedInv
    <3>3. ASSUME NEW k \in Current(i)' PROVE links'[k].person # p
      <4>1. CASE k \in Current(i)
        BY <1>10, <3>2, <4>1 DEF Linked, Away, Current
      <4>2. CASE k = to /\ i = j
        BY <1>7, <1>8, <3>1, <4>2
      <4> QED BY <1>13, <4>1, <4>2
    <3> QED BY <1>5, <3>2, <3>3 DEF Away
  <2> QED BY <1>5, <2>1 DEF DisownedInv
<1>17. StoreInv'
  BY <1>11, <1>12, <1>15, <1>16 DEF StoreInv
<1>18. /\ next \in HandlerState /\ next.step = "record" /\ next.op = h.op /\ next.keys = h.keys
       /\ next.link = h.link /\ next.copy = h.copy /\ next.rest = h.rest /\ next.to = to
       /\ next.target = o /\ next.record = h.record /\ next.merge = h.merge
       /\ next.moved = h.moved
  BY <1>2, <1>3, <1>4 DEF HandlerState
<1>19. PICK l, copy : l = h.link /\ copy = h.copy
  OBVIOUS
<1>20. HoldsLink(next)'
  <2>1. Moves(h) => l \in Written /\ KeysOf(l) \subseteq h.keys /\ SameLink(copy, l)
    BY <1>2, <1>5, <1>19 DEF Holding, HoldsLink, Concludes
  <2>2. Moves(h) => l \in Written' /\ KeysOf(l)' \subseteq h.keys /\ SameLink(copy, l)'
    BY <1>10, <2>1, LinkedWritten
  <2>3. Moves(h) => /\ next.link \in Written' /\ KeysOf(next.link)' \subseteq next.keys
                    /\ SameLink(next.copy, next.link)'
    BY <1>18, <1>19, <2>2
  <2> QED BY <1>18, <2>3 DEF HoldsLink, Moves
<1>21. HoldsTarget(next)'
  <2>1. next.to \in Written' /\ links'[next.to].identifier = next.copy.identifier
    BY <1>3, <1>7, <1>8, <1>9, <1>18
  <2> QED BY <1>3, <1>6, <1>18, <2>1 DEF HoldsTarget, Reserves
<1>22. HoldsRest(next)'
  <2>1. HoldsRest(h) /\ Paired(h.moved)'
    BY <1>2, <1>10, PairedStays DEF Holding, HoldsRest
  <2>2. \A pair \in h.rest :
          /\ pair[1] \in Written' /\ pair[1] # h.link
          /\ SameLink(pair[2], pair[1])' /\ KeysOf(pair[1])' \subseteq h.keys
    BY <1>10, <2>1, LinkedWritten DEF HoldsRest
  <2>3. Paired(next.moved)'
    BY <1>18, <2>1
  <2>4. \A pair \in next.rest :
          /\ pair[1] \in Written' /\ pair[1] # next.link
          /\ SameLink(pair[2], pair[1])' /\ KeysOf(pair[1])' \subseteq next.keys
    BY <1>18, <2>2
  <2> QED BY <1>18, <2>1, <2>3, <2>4 DEF HoldsRest, Moves
<1>23. HoldsMerge(next)'
  <2>1. HoldsMerge(h)
    BY <1>2 DEF Holding
  <2>2. CASE h.op = "split"
    <3>m. PICK m, moved : m = h.merge /\ moved = merges[m].moved
      OBVIOUS
    <3>1. /\ m \in Merge /\ merges[m] # NoRow /\ h.target = merges[m].duplicate
          /\ \A pair \in moved : links[pair[2]].identifier \in h.keys
          /\ \A back \in h.rest : \E pair \in moved : pair[2] = back[1]
      BY <1>5, <2>1, <2>2, <3>m DEF HoldsMerge
    <3>2. \A pair \in moved : links'[pair[2]].identifier = links[pair[2]].identifier
      BY <1>2, <1>10, <3>1, <3>m DEF Linked, MergesInv, Paired
    <3> QED BY <1>3, <1>5, <1>18, <2>2, <3>m, <3>1, <3>2 DEF HoldsMerge, Concludes
  <2>3. CASE h.op # "split"
    BY <1>5, <1>18, <2>1, <2>3 DEF HoldsMerge, Concludes
  <2> QED BY <2>2, <2>3
<1>24. Holding(next)'
  BY <1>18, <1>20, <1>21, <1>22, <1>23 DEF Holding
<1>25. \A pair \in h.rest : pair[1] \in Written /\ pair[1] # to /\ pair[1] \in Link
  BY <1>2, <1>9 DEF Holding, HoldsRest
<1>26. ClaimsLink(next)'
  <2>1. ASSUME NEW pair \in h.rest, links'[pair[1]].identifier \notin crossed
        PROVE  InForce(pair[1])'
    <3>1. InForce(pair[1])
      BY <1>2, <1>8, <1>25, <2>1 DEF Claims, ClaimsLink
    <3> QED BY <1>9, <1>25, <3>1
  <2> QED BY <1>5, <1>18, <2>1 DEF ClaimsLink, Reserves
<1>27. ClaimsSubject(next)'
  BY <1>3, <1>5, <1>6, <1>7, <1>18 DEF ClaimsSubject
<1>28. ClaimsDispute(next)'
  <2>1. ASSUME NEW p, ~ Restricted(p) PROVE ~ Restricted(p)'
    <3>1. ASSUME NEW k \in Written', InForce(k)', links'[k].person = p
          PROVE  links'[k].status # "DISPUTED"
      <4>1. CASE k = to
        BY <1>7, <1>8, <4>1
      <4>2. CASE k # to
        <5>1. k \in Written /\ k \in Link
          BY <1>9, <4>2
        <5>2. k \in CurrentOf(p) /\ links'[k].status = links[k].status
          BY <1>8, <1>9, <3>1, <4>2, <5>1 DEF CurrentOf
        <5> QED BY <2>1, <5>2 DEF Restricted
      <4> QED BY <4>1, <4>2
    <3> QED BY <3>1 DEF Restricted, CurrentOf
  <2>2. ASSUME NEW pair \in h.rest, h.op = "merge", NEW p \in Person \ crossed,
               links'[pair[1]].person = p
        PROVE  ~ Restricted(p)'
    <3>1. ~ Restricted(p)
      BY <1>2, <1>8, <1>25, <2>2 DEF Claims, ClaimsDispute
    <3> QED BY <2>1, <3>1
  <2> QED BY <1>5, <1>18, <2>2 DEF ClaimsDispute
<1>29. ClaimsSplit(next)'
  <2>1. CASE h.op = "split"
    <3>m. PICK m, moved : m = h.merge /\ moved = merges[m].moved
      OBVIOUS
    <3>1. m \in Merge /\ merges[m] # NoRow
      BY <1>2, <1>5, <2>1, <3>m DEF Holding, HoldsMerge
    <3>2. \A pair \in moved :
            /\ pair[2] \in Written /\ links'[pair[2]].identifier = links[pair[2]].identifier
      BY <1>2, <1>10, <3>1, <3>m DEF Linked, MergesInv, Paired
    <3>3. /\ \A pair, other \in moved :
               \/ links[pair[2]].identifier \in crossed
               \/ links[other[2]].identifier # links[pair[2]].identifier
               \/ pair[2] = other[2]
          /\ \A pair \in moved, i \in Identifier \ crossed :
               \/ links[pair[2]].identifier # i
               \/ Pending(h, pair[2]) \/ Leads(i, o)
      BY <1>2, <1>3, <1>5, <2>1, <3>m DEF Claims, ClaimsSplit
    <3>4. links[h.link].identifier = j
      BY <1>2, <1>3, <1>5, <2>1 DEF Holding, HoldsLink, Moves, Concludes, SameLink
    <3>5. ASSUME NEW i \in Identifier \ crossed, i = j \/ Leads(i, o)
          PROVE  Leads(i, o)'
      <4>1. Current(i)' # {}
        BY <1>13, <1>14, <3>5 DEF Leads
      <4>2. ASSUME NEW k \in Current(i)' PROVE links'[k].person = o
        <5>1. CASE k = to
          BY <1>7, <1>8, <5>1
        <5>2. CASE k # to
          <6>1. k \in Current(i) /\ k \in Written
            BY <1>13, <5>2 DEF Current
          <6>2. links'[k].person = links[k].person
            BY <1>10, <6>1 DEF Linked
          <6>3. links[k].person = o
            BY <1>14, <3>5, <6>1 DEF Leads
          <6> QED BY <6>2, <6>3
        <5> QED BY <5>1, <5>2
      <4> QED BY <4>1, <4>2 DEF Leads
    <3>6. ASSUME NEW pair \in moved, NEW i \in Identifier \ crossed,
                 links'[pair[2]].identifier = i
          PROVE  Pending(next, pair[2]) \/ Leads(i, o)'
      <4>1. Pending(h, pair[2]) \/ Leads(i, o)
        BY <3>2, <3>3, <3>6
      <4>2. Pending(h, pair[2]) => Pending(next, pair[2]) \/ i = j
        BY <1>18, <3>2, <3>4, <3>6 DEF Pending
      <4> QED BY <3>5, <4>1, <4>2
    <3> QED BY <1>5, <1>18, <2>1, <3>m, <3>2, <3>3, <3>6 DEF ClaimsSplit, Pending
  <2>2. CASE h.op # "split"
    BY <1>18, <2>2 DEF ClaimsSplit
  <2> QED BY <2>1, <2>2
<1>30. Claims(next)'
  BY <1>26, <1>27, <1>28, <1>29 DEF Claims
<1>31. /\ issued <= issued' /\ crossed \subseteq crossed' /\ ~ Reserves(next) /\ Concludes(h)
       /\ \A k \in Link : links[k] = NoRow => links'[k] = NoRow \/ k = h.to
       /\ \A m \in Merge : merges[m] = NoRow => merges'[m] = NoRow
  <2>1. ~ Reserves(next) /\ Concludes(h)
    BY <1>5, <1>18 DEF Reserves, Concludes
  <2>2. issued <= issued' /\ crossed \subseteq crossed'
    BY <1>2, <1>5 DEF Typed
  <2> QED BY <1>3, <1>5, <1>8, <2>1, <2>2
<1> QED BY <1>1, <1>5, <1>6, <1>10, <1>17, <1>18, <1>24, <1>30, <1>31, StepKeeps

\* An opening is recorded.
LEMMA RecordingIs ==
  ASSUME IInv, NEW q \in Handler, NEW h, h = handler[q], RecordEvent(q)
  PROVE  /\ h \in HandlerState /\ Holding(h) /\ Claims(h) /\ StoreInv /\ Typed /\ OneInv
         /\ MergesInv /\ h.step = "record" /\ h.to \in Written
         /\ UNCHANGED <<links, merges, register, crossed, disowned, faults>>
         /\ issued' \in 0 .. MaxLinks => StoreInv'
         /\ Linked /\ Merged /\ issued \in 0 .. MaxLinks
         /\ issued = issued' \/ Draw
         /\ \A k \in Link : links[k] = NoRow => links'[k] = NoRow
         /\ \A m \in Merge : merges[m] = NoRow => merges'[m] = NoRow
<1>1. h \in HandlerState /\ Holding(h) /\ Claims(h) /\ StoreInv /\ Typed /\ OneInv /\ MergesInv
  BY UnderWay
<1>2. /\ h.step = "record" /\ opened' = opened \cup {h.to}
      /\ UNCHANGED <<links, merges, register, crossed, disowned, faults>>
      /\ issued = issued' \/ Draw
  BY DEF RecordEvent
<1>3. h.to \in Written
  BY <1>1, <1>2 DEF Holding, HoldsTarget
<1>4. Written' = Written /\ \A i : Current(i)' = Current(i)
  BY <1>2 DEF Written, Current, InForce
<1>5. Linked /\ Merged
  BY <1>2, <1>4 DEF Linked, Merged
<1>6. ASSUME issued' \in 0 .. MaxLinks PROVE Typed'
  <2>1. issued <= issued' /\ issued \in Nat
    BY <1>1, <1>2, DrawnIs DEF Typed
  <2>2. \A l \in Written : l <= issued'
    BY <1>1, <1>6, <2>1, IdsAreIntegers DEF Typed, Written
  <2>3. opened' \subseteq Written'
    BY <1>1, <1>2, <1>3, <1>4 DEF Typed
  <2> QED BY <1>1, <1>2, <1>4, <1>6, <2>2, <2>3 DEF Typed
<1>7. OneInv' /\ DisownedInv'
  BY <1>1, <1>2, <1>4 DEF StoreInv, OneInv, DisownedInv, Away
<1>8. MergesInv'
  BY <1>1, <1>2, <1>4 DEF MergesInv, Paired
<1>9. issued' \in 0 .. MaxLinks => StoreInv'
  BY <1>6, <1>7, <1>8 DEF StoreInv
<1>10. issued \in 0 .. MaxLinks
  BY <1>1 DEF Typed
<1> QED BY <1>1, <1>2, <1>3, <1>5, <1>9, <1>10

\* The pair of links just written is one of those moved, and the last of them.
JustMoving(h) == [h EXCEPT !.moved = h.moved \cup {<<h.link, h.to>>}]

Concluding(h) == [h EXCEPT !.step = "conclude"]

Restoring(h) == [h EXCEPT !.step = "restore"]

LEMMA JustMoved ==
  ASSUME NEW h \in HandlerState, Holding(h), h.step = "record", Moves(h), NEW on,
         on = JustMoving(h)
  PROVE  /\ on \in HandlerState /\ Paired(on.moved) /\ on.moved # {}
         /\ on.op = h.op /\ on.step = h.step /\ on.keys = h.keys /\ on.link = h.link
         /\ on.copy = h.copy /\ on.rest = h.rest /\ on.to = h.to /\ on.target = h.target
         /\ on.record = h.record /\ on.merge = h.merge
<1>1. PICK l, to, some : l = h.link /\ to = h.to /\ some = h.moved \cup {<<l, to>>}
  OBVIOUS
<1>2. /\ l \in Written /\ SameLink(h.copy, l)
      /\ to \in Written /\ links[to].identifier = h.copy.identifier
      /\ Paired(h.moved)
  BY <1>1 DEF Holding, HoldsLink, HoldsTarget, HoldsRest, Moves, Concludes
<1>3. Paired(some)
  BY <1>1, <1>2 DEF Paired, SameLink
<1>4. l \in Link /\ to \in Link /\ h.moved \subseteq Link \X Link
  BY <1>2 DEF Written, HandlerState
<1>5. some \in SUBSET (Link \X Link) /\ some # {}
  <2>1. <<l, to>> \in Link \X Link /\ <<l, to>> \in some
    BY <1>1, <1>4
  <2> QED BY <1>1, <1>4, <2>1
<1>6. on = [h EXCEPT !.moved = some]
  BY <1>1 DEF JustMoving
<1> QED BY <1>3, <1>5, <1>6 DEF HandlerState

LEMMA RecordAndMoveKeeps ==
  ASSUME IInv, NEW q \in Handler, NEW h, h = handler[q], RecordEvent(q), h.rest # {}, Draw,
         NEW on, on = JustMoving(h),
         NEW next, next = Moving(on, h.rest), Goes(q, next)
  PROVE  IInv'
<1>1. /\ h \in HandlerState /\ Holding(h) /\ Claims(h) /\ StoreInv /\ Typed /\ OneInv
      /\ MergesInv /\ h.step = "record"
      /\ UNCHANGED <<links, merges, register, crossed, disowned, faults>>
      /\ issued' \in 0 .. MaxLinks => StoreInv'
      /\ Linked /\ Merged
      /\ \A k \in Link : links[k] = NoRow => links'[k] = NoRow
      /\ \A m \in Merge : merges[m] = NoRow => merges'[m] = NoRow
  BY RecordingIs
<1>2. Moves(h)
  BY <1>1 DEF Holding, HoldsRest
<1>3. /\ on \in HandlerState /\ Paired(on.moved)
      /\ on.op = h.op /\ on.keys = h.keys /\ on.rest = h.rest /\ on.target = h.target
      /\ on.record = h.record /\ on.merge = h.merge
  BY <1>1, <1>2, JustMoved
<1>4. Moves(on) /\ h.rest \in SUBSET (Link \X LinkRow)
  BY <1>1, <1>2, <1>3 DEF Moves, HandlerState
<1>5. ToMove(on, h.rest)
  <2>1. on.target \in Person /\ on.target \in on.keys
    BY <1>1, <1>3 DEF Holding, HoldsTarget
  <2>2. /\ \A pair \in h.rest :
             /\ pair[1] \in Written /\ SameLink(pair[2], pair[1])
             /\ KeysOf(pair[1]) \subseteq on.keys
             /\ links[pair[1]].identifier \notin crossed => InForce(pair[1])
        /\ \A pair, other \in h.rest : pair[1] = other[1] => pair = other
    BY <1>1, <1>3 DEF Holding, HoldsRest, Claims, ClaimsLink
  <2> QED BY <1>3, <2>1, <2>2 DEF ToMove
<1>6. on.op = "merge" => MergeMoves(on, h.rest)
  <2>1. ASSUME on.op = "merge"
        PROVE  /\ h.record # NoRow /\ h.merge \in Merge /\ merges[h.merge] = NoRow
               /\ \A pair \in h.rest, p \in Person \ crossed :
                    links[pair[1]].person = p => ~ Restricted(p)
    BY <1>1, <1>3, <2>1 DEF Holding, HoldsMerge, Concludes, Claims, ClaimsDispute
  <2> QED BY <1>3, <2>1 DEF MergeMoves
<1>7. on.op = "split" => SplitMoves(on, h.rest)
  <2>1. ASSUME on.op = "split", NEW m, m = h.merge, NEW moved, moved = merges[m].moved
        PROVE  /\ m \in Merge /\ merges[m] # NoRow /\ h.target = merges[m].duplicate
               /\ \A pair \in moved : links[pair[2]].identifier \in h.keys
               /\ \A pair \in moved, i \in Identifier \ crossed :
                    links[pair[2]].identifier = i =>
                      (\E back \in h.rest : back[1] = pair[2]) \/ Leads(i, h.target)
               /\ \A pair, other \in moved :
                    \/ links[pair[2]].identifier \in crossed
                    \/ links[other[2]].identifier # links[pair[2]].identifier
                    \/ pair[2] = other[2]
               /\ \A back \in h.rest : \E pair \in moved : pair[2] = back[1]
    <3>1. /\ m \in Merge /\ merges[m] # NoRow /\ h.target = merges[m].duplicate
          /\ \A pair \in moved : links[pair[2]].identifier \in h.keys
          /\ \A back \in h.rest : \E pair \in moved : pair[2] = back[1]
      BY <1>1, <1>3, <2>1 DEF Holding, HoldsMerge
    <3>2. /\ \A pair \in moved, i \in Identifier \ crossed :
               links[pair[2]].identifier = i => Pending(h, pair[2]) \/ Leads(i, h.target)
          /\ \A pair, other \in moved :
               \/ links[pair[2]].identifier \in crossed
               \/ links[other[2]].identifier # links[pair[2]].identifier
               \/ pair[2] = other[2]
      BY <1>1, <1>3, <2>1 DEF Claims, ClaimsSplit
    <3>3. \A k : Pending(h, k) => \E back \in h.rest : back[1] = k
      BY <1>1 DEF Pending
    <3> QED BY <3>1, <3>2, <3>3
  <2> QED BY <1>3, <2>1 DEF SplitMoves
<1>8. /\ next \in HandlerState /\ Holding(next)' /\ Claims(next)
      /\ next.step = "close" /\ next.op = on.op /\ next.keys = on.keys
      /\ next.merge = on.merge /\ next.to = issued + 1
  BY <1>1, <1>3, <1>4, <1>5, <1>6, <1>7, MovingKeeps
<1>9. issued' \in 0 .. MaxLinks /\ issued <= issued' /\ issued < issued + 1
  BY <1>1, DrawnIs
<1>10. crossed \subseteq crossed' /\ Concludes(h)
  BY <1>1 DEF Concludes
<1>11. Claims(next)'
  BY <1>1, <1>8, <1>10, ClaimsStay
<1> QED BY <1>1, <1>3, <1>8, <1>9, <1>10, <1>11, StepKeeps

LEMMA RecordAndConcludeKeeps ==
  ASSUME IInv, NEW q \in Handler, NEW h, h = handler[q], RecordEvent(q), h.rest = {}, Moves(h),
         issued' = issued,
         NEW on, on = JustMoving(h),
         NEW next, next = Concluding(on), Goes(q, next)
  PROVE  IInv'
<1>1. /\ h \in HandlerState /\ Holding(h) /\ Claims(h) /\ StoreInv /\ Typed
      /\ h.step = "record" /\ issued \in 0 .. MaxLinks
      /\ UNCHANGED <<links, merges, register, crossed, disowned, faults>>
      /\ issued' \in 0 .. MaxLinks => StoreInv'
      /\ Linked /\ Merged
      /\ \A k \in Link : links[k] = NoRow => links'[k] = NoRow
      /\ \A m \in Merge : merges[m] = NoRow => merges'[m] = NoRow
  BY RecordingIs
<1>2. /\ on \in HandlerState /\ Paired(on.moved) /\ on.moved # {}
      /\ on.op = h.op /\ on.keys = h.keys /\ on.link = h.link /\ on.copy = h.copy
      /\ on.rest = h.rest /\ on.target = h.target /\ on.record = h.record /\ on.merge = h.merge
  BY <1>1, JustMoved
<1>3. /\ next \in HandlerState /\ next.step = "conclude" /\ next.op = on.op /\ next.keys = on.keys
      /\ next.link = on.link /\ next.copy = on.copy /\ next.rest = on.rest
      /\ next.target = on.target /\ next.record = on.record /\ next.merge = on.merge
      /\ next.moved = on.moved
  BY <1>2 DEF HandlerState, Concluding
<1>4. PICK l, copy : l = h.link /\ copy = h.copy
  OBVIOUS
<1>5. l \in Written /\ KeysOf(l) \subseteq h.keys /\ SameLink(copy, l)
  BY <1>1, <1>4 DEF Holding, HoldsLink, Concludes
<1>6. l \in Written' /\ KeysOf(l)' \subseteq h.keys /\ SameLink(copy, l)'
  BY <1>1, <1>5, LinkedWritten
<1>7. HoldsLink(next)'
  <2>1. next.link = l
    BY <1>2, <1>3, <1>4
  <2>2. /\ next.link \in Written' /\ KeysOf(next.link)' \subseteq next.keys
        /\ SameLink(next.copy, next.link)'
    BY <1>2, <1>3, <1>4, <1>6, <2>1
  <2> QED BY <1>3, <2>2 DEF HoldsLink
<1>8. HoldsTarget(next)'
  <2>1. h.target \in Person /\ h.copy # NoRow
    BY <1>1 DEF Holding, HoldsTarget
  <2>2. h.copy.person \in h.keys
    BY <1>4, <1>5 DEF KeysOf, SameLink
  <2>3. Moves(next)
    BY <1>2, <1>3 DEF Moves
  <2> QED BY <1>2, <1>3, <2>1, <2>2, <2>3 DEF HoldsTarget, Reserves
<1>9. HoldsRest(next)'
  <2>1. Paired(on.moved)'
    BY <1>1, <1>2, PairedStays
  <2>2. Paired(next.moved)'
    BY <1>3, <2>1
  <2> QED BY <1>2, <1>3, <2>2 DEF HoldsRest
<1>10. HoldsMerge(next)'
  <2>1. HoldsMerge(h)
    BY <1>1 DEF Holding
  <2>2. CASE h.op = "split"
    <3>1. PICK m, moved : m = h.merge /\ moved = merges[m].moved
      OBVIOUS
    <3>2. /\ m \in Merge /\ merges[m] # NoRow /\ h.target = merges[m].duplicate
          /\ \A pair \in moved : links[pair[2]].identifier \in h.keys
      BY <1>1, <2>1, <2>2, <3>1 DEF HoldsMerge
    <3> QED BY <1>1, <1>2, <1>3, <2>2, <3>1, <3>2 DEF HoldsMerge, Concludes
  <2>3. CASE h.op = "merge"
    BY <1>1, <1>2, <1>3, <2>1, <2>3 DEF HoldsMerge, Concludes
  <2> QED BY <2>2, <2>3 DEF Moves
<1>11. Holding(next)'
  BY <1>3, <1>7, <1>8, <1>9, <1>10 DEF Holding
<1>12. Claims(next)
  <2>1. ClaimsLink(next) /\ ClaimsSubject(next) /\ ClaimsDispute(next)
    BY <1>2, <1>3 DEF ClaimsLink, ClaimsSubject, ClaimsDispute, Reserves, Moves
  <2>2. ClaimsSplit(next)
    <3>1. ASSUME h.op = "split" PROVE ClaimsSplit(h) /\ \A k : ~ Pending(h, k)
      BY <1>1 DEF Claims, Pending
    <3> QED BY <1>1, <1>2, <1>3, <3>1 DEF ClaimsSplit
  <2> QED BY <2>1, <2>2 DEF Claims
<1>13. Claims(next)'
  BY <1>1, <1>12, ClaimsStay
<1>14. /\ issued <= issued' /\ crossed \subseteq crossed' /\ Concludes(h) /\ ~ Reserves(next)
       /\ issued' \in 0 .. MaxLinks
  BY <1>1, <1>3 DEF Concludes, Reserves
<1> QED BY <1>1, <1>2, <1>3, <1>11, <1>13, <1>14, StepKeeps

LEMMA RecordEventKeeps ==
  ASSUME IInv, NEW q \in Handler, RecordEvent(q)
  PROVE  IInv'
<1>1. PICK h : h = handler[q]
  OBVIOUS
<1>2. /\ h \in HandlerState /\ Holding(h) /\ Claims(h)
      /\ h.step = "record" /\ issued \in 0 .. MaxLinks
      /\ UNCHANGED <<links, merges, register, crossed, disowned, faults>>
      /\ issued' \in 0 .. MaxLinks => StoreInv'
      /\ Linked /\ Merged
      /\ \A k \in Link : links[k] = NoRow => links'[k] = NoRow
      /\ \A m \in Merge : merges[m] = NoRow => merges'[m] = NoRow
  BY <1>1, RecordingIs
<1>3. PICK on : on = JustMoving(h)
  OBVIOUS
<1>4. \/ h.rest # {} /\ Draw /\ Goes(q, Moving(on, h.rest))
      \/ /\ h.rest = {} /\ Moves(h) /\ issued' = issued
         /\ Goes(q, Concluding(on))
      \/ /\ ~ Moves(h) /\ issued' = issued
         /\ Goes(q, IF Restores(h) THEN Restoring(h) ELSE Idle)
  BY <1>1, <1>3 DEF RecordEvent, Moves, JustMoving, Concluding, Restoring
<1>5. CASE h.rest # {} /\ Draw /\ Goes(q, Moving(on, h.rest))
  BY <1>1, <1>3, <1>5, RecordAndMoveKeeps
<1>6. CASE /\ h.rest = {} /\ Moves(h) /\ issued' = issued
           /\ Goes(q, Concluding(on))
  BY <1>1, <1>3, <1>6, RecordAndConcludeKeeps
<1>7. CASE ~ Moves(h) /\ issued' = issued /\ ~ Restores(h) /\ Goes(q, Idle)
  <2>1. issued <= issued' /\ crossed \subseteq crossed' /\ StoreInv' /\ handler[q].step # "idle"
    BY <1>1, <1>2, <1>7
  <2> QED BY <1>2, <1>7, <2>1, StepEnds
<1>8. CASE /\ ~ Moves(h) /\ issued' = issued /\ Restores(h)
           /\ Goes(q, Restoring(h))
  <2>1. PICK next : next = Restoring(h)
    OBVIOUS
  <2>2. /\ next \in HandlerState /\ next.step = "restore" /\ next.op = h.op /\ next.keys = h.keys
        /\ next.copy = h.copy /\ next.rest = h.rest /\ next.target = h.target
        /\ next.record = h.record /\ next.moved = h.moved
    BY <1>2, <2>1 DEF HandlerState, Restoring
  <2>3. h.op = "relink" /\ h.record # NoRow
    BY <1>8 DEF Restores
  <2>4. h.rest = {} /\ Paired(h.moved)
    BY <1>2, <1>8 DEF Holding, HoldsRest
  <2>5. Holding(next)'
    <3>1. Paired(next.moved)'
      BY <1>2, <2>2, <2>4, PairedStays
    <3>2. HoldsLink(next)' /\ HoldsRest(next)' /\ HoldsMerge(next)'
      BY <2>2, <2>3, <2>4, <3>1 DEF HoldsLink, HoldsRest, HoldsMerge, Moves
    <3>3. HoldsTarget(next)'
      BY <1>2, <2>2, <2>3 DEF Holding, HoldsTarget, Reserves
    <3> QED BY <2>2, <3>2, <3>3 DEF Holding
  <2>6. Claims(next)
    <3>1. ClaimsSubject(next)
      BY <1>2, <2>2, <2>3 DEF Claims, ClaimsSubject
    <3> QED BY <2>2, <2>3, <2>4, <3>1 DEF Claims, ClaimsLink, ClaimsDispute, ClaimsSplit, Reserves
  <2>7. Claims(next)'
    BY <1>2, <2>6, ClaimsStay
  <2>8. /\ issued <= issued' /\ crossed \subseteq crossed' /\ StoreInv' /\ ~ Reserves(next)
        /\ Goes(q, next)
    BY <1>2, <1>8, <2>1, <2>2 DEF Reserves
  <2> QED BY <1>1, <1>2, <2>2, <2>3, <2>5, <2>7, <2>8, StepKeeps
<1> QED BY <1>4, <1>5, <1>6, <1>7, <1>8

LEMMA RestoreKeeps ==
  ASSUME IInv, NEW q \in Handler, Restore(q)
  PROVE  IInv'
<1>1. PICK h : h = handler[q]
  OBVIOUS
<1>2. h \in HandlerState /\ Holding(h) /\ Claims(h) /\ StoreInv /\ Typed
  BY <1>1, UnderWay
<1>3. PICK o, j, record : o = h.target /\ j = h.copy.identifier /\ record = h.record
  OBVIOUS
<1>4. PICK row : row = [record EXCEPT !.subject = j]
  OBVIOUS
<1>5. /\ h.step = "restore" /\ Goes(q, Idle)
      /\ UNCHANGED <<links, opened, merges, issued, crossed, disowned, faults>>
      /\ register' = register \/ register' = [register EXCEPT ![o] = row]
  BY <1>1, <1>3, <1>4 DEF Restore
<1>6. o \in Person /\ record # NoRow /\ h.copy # NoRow /\ h.op = "relink"
  BY <1>2, <1>3, <1>5 DEF Holding, HoldsTarget, Reserves
<1>7. record \in RegisterRow /\ j \in Identifier
  BY <1>2, <1>3, <1>6 DEF HandlerState, LinkRow
<1>8. row \in RegisterRow /\ row.subject = j
  BY <1>4, <1>7 DEF RegisterRow
<1>9. o \in crossed \/ j \in crossed \/ <<o, j>> \notin disowned
  BY <1>2, <1>3, <1>5, <1>6 DEF Claims, ClaimsSubject
<1>10. \A p \in Person : register'[p] = register[p] \/ (p = o /\ register'[p] = row)
  BY <1>2, <1>5, <1>6 DEF Typed
<1>11. register' \in [Person -> RegisterRow]
  BY <1>2, <1>5, <1>6, <1>8 DEF Typed
<1>12. \A p \in Person \ crossed, i \in Identifier \ crossed :
         <<p, i>> \in disowned /\ register'[p].subject = i => register[p].subject = i
  BY <1>8, <1>9, <1>10
<1>13. /\ StoreInv' /\ Linked /\ Merged /\ issued <= issued' /\ crossed \subseteq crossed'
       /\ \A l \in Link : links[l] = NoRow => links'[l] = NoRow
       /\ \A m \in Merge : merges[m] = NoRow => merges'[m] = NoRow
  BY <1>2, <1>5, <1>11, <1>12, RegisterKeeps
<1> QED BY <1>1, <1>5, <1>13, StepEnds

\* A row of the register is saved under the subject it has.
LEMMA SameSubjectKeeps ==
  ASSUME StoreInv, UNCHANGED <<links, opened, merges, issued, crossed, disowned, faults>>,
         register' \in [Person -> RegisterRow],
         \A p \in Person : register'[p].subject = register[p].subject
  PROVE  /\ StoreInv' /\ Linked /\ Merged /\ issued <= issued' /\ crossed \subseteq crossed'
         /\ \A l \in Link : links[l] = NoRow => links'[l] = NoRow
         /\ \A m \in Merge : merges[m] = NoRow => merges'[m] = NoRow
BY RegisterKeeps

Ending(h) == [h EXCEPT !.step = "end"]

Replacing(h) == [h EXCEPT !.step = "replace"]

\* After the merge record all that is left of a merge is the duplicate's row.
LEMMA AfterTheMerge ==
  ASSUME NEW h \in HandlerState, Holding(h), Claims(h), h.op = "merge",
         h.step \in {"conclude", "end"}, Linked, UNCHANGED <<links, crossed>>,
         NEW next, next \in {Ending(h), Replacing(h)}
  PROVE  /\ next \in HandlerState /\ Holding(next)' /\ Claims(next)'
         /\ next.keys = h.keys /\ ~ Reserves(next) /\ ~ Concludes(next)
<1>1. /\ next \in HandlerState /\ next.step \in {"end", "replace"} /\ next.op = h.op
      /\ next.keys = h.keys /\ next.link = h.link /\ next.copy = h.copy /\ next.rest = h.rest
      /\ next.target = h.target /\ next.record = h.record /\ next.merge = h.merge
      /\ next.moved = h.moved
  BY DEF HandlerState, Ending, Replacing
<1>2. HoldsLink(next)' /\ HoldsMerge(next)'
  BY <1>1 DEF HoldsLink, HoldsMerge, Holding, Concludes
<1>3. HoldsTarget(next)'
  BY <1>1 DEF Holding, HoldsTarget, Reserves, Moves
<1>4. HoldsRest(next)'
  <2>1. HoldsRest(h) /\ Paired(h.moved)'
    BY PairedStays DEF Holding, HoldsRest
  <2>2. \A pair \in h.rest :
          /\ pair[1] \in Written' /\ pair[1] # h.link
          /\ SameLink(pair[2], pair[1])' /\ KeysOf(pair[1])' \subseteq h.keys
    BY <2>1, LinkedWritten DEF HoldsRest
  <2>3. Paired(next.moved)'
    BY <1>1, <2>1
  <2>4. \A pair \in next.rest :
          /\ pair[1] \in Written' /\ pair[1] # next.link
          /\ SameLink(pair[2], pair[1])' /\ KeysOf(pair[1])' \subseteq next.keys
    BY <1>1, <2>2
  <2> QED BY <1>1, <2>1, <2>3, <2>4 DEF HoldsRest, Moves
<1>5. Holding(next)'
  BY <1>1, <1>2, <1>3, <1>4 DEF Holding
<1>6. /\ \A l : InForce(l)' <=> InForce(l)
      /\ \A p : Restricted(p)' <=> Restricted(p)
  BY DEF InForce, Restricted, CurrentOf, Written
<1>7. ClaimsLink(next)' /\ ClaimsSubject(next)' /\ ClaimsSplit(next)'
  BY <1>1, <1>6 DEF Claims, ClaimsLink, ClaimsSubject, ClaimsSplit, Reserves
<1>8. ClaimsDispute(next)'
  BY <1>1, <1>6 DEF Claims, ClaimsDispute
<1>9. ~ Reserves(next) /\ ~ Concludes(next)
  BY <1>1 DEF Reserves, Concludes
<1> QED BY <1>1, <1>5, <1>7, <1>8, <1>9 DEF Claims

LEMMA SaveMergeKeeps ==
  ASSUME IInv, NEW q \in Handler, SaveMerge(q)
  PROVE  IInv'
<1>1. PICK h : h = handler[q]
  OBVIOUS
<1>2. h \in HandlerState /\ Holding(h) /\ Claims(h) /\ StoreInv /\ Typed /\ MergesInv
  BY <1>1, UnderWay
<1>3. PICK m, row : /\ m = h.merge
                    /\ row = IF h.op = "split" THEN [merges[m] EXCEPT !.split = TRUE]
                             ELSE [survivor |-> h.target, duplicate |-> h.copy.person,
                                   moved |-> h.moved, split |-> FALSE]
  OBVIOUS
<1>4. h.step = "conclude" /\ UNCHANGED <<links, opened, register, issued, crossed, disowned, faults>>
  BY <1>1 DEF SaveMerge
<1>5. /\ Moves(h) /\ h.target \in Person /\ h.copy \in LinkRow /\ h.moved # {} /\ Paired(h.moved)
      /\ m \in Merge /\ Concludes(h)
  BY <1>2, <1>3, <1>4
     DEF Holding, HoldsTarget, HoldsRest, HoldsMerge, HandlerState, Moves, Concludes
<1>6. merges' = [merges EXCEPT ![m] = row]
  BY <1>1, <1>2, <1>3, <1>5 DEF SaveMerge, Typed
<1>7. /\ row \in MergeRow /\ row.moved # {} /\ Paired(row.moved)
      /\ merges[m] # NoRow => row.duplicate = merges[m].duplicate /\ row.moved = merges[m].moved
  <2>1. CASE h.op = "split"
    <3>1. PICK old : old = merges[m]
      OBVIOUS
    <3>2. old # NoRow /\ old \in MergeRow /\ old.moved # {} /\ Paired(old.moved)
      BY <1>2, <1>3, <1>4, <1>5, <2>1, <3>1 DEF Holding, HoldsMerge, MergesInv, Typed
    <3>3. row = [old EXCEPT !.split = TRUE]
      BY <1>3, <2>1, <3>1
    <3>4. row \in MergeRow /\ row.moved = old.moved /\ row.duplicate = old.duplicate
      BY <3>2, <3>3 DEF MergeRow
    <3> QED BY <3>1, <3>2, <3>4
  <2>2. CASE h.op = "merge"
    <3>1. merges[m] = NoRow
      BY <1>2, <1>3, <1>5, <2>2 DEF Holding, HoldsMerge
    <3>2. h.copy.person \in Person /\ h.moved \subseteq Link \X Link
      BY <1>2, <1>5 DEF LinkRow, HandlerState
    <3>3. PICK o, d, moved : o = h.target /\ d = h.copy.person /\ moved = h.moved
      OBVIOUS
    <3>4. row = [survivor |-> o, duplicate |-> d, moved |-> moved, split |-> FALSE]
      BY <1>3, <2>2, <3>3
    <3>5. row \in MergeRow /\ row.moved = moved
      BY <1>5, <3>2, <3>3, <3>4 DEF MergeRow
    <3> QED BY <1>5, <3>1, <3>3, <3>5
  <2> QED BY <1>5, <2>1, <2>2 DEF Moves
<1>8. /\ merges' \in [Merge -> MergeRow \cup {NoRow}] /\ merges'[m] = row /\ row # NoRow
      /\ \A n \in Merge : n # m => merges'[n] = merges[n]
  BY <1>2, <1>5, <1>6, <1>7, RowsAreNotAbsent DEF Typed
<1>9. Merged
  BY <1>7, <1>8 DEF Merged
<1>10. Linked /\ Written' = Written /\ \A i : Current(i)' = Current(i)
  BY <1>4 DEF Linked, Written, Current, InForce
<1>11. Typed' /\ issued <= issued'
  BY <1>2, <1>4, <1>8, <1>10 DEF Typed
<1>12. MergesInv'
  <2>1. ASSUME NEW n \in Merge, NEW moved, merges'[n] # NoRow, moved = merges'[n].moved
        PROVE  moved # {} /\ Paired(moved)'
    <3>1. moved # {} /\ Paired(moved)
      BY <1>2, <1>7, <1>8, <2>1 DEF MergesInv
    <3> QED BY <1>10, <3>1, PairedStays
  <2> QED BY <2>1 DEF MergesInv, Paired
<1>13. OneInv' /\ DisownedInv'
  BY <1>2, <1>4, <1>10 DEF StoreInv, OneInv, DisownedInv, Away
<1>14. StoreInv' /\ crossed \subseteq crossed' /\ \A l \in Link : links[l] = NoRow => links'[l] = NoRow
  BY <1>4, <1>11, <1>12, <1>13 DEF StoreInv
<1>15. CASE h.op = "split"
  <2>1. Goes(q, Idle) /\ merges[m] # NoRow
    BY <1>1, <1>2, <1>3, <1>4, <1>15 DEF SaveMerge, Holding, HoldsMerge
  <2>2. \A n \in Merge : merges[n] = NoRow => merges'[n] = NoRow
    BY <1>8, <2>1
  <2> QED BY <1>1, <1>4, <1>9, <1>10, <1>11, <1>14, <2>1, <2>2, StepEnds
<1>16. CASE h.op = "merge"
  <2>1. PICK next : next = Ending(h)
    OBVIOUS
  <2>2. Goes(q, next)
    BY <1>1, <1>16, <2>1 DEF SaveMerge, Ending
  <2>3. /\ next \in HandlerState /\ Holding(next)' /\ Claims(next)'
        /\ next.keys = h.keys /\ ~ Reserves(next) /\ ~ Concludes(next)
    BY <1>2, <1>4, <1>10, <1>16, <2>1, AfterTheMerge
  <2>4. \A n \in Merge : merges[n] = NoRow => merges'[n] = NoRow \/ n = h.merge
    BY <1>3, <1>8
  <2> QED BY <1>1, <1>4, <1>5, <1>9, <1>10, <1>11, <1>14, <1>16, <2>2, <2>3, <2>4, StepKeeps
<1> QED BY <1>5, <1>15, <1>16 DEF Moves

LEMMA EndDuplicateKeeps ==
  ASSUME IInv, NEW q \in Handler, EndDuplicate(q)
  PROVE  IInv'
<1>1. PICK h : h = handler[q]
  OBVIOUS
<1>2. h \in HandlerState /\ Holding(h) /\ Claims(h) /\ StoreInv /\ Typed
  BY <1>1, UnderWay
<1>3. PICK d, next : d = h.copy.person /\ next = Replacing(h)
  OBVIOUS
<1>4. h.step = "end" /\ UNCHANGED <<links, opened, merges, issued, crossed, disowned, faults>>
  BY <1>1 DEF EndDuplicate
<1>5. \/ register' = [register EXCEPT ![d].relationship = "ENDED"]
      \/ register' = register
  BY <1>1, <1>3 DEF EndDuplicate
<1>6. Goes(q, Idle) \/ Goes(q, next)
  BY <1>1, <1>3 DEF EndDuplicate, Replacing
<1>7. /\ register' \in [Person -> RegisterRow]
      /\ \A p \in Person : register'[p].subject = register[p].subject
  <2>1. register \in [Person -> RegisterRow]
    BY <1>2 DEF Typed
  <2> QED BY <1>5, <2>1 DEF RegisterRow
<1>8. /\ StoreInv' /\ Linked /\ Merged /\ issued <= issued' /\ crossed \subseteq crossed'
      /\ \A l \in Link : links[l] = NoRow => links'[l] = NoRow
      /\ \A m \in Merge : merges[m] = NoRow => merges'[m] = NoRow
  BY <1>2, <1>4, <1>7, SameSubjectKeeps
<1>9. h.op = "merge"
  BY <1>2, <1>4 DEF Holding, HoldsTarget, HoldsMerge, Moves, Concludes
<1>10. CASE Goes(q, Idle)
  BY <1>1, <1>4, <1>8, <1>10, StepEnds
<1>11. CASE Goes(q, next)
  <2>1. /\ next \in HandlerState /\ Holding(next)' /\ Claims(next)'
        /\ next.keys = h.keys /\ ~ Reserves(next) /\ ~ Concludes(next)
    BY <1>2, <1>3, <1>4, <1>8, <1>9, AfterTheMerge
  <2> QED BY <1>1, <1>4, <1>8, <1>11, <2>1, StepKeeps
<1> QED BY <1>6, <1>10, <1>11

LEMMA ReplaceCredentialKeeps ==
  ASSUME IInv, NEW q \in Handler, ReplaceCredential(q)
  PROVE  IInv'
<1>1. PICK d : d = handler[q].copy.person
  OBVIOUS
<1>2. /\ handler[q].step = "replace" /\ Goes(q, Idle)
      /\ UNCHANGED <<links, opened, merges, issued, crossed, disowned, faults>>
      /\ register' = [register EXCEPT ![d].credential = "replaced"]
  BY <1>1 DEF ReplaceCredential
<1>3. /\ register' \in [Person -> RegisterRow]
      /\ \A p \in Person : register'[p].subject = register[p].subject
  <2>1. register \in [Person -> RegisterRow]
    BY UnderWay DEF Typed
  <2> QED BY <1>2, <2>1 DEF RegisterRow
<1>4. /\ StoreInv' /\ Linked /\ Merged /\ issued <= issued' /\ crossed \subseteq crossed'
      /\ \A l \in Link : links[l] = NoRow => links'[l] = NoRow
      /\ \A m \in Merge : merges[m] = NoRow => merges'[m] = NoRow
  BY <1>2, <1>3, UnderWay, SameSubjectKeeps
<1> QED BY <1>2, <1>4, StepEnds

LEMMA StopKeeps ==
  ASSUME IInv, NEW q \in Handler, Stop(q)
  PROVE  IInv'
<1>1. /\ handler[q].step # "idle" /\ Goes(q, Idle) /\ faults' = faults + 1
      /\ crossed' = crossed \cup handler[q].keys /\ UNCHANGED <<tables, issued, disowned>>
  BY DEF Stop
<1>2. StoreInv /\ Typed /\ handler[q].keys \subseteq Person \cup Identifier
  <2>1. PICK h : h = handler[q]
    OBVIOUS
  <2>2. h \in HandlerState /\ StoreInv /\ Typed
    BY <2>1, UnderWay
  <2> QED BY <2>1, <2>2 DEF HandlerState
<1>3. /\ crossed \subseteq crossed' /\ crossed' \subseteq Person \cup Identifier
      /\ issued' \in 0 .. MaxLinks /\ issued <= issued' /\ faults' \in Nat
  BY <1>1, <1>2 DEF Typed
<1>4. StoreInv' /\ Linked /\ Merged
  BY <1>1, <1>2, <1>3, TablesStay
<1>5. /\ \A l \in Link : links[l] = NoRow => links'[l] = NoRow
      /\ \A m \in Merge : merges[m] = NoRow => merges'[m] = NoRow
  BY <1>1 DEF tables
<1> QED BY <1>1, <1>3, <1>4, <1>5, StepEnds

----------------------------------------------------------------------------
LEMMA EstablishedIs ==
  ASSUME NEW l \in 1 .. Len(Established)
  PROVE  /\ l \in Link /\ Established[l] \in LinkRow /\ Established[l] # NoRow
         /\ \A k \in 1 .. Len(Established) :
              Established[l].identifier = Established[k].identifier => l = k
<1>1. PICK rows : rows = {Opening(p, Subject[p], TRUE) : p \in Person}
  OBVIOUS
<1>2. Established \in Seq(rows) /\ Len(Established) \in Nat /\ DOMAIN Established = 1 .. Len(Established)
  BY <1>1, EstablishedAssumption
<1>3. Established[l] \in rows
  BY <1>2
<1>4. PICK p \in Person : Established[l] = Opening(p, Subject[p], TRUE)
  BY <1>1, <1>3
<1>5. Subject[p] \in Identifier
  BY IdentityLinksAssumption
<1>6. PICK i, f, row : i = Subject[p] /\ f = TRUE /\ row = Opening(p, i, f)
  OBVIOUS
<1>7. row \in LinkRow /\ row # NoRow
  BY <1>5, <1>6, OpeningIs
<1>8. l \in Link
  BY <1>2, IdentityLinksAssumption DEF Link
<1> QED BY <1>2, <1>4, <1>6, <1>7, <1>8, EstablishedAssumption

LEMMA InvInit == Init => IInv
<1> SUFFICES ASSUME Init PROVE IInv
  OBVIOUS
<1>1. PICK n : n = Len(Established)
  OBVIOUS
<1>2. n \in Nat /\ n <= MaxLinks /\ MaxLinks \in Nat
  BY <1>1, IdentityLinksAssumption, EstablishedAssumption
<1>3. /\ links = [l \in Link |-> IF l <= n THEN Established[l] ELSE NoRow]
      /\ opened = 1 .. n /\ issued = n
      /\ merges = [m \in Merge |-> NoRow]
      /\ register = [p \in Person |-> [subject |-> Subject[p], relationship |-> "ACTIVE",
                                       credential |-> "live"]]
      /\ handler = [q \in Handler |-> Idle]
      /\ crossed = {} /\ disowned = {} /\ faults = 0
  BY <1>1 DEF Init
<1>4. \A l \in 1 .. n : /\ l \in Link /\ Established[l] \in LinkRow /\ Established[l] # NoRow
                        /\ \A k \in 1 .. n :
                             Established[l].identifier = Established[k].identifier => l = k
  BY <1>1, EstablishedIs
<1>5. \A l \in Link : IF l <= n THEN l \in 1 .. n /\ links[l] = Established[l]
                                ELSE links[l] = NoRow
  BY <1>2, <1>3 DEF Link
<1>6. Written = 1 .. n
  BY <1>2, <1>4, <1>5 DEF Written, Link
<1>7. Typed
  <2>1. links \in [Link -> LinkRow \cup {NoRow}]
    BY <1>3, <1>4, <1>5
  <2>2. register \in [Person -> RegisterRow]
    BY <1>3, IdentityLinksAssumption DEF RegisterRow
  <2>3. issued \in 0 .. MaxLinks /\ \A l \in Written : l <= issued
    BY <1>2, <1>3, <1>6
  <2> QED BY <1>3, <1>6, <2>1, <2>2, <2>3 DEF Typed
<1>8. MergesInv /\ DisownedInv
  BY <1>3 DEF MergesInv, DisownedInv
<1>9. OneInv
  <2>1. ASSUME NEW i, NEW l \in Current(i), NEW k \in Current(i) PROVE l = k
    <3>1. /\ l \in 1 .. n /\ k \in 1 .. n /\ links[l].identifier = i /\ links[k].identifier = i
      BY <1>6 DEF Current
    <3>2. links[l] = Established[l] /\ links[k] = Established[k]
      BY <1>4, <1>5, <3>1
    <3> QED BY <1>4, <3>1, <3>2
  <2> QED BY <2>1 DEF OneInv
<1>10. StoreInv
  BY <1>7, <1>8, <1>9 DEF StoreInv
<1>11. PICK x : x = Idle
  OBVIOUS
<1>12. HandlersInv
  BY <1>3, <1>11, IdleHolds DEF HandlersInv
<1>13. AloneInv /\ DrawnInv
  BY <1>3, IdleIs DEF AloneInv, DrawnInv, Reserves
<1> QED BY <1>10, <1>12, <1>13 DEF IInv

LEMMA InvNext == IInv /\ [Next]_vars => IInv'
<1> SUFFICES ASSUME IInv, [Next]_vars PROVE IInv'
  OBVIOUS
<1>1. CASE UNCHANGED vars
  <2>1. UNCHANGED <<links, opened, merges, register, issued, handler, crossed, disowned, faults>>
    BY <1>1 DEF vars, tables
  <2>2. UNCHANGED <<tables, disowned>>
    BY <2>1 DEF tables
  <2>3. StoreInv'
    BY <2>1, <2>2, TablesStay DEF IInv, StoreInv, Typed
  <2>4. ASSUME NEW q \in Handler, NEW h, h = handler[q] PROVE Holding(h)' /\ Claims(h)'
    <3>1. h \in HandlerState /\ Holding(h) /\ Claims(h) /\ StoreInv /\ Typed /\ MergesInv
      BY <2>4, UnderWay
    <3>2. Linked /\ Merged
      BY <2>1, <2>2, <3>1, TablesStay DEF Typed
    <3>3. h.to \in Int /\ issued \in Nat
      BY <3>1, IdsAreIntegers DEF Typed
    <3>4. Holding(h)'
      BY <2>1, <3>1, <3>2, <3>3, HoldingStays DEF Holding, HoldsTarget, HoldsMerge
    <3>5. Claims(h)'
      BY <2>1, <3>1, ClaimsStay
    <3> QED BY <3>4, <3>5
  <2>5. HandlersInv'
    BY <2>1, <2>4 DEF IInv, HandlersInv
  <2>6. AloneInv' /\ DrawnInv'
    BY <2>1 DEF IInv, AloneInv, DrawnInv
  <2> QED BY <2>3, <2>5, <2>6 DEF IInv
<1>2. ASSUME NEW q \in Handler, Request(q) PROVE IInv'
  <2>1. handler[q].step = "idle"
    BY <1>2 DEF Request
  <2> QED BY <1>2, <2>1, RequestLinkKeeps, BackfillKeeps, RequestRelinkKeeps, RequestMergeKeeps,
             RequestDisputeKeeps, RequestResolveDisputeKeeps, RequestUnlinkKeeps,
             RequestSplitKeeps DEF Request
<1>3. ASSUME NEW q \in Handler, Step(q) PROVE IInv'
  BY <1>3, SaveDisputeKeeps, DetachKeeps, FindToUnlinkKeeps, CloseKeeps, OpenLinkKeeps,
     RecordEventKeeps, RestoreKeeps, SaveMergeKeeps, EndDuplicateKeeps, ReplaceCredentialKeeps
     DEF Step
<1>4. CASE Next
  BY <1>2, <1>3, <1>4, StopKeeps DEF Next
<1> QED BY <1>1, <1>4

LEMMA Invariance == Spec => []IInv
<1> QED BY InvInit, InvNext, PTL DEF Spec

----------------------------------------------------------------------------
\* The rows, the tables and the handlers are as declared, and the ids drawn are the
\* ids in use, however many requests run together.
THEOREM TypeCorrect == Spec => []TypeOK
<1>1. IInv => TypeOK
  BY DEF IInv, StoreInv, Typed, HandlersInv, TypeOK
<1> QED BY <1>1, Invariance, PTL

\* "An identifier belongs to one person": none that is not crossed has two current
\* links, after any sequence of links, relinks, merges and splits.
THEOREM IdentifierHasOneLink == Spec => []OneCurrentLink
<1>1. ASSUME IInv PROVE OneCurrentLink
  <2>1. ASSUME NEW i \in Identifier \ crossed PROVE Cardinality(Current(i)) <= 1
    <3>1. PICK current : current = Current(i)
      OBVIOUS
    <3>2. \A l, k \in current : l = k
      BY <1>1, <3>1 DEF IInv, StoreInv, OneInv
    <3>3. CASE current = {}
      <4>1. Cardinality(current) = 0
        BY <3>3, FS_EmptySet
      <4> QED BY <3>1, <4>1
    <3>4. CASE current # {}
      <4>1. PICK l \in current : current = {l}
        BY <3>2, <3>4
      <4>2. Cardinality(current) = 1
        BY <4>1, FS_Singleton
      <4> QED BY <3>1, <4>2
    <3> QED BY <3>3, <3>4
  <2> QED BY <2>1 DEF OneCurrentLink
<1> QED BY <1>1, Invariance, PTL

\* A person whose foundational identifier was unlinked is not found by it, through
\* the registry or by the row, until it is linked to them again.
THEOREM UnlinkedStaysAway == Spec => []DisownedStaysAway
<1>1. ASSUME IInv PROVE DisownedStaysAway
  <2>1. ASSUME NEW pair \in disowned, pair[1] \notin crossed, pair[2] \notin crossed
        PROVE  pair[1] \notin Finds(pair[2])
    <3>1. disowned \subseteq Person \X Identifier
      BY <1>1 DEF IInv, StoreInv, Typed
    <3>2. PICK p \in Person \ crossed, i \in Identifier \ crossed :
            pair = <<p, i>> /\ pair[1] = p /\ pair[2] = i
      BY <2>1, <3>1
    <3>3. Away(p, i)
      BY <1>1, <3>2 DEF IInv, StoreInv, DisownedInv
    <3>4. p \notin Finds(i)
      BY <3>3 DEF Away, Finds
    <3> QED BY <3>2, <3>4
  <2> QED BY <2>1 DEF DisownedStaysAway
<1> QED BY <1>1, Invariance, PTL

\* A link in dispute is still there.
LEMMA StillRestricted ==
  ASSUME NEW p, NEW k \in Written, InForce(k), links[k].person = p, links[k].status = "DISPUTED",
         k \in Written', links'[k].person = p, links'[k].status = "DISPUTED"
  PROVE  Restricted(p)'
BY DEF Restricted, CurrentOf, InForce, Written

\* A person under dispute stays restricted while their links move: a merge closes no
\* link of theirs, a dispute that is recorded leaves another, and the rest write no
\* status.
THEOREM DisputeStands == Spec => DisputeHolds
<1> DEFINE Settled == \E q \in Handler : /\ handler[q].op \in {"resolve", "unlink", "relink", "split"}
                                         /\ handler'[q] # handler[q]
<1> DEFINE Kept == \A p \in Person \ crossed' : Restricted(p) /\ ~ Restricted(p)' => Settled
<1>1. ASSUME IInv, [Next]_vars
      PROVE  Kept
  <2>1. handler \in [Handler -> HandlerState] /\ links \in [Link -> LinkRow \cup {NoRow}]
    BY <1>1 DEF IInv, StoreInv, Typed, HandlersInv
  <2>2. ASSUME UNCHANGED links PROVE Kept
    BY <2>2 DEF Restricted, CurrentOf, InForce, Written
  <2>3. ASSUME NEW q \in Handler, SaveDispute(q) PROVE Kept
    <3>1. PICK h, l, row : h = handler[q] /\ l = h.link /\ row = h.copy
      OBVIOUS
    <3>2. /\ h.step = "save" /\ links' = [links EXCEPT ![l] = row] /\ UNCHANGED crossed
          /\ handler' = [handler EXCEPT ![q] = Idle]
      BY <2>3, <3>1 DEF SaveDispute, Goes
    <3>3. /\ l \in Written /\ row # NoRow /\ SameLink(row, l) /\ h.op \in {"dispute", "resolve"}
          /\ row.status = IF h.op = "dispute" THEN "DISPUTED" ELSE "ACTIVE"
      BY <1>1, <3>1, <3>2, UnderWay DEF Holding, HoldsLink
    <3>4. CASE h.op = "resolve"
      <4>1. handler'[q] # handler[q]
        BY <2>1, <3>1, <3>2, IdleIs
      <4> QED BY <3>1, <3>4, <4>1
    <3>5. CASE h.op = "dispute"
      <4>1. ASSUME NEW p \in Person, Restricted(p) PROVE Restricted(p)'
        <5>1. PICK k \in Written : /\ InForce(k) /\ links[k].person = p
                                   /\ links[k].status = "DISPUTED"
          BY <4>1 DEF Restricted, CurrentOf
        <5>2. k \in Link /\ l \in Link
          BY <3>3 DEF Written
        <5>3. k = l => row.person = p
          BY <3>3, <5>1 DEF SameLink
        <5>4. links'[k] = IF k = l THEN row ELSE links[k]
          BY <2>1, <3>2, <5>2
        <5>5. links'[k] # NoRow /\ links'[k].person = p /\ links'[k].status = "DISPUTED"
          BY <3>3, <3>5, <5>1, <5>3, <5>4 DEF Written
        <5>6. k \in Written'
          BY <5>2, <5>5 DEF Written
        <5> QED BY <5>1, <5>5, <5>6, StillRestricted
      <4> QED BY <4>1
    <3> QED BY <3>3, <3>4, <3>5
  <2>4. ASSUME NEW q \in Handler, Close(q) PROVE Kept
    <3>1. PICK h, l : h = handler[q] /\ l = h.link
      OBVIOUS
    <3>2. /\ h.step = "close" /\ Claims(h) /\ Holding(h) /\ l \in Written
          /\ SameLink(h.copy, l) /\ UNCHANGED crossed /\ Written' = Written
          /\ \A k \in Link : k # l => links'[k] = links[k]
      BY <1>1, <2>4, <3>1, ClosingIs
    <3>3. h.op \in {"unlink", "relink", "merge", "split"}
      BY <3>2 DEF Holding, HoldsLink
    <3>4. CASE h.op # "merge"
      <4>1. handler'[q] = Idle \/ handler'[q] = [h EXCEPT !.step = "open"]
        BY <2>1, <2>4, <3>1 DEF Close, Goes
      <4>2. h \in HandlerState
        BY <2>1, <3>1
      <4>3. handler'[q].step # "close"
        BY <4>1, <4>2, IdleIs DEF HandlerState
      <4>4. handler'[q] # handler[q]
        BY <3>1, <3>2, <4>3
      <4> QED BY <3>1, <3>3, <3>4, <4>4
    <3>5. CASE h.op = "merge"
      <4>1. ASSUME NEW p \in Person \ crossed, Restricted(p) PROVE Restricted(p)'
        <5>1. PICK k \in Written : /\ InForce(k) /\ links[k].person = p
                                   /\ links[k].status = "DISPUTED"
          BY <4>1 DEF Restricted, CurrentOf
        <5>2. links[l].person # p
          BY <3>2, <3>5, <4>1 DEF Claims, ClaimsDispute, SameLink
        <5>3. k \in Link /\ k # l /\ k \in Written'
          BY <3>2, <5>1, <5>2 DEF Written
        <5>4. links'[k] = links[k]
          BY <3>2, <5>3
        <5> QED BY <5>1, <5>3, <5>4, StillRestricted
      <4> QED BY <3>2, <4>1
    <3> QED BY <3>4, <3>5
  <2>5. ASSUME NEW q \in Handler, OpenLink(q) PROVE Kept
    <3>1. PICK h, to, row : h = handler[q] /\ to = h.to /\ row = Successor(h)
      OBVIOUS
    <3>2. h.step = "open" /\ links' = [links EXCEPT ![to] = row]
      BY <2>5, <3>1 DEF OpenLink
    <3>3. links[to] = NoRow
      BY <1>1, <3>1, <3>2, UnderWay DEF Holding, HoldsTarget, Reserves
    <3>4. ASSUME NEW p \in Person, Restricted(p) PROVE Restricted(p)'
      <4>1. PICK k \in Written : /\ InForce(k) /\ links[k].person = p
                                 /\ links[k].status = "DISPUTED"
        BY <3>4 DEF Restricted, CurrentOf
      <4>2. k \in Link /\ k # to /\ links[k] # NoRow
        BY <3>3 DEF Written
      <4>3. links'[k] = links[k]
        BY <2>1, <3>2, <4>2
      <4>4. k \in Written'
        BY <4>2, <4>3 DEF Written
      <4> QED BY <4>1, <4>3, <4>4, StillRestricted
    <3> QED BY <3>4
  <2>6. ASSUME NEW q \in Handler, Request(q) PROVE UNCHANGED links
    BY <2>6
       DEF Request, Backfill, RequestLink, RequestRelink, RequestMerge, RequestDispute,
           RequestResolveDispute, RequestUnlink, RequestSplit, tables
  <2>7. ASSUME NEW q \in Handler, Step(q), ~ SaveDispute(q), ~ Close(q), ~ OpenLink(q)
        PROVE  UNCHANGED links
    BY <2>7
       DEF Step, Detach, FindToUnlink, RecordEvent, Restore, SaveMerge, EndDuplicate,
           ReplaceCredential, tables
  <2>8. CASE Next
    <3>1. PICK q \in Handler : Request(q) \/ Step(q) \/ Stop(q)
      BY <2>8 DEF Next
    <3>2. ASSUME Stop(q) PROVE UNCHANGED links
      BY <3>2 DEF Stop, tables
    <3> QED BY <2>2, <2>3, <2>4, <2>5, <2>6, <2>7, <3>1, <3>2
  <2>9. CASE UNCHANGED vars
    BY <2>2, <2>9 DEF vars, tables
  <2> QED BY <1>1, <2>8, <2>9
<1> QED BY <1>1, Invariance, PTL DEF Spec, DisputeHolds

\* A split that is recorded has given every identifier that is not crossed back to the
\* duplicate: it closes a link only to open its successor there, and concludes when
\* none is left.
THEOREM SplitGivesBack == Spec => SplitRestores
<1> DEFINE Restored == \A m \in Merge :
       merges[m] # NoRow /\ merges[m].split # merges'[m].split =>
         \A pair \in merges[m].moved :
           LET i == links[pair[1]].identifier IN
           i \in crossed \/ Finds(i)' = {merges[m].duplicate}
<1>1. ASSUME IInv, [Next]_vars
      PROVE  Restored
  <2>1. merges \in [Merge -> MergeRow \cup {NoRow}] /\ handler \in [Handler -> HandlerState]
    BY <1>1 DEF IInv, StoreInv, Typed, HandlersInv
  <2>2. ASSUME UNCHANGED merges PROVE Restored
    BY <2>2
  <2>3. ASSUME NEW q \in Handler, SaveMerge(q) PROVE Restored
    <3>1. PICK h, n : h = handler[q] /\ n = h.merge
      OBVIOUS
    <3>2. /\ h.step = "conclude" /\ UNCHANGED <<links, register>>
          /\ \A m \in Merge : m # n => merges'[m] = merges[m]
      BY <2>1, <2>3, <3>1 DEF SaveMerge
    <3>3. Holding(h) /\ Claims(h) /\ Typed /\ MergesInv
      BY <1>1, <3>1, UnderWay
    <3>4. ASSUME NEW pair \in merges[n].moved, merges[n] # NoRow, n \in Merge,
                 NEW i, i = links[pair[1]].identifier, i \notin crossed
          PROVE  Finds(i)' = {merges[n].duplicate}
      <4>1. h.op = "split"
        BY <3>1, <3>2, <3>3, <3>4 DEF Holding, HoldsTarget, HoldsMerge, Moves, Concludes
      <4>2. h.target = merges[n].duplicate
        BY <3>1, <3>2, <3>3, <4>1 DEF Holding, HoldsMerge
      <4>3. \A k : ~ Pending(h, k)
        BY <3>2, <3>3 DEF Holding, HoldsRest, Pending
      <4>4. /\ pair[1] \in Written /\ i = links[pair[2]].identifier
        BY <3>3, <3>4 DEF MergesInv, Paired
      <4>5. i \in Identifier \ crossed
        <5>1. PICK l, row : l = pair[1] /\ row = links[l]
          OBVIOUS
        <5>2. row.identifier \in Identifier
          BY <3>3, <4>4, <5>1, RowIs
        <5> QED BY <3>4, <5>1, <5>2
      <4>6. Leads(i, h.target)
        BY <3>1, <3>2, <3>3, <3>4, <4>1, <4>3, <4>4, <4>5 DEF Claims, ClaimsSplit
      <4>7. Finds(i) = {h.target}
        <5>1. \A l \in Current(i) : links[l].person = h.target
          BY <4>6 DEF Leads
        <5> QED BY <4>6, <5>1 DEF Finds, Leads
      <4>8. Finds(i)' = Finds(i)
        BY <3>2 DEF Finds, Current, InForce, Written
      <4> QED BY <4>2, <4>7, <4>8
    <3> QED BY <3>2, <3>4
  <2>4. ASSUME NEW q \in Handler, Request(q) PROVE UNCHANGED merges
    BY <2>4
       DEF Request, Backfill, RequestLink, RequestRelink, RequestMerge, RequestDispute,
           RequestResolveDispute, RequestUnlink, RequestSplit, tables
  <2>5. ASSUME NEW q \in Handler, Step(q), ~ SaveMerge(q)
        PROVE  UNCHANGED merges
    BY <2>5
       DEF Step, SaveDispute, Detach, FindToUnlink, Close, OpenLink, RecordEvent, Restore,
           EndDuplicate, ReplaceCredential, tables
  <2>6. CASE Next
    <3>1. PICK q \in Handler : Request(q) \/ Step(q) \/ Stop(q)
      BY <2>6 DEF Next
    <3>2. ASSUME Stop(q) PROVE UNCHANGED merges
      BY <3>2 DEF Stop, tables
    <3> QED BY <2>2, <2>3, <2>4, <2>5, <3>1, <3>2
  <2>7. CASE UNCHANGED vars
    BY <2>2, <2>7 DEF vars, tables
  <2> QED BY <1>1, <2>6, <2>7
<1> QED BY <1>1, Invariance, PTL DEF Spec, SplitRestores

=============================================================================
