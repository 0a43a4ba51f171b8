------------------------------- MODULE Operators -------------------------------
(***************************************************************************)
(* Staff accounts and the keys of machine callers (core/operator/           *)
(* operator.ts): sign-in with a lockout, disabling, and keys that are        *)
(* issued, rotated, revoked and used.                                        *)
(*                                                                          *)
(* Every operation reads a row, decides on that copy, and writes every       *)
(* column back.  Verifying a password is an await of its own (scrypt), so    *)
(* what was read may be old by the time it is written.  Time is a clock of   *)
(* ticks; a lock and a key's expiry are times on it.                         *)
(***************************************************************************)
EXTENDS Naturals, FiniteSets

CONSTANTS
  Handler,          \* requests in progress
  Account,          \* operators, named by email
  Key,              \* the keys that can be minted
  Life,             \* lives a key may be issued with; 0 is "no expiry"
  Overlap,          \* overlaps a rotation may ask for
  RequireMfa,       \* operatorAuth.local.requireMfa
  MaxFailedLogins,  \* MAX_FAILED_LOGINS
  Lockout,          \* LOCKOUT_MINUTES, in ticks
  MaxClock,         \* bound: how far time runs
  MaxWrong,         \* bound: wrong answers given to one account
  MaxOverlaps,      \* bound: requests that begin while another runs
  NoRow, NoAccount, NoKey

ASSUME OperatorAssumption ==
  /\ Life # {}
  /\ Life \cup Overlap \subseteq Nat
  /\ \E longest \in Life \cup Overlap : \A span \in Life \cup Overlap : span <= longest
  /\ RequireMfa \in BOOLEAN
  /\ MaxFailedLogins \in Nat \ {0}
  /\ Lockout \in Nat \ {0}
  /\ {MaxClock, MaxWrong, MaxOverlaps} \subseteq Nat
  /\ Account \cap Key = {}
  /\ NoAccount \notin Account
  /\ NoKey \notin Key

\* An expiresAt of null, later than every time.
Forever == 1 + MaxClock + CHOOSE n \in Life \cup Overlap :
                            \A m \in Life \cup Overlap : m <= n

OperatorRecord ==
  [disabled  : BOOLEAN,
   confirmed : BOOLEAN,                       \* the second factor was used once
   failed    : 0 .. MaxFailedLogins - 1,      \* failedLogins
   locked    : 0 .. MaxClock + Lockout]       \* lockedUntil; null is 0

OperatorKeyRecord ==
  [owner   : Account,
   expires : 0 .. Forever,
   revoked : BOOLEAN]

ASSUME NoRowAssumption == NoRow \notin OperatorRecord \cup OperatorKeyRecord

VARIABLES
  clock,
  accounts,   \* the operator table
  keys,       \* the key table
  handler,    \* what each handler holds
  wrong,      \* history: wrong answers since the account was last opened
  barred,     \* history: the accounts disabled and the keys revoked, as decided
  retires,    \* history: the time a rotation set for the key it replaced
  letIn,      \* history: what was decided against, and a later request was let in
  overlaps,   \* history: requests that began while another ran
  lost        \* history: what a handler wrote back from an old copy

decisions == <<barred, retires>>
history == <<wrong, decisions, letIn, overlaps, lost>>

vars == <<clock, accounts, keys, handler, history>>

NewAccount == [disabled |-> FALSE, confirmed |-> FALSE, failed |-> 0, locked |-> 0]

HandlerState ==
  [op      : {"idle", "create", "login", "setDisabled", "issueKey", "rotateKey",
              "revokeKey", "authenticateKey"},
   step    : {"idle", "find", "check", "create", "owner", "mint", "update"},
   account : Account \cup {NoAccount},
   key     : Key \cup {NoKey},
   row     : OperatorRecord \cup {NoRow},      \* the account, as it was read
   held    : OperatorKeyRecord \cup {NoRow},   \* the key, as it was read
   span    : Life \cup Overlap,                \* the life or the overlap asked for
   disable : BOOLEAN,
   late    : SUBSET (Account \cup Key),        \* why it should be refused from its start
   behind  : BOOLEAN]                          \* the row was written since it was read

Idle ==
  [op |-> "idle", step |-> "idle", account |-> NoAccount, key |-> NoKey, row |-> NoRow,
   held |-> NoRow, span |-> CHOOSE n \in Life : TRUE, disable |-> FALSE, late |-> {},
   behind |-> FALSE]

Init ==
  /\ clock = 0
  /\ accounts = [a \in Account |-> NoRow]
  /\ keys = [k \in Key |-> NoRow]
  /\ handler = [q \in Handler |-> Idle]
  /\ wrong = [a \in Account |-> 0]
  /\ barred = {}
  /\ retires = [k \in Key |-> Forever]
  /\ letIn = {}
  /\ overlaps = 0
  /\ lost = {}

----------------------------------------------------------------------------
(* Reading, and writing back.                                               *)

Exists(table, id) == table[id] # NoRow

Goes(q, h) == handler' = [handler EXCEPT ![q] = h]

Ends(q) == Goes(q, Idle)

\* A request begins with what it read first.
Begins(q, h) ==
  /\ handler[q] = Idle
  /\ Goes(q, h)
  /\ overlaps' = overlaps + IF \E p \in Handler : handler[p] # Idle THEN 1 ELSE 0
  /\ overlaps' <= MaxOverlaps
  /\ UNCHANGED <<clock, accounts, keys, wrong, decisions, letIn, lost>>

\* A handler that still holds the old row of what q writes is behind from now on,
\* and what somebody allows again no longer counts against those running.
Overtakes(q, Holds(_), allowed) ==
  handler' = [p \in Handler |->
                IF p = q THEN Idle
                ELSE [handler[p] EXCEPT !.behind = @ \/ Holds(handler[p]),
                                        !.late = @ \ allowed]]

\* A request is let in; what should have kept it out from its start is on record.
LetIn(q) == letIn' = letIn \cup handler[q].late

\* update: every column of the account, from the copy in hand.
WriteAccount(q, row) ==
  LET a == handler[q].account
      enables == handler[q].op = "setDisabled" /\ ~ handler[q].disable
  IN /\ accounts' = [accounts EXCEPT ![a] = row]
     /\ lost' = IF handler[q].behind THEN lost \cup {a} ELSE lost
     /\ Overtakes(q, LAMBDA h : h.account = a /\ h.row # NoRow,
                     IF enables THEN {a} ELSE {})

\* updateKey: every column of the key, from the copy in hand.
WriteKey(q, row) ==
  LET k == handler[q].key IN
  /\ keys' = [keys EXCEPT ![k] = row]
  /\ lost' = IF handler[q].behind THEN lost \cup {k} ELSE lost
  /\ Overtakes(q, LAMBDA h : h.key = k /\ h.held # NoRow, {})

----------------------------------------------------------------------------
(* Accounts.                                                                *)

\* createOperator: the email is looked up, the password hashed, the row made.
RequestCreate(q, a) ==
  /\ ~ Exists(accounts, a)
  /\ Begins(q, [Idle EXCEPT !.op = "create", !.step = "create", !.account = a])

\* The email is unique: of two that looked first, one throws.
CreateOperator(q) ==
  LET a == handler[q].account IN
  /\ handler[q].step = "create"
  /\ accounts' = IF Exists(accounts, a) THEN accounts ELSE [accounts EXCEPT ![a] = NewAccount]
  /\ Ends(q)
  /\ UNCHANGED <<clock, keys, history>>

\* setDisabled, for the admin's route that disables and enables.
RequestDisabled(q, a, disable) ==
  /\ Exists(accounts, a)
  /\ Begins(q, [Idle EXCEPT !.op = "setDisabled", !.step = "update", !.account = a,
                          !.disable = disable, !.row = accounts[a]])

SetDisabled(q) ==
  /\ handler[q].step = "update"
  /\ handler[q].op = "setDisabled"
  /\ WriteAccount(q, [handler[q].row EXCEPT !.disabled = handler[q].disable])
  /\ barred' = IF handler[q].disable THEN barred \cup {handler[q].account}
                                     ELSE barred \ {handler[q].account}
  /\ UNCHANGED <<clock, keys, wrong, retires, letIn, overlaps>>

\* A disabled or a locked account is refused before any password is looked at.
Open(row) == ~ row.disabled /\ row.locked <= clock

RequestLogin(q, a) ==
  /\ Exists(accounts, a)
  /\ Open(accounts[a])
  /\ wrong[a] < MaxWrong
  /\ Begins(q, [Idle EXCEPT !.op = "login", !.step = "check", !.account = a,
                          !.row = accounts[a], !.late = {a} \cap barred])

\* A slip: the lock waits for one wrong answer more, counting on from the bound.
LocksLate(n) == n > MaxFailedLogins

Locks(n) == n >= MaxFailedLogins

\* A slip: the lock is set and the counter goes on.
CountsOn(row) ==
  IF Locks(row.failed + 1)
    THEN [row EXCEPT !.failed = @ + 1, !.locked = clock + Lockout]
    ELSE [row EXCEPT !.failed = @ + 1]

\* countFailure: at the bound the account locks, and the count starts again.
Counted(row) ==
  IF Locks(row.failed + 1)
    THEN [row EXCEPT !.failed = 0, !.locked = clock + Lockout]
    ELSE [row EXCEPT !.failed = @ + 1]

\* A confirmed second factor is asked for whatever the configuration says.
MfaEnforced(row) == row.confirmed \/ RequireMfa

\* The password, or the code of the second factor, was wrong.
FailLogin(q) ==
  LET a == handler[q].account IN
  /\ handler[q].step = "check"
  /\ WriteAccount(q, Counted(handler[q].row))
  /\ wrong' = [wrong EXCEPT ![a] = @ + 1]
  /\ UNCHANGED <<clock, keys, decisions, letIn, overlaps>>

\* MFA_REQUIRED: the password was right, the code is missing, nothing is written.
AskForCode(q) ==
  /\ handler[q].step = "check"
  /\ MfaEnforced(handler[q].row)
  /\ Ends(q)
  /\ UNCHANGED <<clock, accounts, keys, history>>

SignedIn(row) ==
  [row EXCEPT !.confirmed = @ \/ MfaEnforced(row), !.failed = 0, !.locked = 0]

PassLogin(q) ==
  LET a == handler[q].account IN
  /\ handler[q].step = "check"
  /\ WriteAccount(q, SignedIn(handler[q].row))
  /\ wrong' = [wrong EXCEPT ![a] = 0]
  /\ LetIn(q)
  /\ UNCHANGED <<clock, keys, decisions, overlaps>>

----------------------------------------------------------------------------
(* Keys.                                                                    *)

\* POST keys: a key for the operator who asks.
RequestKey(q, a, life) ==
  /\ Exists(accounts, a)
  /\ Begins(q, [Idle EXCEPT !.op = "issueKey", !.step = "owner", !.account = a, !.span = life])

\* authenticateKey: neither revoked nor past its expiry.
Usable(row) == ~ row.revoked /\ row.expires >= clock

\* rotateKey, revokeKey and authenticateKey begin by reading the key.
Reads(q, op, k, overlap) ==
  Begins(q, [Idle EXCEPT !.op = op, !.key = k, !.held = keys[k], !.account = keys[k].owner,
                       !.span = overlap, !.step = IF op = "revokeKey" THEN "update" ELSE "owner",
                       !.late = {j \in {k, keys[k].owner} :
                                    j \in barred \/ (j = k /\ retires[k] < clock)}])

RequestRotation(q, k, overlap) ==
  /\ Exists(keys, k)
  /\ ~ keys[k].revoked
  /\ Reads(q, "rotateKey", k, overlap)

RequestRevocation(q, k) ==
  /\ Exists(keys, k)
  /\ ~ keys[k].revoked
  /\ Reads(q, "revokeKey", k, Idle.span)

PresentKey(q, k) ==
  /\ Exists(keys, k)
  /\ Usable(keys[k])
  /\ Reads(q, "authenticateKey", k, Idle.span)

\* issueKey, alone or inside a rotation, and authenticateKey look at the account.
FindOwner(q) ==
  LET h == handler[q] IN
  /\ h.step = "owner"
  /\ IF accounts[h.account].disabled THEN Ends(q)
     ELSE Goes(q, [h EXCEPT !.step = IF h.op = "authenticateKey" THEN "update" ELSE "mint"])
  /\ UNCHANGED <<clock, accounts, keys, history>>

\* expiresInDays: a life of nothing, which is what a rotation asks for, is forever.
ExpiresAt(life) == IF life = 0 THEN Forever ELSE clock + life

\* createKey.  A rotation goes on to the old key only if that expires later than
\* the overlap: it must never extend a key.
MintKey(q, k) ==
  LET h == handler[q]
      life == IF h.op = "rotateKey" THEN 0 ELSE h.span
  IN /\ h.step = "mint"
     /\ ~ Exists(keys, k)
     /\ keys' = [keys EXCEPT ![k] =
                   [owner |-> h.account, expires |-> ExpiresAt(life), revoked |-> FALSE]]
     /\ IF h.op = "rotateKey" THEN Goes(q, [h EXCEPT !.step = "update"]) ELSE Ends(q)
     /\ UNCHANGED <<clock, accounts, history>>

\* A slip: the old key gets the overlap, however soon it would have expired.
RetiredAt(row, overlap) == clock + overlap

Retires(row, overlap) ==
  IF row.expires > clock + overlap THEN clock + overlap ELSE row.expires

RevokeKey(q) ==
  LET h == handler[q] IN
  /\ h.step = "update"
  /\ h.op = "revokeKey"
  /\ WriteKey(q, [h.held EXCEPT !.revoked = TRUE])
  /\ barred' = barred \cup {h.key}
  /\ UNCHANGED <<clock, accounts, wrong, retires, letIn, overlaps>>

\* A rotation that has nothing to shorten writes nothing.
RetireKey(q) ==
  LET h == handler[q]
      due == Retires(h.held, h.span)
  IN /\ h.step = "update"
     /\ h.op = "rotateKey"
     /\ IF due = h.held.expires THEN Ends(q) /\ UNCHANGED <<keys, lost>>
                                ELSE WriteKey(q, [h.held EXCEPT !.expires = due])
     /\ retires' = [retires EXCEPT ![h.key] =
                      IF clock + h.span < @ THEN clock + h.span ELSE @]
     /\ UNCHANGED <<clock, accounts, wrong, barred, letIn, overlaps>>

\* Using a key writes its row as it was read, but for lastUsedAt, which nothing reads.
UseKey(q) ==
  LET h == handler[q] IN
  /\ h.step = "update"
  /\ h.op = "authenticateKey"
  /\ WriteKey(q, h.held)
  /\ LetIn(q)
  /\ UNCHANGED <<clock, accounts, wrong, decisions, overlaps>>

----------------------------------------------------------------------------

\* A request is answered with an error, or its process stops.
Stop(q) ==
  /\ handler[q] # Idle
  /\ Ends(q)
  /\ UNCHANGED <<clock, accounts, keys, history>>

\* Time passes, and a lock that ends gives the account its guesses back.
Tick ==
  /\ clock < MaxClock
  /\ clock' = clock + 1
  /\ wrong' = [a \in Account |->
                 IF Exists(accounts, a) /\ accounts[a].locked = clock + 1
                   THEN 0 ELSE wrong[a]]
  /\ UNCHANGED <<accounts, keys, handler, decisions, letIn, overlaps, lost>>

Request(q) ==
  \/ \E a \in Account :
       \/ RequestCreate(q, a)
       \/ RequestLogin(q, a)
       \/ \E disable \in BOOLEAN : RequestDisabled(q, a, disable)
       \/ \E life \in Life : RequestKey(q, a, life)
  \/ \E k \in Key :
       \/ RequestRevocation(q, k)
       \/ PresentKey(q, k)
       \/ \E overlap \in Overlap : RequestRotation(q, k, overlap)

Step(q) ==
  \/ CreateOperator(q) \/ SetDisabled(q)
  \/ FailLogin(q) \/ AskForCode(q) \/ PassLogin(q)
  \/ FindOwner(q) \/ (\E k \in Key : MintKey(q, k))
  \/ RevokeKey(q) \/ RetireKey(q) \/ UseKey(q)

Next == Tick \/ \E q \in Handler : Request(q) \/ Step(q) \/ Stop(q)

Spec == Init /\ [][Next]_vars

----------------------------------------------------------------------------
(* Properties.                                                              *)

\* The rows keep to their columns: a count of failed sign-ins never reaches the
\* bound, where it would have locked the account and begun again (countFailure).
TypeOK ==
  /\ clock \in 0 .. MaxClock
  /\ accounts \in [Account -> OperatorRecord \cup {NoRow}]
  /\ keys \in [Key -> OperatorKeyRecord \cup {NoRow}]
  /\ handler \in [Handler -> HandlerState]
  /\ wrong \in [Account -> Nat]
  /\ barred \subseteq Account \cup Key
  /\ retires \in [Key -> 0 .. Forever]
  /\ overlaps \in 0 .. MaxOverlaps
  /\ letIn \cup lost \subseteq Account \cup Key

\* Disabling an operator, revoking a key and rotating it out are decisions that
\* hold (setDisabled, revokeKey, rotateKey): no sign-in and no key is accepted of
\* a request that begins after the decision, until an admin enables the account
\* again, whatever signs in, rotates and stops in between.  The one way back is a
\* handler that read the row before somebody else wrote it.
KillSwitchHolds == letIn \subseteq lost

\* An account takes MAX_FAILED_LOGINS wrong passwords or codes at most until the
\* lock has run out or somebody signs in (login, countFailure), unless a handler
\* wrote the account back from an old copy.
GuessesBounded ==
  \A a \in Account : a \notin lost => wrong[a] <= MaxFailedLogins

=============================================================================
