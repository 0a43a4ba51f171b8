----------------------------- MODULE OneTimeCodes -----------------------------
(***************************************************************************)
(* The one-time codes a resident signs in with (core/sso/otp.ts): a code is  *)
(* issued and sent by a gateway, guessed against, and used once.             *)
(*                                                                          *)
(* The bounds are kept in the challenges themselves: how many were issued in  *)
(* the window, how often each was answered wrong, and the sum of both.  They *)
(* are read, decided on, and written back apart, and the sending, which may  *)
(* take as long as a gateway takes, is between two writes of one row.        *)
(* Residents share nothing, so the model has one.                           *)
(*                                                                          *)
(* Operators sign in beside it and share nothing with it.  Its names carry    *)
(* Otp where theirs would be the same, so that one module may extend both.    *)
(***************************************************************************)
EXTENDS Naturals, FiniteSets, FiniteSetsExt

CONSTANTS
  Requester,               \* requests in progress
  MaxChallengesPerWindow,
  MaxAttemptsPerChallenge,
  MaxAttemptsPerWindow,
  MaxIssued,               \* bound: challenges ever made
  MaxCrossings,            \* bound: requests that begin while another runs
  NoChallengeRow

\* Some requests, and finitely many, are in progress at once.
ASSUME RequesterAssumption == IsFiniteSet(Requester) /\ Requester # {}

\* Challenges in the order of createdAt.
Challenge == 1 .. MaxIssued

ASSUME CodeAssumption ==
  {MaxChallengesPerWindow, MaxAttemptsPerChallenge, MaxAttemptsPerWindow, MaxIssued,
   MaxCrossings} \subseteq Nat

OtpChallengeRecord == [consumed : BOOLEAN, failed : 0 .. MaxAttemptsPerChallenge]

ASSUME NoChallengeRowAssumption == NoChallengeRow \notin OtpChallengeRecord

NoChallenge == 0

VARIABLES
  challenges,  \* the table
  expired,     \* challenges past expiresAt
  past,        \* challenges made before the window began
  request,     \* what each request holds
  uses,        \* history: sign-ins with each code
  misses,      \* history: wrong answers judged against each challenge
  stale,       \* history: challenges written back from an old copy
  crossings    \* history: requests that began while another ran

time == <<expired, past>>
otpHistory == <<uses, misses, stale>>

otpVars == <<challenges, time, request, otpHistory, crossings>>

RequestState ==
  [step   : {"idle", "save", "send", "window", "write"},
   held   : Challenge \cup {NoChallenge},
   copy   : OtpChallengeRecord \cup {NoChallengeRow},
   right  : BOOLEAN,      \* the code submitted is the challenge's
   behind : BOOLEAN]      \* the row was written since it was read

NoRequest ==
  [step |-> "idle", held |-> NoChallenge, copy |-> NoChallengeRow, right |-> FALSE,
   behind |-> FALSE]

OtpInit ==
  /\ challenges = [c \in Challenge |-> NoChallengeRow]
  /\ expired = {}
  /\ past = {}
  /\ request = [q \in Requester |-> NoRequest]
  /\ uses = [c \in Challenge |-> 0]
  /\ misses = [c \in Challenge |-> 0]
  /\ stale = {}
  /\ crossings = 0

----------------------------------------------------------------------------
(* The store.                                                               *)

Issued == {c \in Challenge : challenges[c] # NoChallengeRow}

\* recentFor: consumed challenges count too.
Recent == Issued \ past

\* findActive: the newest that was not consumed.
Active == {c \in Issued : ~ challenges[c].consumed}

Newest(ids) == IF ids = {} THEN NoChallenge ELSE Max(ids)

\* The sum of count over the challenges ids.
Total(count, ids) == MapThenSumSet(LAMBDA c : count[c], ids)

Failed == [c \in Issued |-> challenges[c].failed]

\* A slip: a sign-in wipes the wrong answers that came before it.
FailuresOfOpen == Total(Failed, {c \in Recent : ~ challenges[c].consumed})

\* What has been counted in the window, over every challenge in it.
Failures == Total(Failed, Recent)

OtpGoes(q, h) == request' = [request EXCEPT ![q] = h]

OtpBegins(q, h) ==
  /\ request[q] = NoRequest
  /\ OtpGoes(q, h)
  /\ crossings' = crossings + IF \E p \in Requester : request[p] # NoRequest THEN 1 ELSE 0
  /\ crossings' <= MaxCrossings
  /\ UNCHANGED <<challenges, time, otpHistory>>

\* update: the whole row from the copy in hand.  Who else holds it is behind.
Update(q, row) ==
  LET c == request[q].held IN
  /\ challenges' = [challenges EXCEPT ![c] = row]
  /\ stale' = IF request[q].behind THEN stale \cup {c} ELSE stale
  /\ request' = [p \in Requester |->
                   IF p = q THEN NoRequest
                   ELSE [request[p] EXCEPT !.behind = @ \/ request[p].held = c]]

----------------------------------------------------------------------------
(* issue.                                                                   *)

\* beginOtpLogin: nothing is sent once the window has had its codes.
RequestIssue(q) ==
  /\ Cardinality(Recent) < MaxChallengesPerWindow
  /\ OtpBegins(q, [NoRequest EXCEPT !.step = "save"])

NewChallenge == [consumed |-> FALSE, failed |-> 0]

SaveChallenge(q) ==
  LET c == Cardinality(Issued) + 1 IN
  /\ request[q].step = "save"
  /\ c \in Challenge
  /\ challenges' = [challenges EXCEPT ![c] = NewChallenge]
  /\ OtpGoes(q, [request[q] EXCEPT !.step = "send", !.held = c, !.copy = NewChallenge])
  /\ UNCHANGED <<time, otpHistory, crossings>>

\* The gateway took the code, and the channel is written: with it the attempts
\* and the consumption as they were before the code was sent.
RecordChannel(q) ==
  /\ request[q].step = "send"
  /\ Update(q, request[q].copy)
  /\ UNCHANGED <<time, uses, misses, crossings>>

----------------------------------------------------------------------------
(* verify.                                                                  *)

\* A slip: a challenge answered wrong once too often is still good for another.
StillHasOne(row) == row.failed <= MaxAttemptsPerChallenge

HasAttempts(row) == row.failed < MaxAttemptsPerChallenge

\* verifyOtpLogin: the newest challenge, unless it is used, expired or locked.
RequestVerify(q, right) ==
  LET c == Newest(Active) IN
  /\ c # NoChallenge
  /\ c \notin expired
  /\ HasAttempts(challenges[c])
  /\ OtpBegins(q, [NoRequest EXCEPT !.step = "window", !.held = c, !.copy = challenges[c],
                            !.right = right])

\* The bound that follows the resident, not the challenge.
WindowSpent == Failures >= MaxAttemptsPerWindow

CountWindow(q) ==
  /\ request[q].step = "window"
  /\ IF WindowSpent THEN OtpGoes(q, NoRequest) ELSE OtpGoes(q, [request[q] EXCEPT !.step = "write"])
  /\ UNCHANGED <<challenges, time, otpHistory, crossings>>

\* A wrong code is counted.
CountFailure(q) ==
  LET h == request[q] IN
  /\ h.step = "write"
  /\ ~ h.right
  /\ Update(q, [h.copy EXCEPT !.failed = @ + 1])
  /\ misses' = [misses EXCEPT ![h.held] = @ + 1]
  /\ UNCHANGED <<time, uses, crossings>>

\* A slip: the attempts are given back and the code is left to be used again.
LeftOpen(row) == [row EXCEPT !.failed = 0]

Consumed(row) == [row EXCEPT !.consumed = TRUE]

\* The right one is consumed, and signs the resident in.
ConsumeChallenge(q) ==
  LET h == request[q] IN
  /\ h.step = "write"
  /\ h.right
  /\ Update(q, Consumed(h.copy))
  /\ uses' = [uses EXCEPT ![h.held] = @ + 1]
  /\ UNCHANGED <<time, misses, crossings>>

----------------------------------------------------------------------------

\* The gateway refuses the code, a request is answered with an error, or its
\* process stops.
OtpStop(q) ==
  /\ request[q] # NoRequest
  /\ OtpGoes(q, NoRequest)
  /\ UNCHANGED <<challenges, time, otpHistory, crossings>>

\* Challenges expire in their order, and leave the window after they expired.
Expire ==
  /\ Issued \ expired # {}
  /\ expired' = expired \cup {Min(Issued \ expired)}
  /\ UNCHANGED <<challenges, past, request, otpHistory, crossings>>

LeaveWindow ==
  /\ expired \ past # {}
  /\ past' = past \cup {Min(expired \ past)}
  /\ UNCHANGED <<challenges, expired, request, otpHistory, crossings>>

OtpRequest(q) == RequestIssue(q) \/ \E right \in BOOLEAN : RequestVerify(q, right)

OtpStep(q) == SaveChallenge(q) \/ RecordChannel(q) \/ CountWindow(q) \/ CountFailure(q)
           \/ ConsumeChallenge(q)

OtpNext == Expire \/ LeaveWindow \/ \E q \in Requester : OtpRequest(q) \/ OtpStep(q) \/ OtpStop(q)

OtpSpec == OtpInit /\ [][OtpNext]_otpVars

----------------------------------------------------------------------------
(* Properties.                                                              *)

\* The rows keep to their columns, and no challenge is counted past its bound.
OtpTypeOK ==
  /\ challenges \in [Challenge -> OtpChallengeRecord \cup {NoChallengeRow}]
  /\ past \subseteq expired
  /\ expired \subseteq Issued
  /\ request \in [Requester -> RequestState]
  /\ uses \in [Challenge -> Nat]
  /\ misses \in [Challenge -> Nat]
  /\ stale \subseteq Issued
  /\ crossings \in 0 .. MaxCrossings

\* A code signs a resident in once (verify consumes before it returns), unless its
\* row was written back from an old copy: by another request with the same code,
\* or by the issue that was still waiting for the gateway.
CodeWorksOnce == \A c \in Challenge \ stale : uses[c] <= 1

\* How many wrong guesses at one resident's codes are judged: over all challenges
\* in the window MAX_ATTEMPTS wrong answers, and one more for each other request
\* that had been let past the bound when it was reached; and no more challenges
\* than the window allows, give or take the same.  Issuing another code gives
\* nobody new guesses, unless an old copy was written back.
AttemptsBounded ==
  LET others == Cardinality(Requester) - 1 IN
  /\ stale = {} => Total(misses, Recent) <= MaxAttemptsPerWindow + others
  /\ Cardinality(Recent) <= MaxChallengesPerWindow + others

=============================================================================
