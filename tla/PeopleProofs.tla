---------------------------- MODULE PeopleProofs ----------------------------
(***************************************************************************)
(* Customers, staff and riders, their conversations, and the seed script   *)
(* of those who run the platform, for every number of handlers, sessions,  *)
(* codes, members of staff, users, updates, messages and runs.             *)
(*                                                                         *)
(* The components share no state; each has a part of its own here, with    *)
(* its inductive invariant: what a handler has checked and relies on when  *)
(* it writes, and, where a check and its write are apart, how many         *)
(* handlers may stand between the two.                                     *)
(***************************************************************************)
EXTENDS Accounts, Staff, Permissions, RiderOnboarding, Tracking,
        Conversations, Seeding, FiniteSetTheorems, WellFoundedInduction, TLAPS

-----------------------------------------------------------------------------
(***************************************************************************)
(* Counting: a set that gains or loses one element, and a part of a set.   *)
(***************************************************************************)

\* A finite set and what joins it.
LEMMA OneJoins ==
  ASSUME NEW S, IsFiniteSet(S), NEW x, x \notin S, NEW T, T = S \cup {x}
  PROVE  /\ IsFiniteSet(T)
         /\ Cardinality(S) \in Nat
         /\ Cardinality(T) = Cardinality(S) + 1
BY FS_AddElement, FS_CardinalityType

\* A finite set and what leaves it.
LEMMA OneLeaves ==
  ASSUME NEW S, IsFiniteSet(S), NEW x \in S, NEW T, T = S \ {x}
  PROVE  /\ IsFiniteSet(T)
         /\ Cardinality(T) \in Nat
         /\ Cardinality(S) \in Nat
         /\ Cardinality(T) = Cardinality(S) - 1
BY FS_RemoveElement, FS_CardinalityType

-----------------------------------------------------------------------------
(***************************************************************************)
(* Accounts.                                                               *)
(***************************************************************************)

AccountRecord ==
  [exists : BOOLEAN, verified : BOOLEAN, active : BOOLEAN,
   password : Nat, google : BOOLEAN, passkey : BOOLEAN]
SessionRecord ==
  [state : {"none", "live", "revoked"}, token : Nat, password : Nat, kept : Nat]
ChallengeRecord ==
  [purpose : Purposes \cup {"none"}, attempts : Nat, state : {"unsent", "live", "stale", "gone"}]
RequestSteps ==
  {"idle", "create", "issue", "session", "send", "replace", "mail", "consume", "apply",
   "rotate", "change", "passkey", "google"}
RequestRecord ==
  [step : RequestSteps, then : Purposes \cup {"none"}, code : Nat,
   session : Sessions \cup {0}, token : Nat, known : BOOLEAN, user : AccountRecord]

AccountsTypeOK ==
  /\ account \in AccountRecord
  /\ challenges \in [Challenges -> ChallengeRecord]
  /\ sessions \in [Sessions -> SessionRecord]
  /\ request \in [Requests -> RequestRecord]
  /\ guesses \in [Challenges -> Nat]
  /\ effects \in [Challenges -> Nat]
  /\ redeemed \in [Sessions -> [1..MaxRotations -> Nat]]

\* What a handler relies on after its check: the address it opens a session for
\* is proven, and the rows it writes to are rows.
RequestHolds(r) ==
  /\ request[r].step \in {"issue", "session"} => account.verified
  /\ request[r].step = "rotate" => request[r].session \in Sessions /\ request[r].token \in 1..MaxRotations
  /\ request[r].step = "change" => request[r].session \in Sessions
  /\ request[r].step = "consume" => request[r].code \in Challenges
  /\ request[r].step \in {"consume", "apply"} => account.exists

\* Whatever signs in has been proven: a passkey is registered in a session, and
\* a Google address counts as verified.
AccountHolds ==
  /\ account.verified => account.exists
  /\ account.passkey \/ account.google => account.verified

\* A session holds the number of its refresh token; earlier ones were exchanged
\* at most once, this one and later ones never.
SessionHolds(s) ==
  /\ sessions[s].state = "none" <=> sessions[s].token = 0
  /\ sessions[s].state # "none" => account.verified
  /\ sessions[s].state = "live" =>
       sessions[s].password = account.password \/ sessions[s].kept = account.password
  /\ \A n \in 1..MaxRotations :
       redeemed[s][n] <= 1 /\ (n >= sessions[s].token => redeemed[s][n] = 0)

\* Handlers that have compared a code and not yet counted or consumed it.
Guessing(c) == {r \in Requests : request[r].step = "consume" /\ request[r].code = c}

\* Every guess on a code that can still be used is counted or will be.
CodeHolds(c) ==
  /\ challenges[c].state = "unsent" => guesses[c] = 0
  /\ challenges[c].state # "gone" =>
       effects[c] = 0 /\ guesses[c] <= challenges[c].attempts + Cardinality(Guessing(c))
  /\ effects[c] <= 1
  /\ guesses[c] < MaxAttempts + Cardinality(Requests)

RequestsHold == \A r \in Requests : RequestHolds(r)
SessionsHold == AccountHolds /\ \A s \in Sessions : SessionHolds(s)
CodesHold == \A c \in Challenges : CodeHolds(c)

AccountsInv == AccountsTypeOK /\ RequestsHold /\ SessionsHold /\ CodesHold

\* Handlers are finitely many, and those that guess are some of them.
LEMMA GuessingIsFinite ==
  /\ Cardinality(Requests) \in Nat
  /\ \A S \in SUBSET Requests :
       IsFiniteSet(S) /\ Cardinality(S) \in Nat /\ Cardinality(S) <= Cardinality(Requests)
<1>1. IsFiniteSet(Requests)
  BY AccountsAssumption
<1>2. QED
  BY <1>1, FS_Subset, FS_CardinalityType

\* The records a handler starts from.
LEMMA FreshRecords ==
  /\ NoAccount \in AccountRecord /\ SignedUp \in AccountRecord
  /\ ~NoAccount.exists /\ ~NoAccount.verified /\ ~NoAccount.passkey /\ ~NoAccount.google
  /\ SignedUp.exists /\ SignedUp.verified /\ SignedUp.password = 1
  /\ ~SignedUp.passkey /\ ~SignedUp.google
  /\ Idle \in RequestRecord /\ Idle.step = "idle" /\ Idle.code = 0
<1>1. NoAccount \in AccountRecord
  BY DEF NoAccount, AccountRecord
<1>2. SignedUp \in AccountRecord
  BY DEF NoAccount, SignedUp, AccountRecord
<1>3. Idle \in RequestRecord
  BY <1>1 DEF Idle, RequestRecord, RequestSteps
<1>4. QED
  BY <1>1, <1>2, <1>3 DEF NoAccount, SignedUp, Idle

\* The invariant holds at first.
LEMMA AccountsStart == AccountsInit => AccountsInv
<1> SUFFICES ASSUME AccountsInit PROVE AccountsInv
  OBVIOUS
<1>1. account \in AccountRecord /\ (account.exists => account.verified /\ account.password = 1)
      /\ (~account.exists => ~account.verified) /\ ~account.passkey /\ ~account.google
  BY FreshRecords DEF AccountsInit
<1>2. challenges \in [Challenges -> ChallengeRecord]
      /\ \A c \in Challenges : guesses[c] = 0 /\ effects[c] = 0 /\ challenges[c].attempts = 0
  BY DEF AccountsInit, ChallengeRecord, Purposes
<1>3. PICK device : sessions = [s \in Sessions |->
       IF account.exists /\ s = device
       THEN [state |-> "live", token |-> 1, password |-> 1, kept |-> 0]
       ELSE [state |-> "none", token |-> 0, password |-> 0, kept |-> 0]]
  BY DEF AccountsInit
<1>4. sessions \in [Sessions -> SessionRecord]
  BY <1>3 DEF SessionRecord
<1>5. request = [r \in Requests |-> Idle]
      /\ guesses = [c \in Challenges |-> 0] /\ effects = [c \in Challenges |-> 0]
      /\ redeemed = [s \in Sessions |-> [n \in 1..MaxRotations |-> 0]]
  BY DEF AccountsInit
<1>6. AccountsTypeOK
  BY <1>1, <1>2, <1>4, <1>5, FreshRecords DEF AccountsTypeOK
<1>7. RequestsHold
  BY <1>5, FreshRecords DEF RequestsHold, RequestHolds
<1>8. SessionsHold
  <2>1. ASSUME NEW s \in Sessions PROVE SessionHolds(s)
    <3>1. CASE sessions[s] = [state |-> "live", token |-> 1, password |-> 1, kept |-> 0] /\ account.exists
      BY <1>1, <1>5, <3>1 DEF SessionHolds
    <3>2. CASE sessions[s] = [state |-> "none", token |-> 0, password |-> 0, kept |-> 0]
      BY <1>5, <3>2 DEF SessionHolds
    <3>3. QED
      BY <1>3, <3>1, <3>2
  <2>2. AccountHolds
    BY <1>1 DEF AccountHolds
  <2>3. QED
    BY <2>1, <2>2 DEF SessionsHold
<1>9. CodesHold
  <2> SUFFICES ASSUME NEW c \in Challenges PROVE CodeHolds(c)
    BY DEF CodesHold
  <2>1. Cardinality(Guessing(c)) \in Nat
    BY GuessingIsFinite DEF Guessing
  <2>2. 0 <= 0 + Cardinality(Guessing(c)) /\ 0 < MaxAttempts + Cardinality(Requests)
    BY <2>1, GuessingIsFinite, AccountsAssumption
  <2>3. QED
    BY <1>2, <2>2 DEF CodeHolds
<1>10. QED
  BY <1>6, <1>7, <1>8, <1>9 DEF AccountsInv

-----------------------------------------------------------------------------

\* One handler goes on, and no proof of an address is taken back.
LEMMA RequestsMove ==
  ASSUME AccountsTypeOK, RequestsHold, NEW r \in Requests, NEW t \in RequestRecord,
         request' = [request EXCEPT ![r] = t], RequestHolds(r)',
         account.verified => account'.verified, account.exists => account'.exists
  PROVE  request' \in [Requests -> RequestRecord] /\ RequestsHold'
<1>1. request' \in [Requests -> RequestRecord] /\ \A q \in Requests \ {r} : request'[q] = request[q]
  BY DEF AccountsTypeOK
<1>2. \A q \in Requests \ {r} : RequestHolds(q)'
  BY <1>1 DEF RequestsHold, RequestHolds
<1>3. QED
  BY <1>1, <1>2 DEF RequestsHold

\* A step that leaves the codes, and who is guessing, alone.
LEMMA CodesFrame ==
  ASSUME CodesHold, UNCHANGED <<challenges, guesses, effects>>,
         \A q \in Requests : (request[q].step = "consume" \/ request'[q].step = "consume")
                               => request'[q] = request[q]
  PROVE  CodesHold'
<1>1. \A c : Guessing(c)' = Guessing(c)
  BY DEF Guessing
<1>2. QED
  BY <1>1 DEF CodesHold, CodeHolds

\* A handler reads, or goes on without writing a row of interest.
LEMMA AccountsReads ==
  ASSUME AccountsInv, NEW r \in Requests, NEW t \in RequestRecord,
         request' = [request EXCEPT ![r] = t], RequestHolds(r)',
         request[r].step # "consume", t.step # "consume",
         UNCHANGED <<account, challenges, sessions, guesses, effects, redeemed>>
  PROVE  AccountsInv'
<1>1. request' \in [Requests -> RequestRecord] /\ RequestsHold'
  BY RequestsMove DEF AccountsInv
<1>2. \A q \in Requests : (request[q].step = "consume" \/ request'[q].step = "consume")
                            => request'[q] = request[q]
  BY DEF AccountsInv, AccountsTypeOK
<1>3. CodesHold'
  BY <1>2, CodesFrame DEF AccountsInv
<1>4. SessionsHold'
  BY DEF AccountsInv, SessionsHold, AccountHolds, SessionHolds
<1>5. AccountsTypeOK'
  BY <1>1 DEF AccountsInv, AccountsTypeOK
<1>6. QED
  BY <1>1, <1>3, <1>4, <1>5 DEF AccountsInv

\* A handler's first record, with another step or with a code to be sent.
LEMMA StepRecords ==
  /\ \A x \in RequestSteps : [Idle EXCEPT !.step = x] \in RequestRecord
                            /\ [Idle EXCEPT !.step = x].step = x
  /\ \A x \in Purposes : [Idle EXCEPT !.step = "send", !.then = x] \in RequestRecord
                        /\ [Idle EXCEPT !.step = "send", !.then = x].step = "send"
<1>1. ASSUME NEW x \in RequestSteps
      PROVE  [Idle EXCEPT !.step = x] \in RequestRecord /\ [Idle EXCEPT !.step = x].step = x
  BY FreshRecords DEF RequestRecord
<1>2. ASSUME NEW x \in Purposes
      PROVE  /\ [Idle EXCEPT !.step = "send", !.then = x] \in RequestRecord
             /\ [Idle EXCEPT !.step = "send", !.then = x].step = "send"
  BY FreshRecords DEF RequestRecord, RequestSteps
<1>3. QED
  BY <1>1, <1>2

\* The handler goes on with record t, to a step that needs no row.
GoesOn(r, t) ==
  /\ request' = [request EXCEPT ![r] = t]
  /\ request[r].step # "consume" /\ t.step \notin {"consume", "rotate", "change", "apply"}
  /\ t.step \in {"issue", "session"} => account.verified

\* Handlers that start, and those that go on to the next statement.
LEMMA HandlersRead ==
  ASSUME AccountsInv, NEW r \in Requests,
         \/ RegisterRead(r) \/ CreateSessionForUser(r)
         \/ \E password : LoginRead(r, password)
         \/ ResendEmailOtp(r) \/ ForgotPassword(r) \/ CheckCooldown(r)
         \/ VerifyAuthentication(r) \/ PasskeyVerified(r) \/ GoogleRead(r)
  PROVE  AccountsInv'
<1>1. UNCHANGED <<account, challenges, sessions, guesses, effects, redeemed>>
  BY DEF RegisterRead, CreateSessionForUser, LoginRead, ResendEmailOtp, ForgotPassword,
         CheckCooldown, VerifyAuthentication, PasskeyVerified, GoogleRead
<1>2. account \in AccountRecord /\ request[r] \in RequestRecord /\ RequestHolds(r)
      /\ AccountHolds /\ DOMAIN request = Requests
  BY DEF AccountsInv, AccountsTypeOK, RequestsHold, SessionsHold
<1>3. \E t \in RequestRecord : GoesOn(r, t)
  <2> DEFINE step(x) == [Idle EXCEPT !.step = x]
             send(x) == [Idle EXCEPT !.step = "send", !.then = x]
  <2>0. /\ \A x \in RequestSteps : step(x) \in RequestRecord /\ step(x).step = x
        /\ \A x \in Purposes : send(x) \in RequestRecord /\ send(x).step = "send"
        /\ Idle \in RequestRecord /\ Idle.step = "idle"
    BY StepRecords, FreshRecords
  <2>1. CASE RegisterRead(r)
    <3>1. request' = [request EXCEPT ![r] = step("create")] /\ request[r] = Idle
      BY <2>1 DEF RegisterRead, Start, Continue
    <3> HIDE DEF step, send
    <3>2. QED
      BY <2>0, <3>1 DEF GoesOn, RequestSteps
  <2>2. CASE CreateSessionForUser(r)
    <3>1. request' = [request EXCEPT ![r] = IF account.active THEN step("issue") ELSE Idle]
          /\ request[r].step = "session" /\ account.verified
      BY <1>2, <2>2 DEF CreateSessionForUser, At, Continue, RequestHolds
    <3> HIDE DEF step, send
    <3>2. QED
      BY <2>0, <3>1 DEF GoesOn, RequestSteps
  <2>3. ASSUME NEW password, LoginRead(r, password) PROVE \E t \in RequestRecord : GoesOn(r, t)
    <3>1. request' = [request EXCEPT ![r] = IF account.verified THEN step("issue")
                                            ELSE send("EMAIL_VERIFICATION")]
          /\ request[r] = Idle
      BY <2>3 DEF LoginRead, Start, Continue, EmailVerified
    <3> HIDE DEF step, send
    <3>2. QED
      BY <2>0, <3>1 DEF GoesOn, RequestSteps, Purposes
  <2>4. CASE ResendEmailOtp(r) \/ ForgotPassword(r)
    <3>1. PICK p \in Purposes : request' = [request EXCEPT ![r] = send(p)] /\ request[r] = Idle
      BY <2>4 DEF ResendEmailOtp, ForgotPassword, Start, Continue, Purposes
    <3> HIDE DEF step, send
    <3>2. QED
      BY <2>0, <3>1 DEF GoesOn
  <2>5. CASE CheckCooldown(r)
    <3>1. PICK t : t = [request[r] EXCEPT !.step = "replace"]
      OBVIOUS
    <3>2. t \in RequestRecord /\ t.step = "replace"
      BY <1>2, <3>1 DEF RequestRecord, RequestSteps
    <3>3. (request' = [request EXCEPT ![r] = Idle] \/ request' = [request EXCEPT ![r] = t])
          /\ request[r].step = "send"
      BY <2>5, <3>1 DEF CheckCooldown, At, Continue
    <3> HIDE DEF step, send
    <3>4. QED
      BY <2>0, <3>2, <3>3 DEF GoesOn
  <2>6. CASE VerifyAuthentication(r)
    <3>1. request' = [request EXCEPT ![r] = step("passkey")] /\ request[r] = Idle
      BY <2>6 DEF VerifyAuthentication, Start, Continue
    <3> HIDE DEF step, send
    <3>2. QED
      BY <2>0, <3>1 DEF GoesOn, RequestSteps
  <2>7. CASE PasskeyVerified(r)
    <3>1. request' = [request EXCEPT ![r] = IF account.passkey THEN step("session") ELSE Idle]
          /\ request[r].step = "passkey" /\ (account.passkey => account.verified)
      BY <1>2, <2>7 DEF PasskeyVerified, At, Continue, AccountHolds
    <3> HIDE DEF step, send
    <3>2. QED
      BY <2>0, <3>1 DEF GoesOn, RequestSteps
  <2>8. CASE GoogleRead(r)
    <3>1. PICK t : t = [Idle EXCEPT !.step = "google", !.user = account]
      OBVIOUS
    <3>2. t \in RequestRecord /\ t.step = "google"
      BY <1>2, <3>1, FreshRecords DEF RequestRecord, RequestSteps
    <3>3. request' = [request EXCEPT ![r] = IF account.google THEN step("session") ELSE t]
          /\ request[r] = Idle /\ (account.google => account.verified)
      BY <1>2, <2>8, <3>1 DEF GoogleRead, Start, Continue, AccountHolds
    <3> HIDE DEF step, send
    <3>4. QED
      BY <2>0, <3>2, <3>3 DEF GoesOn, RequestSteps
  <2>9. QED
    BY <2>1, <2>2, <2>3, <2>4, <2>5, <2>6, <2>7, <2>8
<1>4. PICK t \in RequestRecord : GoesOn(r, t)
  BY <1>3
<1>5. RequestHolds(r)'
  <2>1. request'[r] = t
    BY <1>2, <1>4 DEF GoesOn
  <2>2. QED
    BY <1>1, <1>4, <2>1 DEF GoesOn, RequestHolds
<1>6. QED
  BY <1>1, <1>4, <1>5, AccountsReads DEF GoesOn

\* Handlers that start in a session: the refresh and the change of password.
LEMMA SessionsRead ==
  ASSUME AccountsInv, NEW r \in Requests, NEW s \in Sessions,
         RefreshRead(r, s) \/ \E password : ChangePasswordRead(r, s, password)
  PROVE  AccountsInv'
<1>1. UNCHANGED <<account, challenges, sessions, guesses, effects, redeemed>> /\ request[r] = Idle
      /\ sessions[s].state = "live"
  BY DEF RefreshRead, ChangePasswordRead, Start, canActivate, LiveSession
<1>2. sessions[s] \in SessionRecord /\ SessionHolds(s) /\ DOMAIN request = Requests
  BY DEF AccountsInv, AccountsTypeOK, SessionsHold
<1>3. PICK t \in RequestRecord :
        /\ request' = [request EXCEPT ![r] = t]
        /\ t.step \in {"rotate", "change"} /\ t.session = s
        /\ t.step = "rotate" => t.token \in 1..MaxRotations
  <2>1. CASE RefreshRead(r, s)
    <3>1. PICK n \in 1..MaxRotations : n = sessions[s].token
      <4>1. sessions[s].token \in Nat /\ sessions[s].token # 0 /\ sessions[s].token < MaxRotations
            /\ MaxRotations \in Nat
        BY <1>1, <1>2, <2>1, AccountsAssumption DEF RefreshRead, SessionRecord, SessionHolds
      <4>2. QED
        BY <4>1
    <3>2. PICK t : t = [Idle EXCEPT !.step = "rotate", !.session = s, !.token = n]
      OBVIOUS
    <3>3. n \in Nat
      BY <3>1
    <3>4. t \in RequestRecord /\ t.step = "rotate" /\ t.session = s /\ t.token = n
      BY <3>2, <3>3, FreshRecords DEF RequestRecord, RequestSteps
    <3>5. request' = [request EXCEPT ![r] = t]
      BY <2>1, <3>1, <3>2 DEF RefreshRead, Continue
    <3>6. QED
      BY <3>4, <3>5
  <2>2. ASSUME NEW password, ChangePasswordRead(r, s, password)
        PROVE  \E t \in RequestRecord : request' = [request EXCEPT ![r] = t]
                                        /\ t.step = "change" /\ t.session = s
    <3>1. PICK t : t = [Idle EXCEPT !.step = "change", !.session = s]
      OBVIOUS
    <3>2. t \in RequestRecord /\ t.step = "change" /\ t.session = s
      BY <3>1, FreshRecords DEF RequestRecord, RequestSteps
    <3>3. request' = [request EXCEPT ![r] = t]
      BY <2>2, <3>1 DEF ChangePasswordRead, Continue
    <3>4. QED
      BY <3>2, <3>3
  <2>3. QED
    BY <2>1, <2>2
<1>4. RequestHolds(r)'
  <2>1. request'[r] = t
    BY <1>2, <1>3
  <2>2. QED
    BY <1>3, <2>1 DEF RequestHolds
<1>5. QED
  BY <1>1, <1>3, <1>4, FreshRecords, AccountsReads

\* What the steps of no handler, that touch neither codes nor requests, do.
LEMMA AccountsFrame ==
  ASSUME AccountsInv, UNCHANGED <<challenges, request, guesses, effects>>,
         account' \in AccountRecord, sessions' \in [Sessions -> SessionRecord],
         redeemed' \in [Sessions -> [1..MaxRotations -> Nat]], account.exists => account'.exists,
         account.verified => account'.verified, SessionsHold'
  PROVE  AccountsInv'
<1>1. AccountsTypeOK'
  BY DEF AccountsInv, AccountsTypeOK
<1>2. RequestsHold'
  BY DEF AccountsInv, RequestsHold, RequestHolds
<1>3. CodesHold'
  BY CodesFrame DEF AccountsInv
<1>4. QED
  BY <1>1, <1>2, <1>3 DEF AccountsInv

\* The account changes, but neither its password nor the proof of its address.
LEMMA AccountMoves ==
  ASSUME AccountsInv, UNCHANGED <<sessions, redeemed>>, account' \in AccountRecord, AccountHolds',
         account.verified => account'.verified,
         account'.password = account.password \/ ~account.verified
  PROVE  SessionsHold'
<1> SUFFICES ASSUME NEW s \in Sessions PROVE SessionHolds(s)'
  BY DEF SessionsHold
<1>1. SessionHolds(s) /\ sessions[s] \in SessionRecord
  BY DEF AccountsInv, AccountsTypeOK, SessionsHold
<1>2. QED
  BY <1>1 DEF SessionHolds, SessionRecord

\* Steps of no handler: time, a passkey, a suspension, a logout.
LEMMA OthersStep ==
  ASSUME AccountsInv,
         \/ \E s \in Sessions :
              Logout(s) \/ RegistrationOptions(s) \/ VerifyRegistration(s) \/ RemovePasskey(s)
         \/ AuthenticationOptions \/ Suspend \/ UNCHANGED accountsVars
         \/ \E p \in Purposes : CooldownEnds(p)
  PROVE  AccountsInv'
<1>0. account \in AccountRecord /\ AccountHolds /\ sessions \in [Sessions -> SessionRecord]
      /\ redeemed \in [Sessions -> [1..MaxRotations -> Nat]] /\ \A s \in Sessions : SessionHolds(s)
  BY DEF AccountsInv, AccountsTypeOK, SessionsHold
<1>1. ASSUME NEW s \in Sessions, Logout(s) PROVE AccountsInv'
  <2>1. sessions' = [sessions EXCEPT ![s].state = "revoked"] /\ sessions[s].state = "live"
        /\ UNCHANGED <<account, challenges, request, guesses, effects, redeemed>>
    BY <1>1 DEF Logout, canActivate, LiveSession
  <2>2. PICK t : t = [sessions[s] EXCEPT !.state = "revoked"]
    OBVIOUS
  <2>3. t \in SessionRecord /\ t.state = "revoked" /\ t.token = sessions[s].token
    BY <1>0, <2>2 DEF SessionRecord
  <2>4. sessions' \in [Sessions -> SessionRecord] /\ sessions'[s] = t
        /\ \A k \in Sessions \ {s} : sessions'[k] = sessions[k]
    BY <1>0, <2>1, <2>2, <2>3
  <2>5. SessionsHold'
    BY <1>0, <2>1, <2>3, <2>4 DEF SessionsHold, SessionHolds, AccountHolds
  <2>6. QED
    BY <1>0, <2>1, <2>4, <2>5, AccountsFrame
<1>2. ASSUME account' \in AccountRecord, AccountHolds', account'.password = account.password,
             account.exists => account'.exists,
             account.verified => account'.verified,
             UNCHANGED <<sessions, challenges, request, guesses, effects, redeemed>>
      PROVE  AccountsInv'
  <2>1. SessionsHold'
    BY <1>2, AccountMoves
  <2>2. QED
    BY <1>0, <1>2, <2>1, AccountsFrame
<1>3. CASE UNCHANGED <<account, sessions, challenges, request, guesses, effects, redeemed>>
  <2>1. AccountHolds'
    BY <1>0, <1>3 DEF AccountHolds
  <2>2. QED
    BY <1>0, <1>2, <1>3, <2>1
<1>4. ASSUME NEW s \in Sessions, VerifyRegistration(s) PROVE AccountsInv'
  <2>1. account' = [account EXCEPT !.passkey = TRUE] /\ account.verified
    BY <1>0, <1>4 DEF VerifyRegistration, canActivate, LiveSession, SessionHolds
  <2>2. account' \in AccountRecord /\ account'.password = account.password
        /\ account'.verified = account.verified /\ account'.exists = account.exists
    BY <1>0, <2>1 DEF AccountRecord
  <2>3. AccountHolds'
    BY <1>0, <2>1, <2>2 DEF AccountHolds
  <2>4. QED
    BY <1>2, <1>4, <2>2, <2>3 DEF VerifyRegistration
<1>5. ASSUME NEW s \in Sessions, RemovePasskey(s) PROVE AccountsInv'
  <2>1. account' = [account EXCEPT !.passkey = FALSE]
    BY <1>5 DEF RemovePasskey
  <2>2. account' \in AccountRecord /\ account'.password = account.password
        /\ account'.verified = account.verified /\ account'.exists = account.exists
        /\ account'.google = account.google /\ ~account'.passkey
    BY <1>0, <2>1 DEF AccountRecord
  <2>3. AccountHolds'
    BY <1>0, <2>2 DEF AccountHolds
  <2>4. QED
    BY <1>2, <1>5, <2>2, <2>3 DEF RemovePasskey
<1>6. CASE Suspend
  <2>1. account' = [account EXCEPT !.active = FALSE]
    BY <1>6 DEF Suspend
  <2>2. account' \in AccountRecord /\ account'.password = account.password
        /\ account'.verified = account.verified /\ account'.exists = account.exists
        /\ account'.google = account.google /\ account'.passkey = account.passkey
    BY <1>0, <2>1 DEF AccountRecord
  <2>3. AccountHolds'
    BY <1>0, <2>2 DEF AccountHolds
  <2>4. QED
    BY <1>2, <1>6, <2>2, <2>3 DEF Suspend
<1>7. QED
  BY <1>1, <1>3, <1>4, <1>5, <1>6
     DEF RegistrationOptions, AuthenticationOptions, CooldownEnds, accountsVars

\* A handler writes the account, and the sessions still hold.
LEMMA AccountWrites ==
  ASSUME AccountsInv, NEW r \in Requests, NEW t \in RequestRecord,
         request' = [request EXCEPT ![r] = t], RequestHolds(r)',
         request[r].step # "consume", t.step # "consume",
         account' \in AccountRecord, sessions' \in [Sessions -> SessionRecord],
         redeemed' \in [Sessions -> [1..MaxRotations -> Nat]],
         account.exists => account'.exists, account.verified => account'.verified,
         SessionsHold', UNCHANGED <<challenges, guesses, effects>>
  PROVE  AccountsInv'
<1>1. request' \in [Requests -> RequestRecord] /\ RequestsHold'
  BY RequestsMove DEF AccountsInv
<1>2. \A q \in Requests : (request[q].step = "consume" \/ request'[q].step = "consume")
                            => request'[q] = request[q]
  BY DEF AccountsInv, AccountsTypeOK
<1>3. CodesHold'
  BY <1>2, CodesFrame DEF AccountsInv
<1>4. AccountsTypeOK'
  BY <1>1 DEF AccountsInv, AccountsTypeOK
<1>5. QED
  BY <1>1, <1>3, <1>4 DEF AccountsInv

\* Registration, the verified address and the Google link: the password of an
\* account that has sessions stays.
LEMMA AccountStep ==
  ASSUME AccountsInv, NEW r \in Requests,
         RegisterCreate(r) \/ VerifyEmail(r) \/ GoogleLink(r)
  PROVE  AccountsInv'
<1>1. UNCHANGED <<sessions, redeemed, challenges, guesses, effects>>
  BY DEF RegisterCreate, VerifyEmail, GoogleLink
<1>2. account \in AccountRecord /\ request[r] \in RequestRecord /\ RequestHolds(r)
      /\ AccountHolds /\ DOMAIN request = Requests
      /\ sessions \in [Sessions -> SessionRecord]
      /\ redeemed \in [Sessions -> [1..MaxRotations -> Nat]] /\ SessionsHold
  BY DEF AccountsInv, AccountsTypeOK, RequestsHold, SessionsHold
<1>3. ASSUME account' \in AccountRecord, AccountHolds', account.exists => account'.exists,
             account.verified => account'.verified,
             account'.password = account.password \/ ~account.verified,
             NEW t \in RequestRecord, request' = [request EXCEPT ![r] = t],
             request[r].step # "consume", t.step \notin {"consume", "rotate", "change", "apply"},
             t.step \in {"issue", "session"} => account'.verified
      PROVE  AccountsInv'
  <2>1. SessionsHold'
    BY <1>1, <1>3, AccountMoves
  <2>2. request'[r] = t
    BY <1>2, <1>3
  <2>3. RequestHolds(r)'
    BY <1>3, <2>2 DEF RequestHolds
  <2>4. QED
    BY <1>1, <1>2, <1>3, <2>1, <2>3, AccountWrites
<1>4. CASE account' = account /\ request' = [request EXCEPT ![r] = Idle]
           /\ request[r].step # "consume"
  <2>1. AccountHolds'
    BY <1>2, <1>4 DEF AccountHolds
  <2>2. QED
    BY <1>2, <1>3, <1>4, <2>1, FreshRecords
<1>5. CASE RegisterCreate(r)
  <2>1. CASE account.exists
    BY <1>4, <1>5, <2>1 DEF RegisterCreate, At, Continue, Answer
  <2>2. CASE ~account.exists
    <3>1. account' = [NoAccount EXCEPT !.exists = TRUE, !.password = 1]
      BY <1>5, <2>2 DEF RegisterCreate
    <3>2. account' \in AccountRecord /\ account'.exists /\ ~account'.verified
          /\ ~account'.passkey /\ ~account'.google
      BY <3>1 DEF NoAccount, AccountRecord
    <3>3. AccountHolds' /\ ~account.verified
      BY <1>2, <2>2, <3>2 DEF AccountHolds
    <3>4. PICK t : t = [Idle EXCEPT !.step = "send", !.then = "EMAIL_VERIFICATION"]
      OBVIOUS
    <3>5. t \in RequestRecord /\ t.step = "send"
      BY <3>4, StepRecords DEF Purposes
    <3>6. request' = [request EXCEPT ![r] = t] /\ request[r].step = "create"
      BY <1>5, <2>2, <3>4 DEF RegisterCreate, At, Continue
    <3>7. QED
      BY <1>3, <3>2, <3>3, <3>5, <3>6
  <2>3. QED
    BY <2>1, <2>2
<1>6. CASE VerifyEmail(r)
  <2>1. account' = [account EXCEPT !.verified = TRUE] /\ account.exists
        /\ request' = [request EXCEPT ![r] = Idle] /\ request[r].step = "apply"
    BY <1>2, <1>6 DEF VerifyEmail, At, Answer, Continue, RequestHolds
  <2>2. account' \in AccountRecord /\ account'.exists /\ account'.verified
        /\ account'.password = account.password
    BY <1>2, <2>1 DEF AccountRecord
  <2>3. AccountHolds'
    BY <2>2 DEF AccountHolds
  <2>4. QED
    BY <1>3, <2>1, <2>2, <2>3, FreshRecords
<1>7. CASE GoogleLink(r)
  <2>1. CASE LinkFails(r)
    BY <1>4, <1>7, <2>1 DEF GoogleLink, At, Continue, Answer
  <2>2. CASE ~LinkFails(r)
    <3>1. account' = [account EXCEPT !.exists = TRUE, !.verified = TRUE, !.google = TRUE]
      BY <1>7, <2>2 DEF GoogleLink
    <3>2. account' \in AccountRecord /\ account'.exists /\ account'.verified
          /\ account'.password = account.password
      BY <1>2, <3>1 DEF AccountRecord
    <3>3. AccountHolds'
      BY <3>2 DEF AccountHolds
    <3>4. PICK t : t = [Idle EXCEPT !.step = "session"]
      OBVIOUS
    <3>5. t \in RequestRecord /\ t.step = "session"
      BY <3>4, StepRecords DEF RequestSteps
    <3>6. request' = [request EXCEPT ![r] = t] /\ request[r].step = "google"
      BY <1>7, <2>2, <3>4 DEF GoogleLink, At, Continue
    <3>7. QED
      BY <1>3, <3>2, <3>3, <3>5, <3>6
  <2>3. QED
    BY <2>1, <2>2
<1>8. QED
  BY <1>5, <1>6, <1>7

\* A session is opened, for an address that is proven.
LEMMA IssueStep ==
  ASSUME AccountsInv, NEW r \in Requests, IssueSession(r)
  PROVE  AccountsInv'
<1>1. account \in AccountRecord /\ RequestHolds(r) /\ AccountHolds /\ DOMAIN request = Requests
      /\ sessions \in [Sessions -> SessionRecord]
      /\ redeemed \in [Sessions -> [1..MaxRotations -> Nat]]
      /\ \A s \in Sessions : SessionHolds(s)
  BY DEF AccountsInv, AccountsTypeOK, RequestsHold, SessionsHold
<1>2. PICK s \in Sessions : sessions[s].state = "none"
                            /\ sessions' = [sessions EXCEPT ![s] = NewSession]
  BY DEF IssueSession
<1>3. request' = [request EXCEPT ![r] = Idle] /\ request[r].step = "issue" /\ account.verified
      /\ UNCHANGED <<account, challenges, guesses, effects, redeemed>>
  BY <1>1 DEF IssueSession, At, Answer, Continue, RequestHolds
<1>4. NewSession \in SessionRecord /\ NewSession.state = "live" /\ NewSession.token = 1
      /\ NewSession.password = account.password
  BY <1>1 DEF NewSession, SessionRecord, AccountRecord
<1>5. sessions' \in [Sessions -> SessionRecord] /\ sessions'[s] = NewSession
      /\ \A k \in Sessions \ {s} : sessions'[k] = sessions[k]
  BY <1>1, <1>2, <1>4
<1>6. SessionHolds(s)'
  <2>1. \A n \in 1..MaxRotations : redeemed[s][n] = 0
    <3> SUFFICES ASSUME NEW n \in 1..MaxRotations PROVE redeemed[s][n] = 0
      OBVIOUS
    <3>1. sessions[s].token = 0 /\ n >= 0
      BY <1>1, <1>2, AccountsAssumption DEF SessionHolds
    <3>2. QED
      BY <1>1, <3>1 DEF SessionHolds
  <2>2. QED
    BY <1>3, <1>4, <1>5, <2>1 DEF SessionHolds
<1>7. \A k \in Sessions \ {s} : SessionHolds(k)'
  BY <1>1, <1>3, <1>5 DEF SessionHolds
<1>8. SessionsHold'
  BY <1>1, <1>3, <1>6, <1>7 DEF SessionsHold, AccountHolds
<1>9. request'[r] = Idle
  BY <1>1, <1>3
<1>10. RequestHolds(r)'
  BY <1>9, FreshRecords DEF RequestHolds
<1>11. QED
  BY <1>1, <1>3, <1>5, <1>8, <1>10, FreshRecords, AccountWrites

\* A refresh token is exchanged for the next one.
LEMMA RotateStep ==
  ASSUME AccountsInv, NEW r \in Requests, RefreshRotate(r)
  PROVE  AccountsInv'
<1>1. account \in AccountRecord /\ RequestHolds(r) /\ AccountHolds /\ DOMAIN request = Requests
      /\ sessions \in [Sessions -> SessionRecord] /\ SessionsHold
      /\ redeemed \in [Sessions -> [1..MaxRotations -> Nat]]
      /\ \A s \in Sessions : SessionHolds(s)
  BY DEF AccountsInv, AccountsTypeOK, RequestsHold, SessionsHold
<1>2. request' = [request EXCEPT ![r] = Idle] /\ request[r].step = "rotate"
      /\ UNCHANGED <<account, challenges, guesses, effects>>
  BY DEF RefreshRotate, At, Answer, Continue
<1>3. PICK s \in Sessions, token \in 1..MaxRotations :
        s = request[r].session /\ token = request[r].token
  BY <1>1, <1>2 DEF RequestHolds
<1>4. request'[r] = Idle
  BY <1>1, <1>2
<1>5. RequestHolds(r)'
  BY <1>4, FreshRecords DEF RequestHolds
<1>6. CASE UNCHANGED <<sessions, redeemed>>
  <2>1. SessionsHold'
    BY <1>1, <1>2, <1>6 DEF SessionsHold, SessionHolds, AccountHolds
  <2>2. QED
    BY <1>1, <1>2, <1>5, <1>6, <2>1, FreshRecords, AccountWrites
<1>7. CASE Rotatable(s, token)
  <2>1. sessions' = [sessions EXCEPT ![s].token = token + 1]
        /\ redeemed' = [redeemed EXCEPT ![s][token] = @ + 1]
        /\ sessions[s].state = "live" /\ sessions[s].token = token
    BY <1>3, <1>7 DEF RefreshRotate, Rotatable, LiveSession
  <2>2. PICK t : t = [sessions[s] EXCEPT !.token = token + 1]
    OBVIOUS
  <2>3. token \in Nat /\ token + 1 \in Nat /\ token + 1 # 0
    BY AccountsAssumption
  <2>4. t \in SessionRecord /\ t.token = token + 1 /\ t.state = "live"
        /\ t.password = sessions[s].password /\ t.kept = sessions[s].kept
    BY <1>1, <2>1, <2>2, <2>3 DEF SessionRecord
  <2>5. sessions' \in [Sessions -> SessionRecord] /\ sessions'[s] = t
        /\ \A k \in Sessions \ {s} : sessions'[k] = sessions[k]
    BY <1>1, <2>1, <2>2, <2>4
  <2>6. redeemed[s] \in [1..MaxRotations -> Nat] /\ redeemed[s][token] = 0
    <3>1. token >= sessions[s].token
      BY <2>1, <2>3
    <3>2. QED
      BY <1>1, <3>1 DEF SessionHolds
  <2>7. PICK f : f = [redeemed[s] EXCEPT ![token] = 1]
    OBVIOUS
  <2>8. f \in [1..MaxRotations -> Nat] /\ f[token] = 1
        /\ \A n \in (1..MaxRotations) \ {token} : f[n] = redeemed[s][n]
    BY <2>6, <2>7
  <2>9. redeemed' \in [Sessions -> [1..MaxRotations -> Nat]] /\ redeemed'[s] = f
        /\ \A k \in Sessions \ {s} : redeemed'[k] = redeemed[k]
    <3>1. redeemed[s][token] + 1 = 1
      BY <2>6
    <3>2. redeemed' = [redeemed EXCEPT ![s] = f]
      BY <2>1, <2>7, <3>1
    <3>3. QED
      BY <1>1, <2>8, <3>2
  <2>10. SessionHolds(s)'
    <3>1. ASSUME NEW n \in 1..MaxRotations
          PROVE  f[n] <= 1 /\ (n >= token + 1 => f[n] = 0)
      <4>1. CASE n = token
        BY <2>3, <2>8, <4>1
      <4>2. CASE n # token
        <5>1. n >= token + 1 => n >= sessions[s].token
          BY <2>1, <2>3, AccountsAssumption
        <5>2. f[n] = redeemed[s][n]
          BY <2>8, <4>2
        <5>3. QED
          BY <1>1, <5>1, <5>2 DEF SessionHolds
      <4>3. QED
        BY <4>1, <4>2
    <3>2. \A n \in 1..MaxRotations :
            redeemed'[s][n] <= 1 /\ (n >= sessions'[s].token => redeemed'[s][n] = 0)
      BY <2>4, <2>5, <2>9, <3>1
    <3>3. /\ sessions'[s].state = "live" /\ sessions'[s].token # 0 /\ account'.verified
          /\ sessions'[s].password = account'.password \/ sessions'[s].kept = account'.password
      BY <1>1, <1>2, <2>1, <2>3, <2>4, <2>5 DEF SessionHolds
    <3>4. QED
      BY <3>2, <3>3 DEF SessionHolds
  <2>11. ASSUME NEW k \in Sessions \ {s} PROVE SessionHolds(k)'
    <3>1. sessions'[k] = sessions[k] /\ redeemed'[k] = redeemed[k] /\ account' = account
          /\ SessionHolds(k)
      BY <1>1, <1>2, <2>5, <2>9
    <3>2. QED
      BY <3>1 DEF SessionHolds
  <2>12. SessionsHold'
    BY <1>1, <1>2, <2>10, <2>11 DEF SessionsHold, AccountHolds
  <2>13. QED
    BY <1>1, <1>2, <1>5, <2>5, <2>9, <2>12, FreshRecords, AccountWrites
<1>8. QED
  BY <1>3, <1>6, <1>7 DEF RefreshRotate

\* A new password ends every live session but the one it was changed in.
LEMMA PasswordStep ==
  ASSUME AccountsInv, NEW r \in Requests, ResetPassword(r) \/ ChangePassword(r)
  PROVE  AccountsInv'
<1>1. account \in AccountRecord /\ RequestHolds(r) /\ AccountHolds /\ DOMAIN request = Requests
      /\ sessions \in [Sessions -> SessionRecord]
      /\ redeemed \in [Sessions -> [1..MaxRotations -> Nat]]
      /\ \A s \in Sessions : SessionHolds(s)
  BY DEF AccountsInv, AccountsTypeOK, RequestsHold, SessionsHold
<1>2. account' = [account EXCEPT !.password = @ + 1]
      /\ request' = [request EXCEPT ![r] = Idle] /\ request[r].step \in {"apply", "change"}
      /\ UNCHANGED <<challenges, guesses, effects, redeemed>>
  BY DEF ResetPassword, ChangePassword, At, Answer, Continue
<1>3. account' \in AccountRecord /\ account'.password = account.password + 1
      /\ account'.exists = account.exists /\ account'.verified = account.verified
      /\ account'.google = account.google /\ account'.passkey = account.passkey
  BY <1>1, <1>2 DEF AccountRecord
<1>4. PICK spared \in Sessions \cup {0} :
        /\ spared = 0 => sessions' = Revoked(0)
        /\ spared # 0 => sessions' = [Revoked(spared) EXCEPT ![spared].kept = account.password + 1]
  <2>1. CASE ResetPassword(r)
    BY <2>1 DEF ResetPassword
  <2>2. CASE ChangePassword(r)
    <3>1. request[r].session \in Sessions
      BY <1>1, <2>2 DEF ChangePassword, At, RequestHolds
    <3>2. request[r].session # 0
      BY <3>1, AccountsAssumption
    <3>3. QED
      BY <2>2, <3>1, <3>2 DEF ChangePassword
  <2>3. QED
    BY <2>1, <2>2
<1>5. PICK f : f = Revoked(spared)
  OBVIOUS
<1>6. ASSUME NEW s \in Sessions
      PROVE  /\ f[s] \in SessionRecord /\ f[s].token = sessions[s].token
             /\ f[s].state = "none" <=> sessions[s].state = "none"
             /\ f[s].state = "live" => s = spared
  <2>1. CASE LiveSession(s) /\ s # spared
    <3>1. f[s] = [sessions[s] EXCEPT !.state = "revoked"]
      BY <1>5, <2>1 DEF Revoked
    <3>2. QED
      BY <1>1, <2>1, <3>1 DEF SessionRecord, LiveSession
  <2>2. CASE ~(LiveSession(s) /\ s # spared)
    <3>1. f[s] = sessions[s]
      BY <1>5, <2>2 DEF Revoked
    <3>2. QED
      BY <1>1, <2>2, <3>1 DEF LiveSession
  <2>3. QED
    BY <2>1, <2>2
<1>7. f = [s \in Sessions |-> f[s]]
  BY <1>5 DEF Revoked
<1>8. ASSUME NEW s \in Sessions
      PROVE  /\ sessions'[s] \in SessionRecord /\ sessions'[s].token = sessions[s].token
             /\ sessions'[s].state = "none" <=> sessions[s].state = "none"
             /\ sessions'[s].state = "live" => sessions'[s].kept = account'.password
  <2>1. CASE spared = 0
    <3>1. sessions' = f /\ s # spared
      BY <1>4, <1>5, <2>1, AccountsAssumption
    <3>2. QED
      BY <1>6, <3>1
  <2>2. CASE spared # 0
    <3>1. sessions' = [f EXCEPT ![spared].kept = account.password + 1]
      BY <1>4, <1>5, <2>2
    <3>2. CASE s # spared
      <4>1. sessions'[s] = f[s]
        BY <1>7, <3>1, <3>2
      <4>2. QED
        BY <1>6, <3>2, <4>1
    <3>3. CASE s = spared
      <4>1. sessions'[s] = [f[s] EXCEPT !.kept = account.password + 1]
        BY <1>7, <3>1, <3>3
      <4>2. account.password + 1 \in Nat
        BY <1>1 DEF AccountRecord
      <4>3. QED
        BY <1>3, <1>6, <4>1, <4>2 DEF SessionRecord
    <3>4. QED
      BY <3>2, <3>3
  <2>3. QED
    BY <2>1, <2>2
<1>9. DOMAIN sessions' = Sessions /\ sessions' = [s \in DOMAIN sessions' |-> sessions'[s]]
  <2>1. CASE spared = 0
    BY <1>4, <1>5, <1>7, <2>1
  <2>2. CASE spared # 0
    BY <1>4, <1>5, <1>7, <2>2
  <2>3. QED
    BY <2>1, <2>2
<1>10. sessions' \in [Sessions -> SessionRecord]
  BY <1>8, <1>9
<1>11. ASSUME NEW s \in Sessions PROVE SessionHolds(s)'
  BY <1>1, <1>2, <1>3, <1>8 DEF SessionHolds
<1>12. SessionsHold'
  BY <1>1, <1>3, <1>11 DEF SessionsHold, AccountHolds
<1>13. request'[r] = Idle
  BY <1>1, <1>2
<1>14. RequestHolds(r)'
  BY <1>13, FreshRecords DEF RequestHolds
<1>15. redeemed' \in [Sessions -> [1..MaxRotations -> Nat]]
  BY <1>1, <1>2
<1>16. QED
  BY <1>2, <1>3, <1>10, <1>12, <1>14, <1>15, FreshRecords, AccountWrites

\* A step on the codes by handler r, which ends at record t.
LEMMA CodesWrite ==
  ASSUME AccountsInv, NEW r \in Requests, NEW t \in RequestRecord,
         request' = [request EXCEPT ![r] = t], RequestHolds(r)',
         UNCHANGED <<account, sessions, redeemed>>,
         challenges' \in [Challenges -> ChallengeRecord], guesses' \in [Challenges -> Nat],
         effects' \in [Challenges -> Nat], CodesHold'
  PROVE  AccountsInv'
<1>1. request' \in [Requests -> RequestRecord] /\ RequestsHold'
  BY RequestsMove DEF AccountsInv
<1>2. SessionsHold'
  BY DEF AccountsInv, SessionsHold, AccountHolds, SessionHolds
<1>3. AccountsTypeOK'
  BY <1>1 DEF AccountsInv, AccountsTypeOK
<1>4. QED
  BY <1>1, <1>2, <1>3 DEF AccountsInv

\* The rows of one code and the handlers that guess it.
LEMMA CodeFacts ==
  ASSUME AccountsInv, NEW c \in Challenges
  PROVE  /\ challenges[c] \in ChallengeRecord /\ challenges[c].attempts \in Nat
         /\ guesses[c] \in Nat /\ effects[c] \in Nat /\ CodeHolds(c)
         /\ IsFiniteSet(Guessing(c)) /\ Cardinality(Guessing(c)) \in Nat
<1>1. challenges[c] \in ChallengeRecord /\ guesses[c] \in Nat /\ effects[c] \in Nat /\ CodeHolds(c)
  BY DEF AccountsInv, AccountsTypeOK, CodesHold
<1>2. IsFiniteSet(Guessing(c)) /\ Cardinality(Guessing(c)) \in Nat
  BY GuessingIsFinite DEF Guessing
<1>3. QED
  BY <1>1, <1>2 DEF ChallengeRecord

\* Who guesses stays the same when r neither was nor is guessing.
LEMMA SameGuessing ==
  ASSUME NEW r \in Requests, NEW t, request' = [request EXCEPT ![r] = t],
         request \in [Requests -> RequestRecord],
         request[r].step # "consume", t.step # "consume"
  PROVE  \A c : Guessing(c)' = Guessing(c)
<1>1. request'[r] = t /\ \A q \in Requests \ {r} : request'[q] = request[q]
  OBVIOUS
<1>2. QED
  BY <1>1 DEF Guessing

\* When the handler leaves its guess, one fewer guesses its code and no other
\* code is concerned.
LEMMA OneGuessLess ==
  ASSUME NEW r \in Requests, NEW t, request' = [request EXCEPT ![r] = t],
         request \in [Requests -> RequestRecord], NEW c,
         request[r].step = "consume", request[r].code = c, t.step # "consume"
  PROVE  /\ Guessing(c)' = Guessing(c) \ {r} /\ r \in Guessing(c)
         /\ \A d : d # c => Guessing(d)' = Guessing(d)
<1>1. request'[r] = t /\ \A q \in Requests \ {r} : request'[q] = request[q]
  OBVIOUS
<1>2. QED
  BY <1>1 DEF Guessing

\* A code that ends, while nobody stops guessing it, still holds its bound.
LEMMA CodeEnds ==
  ASSUME NEW c, CodeHolds(c), challenges'[c].state = "gone",
         UNCHANGED <<guesses[c], effects[c]>>
  PROVE  CodeHolds(c)'
BY DEF CodeHolds

\* The earlier codes of the purpose are deleted.
LEMMA DeleteStep ==
  ASSUME AccountsInv, NEW r \in Requests, DeleteChallenges(r)
  PROVE  AccountsInv'
<1>1. request \in [Requests -> RequestRecord] /\ challenges \in [Challenges -> ChallengeRecord]
      /\ guesses \in [Challenges -> Nat] /\ effects \in [Challenges -> Nat]
  BY DEF AccountsInv, AccountsTypeOK
<1>2. PICK t : t = [request[r] EXCEPT !.step = "mail"]
  OBVIOUS
<1>3. t \in RequestRecord /\ t.step = "mail"
  BY <1>1, <1>2 DEF RequestRecord, RequestSteps
<1>4. request' = [request EXCEPT ![r] = t] /\ request[r].step = "replace"
      /\ UNCHANGED <<account, sessions, redeemed, guesses, effects>>
  BY <1>2 DEF DeleteChallenges, At, Continue
<1>5. PICK g : g = [c \in Challenges |-> [challenges[c] EXCEPT !.state = "gone"]]
  OBVIOUS
<1>6. \A c \in Challenges : g[c] \in ChallengeRecord /\ g[c].state = "gone"
  BY <1>1, <1>5 DEF ChallengeRecord
<1>7. \A c \in Challenges : challenges'[c] = g[c] \/ challenges'[c] = challenges[c]
  BY <1>5 DEF DeleteChallenges
<1>8. challenges' \in [Challenges -> ChallengeRecord]
  <2>1. challenges' = [c \in Challenges |-> challenges'[c]]
    BY DEF DeleteChallenges
  <2>2. \A c \in Challenges : challenges'[c] \in ChallengeRecord
    BY <1>1, <1>6, <1>7
  <2>3. QED
    BY <2>1, <2>2
<1>9. \A c : Guessing(c)' = Guessing(c)
  BY <1>1, <1>3, <1>4, SameGuessing
<1>10. ASSUME NEW c \in Challenges PROVE CodeHolds(c)'
  <2>1. CodeHolds(c)
    BY CodeFacts
  <2>2. CASE challenges'[c] = challenges[c]
    BY <1>4, <1>9, <2>1, <2>2 DEF CodeHolds
  <2>3. CASE challenges'[c].state = "gone"
    BY <1>4, <2>1, <2>3, CodeEnds
  <2>4. QED
    BY <1>6, <1>7, <2>2, <2>3
<1>11. request'[r] = t
  BY <1>1, <1>4
<1>12. RequestHolds(r)'
  BY <1>3, <1>11 DEF RequestHolds
<1>13. CodesHold'
  BY <1>10 DEF CodesHold
<1>14. QED
  BY <1>1, <1>3, <1>4, <1>8, <1>12, <1>13, CodesWrite

\* A new code: nobody has guessed it.
LEMMA CreateStep ==
  ASSUME AccountsInv, NEW r \in Requests, CreateChallenge(r)
  PROVE  AccountsInv'
<1>1. request \in [Requests -> RequestRecord] /\ challenges \in [Challenges -> ChallengeRecord]
      /\ guesses \in [Challenges -> Nat] /\ effects \in [Challenges -> Nat]
  BY DEF AccountsInv, AccountsTypeOK
<1>2. request' = [request EXCEPT ![r] = Idle] /\ request[r].step = "mail"
      /\ UNCHANGED <<account, sessions, redeemed, guesses, effects>>
  BY DEF CreateChallenge, At, Answer, Continue
<1>3. PICK c \in Challenges, outcome \in {"live", "gone"} :
        /\ challenges[c].state = "unsent"
        /\ challenges' = [challenges EXCEPT ![c] =
             [purpose |-> request[r].then, attempts |-> 0, state |-> outcome]]
  BY DEF CreateChallenge
<1>4. PICK row : row = [purpose |-> request[r].then, attempts |-> 0, state |-> outcome]
  OBVIOUS
<1>5. row \in ChallengeRecord /\ row.attempts = 0
  BY <1>1, <1>4 DEF ChallengeRecord, RequestRecord
<1>6. challenges' \in [Challenges -> ChallengeRecord] /\ challenges'[c] = row
      /\ \A d \in Challenges \ {c} : challenges'[d] = challenges[d]
  BY <1>1, <1>3, <1>4, <1>5
<1>7. \A d : Guessing(d)' = Guessing(d)
  BY <1>1, <1>2, FreshRecords, SameGuessing
<1>8. ASSUME NEW d \in Challenges \ {c} PROVE CodeHolds(d)'
  <2>1. CodeHolds(d) /\ challenges'[d] = challenges[d] /\ guesses' = guesses /\ effects' = effects
        /\ Guessing(d)' = Guessing(d)
    BY <1>2, <1>6, <1>7, CodeFacts
  <2>2. QED
    BY <2>1 DEF CodeHolds
<1>9. CodeHolds(c)'
  <2>1. guesses[c] = 0 /\ effects[c] = 0 /\ Cardinality(Guessing(c)) \in Nat
        /\ 0 < MaxAttempts + Cardinality(Requests)
    BY <1>3, CodeFacts DEF CodeHolds
  <2>2. 0 <= 0 + Cardinality(Guessing(c))
    BY <2>1
  <2>3. challenges'[c].attempts = 0 /\ guesses'[c] = 0 /\ effects'[c] = 0
        /\ Guessing(c)' = Guessing(c)
    BY <1>2, <1>5, <1>6, <1>7, <2>1
  <2>4. QED
    BY <2>1, <2>2, <2>3 DEF CodeHolds
<1>10. request'[r] = Idle
  BY <1>1, <1>2
<1>11. RequestHolds(r)'
  BY <1>10, FreshRecords DEF RequestHolds
<1>12. CodesHold'
  BY <1>8, <1>9 DEF CodesHold
<1>13. QED
  BY <1>1, <1>2, <1>6, <1>11, <1>12, FreshRecords, CodesWrite

\* A guess: the code has attempts left, and one more handler has compared it.
LEMMA GuessStep ==
  ASSUME AccountsInv, NEW r \in Requests, NEW purpose \in Purposes, NEW known \in BOOLEAN,
         ConsumeRead(r, purpose, known)
  PROVE  AccountsInv'
<1>1. request \in [Requests -> RequestRecord] /\ challenges \in [Challenges -> ChallengeRecord]
      /\ guesses \in [Challenges -> Nat] /\ effects \in [Challenges -> Nat]
  BY DEF AccountsInv, AccountsTypeOK
<1>2. PICK c \in Challenges :
        /\ challenges[c].state = "live" /\ challenges[c].attempts < MaxAttempts
        /\ guesses' = [guesses EXCEPT ![c] = @ + 1]
        /\ request' = [request EXCEPT ![r] =
             [Idle EXCEPT !.step = "consume", !.then = purpose, !.code = c, !.known = known]]
  BY DEF ConsumeRead, Latest, AttemptsLeft, Continue
<1>3. request[r] = Idle /\ account.exists
      /\ UNCHANGED <<account, sessions, redeemed, challenges, effects>>
  BY DEF ConsumeRead, Start
<1>4. PICK t : t = [Idle EXCEPT !.step = "consume", !.then = purpose, !.code = c, !.known = known]
  OBVIOUS
<1>5. c \in Nat
  BY DEF Challenges
<1>6. t \in RequestRecord /\ t.step = "consume" /\ t.code = c
  BY <1>4, <1>5, FreshRecords DEF RequestRecord, RequestSteps
<1>7. request' = [request EXCEPT ![r] = t] /\ request'[r] = t
      /\ \A q \in Requests \ {r} : request'[q] = request[q]
  BY <1>1, <1>2, <1>4
<1>8. r \notin Guessing(c) /\ Guessing(c)' = Guessing(c) \cup {r}
      /\ \A d : d # c => Guessing(d)' = Guessing(d)
  BY <1>3, <1>6, <1>7, FreshRecords DEF Guessing
<1>9. guesses' \in [Challenges -> Nat] /\ guesses'[c] = guesses[c] + 1
      /\ \A d \in Challenges \ {c} : guesses'[d] = guesses[d]
  BY <1>1, <1>2
<1>10. ASSUME NEW d \in Challenges \ {c} PROVE CodeHolds(d)'
  <2>1. CodeHolds(d) /\ challenges' = challenges /\ guesses'[d] = guesses[d] /\ effects' = effects
        /\ Guessing(d)' = Guessing(d)
    BY <1>3, <1>8, <1>9, CodeFacts
  <2>2. QED
    BY <2>1 DEF CodeHolds
<1>11. CodeHolds(c)'
  <2>1. PICK S : S = Guessing(c) \cup {r}
    OBVIOUS
  <2>2. Cardinality(S) = Cardinality(Guessing(c)) + 1 /\ Cardinality(Guessing(c)) \in Nat
    BY <1>8, <2>1, CodeFacts, OneJoins
  <2>3. Cardinality(S) <= Cardinality(Requests) /\ Cardinality(Requests) \in Nat
    BY <2>1, GuessingIsFinite DEF Guessing
  <2>4. effects[c] = 0 /\ guesses[c] <= challenges[c].attempts + Cardinality(Guessing(c))
        /\ challenges[c].attempts \in Nat /\ guesses[c] \in Nat
    BY <1>2, CodeFacts DEF CodeHolds
  <2>5. /\ guesses[c] + 1 <= challenges[c].attempts + Cardinality(S)
        /\ guesses[c] + 1 < MaxAttempts + Cardinality(Requests)
    BY <1>2, <2>2, <2>3, <2>4, AccountsAssumption
  <2>6. Guessing(c)' = S /\ challenges' = challenges /\ effects' = effects
        /\ guesses'[c] = guesses[c] + 1
    BY <1>3, <1>8, <1>9, <2>1
  <2>7. QED
    BY <1>2, <2>4, <2>5, <2>6 DEF CodeHolds
<1>12. RequestHolds(r)'
  BY <1>3, <1>6, <1>7 DEF RequestHolds
<1>13. CodesHold'
  BY <1>10, <1>11 DEF CodesHold
<1>14. QED
  BY <1>1, <1>3, <1>6, <1>7, <1>9, <1>12, <1>13, CodesWrite

\* A wrong guess is counted, on a row that is still there.
LEMMA CountStep ==
  ASSUME AccountsInv, NEW r \in Requests, CountAttempt(r)
  PROVE  AccountsInv'
<1>1. request \in [Requests -> RequestRecord] /\ challenges \in [Challenges -> ChallengeRecord]
      /\ guesses \in [Challenges -> Nat] /\ effects \in [Challenges -> Nat] /\ RequestHolds(r)
  BY DEF AccountsInv, AccountsTypeOK, RequestsHold
<1>2. request' = [request EXCEPT ![r] = Idle] /\ request[r].step = "consume"
      /\ UNCHANGED <<account, sessions, redeemed, guesses, effects>>
  BY DEF CountAttempt, At, Answer, Continue
<1>3. PICK c \in Challenges : c = request[r].code
  BY <1>1, <1>2 DEF RequestHolds
<1>4. r \in Guessing(c) /\ Guessing(c)' = Guessing(c) \ {r}
      /\ \A d : d # c => Guessing(d)' = Guessing(d)
  BY <1>1, <1>2, <1>3, FreshRecords, OneGuessLess
<1>5. PICK row : row = [challenges[c] EXCEPT !.attempts = @ + 1]
  OBVIOUS
<1>6. row \in ChallengeRecord /\ row.attempts = challenges[c].attempts + 1
      /\ row.state = challenges[c].state
  BY <1>1, <1>5 DEF ChallengeRecord
<1>7. /\ challenges' \in [Challenges -> ChallengeRecord]
      /\ challenges[c].state = "gone" => challenges'[c] = challenges[c]
      /\ challenges[c].state # "gone" => challenges'[c] = row
      /\ \A d \in Challenges \ {c} : challenges'[d] = challenges[d]
  <2>1. CASE challenges[c].state = "gone"
    BY <1>1, <1>3, <2>1 DEF CountAttempt
  <2>2. CASE challenges[c].state # "gone"
    <3>1. challenges' = [challenges EXCEPT ![c] = row]
      BY <1>3, <1>5, <2>2 DEF CountAttempt
    <3>2. QED
      BY <1>1, <1>6, <2>2, <3>1
  <2>3. QED
    BY <2>1, <2>2
<1>8. ASSUME NEW d \in Challenges \ {c} PROVE CodeHolds(d)'
  <2>1. CodeHolds(d) /\ challenges'[d] = challenges[d] /\ guesses' = guesses /\ effects' = effects
        /\ Guessing(d)' = Guessing(d)
    BY <1>2, <1>4, <1>7, CodeFacts
  <2>2. QED
    BY <2>1 DEF CodeHolds
<1>9. CodeHolds(c)'
  <2>1. CodeHolds(c) /\ guesses' = guesses /\ effects' = effects
    BY <1>2, CodeFacts
  <2>2. CASE challenges[c].state = "gone"
    <3>1. challenges'[c].state = "gone"
      BY <1>7, <2>2
    <3>2. QED
      BY <2>1, <3>1, CodeEnds
  <2>3. CASE challenges[c].state # "gone"
    <3>1. PICK S : S = Guessing(c) \ {r}
      OBVIOUS
    <3>2. Cardinality(S) = Cardinality(Guessing(c)) - 1 /\ Cardinality(Guessing(c)) \in Nat
          /\ Cardinality(S) \in Nat
      BY <1>4, <3>1, CodeFacts, OneLeaves
    <3>3. guesses[c] <= challenges[c].attempts + Cardinality(Guessing(c))
          /\ challenges[c].attempts \in Nat /\ guesses[c] \in Nat
      BY <2>1, <2>3, CodeFacts DEF CodeHolds
    <3>4. guesses[c] <= (challenges[c].attempts + 1) + Cardinality(S)
      BY <3>2, <3>3
    <3>5. Guessing(c)' = S /\ challenges'[c].attempts = challenges[c].attempts + 1
          /\ challenges'[c].state = challenges[c].state
      BY <1>4, <1>6, <1>7, <2>3, <3>1
    <3>6. QED
      BY <2>1, <2>3, <3>4, <3>5 DEF CodeHolds
  <2>4. QED
    BY <2>2, <2>3
<1>10. request'[r] = Idle
  BY <1>1, <1>2
<1>11. RequestHolds(r)'
  BY <1>10, FreshRecords DEF RequestHolds
<1>12. CodesHold'
  BY <1>8, <1>9 DEF CodesHold
<1>13. QED
  BY <1>1, <1>2, <1>7, <1>11, <1>12, FreshRecords, CodesWrite

\* A right guess takes effect for the one that removes the row.
LEMMA ConsumeStep ==
  ASSUME AccountsInv, NEW r \in Requests, ConsumeChallenge(r)
  PROVE  AccountsInv'
<1>1. request \in [Requests -> RequestRecord] /\ challenges \in [Challenges -> ChallengeRecord]
      /\ guesses \in [Challenges -> Nat] /\ effects \in [Challenges -> Nat] /\ RequestHolds(r)
  BY DEF AccountsInv, AccountsTypeOK, RequestsHold
<1>2. request[r].step = "consume" /\ UNCHANGED <<account, sessions, redeemed, guesses>>
  BY DEF ConsumeChallenge, At
<1>3. PICK c \in Challenges : c = request[r].code
  BY <1>1, <1>2 DEF RequestHolds
<1>4. PICK t \in RequestRecord : request' = [request EXCEPT ![r] = t] /\ t.step \in {"idle", "apply"}
  <2>1. PICK x : x = [request[r] EXCEPT !.step = "apply"]
    OBVIOUS
  <2>2. x \in RequestRecord /\ x.step = "apply"
    BY <1>1, <2>1 DEF RequestRecord, RequestSteps
  <2>3. request' = [request EXCEPT ![r] = x] \/ request' = [request EXCEPT ![r] = Idle]
    BY <2>1 DEF ConsumeChallenge, Continue
  <2>4. QED
    BY <2>2, <2>3, FreshRecords
<1>5. \A d : d # c => Guessing(d)' = Guessing(d)
  BY <1>1, <1>2, <1>3, <1>4, OneGuessLess
<1>6. PICK row : row = [challenges[c] EXCEPT !.state = "gone"]
  OBVIOUS
<1>7. row \in ChallengeRecord /\ row.state = "gone"
  BY <1>1, <1>6 DEF ChallengeRecord
<1>8. challenges' \in [Challenges -> ChallengeRecord] /\ challenges'[c] = row
      /\ \A d \in Challenges \ {c} : challenges'[d] = challenges[d]
  <2>1. challenges' = [challenges EXCEPT ![c] = row]
    BY <1>3, <1>6 DEF ConsumeChallenge
  <2>2. QED
    BY <1>1, <1>7, <2>1
<1>9. /\ effects' \in [Challenges -> Nat] /\ effects'[c] <= 1
      /\ \A d \in Challenges \ {c} : effects'[d] = effects[d]
  <2>1. CASE DeletedOne(c)
    <3>1. effects' = [effects EXCEPT ![c] = @ + 1]
      BY <1>3, <2>1 DEF ConsumeChallenge
    <3>2. effects[c] = 0
      BY <2>1, CodeFacts DEF CodeHolds, DeletedOne
    <3>3. QED
      BY <1>1, <3>1, <3>2
  <2>2. CASE ~DeletedOne(c)
    <3>1. effects' = effects /\ effects[c] <= 1
      BY <1>3, <2>2, CodeFacts DEF ConsumeChallenge, CodeHolds
    <3>2. QED
      BY <1>1, <3>1
  <2>3. QED
    BY <2>1, <2>2
<1>10. ASSUME NEW d \in Challenges \ {c} PROVE CodeHolds(d)'
  <2>1. CodeHolds(d) /\ challenges'[d] = challenges[d] /\ guesses' = guesses
        /\ effects'[d] = effects[d] /\ Guessing(d)' = Guessing(d)
    BY <1>2, <1>5, <1>8, <1>9, CodeFacts
  <2>2. QED
    BY <2>1 DEF CodeHolds
<1>11. CodeHolds(c)'
  <2>1. CodeHolds(c) /\ challenges'[c].state = "gone" /\ guesses' = guesses /\ effects'[c] <= 1
    BY <1>2, <1>7, <1>8, <1>9, CodeFacts
  <2>2. QED
    BY <2>1 DEF CodeHolds
<1>12. request'[r] = t
  BY <1>1, <1>4
<1>13. RequestHolds(r)'
  BY <1>1, <1>2, <1>4, <1>12 DEF RequestHolds
<1>14. CodesHold'
  BY <1>10, <1>11 DEF CodesHold
<1>15. guesses' \in [Challenges -> Nat]
  BY <1>1, <1>2
<1>16. QED
  BY <1>2, <1>4, <1>8, <1>9, <1>13, <1>14, <1>15, CodesWrite

\* A code runs out of time: it can still be consumed by whoever has read it.
LEMMA ExpireStep ==
  ASSUME AccountsInv, NEW c \in Challenges, CodeExpires(c)
  PROVE  AccountsInv'
<1>1. challenges \in [Challenges -> ChallengeRecord]
  BY DEF AccountsInv, AccountsTypeOK
<1>2. challenges' = [challenges EXCEPT ![c].state = "stale"] /\ challenges[c].state = "live"
      /\ UNCHANGED <<account, sessions, request, guesses, effects, redeemed>>
  BY DEF CodeExpires
<1>3. PICK row : row = [challenges[c] EXCEPT !.state = "stale"]
  OBVIOUS
<1>4. row \in ChallengeRecord /\ row.state = "stale" /\ row.attempts = challenges[c].attempts
  BY <1>1, <1>3 DEF ChallengeRecord
<1>5. challenges' \in [Challenges -> ChallengeRecord] /\ challenges'[c] = row
      /\ \A d \in Challenges \ {c} : challenges'[d] = challenges[d]
  BY <1>1, <1>2, <1>3, <1>4
<1>6. \A d : Guessing(d)' = Guessing(d)
  BY <1>2 DEF Guessing
<1>7. ASSUME NEW d \in Challenges PROVE CodeHolds(d)'
  <2>1. CodeHolds(d) /\ guesses' = guesses /\ effects' = effects /\ Guessing(d)' = Guessing(d)
    BY <1>2, <1>6, CodeFacts
  <2>2. CASE d = c
    BY <1>2, <1>4, <1>5, <2>1, <2>2 DEF CodeHolds
  <2>3. CASE d # c
    BY <1>5, <2>1, <2>3 DEF CodeHolds
  <2>4. QED
    BY <2>2, <2>3
<1>8. CodesHold'
  BY <1>7 DEF CodesHold
<1>9. RequestsHold' /\ SessionsHold'
  BY <1>2 DEF AccountsInv, RequestsHold, RequestHolds, SessionsHold, AccountHolds, SessionHolds
<1>10. AccountsTypeOK'
  BY <1>2, <1>5 DEF AccountsInv, AccountsTypeOK
<1>11. QED
  BY <1>8, <1>9, <1>10 DEF AccountsInv

\* Every step keeps the invariant.
LEMMA AccountsStep == AccountsInv /\ [AccountsNext]_accountsVars => AccountsInv'
<1> SUFFICES ASSUME AccountsInv, [AccountsNext]_accountsVars PROVE AccountsInv'
  OBVIOUS
<1>1. ASSUME NEW r \in Requests,
             \/ RegisterRead(r) \/ CreateSessionForUser(r)
             \/ \E password : LoginRead(r, password)
             \/ ResendEmailOtp(r) \/ ForgotPassword(r) \/ CheckCooldown(r)
             \/ VerifyAuthentication(r) \/ PasskeyVerified(r) \/ GoogleRead(r)
      PROVE  AccountsInv'
  BY <1>1, HandlersRead
<1>2. ASSUME NEW r \in Requests, NEW s \in Sessions,
             RefreshRead(r, s) \/ \E password : ChangePasswordRead(r, s, password)
      PROVE  AccountsInv'
  BY <1>2, SessionsRead
<1>3. ASSUME NEW r \in Requests, RegisterCreate(r) \/ VerifyEmail(r) \/ GoogleLink(r)
      PROVE  AccountsInv'
  BY <1>3, AccountStep
<1>4. ASSUME NEW r \in Requests, ResetPassword(r) \/ ChangePassword(r) PROVE AccountsInv'
  BY <1>4, PasswordStep
<1>5. ASSUME NEW r \in Requests, NEW p \in Purposes, NEW known \in BOOLEAN,
             ConsumeRead(r, p, known)
      PROVE  AccountsInv'
  BY <1>5, GuessStep
<1>6. ASSUME NEW r \in Requests, IssueSession(r) PROVE AccountsInv'
  BY <1>6, IssueStep
<1>7. ASSUME NEW r \in Requests, RefreshRotate(r) PROVE AccountsInv'
  BY <1>7, RotateStep
<1>8. ASSUME NEW r \in Requests, DeleteChallenges(r) PROVE AccountsInv'
  BY <1>8, DeleteStep
<1>9. ASSUME NEW r \in Requests, CreateChallenge(r) PROVE AccountsInv'
  BY <1>9, CreateStep
<1>10. ASSUME NEW r \in Requests, CountAttempt(r) PROVE AccountsInv'
  BY <1>10, CountStep
<1>11. ASSUME NEW r \in Requests, ConsumeChallenge(r) PROVE AccountsInv'
  BY <1>11, ConsumeStep
<1>12. ASSUME NEW c \in Challenges, CodeExpires(c) PROVE AccountsInv'
  BY <1>12, ExpireStep
<1>13. ASSUME \/ \E s \in Sessions :
                   Logout(s) \/ RegistrationOptions(s) \/ VerifyRegistration(s) \/ RemovePasskey(s)
              \/ AuthenticationOptions \/ Suspend \/ UNCHANGED accountsVars
              \/ \E p \in Purposes : CooldownEnds(p)
       PROVE  AccountsInv'
  BY <1>13, OthersStep
<1>14. QED
  BY <1>1, <1>2, <1>3, <1>4, <1>5, <1>6, <1>7, <1>8, <1>9, <1>10, <1>11, <1>12, <1>13
     DEF AccountsNext

\* In every reachable state the handlers, sessions and codes are as the
\* invariant says.
LEMMA AccountsInvariant == AccountsSpec => []AccountsInv
BY AccountsStart, AccountsStep, PTL DEF AccountsSpec

\* A session lives only with the present password, by refresh tokens exchanged
\* at most once, and for an address somebody has proven (resetPassword,
\* changePassword, issueTokens, google-auth and passkey sign-in).
THEOREM SessionsCorrect == AccountsSpec => []SessionsAreSound
<1>1. AccountsInv => SessionsAreSound
  BY DEF AccountsInv, SessionsHold, SessionHolds, SessionsAreSound, SessionsEndWithPassword,
         RefreshTokenIsSingleUse, SessionsAreVerified, LiveSession
<1>2. QED
  BY <1>1, AccountsInvariant, PTL

\* Concurrent guesses of a one-time code stay below the limit plus the number
\* of handlers, and the code takes effect once (consumeOtp).
THEOREM CodesCorrect == AccountsSpec => []CodesAreSound
<1>1. AccountsInv => CodesAreSound
  BY DEF AccountsInv, CodesHold, CodeHolds, CodesAreSound, GuessesAreBounded, CodeTakesEffectOnce
<1>2. QED
  BY <1>1, AccountsInvariant, PTL

-----------------------------------------------------------------------------
(***************************************************************************)
(* Staff.                                                                  *)
(***************************************************************************)

\* The ten roles of the table.
LEMMA TenRoles ==
  StaffRoles = {"SUPER_ADMIN", "OPERATIONS_ADMIN", "FINANCE_ADMIN", "RISK_COMPLIANCE_ADMIN",
                "MERCHANT_ADMIN", "CUSTOMER_SUPPORT_ADMIN", "CREDIT_BNPL_ADMIN",
                "AUDIT_OBSERVER_ADMIN", "REGIONAL_ADMIN", "COMPLIANCE_LEAD"}
BY DEF StaffRoles, StaffPermissions

\* The roles that list a permission, or have all of them, are those of the
\* controllers that compare the role.
LEMMA DesksMatchTable ==
  /\ RewardsDesk = {r \in StaffRoles : StaffMay(r, "rewards.manage")}
  /\ SupportDesk = {r \in StaffRoles : StaffMay(r, "support.tickets.manage")}
  /\ CreditDesk = {r \in StaffRoles : StaffMay(r, "bnpl.loan.create")}
  /\ \A route \in DOMAIN StaffRoutes : StaffMay("SUPER_ADMIN", StaffRoutes[route])
<1> DEFINE Lists(p) == {r \in StaffRoles : p \in StaffPermissions[r] \/ "admin.*" \in StaffPermissions[r]}
<1>1. ASSUME NEW p PROVE {r \in StaffRoles : StaffMay(r, p)} = Lists(p)
  BY DEF StaffMay
<1>2. /\ StaffPermissions["SUPER_ADMIN"] = {"admin.*"}
      /\ StaffPermissions["OPERATIONS_ADMIN"] = OperationsPermissions
      /\ StaffPermissions["FINANCE_ADMIN"] = FinancePermissions
      /\ StaffPermissions["RISK_COMPLIANCE_ADMIN"] = CompliancePermissions \cup {"risk.blacklist.remove"}
      /\ StaffPermissions["MERCHANT_ADMIN"] = MerchantPermissions
      /\ StaffPermissions["CUSTOMER_SUPPORT_ADMIN"] = SupportPermissions
      /\ StaffPermissions["CREDIT_BNPL_ADMIN"] = CreditPermissions
      /\ StaffPermissions["AUDIT_OBSERVER_ADMIN"] = AuditPermissions
      /\ StaffPermissions["REGIONAL_ADMIN"] = RegionalPermissions
      /\ StaffPermissions["COMPLIANCE_LEAD"] = CompliancePermissions \cup {"audit.export"}
  BY DEF StaffPermissions
<1>3. \A p \in {"rewards.manage", "support.tickets.manage", "bnpl.loan.create", "admin.*"} :
        /\ p \notin CompliancePermissions \cup {"risk.blacklist.remove", "audit.export"}
        /\ p \notin MerchantPermissions
        /\ p \notin AuditPermissions
        /\ p \notin RegionalPermissions
        /\ p \in OperationsPermissions <=> p \in {"rewards.manage", "support.tickets.manage"}
        /\ p \in FinancePermissions <=> p = "rewards.manage"
        /\ p \in SupportPermissions <=> p = "support.tickets.manage"
        /\ p \in CreditPermissions <=> p = "bnpl.loan.create"
        /\ p \in {"admin.*"} <=> p = "admin.*"
  BY DEF CompliancePermissions, MerchantPermissions, AuditPermissions, RegionalPermissions,
         OperationsPermissions, FinancePermissions, SupportPermissions, CreditPermissions
<1> HIDE DEF Lists
<1>4. Lists("rewards.manage") = RewardsDesk
  BY <1>2, <1>3, TenRoles DEF RewardsDesk, Lists
<1>5. Lists("support.tickets.manage") = SupportDesk
  BY <1>2, <1>3, TenRoles DEF SupportDesk, Lists
<1>6. Lists("bnpl.loan.create") = CreditDesk
  BY <1>2, <1>3, TenRoles DEF CreditDesk, Lists
<1>7. \A p : StaffMay("SUPER_ADMIN", p)
  BY <1>2 DEF StaffMay
<1>8. QED
  BY <1>1, <1>4, <1>5, <1>6, <1>7

StaffRecord ==
  [status : {"none", "ACTIVE", "INACTIVE"}, role : StaffRoles \cup {"none"},
   password : Nat, temporary : BOOLEAN]
LoginRecord ==
  [state : {"none", "live", "revoked"}, member : Members, password : Nat, late : BOOLEAN]
DeskRecord ==
  [step : {"waiting", "session", "password", "create", "update", "deactivate", "revoke"},
   actor : Members, target : Members, role : StaffRoles \cup {"none"},
   status : {"none", "ACTIVE", "INACTIVE"}, password : Nat, late : BOOLEAN]

StaffTypeOK ==
  /\ staff \in [Members -> StaffRecord]
  /\ logins \in [Logins -> LoginRecord]
  /\ desk \in [Desks -> DeskRecord]
  /\ stoodDown \in BOOLEAN /\ overtaken \in BOOLEAN

\* Every row of staff holds a role of the table.
RolesHeld == \A m \in Members : staff[m].status # "none" => staff[m].role \in StaffRoles

\* What a handler has checked and still relies on: the row exists, nobody
\* deactivates himself, and a login holds the present password or is late.
DeskHolds(d) ==
  /\ desk[d].step = "session" =>
       /\ staff[desk[d].actor].status # "none"
       /\ desk[d].password = staff[desk[d].actor].password \/ desk[d].late
  /\ desk[d].step = "create" => desk[d].role \in StaffRoles
  /\ desk[d].step \in {"update", "deactivate"} => staff[desk[d].target].status # "none"
  /\ desk[d].step = "deactivate" => desk[d].target # desk[d].actor

\* A live session belongs to a row, and has its password or is late.
LoginHolds(l) ==
  logins[l].state = "live" =>
    /\ staff[logins[l].member].status # "none"
    /\ logins[l].password = staff[logins[l].member].password \/ logins[l].late

StaffInv ==
  /\ StaffTypeOK
  /\ RolesHeld
  /\ \A d \in Desks : DeskHolds(d)
  /\ \A l \in Logins : LoginHolds(l)
  /\ AdminLossHasCause

\* A handler with nothing to do, and a row that does not exist.
LEMMA IdleDesk == Waiting \in DeskRecord /\ Waiting.step = "waiting" /\ NoStaff \in StaffRecord
BY StaffAssumption DEF Waiting, DeskRecord, NoStaff, StaffRecord

\* The invariant holds at first.
LEMMA StaffStarts == StaffInit => StaffInv
<1> SUFFICES ASSUME StaffInit PROVE StaffInv
  OBVIOUS
<1>1. StaffTypeOK
  BY IdleDesk, StaffAssumption, TenRoles DEF StaffInit, StaffTypeOK, StaffRecord, LoginRecord
<1>2. RolesHeld
  BY TenRoles DEF StaffInit, RolesHeld, NoStaff
<1>3. \A d \in Desks : DeskHolds(d)
  BY IdleDesk DEF StaffInit, DeskHolds
<1>4. \A l \in Logins : LoginHolds(l)
  BY DEF StaffInit, LoginHolds
<1>5. SuperAdmin(FirstAdmin)
  BY StaffAssumption DEF StaffInit, SuperAdmin, Active
<1>6. QED
  BY <1>1, <1>2, <1>3, <1>4, <1>5, StaffAssumption DEF StaffInv, AdminLossHasCause

\* What only a change of password does not leave alone: rows stay rows, with
\* their password.
RowsKept ==
  \A m \in Members : staff[m].status # "none" =>
    staff'[m].status # "none" /\ staff'[m].password = staff[m].password

\* A step that keeps the rows, ends or begins sound handlers, and ends or begins
\* sound sessions.
LEMMA StaffFrame ==
  ASSUME StaffInv, RowsKept, StaffTypeOK', RolesHeld', AdminLossHasCause',
         \A d \in Desks : desk'[d] = desk[d] \/ DeskHolds(d)',
         \A l \in Logins : logins'[l] = logins[l] \/ LoginHolds(l)'
  PROVE  StaffInv'
<1>1. ASSUME NEW d \in Desks, desk'[d] = desk[d] PROVE DeskHolds(d)'
  <2>1. DeskHolds(d) /\ desk[d] \in DeskRecord
    BY DEF StaffInv, StaffTypeOK
  <2>2. desk[d].actor \in Members /\ desk[d].target \in Members
    BY <2>1 DEF DeskRecord
  <2>3. QED
    BY <1>1, <2>1, <2>2 DEF DeskHolds, RowsKept
<1>2. ASSUME NEW l \in Logins, logins'[l] = logins[l] PROVE LoginHolds(l)'
  <2>1. LoginHolds(l) /\ logins[l].member \in Members
    BY DEF StaffInv, StaffTypeOK, LoginRecord
  <2>2. QED
    BY <1>2, <2>1 DEF LoginHolds, RowsKept
<1>3. QED
  BY <1>1, <1>2 DEF StaffInv

\* A request that only reads, and the end of one that writes no row of staff.
LEMMA StaffReads ==
  ASSUME StaffInv, NEW d \in Desks, NEW t \in DeskRecord, desk' = [desk EXCEPT ![d] = t],
         DeskHolds(d)', UNCHANGED <<staff, stoodDown, overtaken>>,
         logins' \in [Logins -> LoginRecord],
         \A l \in Logins : logins'[l] = logins[l] \/ LoginHolds(l)'
  PROVE  StaffInv'
<1>1. StaffTypeOK'
  BY DEF StaffInv, StaffTypeOK
<1>2. RowsKept /\ RolesHeld' /\ AdminLossHasCause'
  BY DEF StaffInv, RowsKept, RolesHeld, AdminLossHasCause, SuperAdmin, Active
<1>3. \A e \in Desks : desk'[e] = desk[e] \/ DeskHolds(e)'
  BY DEF StaffInv, StaffTypeOK
<1>4. QED
  BY <1>1, <1>2, <1>3, StaffFrame

\* Requests of staff that sign in or change their password, up to the write.
LEMMA StaffSignsIn ==
  ASSUME StaffInv, NEW d \in Desks, NEW m \in Members, NEW password \in 1..2,
         StaffLogin(d, m, password) \/ StaffPasswordRead(d, m, password)
  PROVE  StaffInv'
<1> DEFINE login == [Waiting EXCEPT !.step = "session", !.actor = m, !.password = password]
           change == [Waiting EXCEPT !.step = "password", !.actor = m]
<1>0. password \in Nat
  OBVIOUS
<1>1. /\ login \in DeskRecord
      /\ login.step = "session" /\ login.actor = m /\ login.password = password
      /\ change \in DeskRecord /\ change.step = "password"
  <2>1. Waiting \in DeskRecord
    BY IdleDesk
  <2>2. QED
    BY <1>0, <2>1 DEF DeskRecord
<1> HIDE DEF login, change
<1>2. logins' = logins /\ UNCHANGED <<staff, stoodDown, overtaken>> /\ logins \in [Logins -> LoginRecord]
  BY DEF StaffLogin, StaffPasswordRead, StaffInv, StaffTypeOK
<1>3. CASE StaffLogin(d, m, password)
  <2>1. desk' = [desk EXCEPT ![d] = login] /\ staff[m].status = "ACTIVE" /\ password = staff[m].password
    BY <1>3 DEF StaffLogin, Open, Active, login
  <2>2. desk'[d] = login
    BY <2>1 DEF StaffInv, StaffTypeOK
  <2>3. DeskHolds(d)'
    BY <1>1, <1>2, <2>1, <2>2 DEF DeskHolds
  <2>4. QED
    BY <1>1, <1>2, <2>1, <2>3, StaffReads
<1>4. CASE StaffPasswordRead(d, m, password)
  <2>1. desk' = [desk EXCEPT ![d] = change]
    BY <1>4 DEF StaffPasswordRead, Open, change
  <2>2. desk'[d] = change
    BY <2>1 DEF StaffInv, StaffTypeOK
  <2>3. DeskHolds(d)'
    BY <1>1, <2>2 DEF DeskHolds
  <2>4. QED
    BY <1>1, <1>2, <2>1, <2>3, StaffReads
<1>5. QED
  BY <1>3, <1>4

\* Requests that manage staff, up to the write.
LEMMA StaffManages ==
  ASSUME StaffInv, NEW d \in Desks, NEW actor \in Members, NEW m \in Members,
         NEW role \in GivenRoles \cup {"none"}, NEW status \in {"none", "ACTIVE", "INACTIVE"},
         \/ role # "none" /\ CreateRead(d, actor, m, role)
         \/ UpdateRead(d, actor, m, role, status)
         \/ DeactivateRead(d, actor, m)
  PROVE  StaffInv'
<1>0. role \in StaffRoles \cup {"none"} /\ (role # "none" => role \in StaffRoles)
  BY StaffAssumption
<1>1. PICK t \in DeskRecord :
        /\ desk' = [desk EXCEPT ![d] = t]
        /\ t.actor = actor /\ t.target = m /\ t.role \in StaffRoles \cup {"none"}
        /\ \/ t.step = "create" /\ t.role \in StaffRoles
           \/ t.step = "update" /\ staff[m].status # "none"
           \/ t.step = "deactivate" /\ staff[m].status # "none" /\ m # actor
  <2>1. CASE role # "none" /\ CreateRead(d, actor, m, role)
    <3> DEFINE t == [Waiting EXCEPT !.step = "create", !.actor = actor, !.target = m, !.role = role]
    <3>1. t \in DeskRecord /\ t.actor = actor /\ t.target = m /\ t.role = role /\ t.step = "create"
      BY <1>0, StaffAssumption DEF Waiting, DeskRecord
    <3>2. desk' = [desk EXCEPT ![d] = t]
      BY <2>1 DEF CreateRead, Open
    <3> HIDE DEF t
    <3>3. QED
      BY <1>0, <2>1, <3>1, <3>2
  <2>2. CASE UpdateRead(d, actor, m, role, status)
    <3> DEFINE t == [Waiting EXCEPT !.step = "update", !.actor = actor, !.target = m,
                                    !.role = role, !.status = status]
    <3>1. t \in DeskRecord /\ t.actor = actor /\ t.target = m /\ t.role = role /\ t.step = "update"
      BY <1>0, StaffAssumption DEF Waiting, DeskRecord
    <3>2. desk' = [desk EXCEPT ![d] = t] /\ staff[m].status # "none"
      BY <2>2 DEF UpdateRead, Open
    <3> HIDE DEF t
    <3>3. QED
      BY <1>0, <3>1, <3>2
  <2>3. CASE DeactivateRead(d, actor, m)
    <3> DEFINE t == [Waiting EXCEPT !.step = "deactivate", !.actor = actor, !.target = m]
    <3>1. t \in DeskRecord /\ t.actor = actor /\ t.target = m /\ t.role = "none" /\ t.step = "deactivate"
      BY StaffAssumption DEF Waiting, DeskRecord
    <3>2. desk' = [desk EXCEPT ![d] = t] /\ staff[m].status # "none" /\ m # actor
      BY <2>3 DEF DeactivateRead, Deactivatable, Open
    <3> HIDE DEF t
    <3>3. QED
      BY <3>1, <3>2
  <2>4. QED
    BY <2>1, <2>2, <2>3
<1>2. logins' = logins /\ UNCHANGED <<staff, stoodDown, overtaken>> /\ logins \in [Logins -> LoginRecord]
  BY DEF CreateRead, UpdateRead, DeactivateRead, StaffInv, StaffTypeOK
<1>3. desk'[d] = t
  BY <1>1 DEF StaffInv, StaffTypeOK
<1>4. DeskHolds(d)'
  BY <1>1, <1>2, <1>3 DEF DeskHolds
<1>5. QED
  BY <1>1, <1>2, <1>4, StaffReads

\* Sessions that end keep what is left sound.
LEMMA SignedOutSound ==
  ASSUME StaffInv, NEW m, logins' = SignedOut(m)
  PROVE  /\ logins' \in [Logins -> LoginRecord]
         /\ \A l \in Logins : logins'[l] = logins[l] \/ logins'[l].state = "revoked"
         /\ \A l \in Logins : logins'[l].state = "live" =>
              logins'[l] = logins[l] /\ logins[l].member # m
BY DEF StaffInv, StaffTypeOK, SignedOut, LoginRecord

\* A login ends with a session, a deactivation with the end of all of them.
LEMMA StaffSessions ==
  ASSUME StaffInv, NEW d \in Desks, IssueTokens(d) \/ RevokeLogins(d)
  PROVE  StaffInv'
<1>0. StaffTypeOK /\ UNCHANGED <<staff, stoodDown, overtaken>>
  BY DEF StaffInv, IssueTokens, RevokeLogins
<1>1. CASE IssueTokens(d)
  <2>1. desk[d] \in DeskRecord /\ DeskHolds(d) /\ desk[d].step = "session"
    BY <1>0, <1>1 DEF StaffInv, StaffTypeOK, IssueTokens
  <2>2. PICK k \in Logins : logins' = [logins EXCEPT ![k] =
            [state |-> "live", member |-> desk[d].actor,
             password |-> desk[d].password, late |-> desk[d].late]]
    BY <1>1 DEF IssueTokens
  <2>3. logins' \in [Logins -> LoginRecord]
    BY <1>0, <2>1, <2>2 DEF StaffTypeOK, LoginRecord, DeskRecord
  <2>4. LoginHolds(k)' /\ \A e \in Logins \ {k} : logins'[e] = logins[e]
    BY <1>0, <2>1, <2>2 DEF StaffTypeOK, LoginHolds, DeskHolds
  <2>5. desk' = [desk EXCEPT ![d] = Waiting] /\ desk'[d] = Waiting
    BY <1>0, <1>1 DEF IssueTokens, Close, StaffTypeOK
  <2>6. DeskHolds(d)'
    BY <2>5, IdleDesk DEF DeskHolds
  <2>7. QED
    BY <1>0, <2>3, <2>4, <2>5, <2>6, IdleDesk, StaffReads
<1>2. CASE RevokeLogins(d)
  <2>1. logins' \in [Logins -> LoginRecord]
        /\ \A k \in Logins : logins'[k] = logins[k] \/ logins'[k].state = "revoked"
    <3>1. PICK m : m = desk[d].target
      OBVIOUS
    <3>2. logins' = SignedOut(m)
      BY <1>2, <3>1 DEF RevokeLogins
    <3>3. QED
      BY <3>2, SignedOutSound
  <2>2. \A k \in Logins : logins'[k] = logins[k] \/ LoginHolds(k)'
    BY <2>1 DEF LoginHolds
  <2>3. desk' = [desk EXCEPT ![d] = Waiting] /\ desk'[d] = Waiting
    BY <1>0, <1>2 DEF RevokeLogins, Close, StaffTypeOK
  <2>4. DeskHolds(d)'
    BY <2>3, IdleDesk DEF DeskHolds
  <2>5. QED
    BY <1>0, <2>1, <2>2, <2>3, <2>4, IdleDesk, StaffReads
<1>3. QED
  BY <1>1, <1>2

\* A new password ends the sessions that had the old one, and every login under
\* way that compared it is late.
LEMMA PasswordChanges ==
  ASSUME StaffInv, NEW d \in Desks, StaffChangePassword(d) PROVE StaffInv'
<1>0. StaffTypeOK
  BY DEF StaffInv
<1>1. PICK m \in Members : m = desk[d].actor
  BY <1>0 DEF StaffTypeOK, DeskRecord
<1>2. staff' = [staff EXCEPT ![m].password = @ + 1, ![m].temporary = FALSE]
      /\ logins' = SignedOut(m) /\ UNCHANGED <<stoodDown, overtaken>>
  BY <1>1 DEF StaffChangePassword, LoginsAfterChange
<1>3. staff' \in [Members -> StaffRecord]
      /\ \A k \in Members : staff'[k].status = staff[k].status /\ staff'[k].role = staff[k].role
                            /\ (k # m => staff'[k] = staff[k])
  <2>1. staff[m] \in StaffRecord /\ staff \in [Members -> StaffRecord]
    BY <1>0 DEF StaffTypeOK
  <2>0. PICK p \in Nat : p = staff[m].password + 1
    BY <2>1 DEF StaffRecord
  <2>2. PICK t : t = [staff[m] EXCEPT !.password = p, !.temporary = FALSE]
    OBVIOUS
  <2>3. staff' = [staff EXCEPT ![m] = t]
    BY <1>2, <2>0, <2>1, <2>2
  <2>4. t \in StaffRecord /\ t.status = staff[m].status /\ t.role = staff[m].role
    BY <2>1, <2>2 DEF StaffRecord
  <2>5. QED
    BY <2>1, <2>3, <2>4
<1>4. desk' = [e \in Desks |->
          IF e = d THEN Waiting
          ELSE IF desk[e].step = "session" /\ desk[e].actor = m
          THEN [desk[e] EXCEPT !.late = TRUE] ELSE desk[e]]
  BY <1>1 DEF StaffChangePassword
<1>5. desk' \in [Desks -> DeskRecord]
  <2>1. ASSUME NEW e \in Desks PROVE desk'[e] \in DeskRecord
    <3>1. desk[e] \in DeskRecord /\ [desk[e] EXCEPT !.late = TRUE] \in DeskRecord
      BY <1>0 DEF StaffTypeOK, DeskRecord
    <3>2. QED
      BY <1>4, <3>1, IdleDesk
  <2>2. QED
    BY <1>4, <2>1
<1>6. ASSUME NEW e \in Desks PROVE DeskHolds(e)'
  <2>1. desk[e] \in DeskRecord /\ DeskHolds(e)
    BY <1>0 DEF StaffTypeOK, StaffInv
  <2>2. CASE e = d
    BY <1>4, <2>2, IdleDesk DEF DeskHolds
  <2>3. CASE e # d /\ desk[e].step = "session" /\ desk[e].actor = m
    <3>1. desk'[e] = [desk[e] EXCEPT !.late = TRUE]
      BY <1>4, <2>3
    <3>2. desk'[e].late /\ desk'[e].step = "session" /\ desk'[e].actor = m
      BY <2>1, <2>3, <3>1 DEF DeskRecord
    <3>3. QED
      BY <1>3, <2>1, <2>3, <3>2 DEF DeskHolds
  <2>4. CASE e # d /\ ~(desk[e].step = "session" /\ desk[e].actor = m)
    <3>1. desk'[e] = desk[e] /\ desk[e].actor \in Members /\ desk[e].target \in Members
      BY <1>4, <2>1, <2>4 DEF DeskRecord
    <3>2. QED
      BY <1>3, <2>1, <2>4, <3>1 DEF DeskHolds
  <2>5. QED
    BY <2>2, <2>3, <2>4
<1>7. logins' \in [Logins -> LoginRecord] /\ \A l \in Logins : LoginHolds(l)'
  <2>1. logins' \in [Logins -> LoginRecord]
        /\ \A l \in Logins : logins'[l].state = "live" => logins'[l] = logins[l] /\ logins[l].member # m
    BY <1>2, SignedOutSound
  <2>2. \A l \in Logins : LoginHolds(l) /\ logins[l].member \in Members
    BY <1>0 DEF StaffInv, StaffTypeOK, LoginRecord
  <2>3. QED
    BY <1>3, <2>1, <2>2 DEF LoginHolds
<1>8. AdminLossHasCause' /\ RolesHeld' /\ StaffTypeOK'
  BY <1>2, <1>3, <1>5, <1>7 DEF StaffInv, StaffTypeOK, AdminLossHasCause, SuperAdmin, Active, RolesHeld
<1>9. QED
  BY <1>6, <1>7, <1>8 DEF StaffInv
\* Rows are created, changed and deactivated.  The last super administrator goes
\* only by his own hand or by that of somebody who is one no longer.
LEMMA StaffChanges ==
  ASSUME StaffInv, NEW d \in Desks, CreateStaff(d) \/ UpdateStaff(d) \/ Deactivate(d)
  PROVE  StaffInv'
<1>0. StaffTypeOK /\ RolesHeld /\ DeskHolds(d) /\ desk[d] \in DeskRecord
  BY DEF StaffInv, StaffTypeOK
<1>1. PICK m \in Members : m = desk[d].target
  BY <1>0 DEF DeskRecord
<1>2. PICK actor \in Members : actor = desk[d].actor
  BY <1>0 DEF DeskRecord
<1>3. PICK t \in StaffRecord :
        /\ staff' = [staff EXCEPT ![m] = t]
        /\ t.status # "none" => t.role \in StaffRoles
        /\ staff[m].status # "none" => t.status # "none" /\ t.password = staff[m].password
        /\ \/ SuperAdmin(m) => t.status = "ACTIVE" /\ t.role = "SUPER_ADMIN"
           \/ stoodDown'
           \/ overtaken'
           \/ actor # m /\ SuperAdmin(actor)
        /\ stoodDown' \in BOOLEAN /\ overtaken' \in BOOLEAN
        /\ (stoodDown => stoodDown') /\ (overtaken => overtaken')
  <2>0. staff[m] \in StaffRecord /\ (staff[m].status # "none" => staff[m].role \in StaffRoles)
    BY <1>0 DEF StaffTypeOK, RolesHeld
  <2>1. CASE CreateStaff(d)
    <3>1. UNCHANGED <<stoodDown, overtaken>> /\ desk[d].role \in StaffRoles
      BY <1>0, <2>1 DEF CreateStaff, DeskHolds
    <3>2. CASE staff[m].status # "none"
      <4>1. staff' = [staff EXCEPT ![m] = staff[m]]
        BY <1>0, <1>1, <2>1, <3>2 DEF CreateStaff, StaffTypeOK
      <4>2. QED
        BY <1>0, <2>0, <3>1, <4>1 DEF StaffTypeOK, SuperAdmin, Active
    <3>3. CASE staff[m].status = "none"
      <4>1. PICK t : t = [status |-> "ACTIVE", role |-> desk[d].role, password |-> 1, temporary |-> TRUE]
        OBVIOUS
      <4>2. t \in StaffRecord /\ t.role \in StaffRoles
        BY <3>1, <4>1 DEF StaffRecord
      <4>3. staff' = [staff EXCEPT ![m] = t] /\ ~SuperAdmin(m)
        BY <1>1, <2>1, <3>3, <4>1 DEF CreateStaff, SuperAdmin, Active
      <4>4. QED
        BY <1>0, <3>1, <3>3, <4>2, <4>3 DEF StaffTypeOK
    <3>4. QED
      BY <3>2, <3>3
  <2>2. CASE UpdateStaff(d)
    <3>1. PICK role : role = IF desk[d].role = "none" THEN staff[m].role ELSE desk[d].role
      OBVIOUS
    <3>2. PICK status : status = IF desk[d].status = "none" THEN staff[m].status ELSE desk[d].status
      OBVIOUS
    <3>3. staff[m].status # "none"
      BY <1>0, <1>1, <2>2 DEF UpdateStaff, DeskHolds
    <3>4. role \in StaffRoles /\ status \in {"ACTIVE", "INACTIVE"}
      BY <1>0, <2>0, <3>1, <3>2, <3>3 DEF StaffRecord, DeskRecord
    <3>5. PICK t : t = [staff[m] EXCEPT !.role = role, !.status = status]
      OBVIOUS
    <3>6. t \in StaffRecord /\ t.role = role /\ t.status = status /\ t.password = staff[m].password
      BY <2>0, <3>4, <3>5 DEF StaffRecord
    <3>7. staff' = [staff EXCEPT ![m].role = role, ![m].status = status] /\ Removal(d, m, role, status)
      BY <1>1, <2>2, <3>1, <3>2 DEF UpdateStaff
    <3>8. staff' = [staff EXCEPT ![m] = t]
      BY <1>0, <3>5, <3>7 DEF StaffTypeOK
    <3>9. /\ stoodDown' \in BOOLEAN /\ overtaken' \in BOOLEAN
          /\ (stoodDown => stoodDown') /\ (overtaken => overtaken')
          /\ SuperAdmin(m) /\ (role # "SUPER_ADMIN" \/ status # "ACTIVE") =>
               stoodDown' \/ overtaken' \/ (actor # m /\ SuperAdmin(actor))
      BY <1>2, <3>7 DEF Removal
    <3>10. QED
      BY <3>3, <3>4, <3>6, <3>8, <3>9
  <2>3. CASE Deactivate(d)
    <3>1. staff[m].status # "none" /\ m # actor
      BY <1>0, <1>1, <1>2, <2>3 DEF Deactivate, DeskHolds
    <3>2. PICK t : t = [staff[m] EXCEPT !.status = "INACTIVE"]
      OBVIOUS
    <3>3. t \in StaffRecord /\ t.role = staff[m].role /\ t.status = "INACTIVE"
          /\ t.password = staff[m].password
      BY <2>0, <3>2 DEF StaffRecord
    <3>4. staff' = [staff EXCEPT ![m].status = "INACTIVE"]
          /\ overtaken' = (overtaken \/ (SuperAdmin(m) /\ ~SuperAdmin(actor)))
          /\ UNCHANGED stoodDown
      BY <1>1, <1>2, <2>3 DEF Deactivate
    <3>5. staff' = [staff EXCEPT ![m] = t]
      BY <1>0, <3>2, <3>4 DEF StaffTypeOK
    <3>6. overtaken' \in BOOLEAN /\ stoodDown' \in BOOLEAN
      BY <1>0, <3>4 DEF StaffTypeOK
    <3>7. QED
      BY <2>0, <3>1, <3>3, <3>4, <3>5, <3>6
  <2>4. QED
    BY <2>1, <2>2, <2>3
<1>4. staff \in [Members -> StaffRecord] /\ staff' \in [Members -> StaffRecord]
      /\ staff'[m] = t /\ \A k \in Members \ {m} : staff'[k] = staff[k]
  BY <1>0, <1>3 DEF StaffTypeOK
<1>5. AdminLossHasCause'
  <2>1. CASE \E k \in Members : SuperAdmin(k)
    <3>1. PICK k \in Members : SuperAdmin(k)
      BY <2>1
    <3>2. ASSUME NEW e \in Members, SuperAdmin(e), e # m PROVE SuperAdmin(e)'
      BY <1>4, <3>2 DEF SuperAdmin, Active
    <3>3. ASSUME t.status = "ACTIVE", t.role = "SUPER_ADMIN" PROVE SuperAdmin(m)'
      BY <1>4, <3>3 DEF SuperAdmin, Active
    <3>4. QED
      BY <1>3, <3>1, <3>2, <3>3 DEF AdminLossHasCause
  <2>2. QED
    BY <1>3, <2>1 DEF StaffInv, AdminLossHasCause
<1>6. RowsKept /\ RolesHeld'
  BY <1>0, <1>3, <1>4 DEF RowsKept, RolesHeld
<1>7. UNCHANGED logins /\ desk' \in [Desks -> DeskRecord]
      /\ \A e \in Desks : desk'[e] = desk[e] \/ desk'[e].step \in {"waiting", "revoke"}
  <2>1. CASE CreateStaff(d) \/ UpdateStaff(d)
    <3>1. desk' = [desk EXCEPT ![d] = Waiting] /\ UNCHANGED logins
      BY <2>1 DEF CreateStaff, UpdateStaff, Close
    <3>2. QED
      BY <1>0, <3>1, IdleDesk DEF StaffTypeOK
  <2>2. CASE Deactivate(d)
    <3>1. desk' = [desk EXCEPT ![d].step = "revoke"] /\ UNCHANGED logins
      BY <2>2 DEF Deactivate
    <3>2. PICK q : q = [desk[d] EXCEPT !.step = "revoke"]
      OBVIOUS
    <3>3. q \in DeskRecord /\ q.step = "revoke"
      BY <1>0, <3>2 DEF DeskRecord
    <3>4. desk' = [desk EXCEPT ![d] = q]
      BY <1>0, <3>1, <3>2 DEF StaffTypeOK
    <3>5. QED
      BY <1>0, <3>1, <3>3, <3>4 DEF StaffTypeOK
  <2>3. QED
    BY <2>1, <2>2
<1>8. StaffTypeOK'
  BY <1>0, <1>3, <1>4, <1>7 DEF StaffTypeOK
<1>9. \A e \in Desks : desk'[e] = desk[e] \/ DeskHolds(e)'
  BY <1>7 DEF DeskHolds
<1>10. QED
  BY <1>5, <1>6, <1>7, <1>8, <1>9, StaffFrame

\* Every step keeps the invariant.
LEMMA StaffStep ==
  ASSUME StaffInv, [StaffNext]_staffVars PROVE StaffInv'
<1>1. ASSUME NEW d \in Desks, NEW m \in Members, NEW password \in 1..2,
             StaffLogin(d, m, password) \/ StaffPasswordRead(d, m, password)
      PROVE  StaffInv'
  BY <1>1, StaffSignsIn
<1>2. ASSUME NEW d \in Desks,
             \/ IssueTokens(d) \/ RevokeLogins(d) \/ StaffChangePassword(d)
             \/ CreateStaff(d) \/ UpdateStaff(d) \/ Deactivate(d)
      PROVE  StaffInv'
  BY <1>2, StaffSessions, PasswordChanges, StaffChanges
<1>3. ASSUME NEW l \in Logins, StaffLogout(l) PROVE StaffInv'
  <2>1. UNCHANGED <<staff, stoodDown, overtaken, desk>>
    BY <1>3 DEF StaffLogout
  <2>2. logins' \in [Logins -> LoginRecord]
        /\ \A k \in Logins : logins'[k] = logins[k] \/ logins'[k].state = "revoked"
    BY <1>3 DEF StaffInv, StaffTypeOK, StaffLogout, LoginRecord
  <2>3. \A k \in Logins : logins'[k] = logins[k] \/ LoginHolds(k)'
    BY <2>2 DEF LoginHolds
  <2>4. StaffTypeOK' /\ RowsKept /\ RolesHeld' /\ AdminLossHasCause'
    BY <2>1, <2>2 DEF StaffInv, StaffTypeOK, RowsKept, RolesHeld, AdminLossHasCause, SuperAdmin, Active
  <2>5. QED
    BY <2>1, <2>3, <2>4, StaffFrame
<1>4. ASSUME NEW d \in Desks, NEW actor \in Members, NEW m \in Members,
             \/ \E role \in GivenRoles : CreateRead(d, actor, m, role)
             \/ \E role \in GivenRoles : UpdateRead(d, actor, m, role, "none")
             \/ \E status \in {"ACTIVE", "INACTIVE"} : UpdateRead(d, actor, m, "none", status)
             \/ DeactivateRead(d, actor, m)
      PROVE  StaffInv'
  <2>1. "none" \notin GivenRoles
    BY StaffAssumption, TenRoles
  <2>2. PICK role \in GivenRoles \cup {"none"}, status \in {"none", "ACTIVE", "INACTIVE"} :
          \/ role # "none" /\ CreateRead(d, actor, m, role)
          \/ UpdateRead(d, actor, m, role, status)
          \/ DeactivateRead(d, actor, m)
    BY <1>4, <2>1
  <2>3. QED
    BY <2>2, StaffManages
<1>5. CASE UNCHANGED staffVars
  <2>1. StaffTypeOK' /\ RowsKept /\ RolesHeld' /\ AdminLossHasCause'
    BY <1>5 DEF StaffInv, StaffTypeOK, RowsKept, RolesHeld, AdminLossHasCause, SuperAdmin, Active, staffVars
  <2>2. QED
    BY <1>5, <2>1, StaffFrame DEF staffVars
<1>6. QED
  BY <1>1, <1>2, <1>3, <1>4, <1>5 DEF StaffNext

\* StaffAccessIsSound: the last administrator never vanishes without a cause, a
\* session never outlives the password it was opened with unless its login was
\* under way, and the two ways of guarding a route admit the same roles.
THEOREM StaffCorrect == StaffSpec => []StaffAccessIsSound
<1>1. StaffInv /\ [StaffNext]_staffVars => StaffInv'
  BY StaffStep
<1>2. StaffInv => StaffAccessIsSound
  <2> SUFFICES ASSUME StaffInv PROVE StaffAccessIsSound
    OBVIOUS
  <2>1. StaffSessionsEndWithPassword
    BY DEF StaffInv, LoginHolds, StaffSessionsEndWithPassword
  <2>2. RoleListsMatchPermissions
    BY DesksMatchTable DEF StaffInv, RolesHeld, RoleListsMatchPermissions
  <2>3. QED
    BY <2>1, <2>2 DEF StaffInv, StaffAccessIsSound
<1>3. QED
  BY StaffStarts, <1>1, <1>2, PTL DEF StaffSpec

-----------------------------------------------------------------------------
(***************************************************************************)
(* Permissions.                                                            *)
(***************************************************************************)

\* Every permission a journey's routes ask for is in the table of its role.
LEMMA JourneysInTable ==
  \A r \in DOMAIN Journey : UNION Journey[r] \subseteq RolePermissions[r]
<1>1. DOMAIN Journey = {"CUSTOMER", "VENDOR", "RIDER"}
  BY DEF Journey
<1>2. \A p \in UNION Journey["CUSTOMER"] : p \in ShopperPermissions
  <2>1. \A p \in UNION UNION {CartRoutes, CheckoutRoutes, OrderRoutes, PaymentRoutes, WalletRoutes} :
          p \in ShopperPermissions
    BY DEF CartRoutes, CheckoutRoutes, OrderRoutes, PaymentRoutes, WalletRoutes, ShopperPermissions
  <2>2. \A p \in UNION UNION {KlumpRoutes, RewardRoutes, ReferralRoutes, SupportRoutes} :
          p \in ShopperPermissions
    BY DEF KlumpRoutes, RewardRoutes, ReferralRoutes, SupportRoutes, ShopperPermissions
  <2>3. \A p \in UNION UNION {ReviewRoutes, ChatRoutes, OrderQrRoutes} : p \in ShopperPermissions
    BY DEF ReviewRoutes, ChatRoutes, OrderQrRoutes, ShopperPermissions
  <2>4. QED
    BY <2>1, <2>2, <2>3 DEF Journey
<1>3. \A p \in UNION Journey["VENDOR"] : p \in VendorPermissions
  <2>1. \A p \in UNION UNION {StoreShelfRoutes, StoreRoutes, StorePushRoutes} : p \in VendorPermissions
    BY DEF StoreShelfRoutes, StoreRoutes, StorePushRoutes, VendorPermissions, AgentPermissions
  <2>2. \A p \in UNION UNION {StoreOrderRoutes, StoreScanRoutes, ChatRoutes} : p \in VendorPermissions
    BY DEF StoreOrderRoutes, StoreScanRoutes, ChatRoutes, VendorPermissions, AgentPermissions
  <2>3. QED
    BY <2>1, <2>2 DEF Journey
<1>4. \A p \in UNION Journey["RIDER"] : p \in RiderPermissions
  BY DEF Journey, DeliveryRoutes, RiderScanRoutes, RiderSupportRoutes, RiderPermissions
<1>5. /\ RolePermissions["CUSTOMER"] = ShopperPermissions
      /\ RolePermissions["VENDOR"] = VendorPermissions
      /\ RolePermissions["RIDER"] = RiderPermissions
  BY DEF RolePermissions
<1>6. QED
  BY <1>1, <1>2, <1>3, <1>4, <1>5

\* The journeys are open in every state: roles add up, and what is taken away
\* is taken away by an override.
LEMMA JourneysOpen == JourneysAreOpen
<1> SUFFICES ASSUME NEW u \in Users, NEW r \in roles[u] \cap DOMAIN Journey,
                    NEW p \in UNION Journey[r]
             PROVE  p \in PermissionsOf(u) \cup {o.permission : o \in overrides[u]}
  BY DEF JourneysAreOpen
<1>1. p \in RolePermissions[r]
  BY JourneysInTable
<1>2. p \in UNION {RolePermissions[q] : q \in roles[u]}
  BY <1>1
<1>3. QED
  BY <1>2 DEF PermissionsOf

TicketStatus == {"none", "PENDING", "APPROVED", "REJECTED"}

Raising(p) == {h \in Handlers : call[h].step = "create" /\ call[h].role = p}
Deciding(t) == {h \in Handlers : call[h].step = "decide" /\ call[h].ticket = t}
PendingOf(p) == {t \in Pending : tickets[t].policy = p}

TicketRecord ==
  [status : TicketStatus, policy : Policies \cup {"none"},
   by : Users \cup {"none"}, decider : Users \cup {"none"}]

PermissionsTypeOK ==
  /\ DOMAIN roles = Users
  /\ tickets \in [Tickets -> TicketRecord]
  /\ DOMAIN call = Handlers
  /\ decisions \in [Tickets -> Nat]
  /\ DOMAIN grantedBy = Users
  /\ \A u \in Users : DOMAIN grantedBy[u] = Grantable

\* What a handler has checked: nobody raises himself, and a request that is
\* being decided has been filed.
CallHolds(h) ==
  /\ call[h].step # "idle" => call[h].actor \in Users
  /\ call[h].step = "assign" =>
       /\ call[h].user \in Users /\ call[h].role \in Grantable
       /\ MayAssign(call[h].actor, call[h].user, call[h].role)
  /\ call[h].step = "create" => call[h].role \in Policies
  /\ call[h].step = "decide" =>
       /\ call[h].ticket \in Tickets /\ tickets[call[h].ticket].status # "none"

\* Duplicates that exist and those under way are together no more than the
\* handlers, and so are the decisions on a request.
PermissionsInv ==
  /\ PermissionsTypeOK
  /\ \A h \in Handlers : CallHolds(h)
  /\ PrivilegeComesFromAnother
  /\ \A t \in Tickets : tickets[t].status \in {"none", "PENDING"} => decisions[t] = 0
  /\ \A p \in Policies : Cardinality(PendingOf(p)) + Cardinality(Raising(p)) <= Cardinality(Handlers)
  /\ \A t \in Tickets : decisions[t] + Cardinality(Deciding(t)) <= Cardinality(Handlers)

\* Handlers and requests are finitely many.
LEMMA PartsAreFinite ==
  /\ Cardinality(Handlers) \in Nat
  /\ \A S \in SUBSET Handlers :
       IsFiniteSet(S) /\ Cardinality(S) \in Nat /\ Cardinality(S) <= Cardinality(Handlers)
  /\ \A S \in SUBSET Tickets : IsFiniteSet(S) /\ Cardinality(S) \in Nat
  /\ \A S \in SUBSET Tickets : \A T \in SUBSET S : Cardinality(T) <= Cardinality(S)
<1>1. IsFiniteSet(Handlers) /\ IsFiniteSet(Tickets)
  BY PermissionsAssumption
<1>2. \A S \in SUBSET Tickets : IsFiniteSet(S)
  BY <1>1, FS_Subset
<1>3. \A S \in SUBSET Tickets : \A T \in SUBSET S : Cardinality(T) <= Cardinality(S)
  BY <1>2, FS_Subset
<1>4. QED
  BY <1>1, <1>2, <1>3, FS_Subset, FS_CardinalityType

\* The invariant holds at first.
LEMMA PermissionsStart == PermissionsInit => PermissionsInv
<1> SUFFICES ASSUME PermissionsInit PROVE PermissionsInv
  OBVIOUS
<1>1. NoTicket \in TicketRecord /\ NoTicket.status = "none" /\ NoCall.step = "idle"
  BY DEF NoTicket, TicketRecord, TicketStatus, NoCall
<1>2. PermissionsTypeOK
  BY <1>1 DEF PermissionsInit, PermissionsTypeOK
<1>3. \A h \in Handlers : CallHolds(h)
  BY <1>1 DEF PermissionsInit, CallHolds
<1>4. PrivilegeComesFromAnother
  BY PermissionsAssumption DEF PermissionsInit, PrivilegeComesFromAnother
<1>5. \A t \in Tickets : decisions[t] = 0 /\ Deciding(t) = {}
  BY <1>1 DEF PermissionsInit, Deciding
<1>6. \A p \in Policies : PendingOf(p) = {} /\ Raising(p) = {}
  BY <1>1 DEF PermissionsInit, PendingOf, Pending, Raising
<1>7. Cardinality({}) = 0 /\ Cardinality(Handlers) \in Nat
  BY FS_EmptySet, PartsAreFinite
<1>8. \A t \in Tickets : decisions[t] + Cardinality(Deciding(t)) <= Cardinality(Handlers)
  BY <1>5, <1>7
<1>9. \A p \in Policies : Cardinality(PendingOf(p)) + Cardinality(Raising(p)) <= Cardinality(Handlers)
  BY <1>6, <1>7
<1>10. QED
  BY <1>2, <1>3, <1>4, <1>5, <1>8, <1>9 DEF PermissionsInv

\* A handler between a check that concerns no request and its write.
LEMMA OtherCalls ==
  ASSUME DOMAIN call = Handlers, NEW h \in Handlers, NEW t, call' = [call EXCEPT ![h] = t],
         t.step \notin {"create", "decide"}, call[h].step \notin {"create", "decide"}
  PROVE  (\A p : Raising(p)' = Raising(p)) /\ (\A k : Deciding(k)' = Deciding(k))
<1>1. call'[h] = t /\ \A e \in Handlers \ {h} : call'[e] = call[e]
  OBVIOUS
<1>2. QED
  BY <1>1 DEF Raising, Deciding

\* What such a step, and one of no handler, leaves as it is.
LEMMA PermissionsFrame ==
  ASSUME PermissionsInv, UNCHANGED <<tickets, decisions>>, PermissionsTypeOK',
         \A p : Raising(p)' = Raising(p), \A k : Deciding(k)' = Deciding(k),
         \A h \in Handlers : call'[h] = call[h] \/ CallHolds(h)',
         PrivilegeComesFromAnother'
  PROVE  PermissionsInv'
<1>1. \A p : PendingOf(p)' = PendingOf(p)
  BY DEF PendingOf, Pending
<1>2. \A h \in Handlers : CallHolds(h)'
  BY DEF PermissionsInv, CallHolds, MayAssign
<1>3. QED
  BY <1>1, <1>2 DEF PermissionsInv

\* Assignment: the check of the route, and the row that says who gave the role.
LEMMA RolesAreAssigned ==
  ASSUME PermissionsInv, NEW h \in Handlers,
         \/ \E actor, u \in Users : \E r \in Grantable : AssignRead(h, actor, u, r)
         \/ AssignRole(h)
  PROVE  PermissionsInv'
<1>0. PermissionsTypeOK
  BY DEF PermissionsInv
<1>1. ASSUME NEW actor \in Users, NEW u \in Users, NEW r \in Grantable, AssignRead(h, actor, u, r)
      PROVE  PermissionsInv'
  <2> DEFINE t == [NoCall EXCEPT !.step = "assign", !.actor = actor, !.user = u, !.role = r]
  <2>1. t.step = "assign" /\ t.actor = actor /\ t.user = u /\ t.role = r /\ NoCall.step = "idle"
    BY DEF NoCall
  <2>2. call' = [call EXCEPT ![h] = t] /\ call[h] = NoCall /\ MayAssign(actor, u, r)
        /\ UNCHANGED <<roles, tickets, grantedBy, decisions>>
    BY <1>1 DEF AssignRead, Arrive
  <2> HIDE DEF t
  <2>3. (\A p : Raising(p)' = Raising(p)) /\ (\A k : Deciding(k)' = Deciding(k))
    BY <1>0, <2>1, <2>2, OtherCalls DEF PermissionsTypeOK
  <2>4. PermissionsTypeOK' /\ PrivilegeComesFromAnother'
    BY <1>0, <2>2 DEF PermissionsInv, PermissionsTypeOK, PrivilegeComesFromAnother
  <2>5. call'[h] = t /\ \A e \in Handlers \ {h} : call'[e] = call[e]
    BY <1>0, <2>2 DEF PermissionsTypeOK
  <2>6. CallHolds(h)'
    BY <2>1, <2>2, <2>5 DEF CallHolds, MayAssign
  <2>7. QED
    BY <2>2, <2>3, <2>4, <2>5, <2>6, PermissionsFrame
<1>2. CASE AssignRole(h)
  <2>1. call' = [call EXCEPT ![h] = NoCall] /\ call[h].step = "assign" /\ NoCall.step = "idle"
        /\ UNCHANGED <<tickets, decisions>>
    BY <1>2 DEF AssignRole, Finish, NoCall
  <2>2. (\A p : Raising(p)' = Raising(p)) /\ (\A k : Deciding(k)' = Deciding(k))
    BY <1>0, <2>1, OtherCalls DEF PermissionsTypeOK
  <2>3. call'[h] = NoCall /\ \A e \in Handlers \ {h} : call'[e] = call[e]
    BY <1>0, <2>1 DEF PermissionsTypeOK
  <2>4. CallHolds(h)'
    BY <2>1, <2>3 DEF CallHolds
  <2>5. PICK u \in Users, r \in Grantable : u = call[h].user /\ r = call[h].role
    BY <2>1 DEF PermissionsInv, CallHolds
  <2>6. PICK actor : actor = call[h].actor /\ MayAssign(actor, u, r)
    BY <2>1, <2>5 DEF PermissionsInv, CallHolds
  <2>7. roles' = [roles EXCEPT ![u] = @ \cup {r}]
        /\ grantedBy' = IF r \in roles[u] THEN grantedBy ELSE [grantedBy EXCEPT ![u][r] = actor]
    BY <1>2, <2>5, <2>6 DEF AssignRole
  <2>8. PermissionsTypeOK' /\ PrivilegeComesFromAnother'
    <3>1. CASE r \in roles[u]
      <4>1. grantedBy' = grantedBy /\ \A k \in Users : roles'[k] = roles[k]
        BY <1>0, <2>7, <3>1 DEF PermissionsTypeOK
      <4>2. QED
        BY <1>0, <2>1, <2>7, <4>1 DEF PermissionsInv, PermissionsTypeOK, PrivilegeComesFromAnother
    <3>2. CASE r \notin roles[u]
      <4>1. PICK g : g = [grantedBy[u] EXCEPT ![r] = actor]
        OBVIOUS
      <4>2. grantedBy' = [grantedBy EXCEPT ![u] = g]
        BY <1>0, <2>7, <3>2, <4>1 DEF PermissionsTypeOK
      <4>3. DOMAIN g = Grantable /\ g[r] = actor /\ \A q \in Grantable \ {r} : g[q] = grantedBy[u][q]
        BY <1>0, <4>1 DEF PermissionsTypeOK
      <4>4. PermissionsTypeOK'
        BY <1>0, <2>1, <2>7, <4>2, <4>3 DEF PermissionsTypeOK
      <4>5. roles'[u] = roles[u] \cup {r} /\ grantedBy'[u] = g
            /\ \A k \in Users \ {u} : roles'[k] = roles[k] /\ grantedBy'[k] = grantedBy[k]
        BY <1>0, <2>7, <4>2 DEF PermissionsTypeOK
      <4>6. PrivilegeComesFromAnother'
        BY <2>6, <4>3, <4>5 DEF PermissionsInv, PrivilegeComesFromAnother, MayAssign
      <4>7. QED
        BY <4>4, <4>6
    <3>3. QED
      BY <3>1, <3>2
  <2>9. QED
    BY <2>1, <2>2, <2>3, <2>4, <2>8, PermissionsFrame
<1>3. QED
  BY <1>1, <1>2

\* Roles and overrides end, overrides begin.
LEMMA GrantsEnd ==
  ASSUME PermissionsInv,
         \/ \E u \in Users : \E r : RevokeRole(u, r)
         \/ \E h \in Handlers, u \in Users : \E actor, p, g : CreateOverride(h, actor, u, p, g)
         \/ \E u \in Users : \E o : OverrideExpires(u, o)
         \/ UNCHANGED permissionsVars
  PROVE  PermissionsInv'
<1>1. UNCHANGED <<tickets, call, grantedBy, decisions>>
  BY DEF RevokeRole, CreateOverride, OverrideExpires, permissionsVars
<1>2. DOMAIN roles' = Users /\ \A u \in Users : roles'[u] \subseteq roles[u]
  <2>1. DOMAIN roles = Users
    BY DEF PermissionsInv, PermissionsTypeOK
  <2>2. ASSUME NEW u \in Users, NEW r, RevokeRole(u, r)
        PROVE  DOMAIN roles' = Users /\ \A k \in Users : roles'[k] \subseteq roles[k]
    BY <2>1, <2>2 DEF RevokeRole
  <2>3. CASE UNCHANGED roles
    BY <2>1, <2>3
  <2>4. QED
    BY <2>2, <2>3 DEF CreateOverride, OverrideExpires, permissionsVars
<1>3. PermissionsTypeOK' /\ PrivilegeComesFromAnother'
  BY <1>1, <1>2 DEF PermissionsInv, PermissionsTypeOK, PrivilegeComesFromAnother
<1>4. (\A p : Raising(p)' = Raising(p)) /\ (\A k : Deciding(k)' = Deciding(k))
  BY <1>1 DEF Raising, Deciding
<1>5. QED
  BY <1>1, <1>3, <1>4, PermissionsFrame

\* A request is filed: the look for a duplicate, and the row.
LEMMA TicketsAreFiled ==
  ASSUME PermissionsInv, NEW h \in Handlers,
         \/ \E actor \in Users, policy \in Policies : CreateTicketRead(h, actor, policy)
         \/ CreateTicket(h)
  PROVE  PermissionsInv'
<1>0. PermissionsTypeOK
  BY DEF PermissionsInv
<1>4. (\A p \in Policies : Cardinality(PendingOf(p)) + Cardinality(Raising(p)) <= Cardinality(Handlers))
      /\ \A p : PendingOf(p) \subseteq Tickets /\ Raising(p) \subseteq Handlers /\ Raising(p)' \subseteq Handlers
  BY DEF PermissionsInv, PendingOf, Pending, Raising
<1>1. ASSUME NEW actor \in Users, NEW policy \in Policies, CreateTicketRead(h, actor, policy)
      PROVE  PermissionsInv'
  <2> DEFINE t == [NoCall EXCEPT !.step = "create", !.actor = actor, !.role = policy]
  <2>1. t.step = "create" /\ t.actor = actor /\ t.role = policy /\ NoCall.step = "idle"
    BY DEF NoCall
  <2>2. call' = [call EXCEPT ![h] = t] /\ call[h] = NoCall /\ NoDuplicate(policy)
        /\ UNCHANGED <<roles, tickets, grantedBy, decisions>>
    BY <1>1 DEF CreateTicketRead, Arrive
  <2> HIDE DEF t
  <2>3. call'[h] = t /\ \A e \in Handlers \ {h} : call'[e] = call[e]
    BY <1>0, <2>2 DEF PermissionsTypeOK
  <2>4. \A k : Deciding(k)' = Deciding(k)
    BY <2>1, <2>2, <2>3 DEF Deciding
  <2>5. \A p : PendingOf(p)' = PendingOf(p) /\ (p # policy => Raising(p)' = Raising(p))
    BY <2>1, <2>2, <2>3 DEF PendingOf, Pending, Raising
  <2>6. PendingOf(policy) = {} /\ Cardinality(PendingOf(policy)) = 0
    BY <2>2, FS_EmptySet DEF NoDuplicate, PendingOf
  <2>7. Cardinality(Raising(policy)') <= Cardinality(Handlers) /\ Cardinality(Raising(policy)') \in Nat
    BY <1>4, PartsAreFinite
  <2>8. \A p \in Policies : Cardinality(PendingOf(p)') + Cardinality(Raising(p)') <= Cardinality(Handlers)
    <3>1. Cardinality(PendingOf(policy)') + Cardinality(Raising(policy)') <= Cardinality(Handlers)
      <4>1. PendingOf(policy)' = {} /\ Cardinality(PendingOf(policy)') = 0
        BY <2>5, <2>6, FS_EmptySet
      <4>2. QED
        BY <2>7, <4>1
    <3>2. ASSUME NEW p \in Policies, p # policy
          PROVE  Cardinality(PendingOf(p)') + Cardinality(Raising(p)') <= Cardinality(Handlers)
      BY <1>4, <2>5, <3>2
    <3>3. QED
      BY <3>1, <3>2
  <2>9. CallHolds(h)' /\ \A e \in Handlers \ {h} : CallHolds(e)'
    <3>1. CallHolds(h)'
      BY <2>1, <2>3 DEF CallHolds
    <3>2. QED
      BY <2>2, <2>3, <3>1 DEF PermissionsInv, CallHolds, MayAssign
  <2>10. PermissionsTypeOK' /\ PrivilegeComesFromAnother'
    BY <1>0, <2>2 DEF PermissionsInv, PermissionsTypeOK, PrivilegeComesFromAnother
  <2>11. QED
    BY <2>2, <2>4, <2>8, <2>9, <2>10 DEF PermissionsInv
<1>2. CASE CreateTicket(h)
  <2>1. call' = [call EXCEPT ![h] = NoCall] /\ call[h].step = "create" /\ NoCall.step = "idle"
        /\ UNCHANGED <<roles, grantedBy, decisions>> /\ call[h].role \in Policies /\ call[h].actor \in Users
    BY <1>2 DEF CreateTicket, Finish, NoCall, PermissionsInv, CallHolds
  <2>2. call'[h] = NoCall /\ \A e \in Handlers \ {h} : call'[e] = call[e]
    BY <1>0, <2>1 DEF PermissionsTypeOK
  <2>3. PICK p \in Policies : p = call[h].role
    BY <2>1
  <2>4. PICK row : row = [status |-> "PENDING", policy |-> p, by |-> call[h].actor, decider |-> "none"]
    OBVIOUS
  <2>5. row \in TicketRecord /\ row.status = "PENDING" /\ row.policy = p
    BY <2>1, <2>4 DEF TicketRecord, TicketStatus
  <2>6. PICK t \in Tickets : tickets[t].status = "none" /\ tickets' = [tickets EXCEPT ![t] = row]
    BY <1>2, <2>3, <2>4 DEF CreateTicket
  <2>7. tickets' \in [Tickets -> TicketRecord] /\ tickets'[t] = row
        /\ \A k \in Tickets \ {t} : tickets'[k] = tickets[k]
    BY <1>0, <2>5, <2>6 DEF PermissionsTypeOK
  <2>8. PendingOf(p)' = PendingOf(p) \cup {t} /\ t \notin PendingOf(p)
        /\ \A q : q # p => PendingOf(q)' = PendingOf(q)
    BY <2>5, <2>6, <2>7 DEF PendingOf, Pending
  <2>9. Raising(p)' = Raising(p) \ {h} /\ h \in Raising(p)
        /\ \A q : q # p => Raising(q)' = Raising(q)
    BY <2>1, <2>2, <2>3 DEF Raising
  <2>10. Cardinality(PendingOf(p)') = Cardinality(PendingOf(p)) + 1 /\ Cardinality(PendingOf(p)) \in Nat
    BY <1>4, <2>8, PartsAreFinite, OneJoins
  <2>11. Cardinality(Raising(p)') = Cardinality(Raising(p)) - 1 /\ Cardinality(Raising(p)) \in Nat
    BY <1>4, <2>9, PartsAreFinite, OneLeaves
  <2>12. Cardinality(PendingOf(p)') + Cardinality(Raising(p)') <= Cardinality(Handlers)
    <3>1. Cardinality(PendingOf(p)) + Cardinality(Raising(p)) <= Cardinality(Handlers)
      BY <1>4
    <3>2. QED
      BY <2>10, <2>11, <3>1, PartsAreFinite
  <2>13. \A q \in Policies : Cardinality(PendingOf(q)') + Cardinality(Raising(q)') <= Cardinality(Handlers)
    BY <1>4, <2>8, <2>9, <2>12
  <2>14. \A k : Deciding(k)' = Deciding(k)
    BY <2>1, <2>2 DEF Deciding
  <2>15. \A e \in Handlers : CallHolds(e)'
    BY <2>1, <2>2, <2>5, <2>7 DEF PermissionsInv, CallHolds, MayAssign
  <2>16. PermissionsTypeOK' /\ PrivilegeComesFromAnother'
    BY <1>0, <2>1, <2>7 DEF PermissionsInv, PermissionsTypeOK, PrivilegeComesFromAnother
  <2>17. \A k \in Tickets : tickets'[k].status \in {"none", "PENDING"} => decisions'[k] = 0
    BY <2>1, <2>6, <2>7 DEF PermissionsInv
  <2>18. QED
    BY <2>1, <2>13, <2>14, <2>15, <2>16, <2>17 DEF PermissionsInv
<1>3. QED
  BY <1>1, <1>2

\* A request is decided: the look at its status, and the write that does not
\* look again.
LEMMA TicketsAreDecided ==
  ASSUME PermissionsInv, NEW h \in Handlers,
         \/ \E actor \in Users, t \in Tickets : \E g : DecideRead(h, actor, t, g)
         \/ Decide(h)
  PROVE  PermissionsInv'
<1>0. PermissionsTypeOK
  BY DEF PermissionsInv
<1>4. (\A t \in Tickets : decisions[t] + Cardinality(Deciding(t)) <= Cardinality(Handlers))
      /\ \A t : Deciding(t) \subseteq Handlers /\ Deciding(t)' \subseteq Handlers
  BY DEF PermissionsInv, Deciding
<1>1. ASSUME NEW actor \in Users, NEW t \in Tickets, NEW g, DecideRead(h, actor, t, g)
      PROVE  PermissionsInv'
  <2> DEFINE c == [NoCall EXCEPT !.step = "decide", !.actor = actor, !.ticket = t, !.granted = g]
  <2>1. c.step = "decide" /\ c.actor = actor /\ c.ticket = t /\ NoCall.step = "idle"
    BY DEF NoCall
  <2>2. call' = [call EXCEPT ![h] = c] /\ call[h] = NoCall /\ tickets[t].status = "PENDING"
        /\ UNCHANGED <<roles, tickets, grantedBy, decisions>>
    BY <1>1 DEF DecideRead, Arrive, Undecided
  <2> HIDE DEF c
  <2>3. call'[h] = c /\ \A e \in Handlers \ {h} : call'[e] = call[e]
    BY <1>0, <2>2 DEF PermissionsTypeOK
  <2>4. \A p : Raising(p)' = Raising(p) /\ PendingOf(p)' = PendingOf(p)
    BY <2>1, <2>2, <2>3 DEF Raising, PendingOf, Pending
  <2>5. \A k : k # t => Deciding(k)' = Deciding(k)
    BY <2>1, <2>2, <2>3 DEF Deciding
  <2>6. Cardinality(Deciding(t)') <= Cardinality(Handlers) /\ Cardinality(Deciding(t)') \in Nat
    BY <1>4, PartsAreFinite
  <2>7. decisions[t] = 0
    BY <2>2 DEF PermissionsInv
  <2>8. \A k \in Tickets : decisions'[k] + Cardinality(Deciding(k)') <= Cardinality(Handlers)
    BY <1>4, <2>2, <2>5, <2>6, <2>7
  <2>9. \A e \in Handlers : CallHolds(e)'
    <3>1. CallHolds(h)'
      BY <2>1, <2>2, <2>3 DEF CallHolds
    <3>2. QED
      BY <2>2, <2>3, <3>1 DEF PermissionsInv, CallHolds, MayAssign
  <2>10. PermissionsTypeOK' /\ PrivilegeComesFromAnother'
    BY <1>0, <2>2 DEF PermissionsInv, PermissionsTypeOK, PrivilegeComesFromAnother
  <2>11. QED
    BY <2>2, <2>4, <2>8, <2>9, <2>10 DEF PermissionsInv
<1>2. CASE Decide(h)
  <2>1. call' = [call EXCEPT ![h] = NoCall] /\ call[h].step = "decide" /\ NoCall.step = "idle"
        /\ UNCHANGED <<roles, grantedBy>> /\ call[h].actor \in Users
    BY <1>2 DEF Decide, Finish, NoCall, PermissionsInv, CallHolds
  <2>2. call'[h] = NoCall /\ \A e \in Handlers \ {h} : call'[e] = call[e]
    BY <1>0, <2>1 DEF PermissionsTypeOK
  <2>3. PICK t \in Tickets : t = call[h].ticket /\ tickets[t].status # "none"
    BY <2>1 DEF PermissionsInv, CallHolds
  <2>4. PICK status \in {"APPROVED", "REJECTED"} :
          status = IF call[h].granted THEN "APPROVED" ELSE "REJECTED"
    OBVIOUS
  <2>5. PICK row : row = [tickets[t] EXCEPT !.decider = call[h].actor, !.status = status]
    OBVIOUS
  <2>6. row \in TicketRecord /\ row.status = status
    BY <1>0, <2>1, <2>5 DEF PermissionsTypeOK, TicketRecord, TicketStatus
  <2>7. tickets' = [tickets EXCEPT ![t].decider = call[h].actor, ![t].status = status]
        /\ decisions' = [decisions EXCEPT ![t] = @ + 1]
    BY <1>2, <2>3, <2>4 DEF Decide
  <2>8. tickets' = [tickets EXCEPT ![t] = row]
    BY <1>0, <2>5, <2>7 DEF PermissionsTypeOK
  <2>9. tickets' \in [Tickets -> TicketRecord] /\ tickets'[t] = row
        /\ \A k \in Tickets \ {t} : tickets'[k] = tickets[k]
    BY <1>0, <2>6, <2>8 DEF PermissionsTypeOK
  <2>10. decisions' \in [Tickets -> Nat] /\ decisions'[t] = decisions[t] + 1 /\ decisions[t] \in Nat
         /\ \A k \in Tickets \ {t} : decisions'[k] = decisions[k]
    BY <1>0, <2>7 DEF PermissionsTypeOK
  <2>11. Deciding(t)' = Deciding(t) \ {h} /\ h \in Deciding(t)
         /\ \A k : k # t => Deciding(k)' = Deciding(k)
    BY <2>1, <2>2, <2>3 DEF Deciding
  <2>12. Cardinality(Deciding(t)') = Cardinality(Deciding(t)) - 1 /\ Cardinality(Deciding(t)) \in Nat
    BY <1>4, <2>11, PartsAreFinite, OneLeaves
  <2>13. decisions'[t] + Cardinality(Deciding(t)') <= Cardinality(Handlers)
    <3>1. decisions[t] + Cardinality(Deciding(t)) <= Cardinality(Handlers)
      BY <1>4
    <3>2. QED
      BY <2>10, <2>12, <3>1, PartsAreFinite
  <2>14. \A k \in Tickets : decisions'[k] + Cardinality(Deciding(k)') <= Cardinality(Handlers)
    BY <1>4, <2>10, <2>11, <2>13
  <2>15. \A p : Raising(p)' = Raising(p) /\ PendingOf(p)' \subseteq PendingOf(p)
    <3>1. \A p : Raising(p)' = Raising(p)
      BY <2>1, <2>2 DEF Raising
    <3>2. \A p : PendingOf(p)' \subseteq PendingOf(p)
      BY <2>6, <2>9 DEF PendingOf, Pending
    <3>3. QED
      BY <3>1, <3>2
  <2>16. \A p \in Policies : Cardinality(PendingOf(p)') + Cardinality(Raising(p)') <= Cardinality(Handlers)
    <3> SUFFICES ASSUME NEW p \in Policies
                 PROVE  Cardinality(PendingOf(p)') + Cardinality(Raising(p)') <= Cardinality(Handlers)
      OBVIOUS
    <3>1. PendingOf(p) \subseteq Tickets /\ Raising(p) \subseteq Handlers
      BY DEF PendingOf, Pending, Raising
    <3>2. Cardinality(PendingOf(p)') <= Cardinality(PendingOf(p)) /\ Cardinality(PendingOf(p)') \in Nat
          /\ Cardinality(PendingOf(p)) \in Nat /\ Cardinality(Raising(p)) \in Nat
      BY <2>15, <3>1, PartsAreFinite
    <3>3. Cardinality(PendingOf(p)) + Cardinality(Raising(p)) <= Cardinality(Handlers)
      BY DEF PermissionsInv
    <3>4. QED
      BY <2>15, <3>2, <3>3, PartsAreFinite
  <2>17. \A e \in Handlers : CallHolds(e)'
    BY <2>1, <2>2, <2>6, <2>9 DEF PermissionsInv, CallHolds, MayAssign
  <2>18. PermissionsTypeOK' /\ PrivilegeComesFromAnother'
    BY <1>0, <2>1, <2>9, <2>10 DEF PermissionsInv, PermissionsTypeOK, PrivilegeComesFromAnother
  <2>19. \A k \in Tickets : tickets'[k].status \in {"none", "PENDING"} => decisions'[k] = 0
    BY <2>6, <2>9, <2>10 DEF PermissionsInv
  <2>20. QED
    BY <2>14, <2>16, <2>17, <2>18, <2>19 DEF PermissionsInv
<1>3. QED
  BY <1>1, <1>2

\* AuthorityIsSound: the journeys of every role are open, a privileged role comes
\* from somebody else, and duplicates and decisions are at most one per handler.
THEOREM AuthorityCorrect == PermissionsSpec => []AuthorityIsSound
<1>1. PermissionsInv /\ [PermissionsNext]_permissionsVars => PermissionsInv'
  <2> SUFFICES ASSUME PermissionsInv, [PermissionsNext]_permissionsVars PROVE PermissionsInv'
    OBVIOUS
  <2>1. QED
    BY RolesAreAssigned, GrantsEnd, TicketsAreFiled, TicketsAreDecided DEF PermissionsNext
<1>2. PermissionsInv => AuthorityIsSound
  <2> SUFFICES ASSUME PermissionsInv PROVE AuthorityIsSound
    OBVIOUS
  <2>1. DuplicatesAreBounded
    <3> SUFFICES ASSUME NEW p \in Policies PROVE Cardinality(PendingOf(p)) <= Cardinality(Handlers)
      BY DEF DuplicatesAreBounded, PendingOf
    <3>1. PendingOf(p) \subseteq Tickets /\ Raising(p) \subseteq Handlers
      BY DEF PendingOf, Pending, Raising
    <3>2. Cardinality(PendingOf(p)) + Cardinality(Raising(p)) <= Cardinality(Handlers)
      BY DEF PermissionsInv
    <3>3. QED
      BY <3>1, <3>2, PartsAreFinite
  <2>2. DecisionsAreBounded
    <3> SUFFICES ASSUME NEW t \in Tickets PROVE decisions[t] <= Cardinality(Handlers)
      BY DEF DecisionsAreBounded
    <3>1. Deciding(t) \subseteq Handlers /\ decisions[t] \in Nat
      BY DEF Deciding, PermissionsInv, PermissionsTypeOK
    <3>2. decisions[t] + Cardinality(Deciding(t)) <= Cardinality(Handlers)
      BY DEF PermissionsInv
    <3>3. QED
      BY <3>1, <3>2, PartsAreFinite
  <2>3. QED
    BY <2>1, <2>2, JourneysOpen DEF PermissionsInv, AuthorityIsSound
<1>3. QED
  BY PermissionsStart, <1>1, <1>2, PTL DEF PermissionsSpec

-----------------------------------------------------------------------------
(***************************************************************************)
(* Rider onboarding.                                                       *)
(***************************************************************************)

ProfileRecord ==
  [status : {"CREATED", "UNDER_REVIEW", "APPROVED", "REJECTED"}, filled : BOOLEAN,
   online : BOOLEAN, located : {"none", "fresh", "stale"}, role : BOOLEAN]
ReviewStatuses == {"none", "PENDING", "APPROVED", "REJECTED"}
ProviderAnswers == {"PENDING", "VERIFIED", "FAILED"}
AgentSteps ==
  {"standby", "edit", "answer", "create", "submit", "online", "review", "decide", "approve",
   "reject"}
AgentRecord ==
  [step : AgentSteps, kind : EvidenceKinds \cup {"none"},
   answer : ReviewStatuses \cup ProviderAnswers, approve : SUBSET EvidenceKinds, late : BOOLEAN]

OnboardingTypeOK ==
  /\ profile \in ProfileRecord
  /\ evidence \in [EvidenceKinds -> ReviewStatuses]
  /\ reply \in [ProviderKinds -> ProviderAnswers]
  /\ verdict \in [ProviderKinds -> ProviderAnswers]
  /\ agent \in [Agents -> AgentRecord]

\* What the road asks for, of a set of kinds that have been approved.
Cleared(kinds) ==
  /\ {"document", "licence", "check"} \cap kinds # {}
  /\ {"liveness", "vehicle"} \subseteq kinds
  /\ application.motor => "registration" \in kinds /\ {"licence", "check"} \cap kinds # {}

ManualKinds == {"licence", "vehicle", "registration"}

\* What a handler found when it read, and nobody can take back; a decision
\* knows that it is late when the status has moved.
AgentHolds(a) ==
  /\ agent[a].step = "edit" => agent[a].kind \in {"vehicle", "registration"}
  /\ agent[a].step = "answer" => agent[a].kind \in ProviderKinds
  /\ agent[a].step = "create" => agent[a].kind = "check"
  /\ agent[a].step \in {"answer", "create"} =>
       agent[a].answer \in ProviderAnswers
       /\ (agent[a].answer = "VERIFIED" => verdict[agent[a].kind] = "VERIFIED")
  /\ agent[a].step = "review" =>
       agent[a].answer \in {"APPROVED", "REJECTED"}
       /\ (agent[a].answer = "APPROVED" => verdict["check"] = "VERIFIED")
  /\ agent[a].step \in {"decide", "approve"} =>
       agent[a].approve \subseteq ManualKinds /\ Cleared(proven \cup agent[a].approve)
  /\ agent[a].step = "online" => profile.role /\ profile.located # "none"
  /\ agent[a].step = "submit" /\ ~agent[a].late => profile.status \in {"CREATED", "REJECTED"}
  /\ agent[a].step \in {"decide", "approve", "reject"} /\ ~agent[a].late =>
       profile.status = "UNDER_REVIEW"

ProfileHolds ==
  /\ profile.status = "APPROVED" => Cleared(proven) /\ profile.role
  /\ profile.online => profile.role /\ profile.located # "none"

EvidenceHolds ==
  /\ \A k \in EvidenceKinds : evidence[k] = "APPROVED" => k \in proven
  /\ \A k \in {"check", "liveness"} : evidence[k] = "APPROVED" => verdict[k] = "VERIFIED"

RepliesHold == \A k \in ProviderKinds : reply[k] = "VERIFIED" => verdict[k] = "VERIFIED"
AgentsHold == \A a \in Agents : AgentHolds(a)

OnboardingInv ==
  OnboardingTypeOK /\ AgentsHold /\ ProfileHolds /\ EvidenceHolds /\ RepliesHold

\* Nothing a handler relies on is taken back.
Grows ==
  /\ application' = application /\ proven \subseteq proven'
  /\ \A k \in ProviderKinds : verdict[k] = "VERIFIED" => verdict'[k] = "VERIFIED"
  /\ profile.role => profile'.role
  /\ profile.located # "none" => profile'.located # "none"

\* The record of a handler that is not at work.
LEMMA StandbyRecord == Standby \in AgentRecord /\ Standby.step = "standby"
BY DEF Standby, AgentRecord, AgentSteps, ReviewStatuses

\* The invariant holds at first.
LEMMA OnboardingStarts == OnboardingInit => OnboardingInv
<1> SUFFICES ASSUME OnboardingInit PROVE OnboardingInv
  OBVIOUS
<1>1. OnboardingTypeOK
  BY StandbyRecord DEF OnboardingInit, OnboardingTypeOK, ProfileRecord, ReviewStatuses, ProviderAnswers
<1>2. AgentsHold
  BY StandbyRecord DEF OnboardingInit, AgentsHold, AgentHolds
<1>3. EvidenceHolds /\ RepliesHold
  BY DEF OnboardingInit, EvidenceHolds, RepliesHold, EvidenceKinds
<1>4. ProfileHolds
  BY DEF OnboardingInit, ProfileHolds
<1>5. QED
  BY <1>1, <1>2, <1>3, <1>4 DEF OnboardingInv

\* A handler that does nothing holds what it held.
LEMMA AgentKeeps ==
  ASSUME Grows, NEW a \in Agents, agent'[a] = agent[a], AgentHolds(a),
         profile'.status = profile.status \/ agent[a].step \notin {"submit", "decide", "approve", "reject"}
  PROVE  AgentHolds(a)'
<1>1. ASSUME agent[a].step \in {"decide", "approve"}
      PROVE  Cleared(proven \cup agent[a].approve)'
  <2>1. Cleared(proven \cup agent[a].approve)
    BY <1>1 DEF AgentHolds
  <2>2. QED
    BY <2>1 DEF Grows, Cleared
<1>2. QED
  BY <1>1 DEF Grows, AgentHolds, ProviderKinds

\* Handlers that do not change the status: one goes on with record t.
LEMMA AgentMoves ==
  ASSUME OnboardingInv, Grows, profile'.status = profile.status,
         NEW a \in Agents, NEW t \in AgentRecord, agent' = [agent EXCEPT ![a] = t], AgentHolds(a)'
  PROVE  agent' \in [Agents -> AgentRecord] /\ AgentsHold'
<1>1. agent \in [Agents -> AgentRecord] /\ \A b \in Agents : AgentHolds(b)
  BY DEF OnboardingInv, OnboardingTypeOK, AgentsHold
<1>2. agent' \in [Agents -> AgentRecord] /\ \A b \in Agents \ {a} : agent'[b] = agent[b]
  BY <1>1
<1>3. \A b \in Agents \ {a} : AgentHolds(b)'
  BY <1>1, <1>2, AgentKeeps
<1>4. QED
  BY <1>2, <1>3 DEF AgentsHold

\* No handler moves.
LEMMA AgentsStay ==
  ASSUME OnboardingInv, Grows, profile'.status = profile.status, UNCHANGED agent
  PROVE  agent' \in [Agents -> AgentRecord] /\ AgentsHold'
<1>1. agent \in [Agents -> AgentRecord] /\ \A b \in Agents : AgentHolds(b)
  BY DEF OnboardingInv, OnboardingTypeOK, AgentsHold
<1>2. \A b \in Agents : AgentHolds(b)'
  BY <1>1, AgentKeeps
<1>3. QED
  BY <1>1, <1>2 DEF AgentsHold

\* The handler is done.
LEMMA AgentLeaves ==
  ASSUME OnboardingInv, Grows, profile'.status = profile.status, NEW a \in Agents, Leave(a)
  PROVE  agent' \in [Agents -> AgentRecord] /\ AgentsHold'
<1>1. agent \in [Agents -> AgentRecord] /\ agent' = [agent EXCEPT ![a] = Standby]
  BY DEF OnboardingInv, OnboardingTypeOK, Leave
<1>2. agent'[a] = Standby
  BY <1>1
<1>3. AgentHolds(a)'
  BY <1>2, StandbyRecord DEF AgentHolds
<1>4. QED
  BY <1>1, <1>3, StandbyRecord, AgentMoves

\* A handler that only reads.
LEMMA AgentReads ==
  ASSUME OnboardingInv, NEW a \in Agents, NEW t \in AgentRecord, Visit(a, t), AgentHolds(a)',
         UNCHANGED <<application, profile, evidence, reply, verdict, proven>>
  PROVE  OnboardingInv'
<1>1. Grows /\ agent' = [agent EXCEPT ![a] = t]
  BY DEF Grows, Visit
<1>2. agent' \in [Agents -> AgentRecord] /\ AgentsHold'
  BY <1>1, AgentMoves
<1>3. OnboardingTypeOK'
  BY <1>2 DEF OnboardingInv, OnboardingTypeOK
<1>4. ProfileHolds' /\ EvidenceHolds' /\ RepliesHold'
  BY DEF OnboardingInv, ProfileHolds, EvidenceHolds, RepliesHold, Cleared
<1>5. QED
  BY <1>2, <1>3, <1>4 DEF OnboardingInv

\* The status changes: every decision under way is late from now on.
LEMMA StatusMoves ==
  ASSUME OnboardingInv, Grows, NEW a \in Agents, NEW status, WriteStatus(a, status)
  PROVE  agent' \in [Agents -> AgentRecord] /\ AgentsHold'
<1>1. agent \in [Agents -> AgentRecord] /\ \A b \in Agents : AgentHolds(b)
  BY DEF OnboardingInv, OnboardingTypeOK, AgentsHold
<1>2. ASSUME NEW b \in Agents PROVE agent'[b] \in AgentRecord /\ AgentHolds(b)'
  <2>1. CASE b = a
    <3>1. agent'[b] = Standby
      BY <2>1 DEF WriteStatus
    <3>2. QED
      BY <3>1, StandbyRecord DEF AgentHolds
  <2>2. CASE b # a /\ agent[b].step \in {"submit", "decide", "approve", "reject"}
    <3>1. agent'[b] = [agent[b] EXCEPT !.late = TRUE]
      BY <2>2 DEF WriteStatus
    <3>2. agent'[b] \in AgentRecord /\ agent'[b].step = agent[b].step /\ agent'[b].late
          /\ agent'[b].approve = agent[b].approve
      BY <1>1, <3>1 DEF AgentRecord
    <3>3. ASSUME agent[b].step \in {"decide", "approve"}
          PROVE  agent'[b].approve \subseteq ManualKinds /\ Cleared(proven \cup agent[b].approve)'
      <4>1. agent[b].approve \subseteq ManualKinds /\ Cleared(proven \cup agent[b].approve)
        BY <1>1, <3>3 DEF AgentHolds
      <4>2. agent'[b].approve \subseteq ManualKinds
        BY <3>2, <4>1
      <4>3. Cleared(proven \cup agent[b].approve)'
        BY <3>2, <4>1 DEF Grows, Cleared
      <4>4. QED
        BY <4>2, <4>3
    <3>4. QED
      BY <2>2, <3>2, <3>3 DEF AgentHolds
  <2>3. CASE b # a /\ agent[b].step \notin {"submit", "decide", "approve", "reject"}
    <3>1. agent'[b] = agent[b]
      BY <2>3 DEF WriteStatus
    <3>2. QED
      BY <1>1, <2>3, <3>1, AgentKeeps
  <2>4. QED
    BY <2>1, <2>2, <2>3
<1>3. agent' = [b \in Agents |-> agent'[b]]
  BY DEF WriteStatus
<1>4. QED
  BY <1>2, <1>3 DEF AgentsHold

\* A row takes a status: APPROVED is remembered, and asks for the verdict
\* where a provider has the word.
LEMMA EvidenceWrites ==
  ASSUME OnboardingInv, NEW k \in EvidenceKinds, NEW status \in ReviewStatuses,
         SetEvidence(k, status), UNCHANGED verdict,
         status = "APPROVED" /\ k \in {"check", "liveness"} => verdict[k] = "VERIFIED"
  PROVE  evidence' \in [EvidenceKinds -> ReviewStatuses] /\ EvidenceHolds' /\ proven \subseteq proven'
<1>1. evidence \in [EvidenceKinds -> ReviewStatuses] /\ EvidenceHolds
  BY DEF OnboardingInv, OnboardingTypeOK
<1>2. proven \subseteq proven' /\ (status = "APPROVED" => k \in proven')
  BY DEF SetEvidence
<1>3. evidence' \in [EvidenceKinds -> ReviewStatuses] /\ evidence'[k] = status
      /\ \A j \in EvidenceKinds \ {k} : evidence'[j] = evidence[j]
  BY <1>1 DEF SetEvidence
<1>4. \A j \in EvidenceKinds : evidence'[j] = "APPROVED" => j \in proven'
  BY <1>1, <1>2, <1>3 DEF EvidenceHolds
<1>5. \A j \in {"check", "liveness"} : evidence'[j] = "APPROVED" => verdict'[j] = "VERIFIED"
  BY <1>1, <1>3 DEF EvidenceHolds, EvidenceKinds
<1>6. QED
  BY <1>2, <1>3, <1>4, <1>5 DEF EvidenceHolds

\* Rows return to PENDING, or appear.
LEMMA EvidencePends ==
  ASSUME OnboardingInv, UNCHANGED <<verdict, proven>>,
         evidence' \in [EvidenceKinds -> ReviewStatuses],
         \A k \in EvidenceKinds : evidence'[k] = "APPROVED" => evidence[k] = "APPROVED"
  PROVE  EvidenceHolds'
BY DEF OnboardingInv, EvidenceHolds, EvidenceKinds

\* A step on the evidence alone.
LEMMA EvidenceFrame ==
  ASSUME OnboardingInv, UNCHANGED <<application, profile, verdict>>, proven \subseteq proven',
         evidence' \in [EvidenceKinds -> ReviewStatuses], EvidenceHolds',
         reply' \in [ProviderKinds -> ProviderAnswers], RepliesHold',
         agent' \in [Agents -> AgentRecord], AgentsHold'
  PROVE  OnboardingInv'
<1>1. OnboardingTypeOK'
  BY DEF OnboardingInv, OnboardingTypeOK
<1>2. ProfileHolds'
  BY DEF OnboardingInv, ProfileHolds, Cleared
<1>3. QED
  BY <1>1, <1>2 DEF OnboardingInv

\* New rows, the verdicts of the provider, and what staff review at once.
LEMMA RowsStep ==
  ASSUME OnboardingInv,
         \/ \E k \in EvidenceKinds : AddEvidence(k)
         \/ \E b \in BOOLEAN : AddVehicle(b)
         \/ \E k \in EvidenceKinds \ {"check", "liveness"}, status \in {"APPROVED", "REJECTED"} :
              ReviewEvidence(k, status)
  PROVE  OnboardingInv'
<1>0. evidence \in [EvidenceKinds -> ReviewStatuses] /\ reply \in [ProviderKinds -> ProviderAnswers]
  BY DEF OnboardingInv, OnboardingTypeOK
<1>1. UNCHANGED <<application, profile, reply, verdict, agent>>
  BY DEF AddEvidence, AddVehicle, ReviewEvidence
<1>2. evidence' \in [EvidenceKinds -> ReviewStatuses] /\ EvidenceHolds' /\ proven \subseteq proven'
  <2>1. ASSUME NEW k \in EvidenceKinds, AddEvidence(k)
        PROVE  evidence' \in [EvidenceKinds -> ReviewStatuses] /\ EvidenceHolds' /\ proven' = proven
    <3>1. evidence' = [evidence EXCEPT ![k] = "PENDING"] /\ UNCHANGED <<verdict, proven>>
      BY <2>1 DEF AddEvidence
    <3>2. evidence' \in [EvidenceKinds -> ReviewStatuses]
          /\ \A j \in EvidenceKinds : evidence'[j] = "APPROVED" => evidence[j] = "APPROVED"
      BY <1>0, <3>1 DEF ReviewStatuses
    <3>3. QED
      BY <3>1, <3>2, EvidencePends
  <2>2. ASSUME NEW b \in BOOLEAN, AddVehicle(b)
        PROVE  evidence' \in [EvidenceKinds -> ReviewStatuses] /\ EvidenceHolds' /\ proven' = proven
    <3>1. PICK photo \in {"PENDING", "none"} :
            evidence' = [evidence EXCEPT !["vehicle"] = "PENDING", !["photo"] = photo]
      BY <2>2 DEF AddVehicle
    <3>2. UNCHANGED <<verdict, proven>>
      BY <2>2 DEF AddVehicle
    <3>3. evidence' \in [EvidenceKinds -> ReviewStatuses]
          /\ \A j \in EvidenceKinds : evidence'[j] = "APPROVED" => evidence[j] = "APPROVED"
      BY <1>0, <3>1 DEF ReviewStatuses
    <3>4. QED
      BY <3>2, <3>3, EvidencePends
  <2>3. ASSUME NEW k \in EvidenceKinds \ {"check", "liveness"},
               NEW status \in {"APPROVED", "REJECTED"}, ReviewEvidence(k, status)
        PROVE  evidence' \in [EvidenceKinds -> ReviewStatuses] /\ EvidenceHolds'
               /\ proven \subseteq proven'
    <3>1. SetEvidence(k, status) /\ UNCHANGED verdict /\ status \in ReviewStatuses
      BY <2>3 DEF ReviewEvidence, ReviewStatuses
    <3>2. QED
      BY <3>1, EvidenceWrites
  <2>4. QED
    BY <2>1, <2>2, <2>3
<1>3. Grows
  BY <1>1, <1>2 DEF Grows
<1>4. agent' \in [Agents -> AgentRecord] /\ AgentsHold'
  BY <1>1, <1>3, AgentsStay
<1>5. RepliesHold' /\ reply' \in [ProviderKinds -> ProviderAnswers]
  BY <1>0, <1>1 DEF OnboardingInv, RepliesHold
<1>6. QED
  BY <1>1, <1>2, <1>4, <1>5, EvidenceFrame

\* A verdict is final.
LEMMA VerdictStep ==
  ASSUME OnboardingInv, NEW k \in ProviderKinds, ProviderDecides(k)
  PROVE  OnboardingInv'
<1>1. verdict \in [ProviderKinds -> ProviderAnswers]
  BY DEF OnboardingInv, OnboardingTypeOK
<1>2. verdict[k] = "PENDING" /\ UNCHANGED <<application, profile, evidence, reply, agent, proven>>
  BY DEF ProviderDecides
<1>3. PICK v \in {"VERIFIED", "FAILED"} : verdict' = [verdict EXCEPT ![k] = v]
  BY DEF ProviderDecides
<1>4. verdict' \in [ProviderKinds -> ProviderAnswers]
      /\ \A j \in ProviderKinds : verdict[j] = "VERIFIED" => verdict'[j] = "VERIFIED"
  BY <1>1, <1>2, <1>3 DEF ProviderAnswers
<1>5. Grows
  BY <1>2, <1>4 DEF Grows
<1>6. agent' \in [Agents -> AgentRecord] /\ AgentsHold'
  BY <1>2, <1>5, AgentsStay
<1>7. EvidenceHolds' /\ RepliesHold'
  BY <1>2, <1>4 DEF OnboardingInv, EvidenceHolds, RepliesHold, ProviderKinds
<1>8. ProfileHolds'
  BY <1>2 DEF OnboardingInv, ProfileHolds, Cleared
<1>9. OnboardingTypeOK'
  BY <1>2, <1>4, <1>6 DEF OnboardingInv, OnboardingTypeOK
<1>10. QED
  BY <1>6, <1>7, <1>8, <1>9 DEF OnboardingInv

\* The rider's reads: an edit, a question to the provider, a submission, a
\* check before going online.
LEMMA RiderReads ==
  ASSUME OnboardingInv, NEW a \in Agents,
         \/ UpdateVehicle(a) \/ ReplaceVehicleDocument(a)
         \/ \E k \in ProviderKinds : AskProvider(a, k)
         \/ VerifyDriverLicense(a) \/ SubmitRead(a) \/ GoOnlineRead(a)
  PROVE  OnboardingInv'
<1>0. /\ agent \in [Agents -> AgentRecord] /\ verdict \in [ProviderKinds -> ProviderAnswers]
      /\ profile \in ProfileRecord /\ ProfileHolds
  BY DEF OnboardingInv, OnboardingTypeOK
<1>1. ASSUME NEW t \in AgentRecord, Visit(a, t),
             t.step = "edit" => t.kind \in {"vehicle", "registration"},
             t.step \in {"answer", "create"} =>
               t.kind \in ProviderKinds /\ t.answer \in ProviderAnswers /\ t.answer = verdict[t.kind],
             t.step = "create" => t.kind = "check",
             t.step = "online" => profile.role /\ profile.located # "none",
             t.step = "submit" => profile.status \in {"CREATED", "REJECTED"},
             t.step \notin {"review", "decide", "approve", "reject"},
             UNCHANGED <<application, profile, evidence, reply, verdict, proven>>
      PROVE  OnboardingInv'
  <2>1. agent'[a] = t
    BY <1>0, <1>1 DEF Visit
  <2>2. AgentHolds(a)'
    BY <1>1, <2>1 DEF AgentHolds
  <2>3. QED
    BY <1>1, <2>2, AgentReads
<1>2. ASSUME NEW k \in {"vehicle", "registration"}, EditRead(a, k) PROVE OnboardingInv'
  <2>1. PICK t : t = [Standby EXCEPT !.step = "edit", !.kind = k]
    OBVIOUS
  <2>2. t \in AgentRecord /\ t.step = "edit" /\ t.kind = k
    BY <2>1, StandbyRecord DEF AgentRecord, AgentSteps, EvidenceKinds
  <2>3. QED
    BY <1>1, <1>2, <2>1, <2>2 DEF EditRead
<1>3. ASSUME NEW k \in ProviderKinds, AskProvider(a, k) PROVE OnboardingInv'
  <2>1. PICK answer \in ProviderAnswers : answer = verdict[k]
    BY <1>0
  <2>2. PICK t : t = [Standby EXCEPT !.step = "answer", !.kind = k, !.answer = answer]
    OBVIOUS
  <2>3. t \in AgentRecord /\ t.step = "answer" /\ t.kind = k /\ t.answer = answer
    BY <2>2, StandbyRecord DEF AgentRecord, AgentSteps, EvidenceKinds, ProviderKinds
  <2>4. QED
    BY <1>1, <1>3, <2>1, <2>2, <2>3 DEF AskProvider
<1>4. CASE VerifyDriverLicense(a)
  <2>1. PICK answer \in ProviderAnswers : answer = verdict["check"]
    BY <1>0 DEF ProviderKinds
  <2>2. PICK t : t = [Standby EXCEPT !.step = "create", !.kind = "check", !.answer = answer]
    OBVIOUS
  <2>3. t \in AgentRecord /\ t.step = "create" /\ t.kind = "check" /\ t.answer = answer
    BY <2>2, StandbyRecord DEF AgentRecord, AgentSteps, EvidenceKinds
  <2>4. QED
    BY <1>1, <1>4, <2>1, <2>2, <2>3 DEF VerifyDriverLicense, ProviderKinds
<1>5. CASE SubmitRead(a)
  <2>1. PICK t : t = [Standby EXCEPT !.step = "submit"]
    OBVIOUS
  <2>2. t \in AgentRecord /\ t.step = "submit"
    BY <2>1, StandbyRecord DEF AgentRecord, AgentSteps
  <2>3. profile.status \in {"CREATED", "REJECTED"}
    BY <1>0, <1>5 DEF SubmitRead, Editable, ProfileRecord
  <2>4. QED
    BY <1>1, <1>5, <2>1, <2>2, <2>3 DEF SubmitRead
<1>6. CASE GoOnlineRead(a)
  <2>1. PICK t : t = [Standby EXCEPT !.step = "online"]
    OBVIOUS
  <2>2. t \in AgentRecord /\ t.step = "online"
    BY <2>1, StandbyRecord DEF AgentRecord, AgentSteps
  <2>3. profile.role /\ profile.located # "none"
    BY <1>0, <1>6 DEF GoOnlineRead, MayGoOnline, CanAcceptDeliveries, ProfileHolds
  <2>4. QED
    BY <1>1, <1>6, <2>1, <2>2, <2>3 DEF GoOnlineRead
<1>7. QED
  BY <1>2, <1>3, <1>4, <1>5, <1>6 DEF UpdateVehicle, ReplaceVehicleDocument

\* What staff find enough has been approved, but for what they approve with it.
LEMMA EnoughIsCleared ==
  ASSUME OnboardingInv, NEW ks \in SUBSET ManualKinds, Operational(WithApprovals(ks))
  PROVE  Cleared(proven \cup ks)
<1>1. \A k \in EvidenceKinds : WithApprovals(ks)[k] = "APPROVED" => k \in proven \cup ks
  BY DEF WithApprovals, OnboardingInv, EvidenceHolds
<1>2. /\ "APPROVED" \in {WithApprovals(ks)["licence"], WithApprovals(ks)["check"]}
           => {"licence", "check"} \cap (proven \cup ks) # {}
      /\ \A k \in {"document", "liveness", "vehicle", "registration"} :
           WithApprovals(ks)[k] = "APPROVED" => k \in proven \cup ks
  BY <1>1 DEF EvidenceKinds
<1>3. QED
  BY <1>2 DEF Operational, LicenceApproved, Cleared

\* The reads of staff: a review, a rejection, an approval with or without the
\* pending manual evidence, and the updates that follow it.
LEMMA ReviewersRead ==
  ASSUME OnboardingInv, NEW a \in Agents,
         \/ \E status \in {"APPROVED", "REJECTED"} : ReviewLicenceRead(a, status)
         \/ ApproveRiderRead(a) \/ RejectRiderRead(a)
         \/ \E manual \in BOOLEAN : DecideApplicationRead(a, manual)
  PROVE  OnboardingInv'
<1>0. agent \in [Agents -> AgentRecord]
  BY DEF OnboardingInv, OnboardingTypeOK
<1>1. ASSUME NEW t \in AgentRecord, Visit(a, t),
             t.step = "review" => t.answer \in {"APPROVED", "REJECTED"}
                                  /\ (t.answer = "APPROVED" => verdict["check"] = "VERIFIED"),
             t.step \in {"decide", "approve"} =>
               t.approve \subseteq ManualKinds /\ Cleared(proven \cup t.approve),
             t.step # "review" => profile.status = "UNDER_REVIEW",
             t.step \in {"review", "decide", "approve", "reject"},
             UNCHANGED <<application, profile, evidence, reply, verdict, proven>>
      PROVE  OnboardingInv'
  <2>1. agent'[a] = t
    BY <1>0, <1>1 DEF Visit
  <2>2. t.step \in {"decide", "approve"} => Cleared(proven \cup t.approve)'
    BY <1>1 DEF Cleared
  <2>3. AgentHolds(a)'
    BY <1>1, <2>1, <2>2 DEF AgentHolds
  <2>4. QED
    BY <1>1, <2>3, AgentReads
<1>2. ASSUME NEW status \in {"APPROVED", "REJECTED"}, ReviewLicenceRead(a, status)
      PROVE  OnboardingInv'
  <2>1. PICK t : t = [Standby EXCEPT !.step = "review", !.kind = "check", !.answer = status]
    OBVIOUS
  <2>2. t \in AgentRecord /\ t.step = "review" /\ t.answer = status
    BY <2>1, StandbyRecord DEF AgentRecord, AgentSteps, EvidenceKinds, ReviewStatuses
  <2>3. status = "APPROVED" => verdict["check"] = "VERIFIED"
    BY <1>2 DEF ReviewLicenceRead, LicenceReviewable, OnboardingInv, RepliesHold, ProviderKinds
  <2>4. QED
    BY <1>1, <1>2, <2>1, <2>2, <2>3 DEF ReviewLicenceRead
<1>3. ASSUME NEW manual \in SUBSET ManualKinds, NEW step \in {"decide", "approve"},
             Operational(WithApprovals(manual)), profile.status = "UNDER_REVIEW",
             NEW t \in AgentRecord, Visit(a, t), t.step = step, t.approve = manual,
             UNCHANGED <<application, profile, evidence, reply, verdict, proven>>
      PROVE  OnboardingInv'
  <2>1. Cleared(proven \cup manual)
    BY <1>3, EnoughIsCleared
  <2>2. QED
    BY <1>1, <1>3, <2>1
<1>4. CASE ApproveRiderRead(a)
  <2>1. PICK t : t = [Standby EXCEPT !.step = "approve"]
    OBVIOUS
  <2>2. t \in AgentRecord /\ t.step = "approve" /\ t.approve = {}
    BY <2>1, StandbyRecord DEF AgentRecord, AgentSteps, Standby
  <2>3. WithApprovals({}) = evidence
    BY DEF OnboardingInv, OnboardingTypeOK, WithApprovals
  <2>4. QED
    BY <1>3, <1>4, <2>1, <2>2, <2>3 DEF ApproveRiderRead
<1>5. CASE RejectRiderRead(a)
  <2>1. PICK t : t = [Standby EXCEPT !.step = "reject"]
    OBVIOUS
  <2>2. t \in AgentRecord /\ t.step = "reject"
    BY <2>1, StandbyRecord DEF AgentRecord, AgentSteps
  <2>3. QED
    BY <1>1, <1>5, <2>1, <2>2 DEF RejectRiderRead
<1>6. ASSUME NEW b \in BOOLEAN, DecideApplicationRead(a, b) PROVE OnboardingInv'
  <2>1. PICK manual \in SUBSET ManualKinds : manual = IF b THEN PendingManual ELSE {}
    BY DEF PendingManual, ManualKinds
  <2>2. PICK t : t = [Standby EXCEPT !.step = "decide", !.approve = manual]
    OBVIOUS
  <2>3. t \in AgentRecord /\ t.step = "decide" /\ t.approve = manual
    BY <2>2, StandbyRecord DEF AgentRecord, AgentSteps, EvidenceKinds, ManualKinds
  <2>4. QED
    BY <1>3, <1>6, <2>1, <2>2, <2>3 DEF DecideApplicationRead
<1>7. QED
  BY <1>2, <1>4, <1>5, <1>6

\* The second step of a handler that writes evidence, or gives up.
LEMMA AgentWrites ==
  ASSUME OnboardingInv, NEW a \in Agents,
         EditEvidence(a) \/ WriteAnswer(a) \/ AnswerLost(a) \/ ReviewLicence(a)
  PROVE  OnboardingInv'
<1>0. /\ agent[a] \in AgentRecord /\ AgentHolds(a) /\ RepliesHold
      /\ evidence \in [EvidenceKinds -> ReviewStatuses] /\ EvidenceHolds
      /\ reply \in [ProviderKinds -> ProviderAnswers]
  BY DEF OnboardingInv, OnboardingTypeOK, AgentsHold
<1>1. Leave(a) /\ UNCHANGED <<application, profile, verdict>>
  BY DEF EditEvidence, WriteAnswer, AnswerLost, ReviewLicence
<1>2. ASSUME evidence' \in [EvidenceKinds -> ReviewStatuses], EvidenceHolds',
             proven \subseteq proven',
             reply' \in [ProviderKinds -> ProviderAnswers], RepliesHold'
      PROVE  OnboardingInv'
  <2>1. Grows
    BY <1>1, <1>2 DEF Grows
  <2>2. agent' \in [Agents -> AgentRecord] /\ AgentsHold'
    BY <1>1, <2>1, AgentLeaves
  <2>3. QED
    BY <1>1, <1>2, <2>2, EvidenceFrame
<1>3. ASSUME UNCHANGED <<reply, verdict>>
      PROVE  reply' \in [ProviderKinds -> ProviderAnswers] /\ RepliesHold'
  BY <1>0, <1>3 DEF RepliesHold
<1>4. CASE EditEvidence(a)
  <2>1. agent[a].kind \in {"vehicle", "registration"} /\ UNCHANGED <<reply, proven>>
    BY <1>0, <1>4 DEF EditEvidence, AgentHolds
  <2>2. PICK photo \in {"PENDING", evidence["photo"]} :
          evidence' = [evidence EXCEPT ![agent[a].kind] = "PENDING", !["photo"] = photo]
    BY <1>4 DEF EditEvidence
  <2>3. PICK k \in {"vehicle", "registration"} : k = agent[a].kind
    BY <2>1
  <2>4. evidence' \in [EvidenceKinds -> ReviewStatuses]
        /\ \A j \in EvidenceKinds : evidence'[j] = "APPROVED" => evidence[j] = "APPROVED"
    BY <1>0, <2>2, <2>3 DEF ReviewStatuses, EvidenceKinds
  <2>5. EvidenceHolds'
    BY <1>1, <2>1, <2>4, EvidencePends
  <2>6. QED
    BY <1>1, <1>2, <1>3, <2>1, <2>4, <2>5
<1>5. CASE AnswerLost(a)
  <2>1. UNCHANGED <<evidence, reply, proven>>
    BY <1>5 DEF AnswerLost
  <2>2. EvidenceHolds'
    BY <1>0, <1>1, <2>1, EvidencePends
  <2>3. QED
    BY <1>0, <1>1, <1>2, <1>3, <2>1, <2>2
<1>6. CASE ReviewLicence(a)
  <2>1. agent[a].answer \in {"APPROVED", "REJECTED"} /\ SetEvidence("check", agent[a].answer)
        /\ (agent[a].answer = "APPROVED" => verdict["check"] = "VERIFIED") /\ UNCHANGED reply
    BY <1>0, <1>6 DEF ReviewLicence, AgentHolds
  <2>2. agent[a].answer \in ReviewStatuses /\ "check" \in EvidenceKinds
    BY <2>1 DEF ReviewStatuses, EvidenceKinds
  <2>3. evidence' \in [EvidenceKinds -> ReviewStatuses] /\ EvidenceHolds' /\ proven \subseteq proven'
    BY <1>1, <2>1, <2>2, EvidenceWrites
  <2>4. QED
    BY <1>1, <1>2, <1>3, <2>1, <2>3
<1>7. CASE WriteAnswer(a)
  <2>1. PICK k \in ProviderKinds, answer \in ProviderAnswers :
          /\ k = agent[a].kind /\ answer = agent[a].answer
          /\ answer = "VERIFIED" => verdict[k] = "VERIFIED"
    BY <1>0, <1>7 DEF WriteAnswer, AgentHolds, ProviderKinds
  <2>2. reply' = [reply EXCEPT ![k] = answer]
        /\ \/ SetEvidence(k, StatusOf(answer))
           \/ answer = "VERIFIED" /\ SetEvidence(k, "APPROVED")
           \/ UNCHANGED <<evidence, proven>>
    BY <1>7, <2>1 DEF WriteAnswer
  <2>3. reply' \in [ProviderKinds -> ProviderAnswers]
        /\ \A j \in ProviderKinds : reply'[j] = IF j = k THEN answer ELSE reply[j]
    BY <1>0, <2>2
  <2>4. RepliesHold'
    BY <1>0, <1>1, <2>1, <2>3 DEF RepliesHold
  <2>5. ASSUME NEW status \in ReviewStatuses, SetEvidence(k, status),
               status = "APPROVED" => answer = "VERIFIED"
        PROVE  OnboardingInv'
    <3>1. k \in EvidenceKinds
      BY DEF ProviderKinds, EvidenceKinds
    <3>2. evidence' \in [EvidenceKinds -> ReviewStatuses] /\ EvidenceHolds'
          /\ proven \subseteq proven'
      BY <1>1, <2>1, <2>5, <3>1, EvidenceWrites
    <3>3. QED
      BY <1>2, <2>3, <2>4, <3>2
  <2>6. StatusOf(answer) \in ReviewStatuses /\ (StatusOf(answer) = "APPROVED" => answer = "VERIFIED")
    BY DEF StatusOf, ReviewStatuses, ProviderAnswers
  <2>7. "APPROVED" \in ReviewStatuses
    BY DEF ReviewStatuses
  <2>8. CASE UNCHANGED <<evidence, proven>>
    <3>1. EvidenceHolds'
      BY <1>0, <1>1, <2>8, EvidencePends
    <3>2. QED
      BY <1>0, <1>2, <2>3, <2>4, <2>8, <3>1
  <2>9. QED
    BY <2>2, <2>5, <2>6, <2>7, <2>8
<1>8. QED
  BY <1>4, <1>5, <1>6, <1>7

\* A step on the profile that leaves its status alone.
LEMMA ProfileStep ==
  ASSUME OnboardingInv,
         \/ UpdateRiderProfile \/ UpdateCurrentLocation \/ LocationAges \/ GoOffline
         \/ \E a \in Agents : GoOnline(a)
  PROVE  OnboardingInv'
<1>0. profile \in ProfileRecord /\ ProfileHolds /\ EvidenceHolds /\ RepliesHold /\ AgentsHold
  BY DEF OnboardingInv, OnboardingTypeOK
<1>1. UNCHANGED <<application, evidence, reply, verdict, proven>>
  BY DEF UpdateRiderProfile, UpdateCurrentLocation, LocationAges, GoOffline, GoOnline
<1>2. /\ profile' \in ProfileRecord /\ profile'.status = profile.status
      /\ profile'.role = profile.role
      /\ profile.located # "none" => profile'.located # "none"
      /\ profile'.online => profile.online \/ (profile.role /\ profile.located # "none")
  <2>1. CASE UpdateRiderProfile
    BY <1>0, <2>1 DEF UpdateRiderProfile, ProfileRecord
  <2>2. CASE UpdateCurrentLocation
    BY <1>0, <2>2 DEF UpdateCurrentLocation, ProfileRecord
  <2>3. CASE LocationAges
    BY <1>0, <2>3 DEF LocationAges, ProfileRecord
  <2>4. CASE GoOffline
    BY <1>0, <2>4 DEF GoOffline, ProfileRecord
  <2>5. ASSUME NEW a \in Agents, GoOnline(a)
        PROVE  /\ profile' = [profile EXCEPT !.online = TRUE]
               /\ profile.role /\ profile.located # "none"
    BY <1>0, <2>5 DEF GoOnline, AgentsHold, AgentHolds
  <2>6. CASE \E a \in Agents : GoOnline(a)
    BY <1>0, <2>5, <2>6 DEF ProfileRecord
  <2>7. QED
    BY <2>1, <2>2, <2>3, <2>4, <2>6
<1>3. Grows
  BY <1>1, <1>2 DEF Grows
<1>4. agent' \in [Agents -> AgentRecord] /\ AgentsHold'
  <2>1. ASSUME NEW a \in Agents, GoOnline(a)
        PROVE  agent' \in [Agents -> AgentRecord] /\ AgentsHold'
    <3>1. Leave(a)
      BY <2>1 DEF GoOnline
    <3>2. QED
      BY <1>2, <1>3, <3>1, AgentLeaves
  <2>2. CASE UNCHANGED agent
    BY <1>2, <1>3, <2>2, AgentsStay
  <2>3. QED
    BY <2>1, <2>2 DEF UpdateRiderProfile, UpdateCurrentLocation, LocationAges, GoOffline
<1>5. ProfileHolds'
  <2>1. profile'.status = "APPROVED" => Cleared(proven)' /\ profile'.role
    BY <1>0, <1>1, <1>2 DEF ProfileHolds, Cleared
  <2>2. profile'.online => profile'.role /\ profile'.located # "none"
    BY <1>0, <1>2 DEF ProfileHolds
  <2>3. QED
    BY <2>1, <2>2 DEF ProfileHolds
<1>6. EvidenceHolds' /\ RepliesHold'
  BY <1>0, <1>1 DEF EvidenceHolds, RepliesHold
<1>7. OnboardingTypeOK'
  BY <1>1, <1>2, <1>4 DEF OnboardingInv, OnboardingTypeOK
<1>8. QED
  BY <1>4, <1>5, <1>6, <1>7 DEF OnboardingInv

\* Every decision that is not late moves the application where it may go.
LEMMA StatusForward ==
  ASSUME OnboardingInv, NEW a \in Agents,
         SubmitForReview(a) \/ ApproveApplication(a) \/ RejectApplication(a)
  PROVE  ApplicationMovesForward
<1>1. profile \in ProfileRecord /\ AgentHolds(a) /\ agent[a] \in AgentRecord
  BY DEF OnboardingInv, OnboardingTypeOK, AgentsHold
<1>2. agent'[a] = Standby
  BY DEF SubmitForReview, ApproveApplication, RejectApplication, WriteStatus
<1>3. ASSUME ~agent[a].late PROVE <<profile.status, profile'.status>> \in LegalDecisions
  <2>1. CASE SubmitForReview(a)
    <3>1. profile.status \in {"CREATED", "REJECTED"} /\ profile'.status = "UNDER_REVIEW"
      BY <1>1, <1>3, <2>1 DEF SubmitForReview, WriteStatus, AgentHolds, ProfileRecord
    <3>2. QED
      BY <3>1 DEF LegalDecisions
  <2>2. CASE ApproveApplication(a)
    <3>1. profile.status = "UNDER_REVIEW" /\ profile'.status = "APPROVED"
      BY <1>1, <1>3, <2>2 DEF ApproveApplication, WriteStatus, AgentHolds, ProfileRecord
    <3>2. QED
      BY <3>1 DEF LegalDecisions
  <2>3. CASE RejectApplication(a)
    <3>1. profile.status = "UNDER_REVIEW" /\ profile'.status = "REJECTED"
      BY <1>1, <1>3, <2>3 DEF RejectApplication, WriteStatus, AgentHolds, ProfileRecord
    <3>2. QED
      BY <3>1 DEF LegalDecisions
  <2>4. QED
    BY <2>1, <2>2, <2>3
<1>4. QED
  BY <1>2, <1>3 DEF ApplicationMovesForward

\* The submission, the decisions, and the updates before an approval commits.
LEMMA StatusStep ==
  ASSUME OnboardingInv, NEW a \in Agents,
         \/ SubmitForReview(a) \/ ApproveManualChecks(a)
         \/ ApproveApplication(a) \/ RejectApplication(a)
  PROVE  OnboardingInv'
<1>0. /\ profile \in ProfileRecord /\ ProfileHolds /\ EvidenceHolds /\ RepliesHold
      /\ agent \in [Agents -> AgentRecord] /\ AgentHolds(a) /\ agent[a] \in AgentRecord
      /\ evidence \in [EvidenceKinds -> ReviewStatuses]
  BY DEF OnboardingInv, OnboardingTypeOK, AgentsHold
<1>1. UNCHANGED <<application, reply, verdict>>
  BY DEF SubmitForReview, ApproveManualChecks, ApproveApplication, RejectApplication
<1>2. ASSUME NEW status \in {"UNDER_REVIEW", "APPROVED", "REJECTED"}, WriteStatus(a, status),
             evidence' \in [EvidenceKinds -> ReviewStatuses], EvidenceHolds',
             proven \subseteq proven', status = "APPROVED" => Cleared(proven)'
      PROVE  OnboardingInv'
  <2>1. profile' = [profile EXCEPT !.status = status, !.role = @ \/ status = "APPROVED"]
    BY <1>2 DEF WriteStatus
  <2>2. PICK role \in BOOLEAN : role = (profile.role \/ status = "APPROVED")
    OBVIOUS
  <2>3. profile' = [profile EXCEPT !.status = status, !.role = role]
    BY <2>1, <2>2
  <2>4. /\ profile' \in ProfileRecord /\ profile'.status = status /\ profile'.role = role
        /\ profile'.located = profile.located /\ profile'.online = profile.online
    BY <1>0, <1>2, <2>3 DEF ProfileRecord
  <2>5. Grows
    BY <1>1, <1>2, <2>2, <2>4 DEF Grows
  <2>6. agent' \in [Agents -> AgentRecord] /\ AgentsHold'
    BY <1>2, <2>5, StatusMoves
  <2>7. ProfileHolds'
    <3>1. profile'.status = "APPROVED" => Cleared(proven)' /\ profile'.role
      BY <1>2, <2>2, <2>4
    <3>2. profile'.online => profile'.role /\ profile'.located # "none"
      BY <1>0, <2>2, <2>4 DEF ProfileHolds
    <3>3. QED
      BY <3>1, <3>2 DEF ProfileHolds
  <2>8. RepliesHold'
    BY <1>0, <1>1 DEF RepliesHold
  <2>9. OnboardingTypeOK'
    BY <1>1, <1>2, <2>4, <2>6 DEF OnboardingInv, OnboardingTypeOK
  <2>10. QED
    BY <1>2, <2>6, <2>7, <2>8, <2>9 DEF OnboardingInv
<1>3. CASE SubmitForReview(a) \/ RejectApplication(a)
  <2>1. UNCHANGED <<evidence, proven>>
        /\ \E status \in {"UNDER_REVIEW", "REJECTED"} : WriteStatus(a, status)
    BY <1>3 DEF SubmitForReview, RejectApplication
  <2>2. EvidenceHolds'
    BY <1>0, <1>1, <2>1, EvidencePends
  <2>3. QED
    BY <1>0, <1>2, <2>1, <2>2
<1>4. CASE ApproveApplication(a)
  <2>1. PICK ks : ks = agent[a].approve
    OBVIOUS
  <2>2. ks \subseteq ManualKinds /\ Cleared(proven \cup ks)
    BY <1>0, <1>4, <2>1 DEF ApproveApplication, AgentHolds
  <2>3. evidence' = WithApprovals(ks) /\ proven' = proven \cup ks /\ WriteStatus(a, "APPROVED")
    BY <1>4, <2>1 DEF ApproveApplication
  <2>4. \A k \in EvidenceKinds : evidence'[k] = IF k \in ks THEN "APPROVED" ELSE evidence[k]
    BY <2>3 DEF WithApprovals
  <2>5. evidence' \in [EvidenceKinds -> ReviewStatuses]
    BY <1>0, <2>3 DEF WithApprovals, ReviewStatuses
  <2>6. EvidenceHolds'
    BY <1>0, <1>1, <2>2, <2>3, <2>4 DEF EvidenceHolds, EvidenceKinds, ManualKinds
  <2>7. Cleared(proven)'
    BY <1>1, <2>2, <2>3 DEF Cleared
  <2>8. QED
    BY <1>2, <2>3, <2>5, <2>6, <2>7
<1>5. CASE ApproveManualChecks(a)
  <2>1. PICK t : t = [agent[a] EXCEPT !.step = "approve"]
    OBVIOUS
  <2>2. t \in AgentRecord /\ t.step = "approve" /\ t.approve = agent[a].approve
        /\ t.late = agent[a].late
    BY <1>0, <2>1 DEF AgentRecord, AgentSteps
  <2>3. agent' = [agent EXCEPT ![a] = t] /\ agent[a].step = "decide"
        /\ UNCHANGED <<profile, evidence, proven>>
    BY <1>5, <2>1 DEF ApproveManualChecks
  <2>4. agent'[a] = t
    BY <1>0, <2>3
  <2>5. Cleared(proven \cup t.approve)'
    BY <1>0, <1>1, <2>2, <2>3 DEF AgentHolds, Cleared
  <2>6. AgentHolds(a)'
    BY <1>0, <2>2, <2>3, <2>4, <2>5 DEF AgentHolds
  <2>7. Grows
    BY <1>1, <2>3 DEF Grows
  <2>8. agent' \in [Agents -> AgentRecord] /\ AgentsHold'
    BY <2>2, <2>3, <2>6, <2>7, AgentMoves
  <2>9. EvidenceHolds' /\ RepliesHold'
    BY <1>0, <1>1, <2>3 DEF EvidenceHolds, RepliesHold
  <2>10. ProfileHolds'
    BY <1>0, <1>1, <2>3 DEF ProfileHolds, Cleared
  <2>11. OnboardingTypeOK'
    BY <1>1, <2>3, <2>8 DEF OnboardingInv, OnboardingTypeOK
  <2>12. QED
    BY <2>8, <2>9, <2>10, <2>11 DEF OnboardingInv
<1>6. QED
  BY <1>3, <1>4, <1>5

\* Every step keeps the invariant.
LEMMA OnboardingStep ==
  ASSUME OnboardingInv, [OnboardingNext]_onboardingVars PROVE OnboardingInv'
<1>1. CASE \/ \E k \in EvidenceKinds : AddEvidence(k)
           \/ \E b \in BOOLEAN : AddVehicle(b)
           \/ \E k \in EvidenceKinds \ {"check", "liveness"}, status \in {"APPROVED", "REJECTED"} :
                ReviewEvidence(k, status)
  BY <1>1, RowsStep
<1>2. ASSUME NEW k \in ProviderKinds, ProviderDecides(k) PROVE OnboardingInv'
  BY <1>2, VerdictStep
<1>3. CASE \/ UpdateRiderProfile \/ UpdateCurrentLocation \/ LocationAges \/ GoOffline
           \/ \E a \in Agents : GoOnline(a)
  BY <1>3, ProfileStep
<1>4. ASSUME NEW a \in Agents,
             \/ UpdateVehicle(a) \/ ReplaceVehicleDocument(a)
             \/ \E k \in ProviderKinds : AskProvider(a, k)
             \/ VerifyDriverLicense(a) \/ SubmitRead(a) \/ GoOnlineRead(a)
      PROVE  OnboardingInv'
  BY <1>4, RiderReads
<1>5. ASSUME NEW a \in Agents,
             \/ \E status \in {"APPROVED", "REJECTED"} : ReviewLicenceRead(a, status)
             \/ ApproveRiderRead(a) \/ RejectRiderRead(a)
             \/ \E manual \in BOOLEAN : DecideApplicationRead(a, manual)
      PROVE  OnboardingInv'
  BY <1>5, ReviewersRead
<1>6. ASSUME NEW a \in Agents,
             EditEvidence(a) \/ WriteAnswer(a) \/ AnswerLost(a) \/ ReviewLicence(a)
      PROVE  OnboardingInv'
  BY <1>6, AgentWrites
<1>7. ASSUME NEW a \in Agents,
             \/ SubmitForReview(a) \/ ApproveManualChecks(a)
             \/ ApproveApplication(a) \/ RejectApplication(a)
      PROVE  OnboardingInv'
  BY <1>7, StatusStep
<1>8. CASE UNCHANGED onboardingVars
  <2>1. OnboardingTypeOK'
    BY <1>8 DEF onboardingVars, OnboardingInv, OnboardingTypeOK
  <2>2. AgentsHold'
    BY <1>8 DEF onboardingVars, OnboardingInv, AgentsHold, AgentHolds, Cleared
  <2>3. ProfileHolds' /\ EvidenceHolds' /\ RepliesHold'
    BY <1>8 DEF onboardingVars, OnboardingInv, ProfileHolds, EvidenceHolds, RepliesHold, Cleared
  <2>4. QED
    BY <2>1, <2>2, <2>3 DEF OnboardingInv
<1>9. ASSUME OnboardingNext PROVE OnboardingInv'
  <2>1. CASE \/ AddDocument \/ AddLicence \/ MintKycSession \/ AddVehicleDocument
             \/ AddGuarantor \/ AddGuarantorDocument \/ \E b \in BOOLEAN : AddVehicle(b)
    BY <1>1, <2>1 DEF AddDocument, AddLicence, MintKycSession, AddVehicleDocument, AddGuarantor,
                      AddGuarantorDocument, EvidenceKinds
  <2>2. CASE \E status \in {"APPROVED", "REJECTED"} :
               \/ ReviewDocument(status) \/ ReviewVehicleDocument(status) \/ ReviewVehicle(status)
               \/ ReviewGuarantorDocument(status) \/ ReviewManualLicence(status)
    BY <1>1, <2>2 DEF ReviewDocument, ReviewVehicleDocument, ReviewVehicle,
                      ReviewGuarantorDocument, ReviewManualLicence, EvidenceKinds
  <2>3. ASSUME NEW a \in Agents,
               \/ SyncDriverLicenseRequest(a) \/ CompleteLivenessSession(a)
               \/ VerifyRiderDocument(a) \/ VerifyGuarantorDocument(a)
        PROVE  OnboardingInv'
    BY <1>4, <2>3 DEF SyncDriverLicenseRequest, CompleteLivenessSession, VerifyRiderDocument,
                      VerifyGuarantorDocument, ProviderKinds
  <2>4. QED
    BY <1>2, <1>3, <1>4, <1>5, <1>6, <1>7, <1>9, <2>1, <2>2, <2>3 DEF OnboardingNext
<1>10. QED
  BY <1>8, <1>9

\* Only a submission and a decision write the status.
LEMMA ApplicationForward ==
  ASSUME OnboardingInv, [OnboardingNext]_onboardingVars PROVE ApplicationMovesForward
<1> SUFFICES ASSUME profile'.status # profile.status PROVE ApplicationMovesForward
  BY DEF ApplicationMovesForward
<1>1. profile \in ProfileRecord
  BY DEF OnboardingInv, OnboardingTypeOK
<1>2. ASSUME \/ UpdateRiderProfile \/ UpdateCurrentLocation \/ LocationAges \/ GoOffline
             \/ \E a \in Agents : GoOnline(a)
      PROVE  profile'.status = profile.status
  BY <1>1, <1>2 DEF ProfileRecord, UpdateRiderProfile, UpdateCurrentLocation, LocationAges,
                    GoOffline, GoOnline
<1>3. \E a \in Agents : SubmitForReview(a) \/ ApproveApplication(a) \/ RejectApplication(a)
  <2>1. ASSUME \/ AddDocument \/ AddLicence \/ MintKycSession \/ AddVehicleDocument
               \/ AddGuarantor \/ AddGuarantorDocument \/ \E b \in BOOLEAN : AddVehicle(b)
               \/ \E k \in ProviderKinds : ProviderDecides(k)
               \/ \E status \in {"APPROVED", "REJECTED"} :
                    \/ ReviewDocument(status) \/ ReviewVehicleDocument(status)
                    \/ ReviewVehicle(status) \/ ReviewGuarantorDocument(status)
                    \/ ReviewManualLicence(status)
        PROVE  UNCHANGED profile
    BY <2>1 DEF AddDocument, AddLicence, MintKycSession, AddVehicleDocument, AddGuarantor,
       AddGuarantorDocument, AddEvidence, AddVehicle, ProviderDecides, ReviewDocument,
       ReviewVehicleDocument, ReviewVehicle, ReviewGuarantorDocument, ReviewManualLicence,
       ReviewEvidence
  <2>2. ASSUME NEW a \in Agents,
               \/ UpdateVehicle(a) \/ ReplaceVehicleDocument(a) \/ EditEvidence(a)
               \/ SyncDriverLicenseRequest(a) \/ CompleteLivenessSession(a)
               \/ VerifyRiderDocument(a) \/ VerifyGuarantorDocument(a)
               \/ VerifyDriverLicense(a) \/ WriteAnswer(a) \/ AnswerLost(a)
               \/ SubmitRead(a) \/ GoOnlineRead(a)
               \/ \E status \in {"APPROVED", "REJECTED"} : ReviewLicenceRead(a, status)
               \/ ReviewLicence(a) \/ ApproveRiderRead(a) \/ RejectRiderRead(a)
               \/ \E manual \in BOOLEAN : DecideApplicationRead(a, manual)
               \/ ApproveManualChecks(a)
        PROVE  UNCHANGED profile
    BY <2>2 DEF UpdateVehicle, ReplaceVehicleDocument, EditRead, EditEvidence,
       SyncDriverLicenseRequest, CompleteLivenessSession, VerifyRiderDocument,
       VerifyGuarantorDocument, AskProvider, VerifyDriverLicense, WriteAnswer, AnswerLost,
       SubmitRead, GoOnlineRead, ReviewLicenceRead, ReviewLicence, ApproveRiderRead,
       RejectRiderRead, DecideApplicationRead, ApproveManualChecks
  <2>3. QED
    BY <1>2, <2>1, <2>2 DEF OnboardingNext, onboardingVars
<1>4. QED
  BY <1>3, StatusForward

\* OnboardingIsSound: in whatever order the rider, staff and the provider's
\* answers act, an approved rider had every piece the road asks for approved, a
\* provider's verdict is never overruled, nobody is online who was not cleared,
\* and the application moves only along submit, decide and resubmit, but for a
\* decision that was checked before somebody else's.
THEOREM OnboardingCorrect == OnboardingSpec => OnboardingIsSound
<1>1. OnboardingInv /\ [OnboardingNext]_onboardingVars => OnboardingInv'
  BY OnboardingStep
<1>2. OnboardingInv => ApprovedWasVerified /\ ProviderHasTheLastWord /\ OnlineWasCleared
  <2>1. OnboardingInv => ApprovedWasVerified
    BY DEF OnboardingInv, ProfileHolds, ApprovedWasVerified, Cleared
  <2>2. OnboardingInv => ProviderHasTheLastWord
    BY DEF OnboardingInv, EvidenceHolds, ProviderHasTheLastWord
  <2>3. OnboardingInv => OnlineWasCleared
    BY DEF OnboardingInv, ProfileHolds, OnlineWasCleared
  <2>4. QED
    BY <2>1, <2>2, <2>3
<1>3. OnboardingInv /\ [OnboardingNext]_onboardingVars => ApplicationMovesForward
  BY ApplicationForward
<1>4. OnboardingInv /\ OnboardingInv' /\ [OnboardingNext]_onboardingVars
      => [/\ ApplicationMovesForward
          /\ ApprovedWasVerified' /\ ProviderHasTheLastWord' /\ OnlineWasCleared']_onboardingVars
  <2>1. OnboardingInv' => ApprovedWasVerified' /\ ProviderHasTheLastWord' /\ OnlineWasCleared'
    BY <1>2, PTL
  <2>2. QED
    BY <2>1, <1>3
<1>5. QED
  BY OnboardingStarts, <1>1, <1>4, PTL DEF OnboardingSpec, OnboardingIsSound

-----------------------------------------------------------------------------
(***************************************************************************)
(* Tracking.                                                               *)
(***************************************************************************)

UplinkSteps == {"offline", "limit", "store"}

TrackingTypeOK ==
  /\ underway \in BOOLEAN /\ limiter \in BOOLEAN
  /\ intervals \in Nat /\ positions \in Nat
  /\ uplink \in [Uplinks -> [step : UplinkSteps, late : BOOLEAN]]

\* Updates the limiter has let through and that have not stored yet.
Storing == {u \in Uplinks : uplink[u].step = "store"}

\* An interval pays for one position, stored or about to be; who watches was
\* checked; an update that outlives the job knows it is late.
TrackingInv ==
  /\ TrackingTypeOK
  /\ positions + Cardinality(Storing) <= intervals
  /\ room \subseteq carrier \cup {Customer}
  /\ shown \subseteq carrier \cup {Customer}
  /\ \A u \in Uplinks : uplink[u].step # "offline" => underway \/ uplink[u].late

\* The invariant holds at first.
LEMMA TrackingStarts == TrackingInit => TrackingInv
<1> SUFFICES ASSUME TrackingInit PROVE TrackingInv
  OBVIOUS
<1>1. Storing = {}
  BY DEF TrackingInit, Storing, Offline
<1>2. Cardinality(Storing) = 0
  BY <1>1, FS_EmptySet
<1>3. TrackingTypeOK
  BY DEF TrackingInit, TrackingTypeOK, Offline, UplinkSteps
<1>4. QED
  BY <1>2, <1>3 DEF TrackingInit, TrackingInv, Offline

\* Updates about to store are finitely many.
LEMMA StoringFinite ==
  /\ IsFiniteSet(Storing) /\ Cardinality(Storing) \in Nat
  /\ IsFiniteSet(Storing') /\ Cardinality(Storing') \in Nat
<1>1. Storing \subseteq Uplinks /\ Storing' \subseteq Uplinks
  BY DEF Storing
<1>2. QED
  BY <1>1, TrackingAssumption, FS_Subset, FS_CardinalityType

\* Every step keeps the invariant.
LEMMA TrackingStep ==
  ASSUME TrackingInv, [TrackingNext]_trackingVars PROVE TrackingInv'
<1> USE DEF TrackingInv, TrackingTypeOK, UplinkSteps
<1>1. ASSUME NEW c \in Couriers, ClaimJob(c) PROVE TrackingInv'
  <2>1. Storing' = Storing
    BY <1>1 DEF ClaimJob, Storing
  <2>2. QED
    BY <1>1, <2>1 DEF ClaimJob
<1>2. CASE JobEnds
  <2>1. uplink' \in [Uplinks -> [step : UplinkSteps, late : BOOLEAN]]
    BY <1>2 DEF JobEnds
  <2>2. \A u \in Uplinks : uplink'[u].step = uplink[u].step
                           /\ (uplink'[u].step # "offline" => uplink'[u].late)
    BY <1>2 DEF JobEnds
  <2>3. Storing' = Storing
    BY <2>2 DEF Storing
  <2>4. QED
    BY <1>2, <2>1, <2>2, <2>3 DEF JobEnds
<1>3. CASE LimiterExpires
  <2>1. Storing' = Storing
    BY <1>3 DEF LimiterExpires, Storing
  <2>2. QED
    BY <1>3, <2>1 DEF LimiterExpires
<1>4. ASSUME NEW v \in Viewers, JoinDelivery(v) \/ LeaveDelivery(v) PROVE TrackingInv'
  <2>1. Storing' = Storing
    BY <1>4 DEF JoinDelivery, LeaveDelivery, Storing
  <2>2. QED
    BY <1>4, <2>1 DEF JoinDelivery, LeaveDelivery, CanTrack
<1>5. ASSUME NEW u \in Uplinks, NEW c \in Couriers, UpdateLocation(u, c) PROVE TrackingInv'
  <2>1. uplink' \in [Uplinks -> [step : UplinkSteps, late : BOOLEAN]]
    BY <1>5 DEF UpdateLocation
  <2>2. underway /\ uplink[u].step = "offline" /\ uplink'[u].step = "limit"
        /\ \A k \in Uplinks \ {u} : uplink'[k] = uplink[k]
    BY <1>5 DEF UpdateLocation, Accepted, Offline
  <2>3. Storing' = Storing
    BY <2>2 DEF Storing
  <2>4. QED
    BY <1>5, <2>1, <2>2, <2>3 DEF UpdateLocation
<1>6. ASSUME NEW u \in Uplinks, RateLimit(u) PROVE TrackingInv'
  <2>0. uplink' \in [Uplinks -> [step : UplinkSteps, late : BOOLEAN]]
        /\ \A k \in Uplinks \ {u} : uplink'[k] = uplink[k]
    <3>1. Offline \in [step : UplinkSteps, late : BOOLEAN]
      BY DEF Offline
    <3>2. CASE Acquired
      BY <1>6, <3>2 DEF RateLimit
    <3>3. CASE ~Acquired
      BY <1>6, <3>1, <3>3 DEF RateLimit
    <3>4. QED
      BY <3>2, <3>3
  <2>1. CASE Acquired
    <3>1. uplink[u].step = "limit" /\ uplink'[u].step = "store" /\ uplink'[u].late = uplink[u].late
      BY <1>6, <2>1 DEF RateLimit
    <3>2. Storing' = Storing \cup {u} /\ u \notin Storing
      BY <2>0, <3>1 DEF Storing
    <3>3. Cardinality(Storing') = Cardinality(Storing) + 1 /\ Cardinality(Storing) \in Nat
      BY <3>2, StoringFinite, OneJoins
    <3>4. intervals' = intervals + 1 /\ limiter' = TRUE /\ positions' = positions
      BY <1>6, <2>1 DEF RateLimit, Acquired
    <3>5. positions' + Cardinality(Storing') <= intervals' /\ intervals' \in Nat
      BY <3>3, <3>4
    <3>6. QED
      BY <1>6, <2>0, <3>1, <3>4, <3>5 DEF RateLimit
  <2>2. CASE ~Acquired
    <3>1. uplink[u].step = "limit" /\ uplink'[u].step = "offline"
          /\ UNCHANGED <<limiter, intervals>>
      BY <1>6, <2>2 DEF RateLimit, Offline
    <3>2. Storing' = Storing
      BY <2>0, <3>1 DEF Storing
    <3>3. QED
      BY <1>6, <2>0, <3>1, <3>2 DEF RateLimit
  <2>3. QED
    BY <2>1, <2>2
<1>7. ASSUME NEW u \in Uplinks, RecordLocation(u) PROVE TrackingInv'
  <2>0. uplink' \in [Uplinks -> [step : UplinkSteps, late : BOOLEAN]]
        /\ uplink[u].step = "store" /\ uplink'[u].step = "offline"
        /\ \A k \in Uplinks \ {u} : uplink'[k] = uplink[k]
    BY <1>7 DEF RecordLocation, Offline
  <2>1. Storing' = Storing \ {u} /\ u \in Storing
    BY <2>0 DEF Storing
  <2>2. Cardinality(Storing') = Cardinality(Storing) - 1 /\ Cardinality(Storing) \in Nat
    BY <2>1, StoringFinite, OneLeaves
  <2>3. positions' = positions + 1 /\ UNCHANGED intervals
    BY <1>7 DEF RecordLocation
  <2>4. positions' + Cardinality(Storing') <= intervals' /\ positions' \in Nat
    BY <2>2, <2>3
  <2>5. QED
    BY <1>7, <2>0, <2>3, <2>4 DEF RecordLocation
<1>8. CASE UNCHANGED trackingVars
  <2>1. Storing' = Storing
    BY <1>8 DEF trackingVars, Storing
  <2>2. QED
    BY <1>8, <2>1 DEF trackingVars
<1>9. QED
  BY <1>1, <1>2, <1>3, <1>4, <1>5, <1>6, <1>7, <1>8 DEF TrackingNext

\* A position is stored during the job, or by an update that was checked
\* before its end.
LEMMA PositionsBelong ==
  ASSUME TrackingInv, [TrackingNext]_trackingVars PROVE PositionsBelongToJob
<1> SUFFICES ASSUME positions' # positions
             PROVE  underway \/ \E u \in Uplinks : uplink[u].late /\ uplink'[u] = Offline
  BY DEF PositionsBelongToJob
<1>1. PICK u \in Uplinks : RecordLocation(u)
  BY DEF TrackingNext, trackingVars, ClaimJob, JobEnds, LimiterExpires, JoinDelivery,
         LeaveDelivery, UpdateLocation, RateLimit
<1>2. uplink'[u] = Offline /\ uplink[u].step = "store"
  BY <1>1 DEF RecordLocation, TrackingInv, TrackingTypeOK
<1>3. QED
  BY <1>2 DEF TrackingInv

\* PositionsAreGuarded: however updates overlap each other and the end of the
\* delivery, a position is taken once per interval, only for a job whose rider
\* had been checked, and is shown to nobody but him and the customer.
THEOREM PositionsCorrect == TrackingSpec => PositionsAreGuarded
<1>1. TrackingInv /\ [TrackingNext]_trackingVars => TrackingInv'
  BY TrackingStep
<1>2. TrackingInv => PositionsAreSpaced /\ PositionsStayPrivate
  BY StoringFinite DEF TrackingInv, TrackingTypeOK, PositionsAreSpaced, PositionsStayPrivate
<1>3. TrackingInv /\ [TrackingNext]_trackingVars => PositionsBelongToJob
  BY PositionsBelong
<1>4. TrackingInv /\ TrackingInv' /\ [TrackingNext]_trackingVars
      => [PositionsBelongToJob /\ PositionsAreSpaced' /\ PositionsStayPrivate']_trackingVars
  <2>1. TrackingInv' => PositionsAreSpaced' /\ PositionsStayPrivate'
    BY <1>2, PTL
  <2>2. QED
    BY <2>1, <1>3
<1>5. QED
  BY TrackingStarts, <1>1, <1>4, PTL DEF TrackingSpec, PositionsAreGuarded

-----------------------------------------------------------------------------
(***************************************************************************)
(* Conversations.                                                          *)
(***************************************************************************)

\* A set of naturals that is not empty has a least element ...
LEMMA LeastExists ==
  ASSUME NEW T, T \subseteq Nat, T # {}
  PROVE  \E x \in T : \A y \in T : x <= y
<1>1. PICK R : R = OpToRel(<, Nat)
  OBVIOUS
<1>2. IsWellFoundedOn(R, Nat)
  BY <1>1, NatLessThanWellFounded
<1>3. R = {ss \in Nat \X Nat : ss[1] < ss[2]}
  BY <1>1 DEF OpToRel
<1>4. \E x \in T : \A y \in T : ~ (<<y, x>> \in R)
  BY <1>2, WFMin
<1>5. PICK x \in T : \A y \in T : ~ (<<y, x>> \in R)
  BY <1>4
<1>6. ASSUME NEW y \in T PROVE x <= y
  <2>1. x \in Nat /\ y \in Nat /\ <<y, x>> \in Nat \X Nat
    OBVIOUS
  <2>2. ~(y < x)
    BY <1>3, <1>5, <2>1
  <2>3. QED
    BY <2>1, <2>2
<1>7. QED
  BY <1>6

\* ... and, when it is bounded, a greatest one.
LEMMA GreatestExists ==
  ASSUME NEW T, T \subseteq Nat, T # {}, NEW b \in Nat, \A y \in T : y <= b
  PROVE  \E x \in T : \A y \in T : y <= x
<1>1. PICK U : U = {n \in Nat : \A y \in T : y <= n}
  OBVIOUS
<1>2. U \subseteq Nat /\ U # {}
  BY <1>1
<1>3. PICK u \in U : \A n \in U : u <= n
  BY <1>2, LeastExists
<1>4. u \in Nat /\ \A y \in T : y <= u
  BY <1>1
<1>5. CASE u \in T
  BY <1>4, <1>5
<1>6. CASE u \notin T
  <2>1. PICK y \in T : TRUE
    OBVIOUS
  <2>2. y < u
    <3>1. y <= u /\ y # u /\ y \in Nat
      BY <1>4, <1>6
    <3>2. QED
      BY <1>4, <3>1
  <2>3. u - 1 \in Nat
    BY <1>4, <2>2
  <2>4. \A z \in T : z <= u - 1
    <3>1. ASSUME NEW z \in T PROVE z <= u - 1
      <4>1. z <= u /\ z # u /\ z \in Nat
        BY <1>4, <1>6
      <4>2. QED
        BY <1>4, <4>1
    <3>2. QED
      BY <3>1
  <2>5. u - 1 \in U
    BY <1>1, <2>3, <2>4
  <2>6. QED
    BY <1>3, <1>4, <2>5
<1>7. QED
  BY <1>5, <1>6

\* The n newest of a bounded set of ids.
Newest(S, n) == {m \in S : Cardinality({k \in S : k > m}) < n}

\* They are at most n; when they are fewer they are all there is, and what is
\* left out is older than any of them.
LEMMA NewestAreNewest ==
  ASSUME NEW S, S \subseteq Nat, NEW b \in Nat, \A m \in S : m <= b, NEW n \in Nat \ {0}
  PROVE  /\ Newest(S, n) \subseteq S /\ IsFiniteSet(Newest(S, n))
         /\ Cardinality(Newest(S, n)) <= n
         /\ Cardinality(Newest(S, n)) # n => Newest(S, n) = S
         /\ \A m \in S \ Newest(S, n) : \A p \in Newest(S, n) : m < p
<1> DEFINE P == Newest(S, n)
           Above(m) == {k \in S : k > m}
<1>0. P \subseteq S /\ \A m \in S : m \in P <=> Cardinality(Above(m)) < n
  BY DEF Newest
<1>1. IsFiniteSet(S)
  BY FS_BoundedSetOfNaturals
<1>2. IsFiniteSet(P) /\ Cardinality(P) \in Nat
  BY <1>0, <1>1, FS_Subset, FS_CardinalityType
<1>3. \A m \in S : IsFiniteSet(Above(m)) /\ Cardinality(Above(m)) \in Nat
  BY <1>1, FS_Subset, FS_CardinalityType
<1>4. ASSUME NEW m \in S \ P, NEW p \in P PROVE m < p
  <2>1. m \in Nat /\ p \in Nat /\ m # p /\ p \in S
    BY <1>0
  <2>2. ASSUME p < m PROVE FALSE
    <3>1. Above(m) \subseteq Above(p)
      <4>1. ASSUME NEW k \in S, k > m PROVE k > p
        <5>1. k \in Nat /\ m \in Nat /\ p \in Nat
          BY <2>1
        <5>2. QED
          BY <2>2, <4>1, <5>1
      <4>2. QED
        BY <4>1
    <3>2. Cardinality(Above(m)) <= Cardinality(Above(p))
      BY <1>3, <2>1, <3>1, FS_Subset
    <3>3. Cardinality(Above(p)) < n /\ ~(Cardinality(Above(m)) < n)
      BY <1>0
    <3>4. QED
      BY <1>3, <2>1, <3>2, <3>3
  <2>3. QED
    BY <2>1, <2>2
<1>5. Cardinality(P) <= n
  <2>1. CASE P = {}
    BY <2>1, FS_EmptySet
  <2>2. CASE P # {}
    <3>1. PICK p \in P : \A q \in P : p <= q
      BY <1>0, <2>2, LeastExists
    <3>2. P \ {p} \subseteq Above(p)
      <4>1. ASSUME NEW q \in P \ {p} PROVE q \in S /\ q > p
        <5>1. p <= q /\ p # q /\ p \in Nat /\ q \in Nat /\ q \in S
          BY <1>0, <3>1
        <5>2. QED
          BY <5>1
      <4>2. QED
        BY <4>1
    <3>3. Cardinality(P \ {p}) <= Cardinality(Above(p)) /\ Cardinality(Above(p)) < n
      BY <1>0, <1>3, <3>2, FS_Subset
    <3>4. Cardinality(P \ {p}) = Cardinality(P) - 1
      BY <1>2, FS_RemoveElement
    <3>5. Cardinality(Above(p)) \in Nat
      BY <1>0, <1>3
    <3>6. QED
      BY <1>2, <3>3, <3>4, <3>5
  <2>3. QED
    BY <2>1, <2>2
<1>6. ASSUME P # S PROVE Cardinality(P) = n
  <2>1. S \ P # {} /\ S \ P \subseteq Nat
    BY <1>0, <1>6
  <2>2. PICK m \in S \ P : \A k \in S \ P : k <= m
    BY <2>1, GreatestExists
  <2>3. Above(m) \subseteq P
    <3>1. ASSUME NEW k \in S, k > m, k \notin P PROVE FALSE
      <4>1. k <= m /\ k \in Nat /\ m \in Nat
        BY <2>2, <3>1
      <4>2. QED
        BY <3>1, <4>1
    <3>2. QED
      BY <3>1
  <2>4. Cardinality(Above(m)) <= Cardinality(P) /\ ~(Cardinality(Above(m)) < n)
    BY <1>0, <1>2, <2>3, FS_Subset
  <2>5. QED
    BY <1>2, <1>3, <1>5, <2>4
<1>7. QED
  BY <1>0, <1>2, <1>4, <1>5, <1>6

TalkerRecord ==
  [step : {"silent", "open", "insert", "touch", "reply"}, id : Nat, late : BOOLEAN]
ReaderRecord ==
  [cursor : Nat, start : SUBSET Nat, seen : SUBSET Nat, twice : SUBSET Nat,
   state : {"none", "more", "done"}]

ConversationsTypeOK ==
  /\ threads \in Nat /\ lastId \in Nat /\ latest \in Nat /\ talks \in Nat
  /\ sent \subseteq 1..lastId
  /\ talker \in [Talkers -> TalkerRecord]
  /\ reader \in ReaderRecord

\* What the reader has seen is all there was down to the cursor, and nothing
\* below it.
PagingHolds ==
  /\ reader.twice = {}
  /\ reader.state = "none" => reader.cursor = 0 /\ reader.seen = {}
  /\ reader.state = "more" =>
       /\ reader.cursor > 0 /\ reader.start \subseteq sent
       /\ \A m \in reader.seen : m >= reader.cursor
       /\ \A m \in reader.start : m >= reader.cursor => m \in reader.seen
  /\ reader.state = "done" => reader.start \subseteq reader.seen

Writing(t) == talker[t].step \in {"insert", "touch"}

\* Until two messages overlap, one being written is newer than the conversation
\* says, and any other is no newer.
SendHolds ==
  /\ latest # 0 => latest \in sent
  /\ \A t \in Talkers : Writing(t) => talker[t].id \in 1..lastId
  /\ \A t \in Talkers : talker[t].step = "touch" => talker[t].id \in sent
  /\ "send" \notin overlaps =>
       /\ \A t \in Talkers : Writing(t) => talker[t].id > latest
       /\ \A m \in sent : m <= latest
                          \/ \E t \in Talkers : talker[t].step = "touch" /\ talker[t].id = m

\* Until two openings overlap, whoever opens a conversation is the first.
OpenHolds ==
  "open" \notin overlaps =>
    threads <= 1 /\ \A t \in Talkers : talker[t].step = "open" => threads = 0

\* A reply accepted before the ticket was closed knows that it is late.
TicketHolds ==
  ticket = "CLOSED" => \A t \in Talkers : talker[t].step = "reply" => talker[t].late

ConversationsInv ==
  ConversationsTypeOK /\ PagingHolds /\ SendHolds /\ OpenHolds /\ TicketHolds

\* The record of a handler that does nothing.
LEMMA SilentRecord == Silent \in TalkerRecord /\ Silent.step = "silent"
BY DEF Silent, TalkerRecord

\* The invariant holds at first.
LEMMA ConversationsStart == ConversationsInit => ConversationsInv
<1> SUFFICES ASSUME ConversationsInit PROVE ConversationsInv
  OBVIOUS
<1>1. ConversationsTypeOK
  BY SilentRecord DEF ConversationsInit, ConversationsTypeOK, NoReader, ReaderRecord
<1>2. PagingHolds
  BY DEF ConversationsInit, PagingHolds, NoReader
<1>3. SendHolds /\ OpenHolds /\ TicketHolds
  BY SilentRecord DEF ConversationsInit, SendHolds, Writing, OpenHolds, TicketHolds
<1>4. QED
  BY <1>1, <1>2, <1>3 DEF ConversationsInv

\* More messages leave what the reader knows as it is.
LEMMA PagingKept ==
  ASSUME PagingHolds, UNCHANGED reader, sent \subseteq sent'
  PROVE  PagingHolds'
BY DEF PagingHolds

\* A handler moves to record x, which neither writes nor stops writing.
LEMMA TalkerMoves ==
  ASSUME ConversationsInv, NEW t \in Talkers, NEW x \in TalkerRecord,
         talker' = [talker EXCEPT ![t] = x], ~Writing(t), x.step \notin {"insert", "touch"},
         UNCHANGED <<sent, lastId, latest, reader>>, "send" \in overlaps => "send" \in overlaps',
         "send" \in overlaps' => "send" \in overlaps,
         threads' \in Nat, talks' \in Nat, OpenHolds', TicketHolds'
  PROVE  ConversationsInv'
<1>1. talker' \in [Talkers -> TalkerRecord] /\ talker'[t] = x
      /\ \A u \in Talkers \ {t} : talker'[u] = talker[u]
  BY DEF ConversationsInv, ConversationsTypeOK
<1>2. ConversationsTypeOK'
  BY <1>1 DEF ConversationsInv, ConversationsTypeOK
<1>3. SendHolds'
  <2>1. \A u \in Talkers : Writing(u)' => Writing(u) /\ talker'[u] = talker[u]
    BY <1>1 DEF Writing
  <2>2. \A u \in Talkers : talker[u].step = "touch" => talker'[u] = talker[u]
    BY <1>1 DEF Writing
  <2>3. \A u \in Talkers : talker'[u].step = "touch" => talker'[u] = talker[u]
    BY <1>1
  <2>4. QED
    BY <2>1, <2>2, <2>3 DEF ConversationsInv, SendHolds
<1>4. PagingHolds'
  BY PagingKept DEF ConversationsInv
<1>5. QED
  BY <1>2, <1>3, <1>4 DEF ConversationsInv

\* Opening a conversation and replying to a ticket.
LEMMA OpenStep ==
  ASSUME ConversationsInv, NEW t \in Talkers,
         CreateChatRead(t) \/ CreateChat(t) \/ ReplyRead(t) \/ Reply(t)
  PROVE  ConversationsInv'
<1>1. talker \in [Talkers -> TalkerRecord] /\ threads \in Nat /\ talks \in Nat
      /\ OpenHolds /\ TicketHolds /\ SendHolds
  BY DEF ConversationsInv, ConversationsTypeOK
<1>2. UNCHANGED <<sent, lastId, latest, reader>>
  BY DEF CreateChatRead, CreateChat, ReplyRead, Reply
<1>3. CASE CreateChatRead(t)
  <2>0. UNCHANGED <<threads, ticket, overlaps>> /\ talks' \in Nat
    BY <1>1, <1>3 DEF CreateChatRead, Talk
  <2>1. CASE Found
    <3>1. UNCHANGED talker
      BY <1>3, <2>1 DEF CreateChatRead
    <3>2. ConversationsTypeOK' /\ PagingHolds' /\ SendHolds' /\ OpenHolds' /\ TicketHolds'
      BY <1>2, <2>0, <3>1
         DEF ConversationsInv, ConversationsTypeOK, PagingHolds, SendHolds, Writing, OpenHolds,
             TicketHolds
    <3>3. QED
      BY <3>2 DEF ConversationsInv
  <2>2. CASE ~Found
    <3>1. PICK x : x = [Silent EXCEPT !.step = "open"]
      OBVIOUS
    <3>2. x \in TalkerRecord /\ x.step = "open"
      BY <3>1, SilentRecord DEF TalkerRecord
    <3>3. talker' = [talker EXCEPT ![t] = x] /\ talker[t] = Silent /\ threads = 0
      BY <1>1, <1>3, <2>2, <3>1 DEF CreateChatRead, Say, Found
    <3>4. talker'[t] = x /\ \A u \in Talkers \ {t} : talker'[u] = talker[u]
      BY <1>1, <3>3
    <3>5. OpenHolds' /\ TicketHolds'
      BY <1>1, <2>0, <3>2, <3>3, <3>4 DEF OpenHolds, TicketHolds
    <3>6. ~Writing(t)
      BY <3>3, SilentRecord DEF Writing
    <3>7. QED
      BY <1>1, <1>2, <2>0, <3>2, <3>3, <3>5, <3>6, TalkerMoves
  <2>3. QED
    BY <2>1, <2>2
<1>4. CASE CreateChat(t)
  <2>1. talker' = [talker EXCEPT ![t] = Silent] /\ talker[t].step = "open" /\ threads' = threads + 1
        /\ UNCHANGED <<ticket, talks>>
    BY <1>4 DEF CreateChat, Hush
  <2>2. talker'[t] = Silent /\ \A u \in Talkers \ {t} : talker'[u] = talker[u]
    BY <1>1, <2>1
  <2>3. \/ During(t, "open") /\ overlaps' = overlaps \cup {"open"}
        \/ ~During(t, "open") /\ overlaps' = overlaps
    BY <1>4 DEF CreateChat
  <2>4. OpenHolds'
    <3>1. CASE During(t, "open") /\ overlaps' = overlaps \cup {"open"}
      BY <3>1 DEF OpenHolds
    <3>2. CASE ~During(t, "open") /\ overlaps' = overlaps
      <4>1. \A u \in Talkers : talker'[u].step # "open"
        BY <2>2, <3>2, SilentRecord DEF During
      <4>2. "open" \notin overlaps => threads + 1 <= 1
        BY <1>1, <2>1 DEF OpenHolds
      <4>3. QED
        BY <2>1, <3>2, <4>1, <4>2 DEF OpenHolds
    <3>3. QED
      BY <2>3, <3>1, <3>2
  <2>5. TicketHolds'
    BY <1>1, <2>1, <2>2, SilentRecord DEF TicketHolds
  <2>6. ~Writing(t) /\ threads' \in Nat
    BY <1>1, <2>1 DEF Writing
  <2>7. ("send" \in overlaps => "send" \in overlaps') /\ ("send" \in overlaps' => "send" \in overlaps)
    BY <2>3
  <2>8. QED
    BY <1>1, <1>2, <2>1, <2>4, <2>5, <2>6, <2>7, SilentRecord, TalkerMoves
<1>5. CASE ReplyRead(t)
  <2>1. PICK x : x = [Silent EXCEPT !.step = "reply"]
    OBVIOUS
  <2>2. x \in TalkerRecord /\ x.step = "reply"
    BY <2>1, SilentRecord DEF TalkerRecord
  <2>3. talker' = [talker EXCEPT ![t] = x] /\ talker[t] = Silent /\ ticket # "CLOSED"
        /\ UNCHANGED <<threads, ticket, overlaps>> /\ talks' \in Nat
    BY <1>1, <1>5, <2>1 DEF ReplyRead, Say, Replyable, Talk
  <2>4. talker'[t] = x /\ \A u \in Talkers \ {t} : talker'[u] = talker[u]
    BY <1>1, <2>3
  <2>5. OpenHolds' /\ TicketHolds'
    BY <1>1, <2>2, <2>3, <2>4 DEF OpenHolds, TicketHolds
  <2>6. ~Writing(t)
    BY <2>3, SilentRecord DEF Writing
  <2>7. QED
    BY <1>1, <1>2, <2>2, <2>3, <2>5, <2>6, TalkerMoves
<1>6. CASE Reply(t)
  <2>1. talker' = [talker EXCEPT ![t] = Silent] /\ talker[t].step = "reply" /\ ticket' = "OPEN"
        /\ UNCHANGED <<threads, talks, overlaps>>
    BY <1>6 DEF Reply, Hush
  <2>2. talker'[t] = Silent /\ \A u \in Talkers \ {t} : talker'[u] = talker[u]
    BY <1>1, <2>1
  <2>3. OpenHolds' /\ TicketHolds' /\ ~Writing(t)
    BY <1>1, <2>1, <2>2, SilentRecord DEF OpenHolds, TicketHolds, Writing
  <2>4. QED
    BY <1>1, <1>2, <2>1, <2>3, SilentRecord, TalkerMoves
<1>7. QED
  BY <1>3, <1>4, <1>5, <1>6

\* A message takes its id, becomes readable, and dates the conversation.
LEMMA SendStep ==
  ASSUME ConversationsInv, NEW t \in Talkers, SendStart(t) \/ SendInsert(t) \/ SendTouch(t)
  PROVE  ConversationsInv'
<1>1. /\ talker \in [Talkers -> TalkerRecord] /\ talker[t] \in TalkerRecord
      /\ lastId \in Nat /\ latest \in Nat /\ sent \subseteq 1..lastId
      /\ OpenHolds /\ TicketHolds /\ SendHolds /\ PagingHolds
  BY DEF ConversationsInv, ConversationsTypeOK
<1>2. UNCHANGED <<threads, reader, ticket, talks>>
  BY DEF SendStart, SendInsert, SendTouch
<1>3. ASSUME NEW x \in TalkerRecord, talker' = [talker EXCEPT ![t] = x],
             x.step \notin {"open", "reply"}, lastId' \in Nat, latest' \in Nat,
             sent \subseteq sent', sent' \subseteq 1..lastId', SendHolds',
             "open" \in overlaps => "open" \in overlaps'
      PROVE  ConversationsInv'
  <2>1. talker' \in [Talkers -> TalkerRecord] /\ talker'[t] = x
        /\ \A u \in Talkers \ {t} : talker'[u] = talker[u]
    BY <1>1, <1>3
  <2>2. ConversationsTypeOK'
    BY <1>2, <1>3, <2>1 DEF ConversationsInv, ConversationsTypeOK
  <2>3. OpenHolds' /\ TicketHolds'
    BY <1>1, <1>2, <1>3, <2>1 DEF OpenHolds, TicketHolds
  <2>4. PagingHolds'
    BY <1>1, <1>2, <1>3, PagingKept
  <2>5. QED
    BY <1>3, <2>2, <2>3, <2>4 DEF ConversationsInv
<1>4. CASE SendStart(t)
  <2>1. PICK n : n = lastId + 1
    OBVIOUS
  <2>2. n \in Nat /\ n > latest /\ n \in 1..n /\ 1..lastId \subseteq 1..n
    <3>1. latest <= lastId
      BY <1>1 DEF SendHolds
    <3>2. QED
      BY <1>1, <2>1, <3>1
  <2>3. PICK x : x = [Silent EXCEPT !.step = "insert", !.id = n]
    OBVIOUS
  <2>4. x \in TalkerRecord /\ x.step = "insert" /\ x.id = n
    BY <2>2, <2>3, SilentRecord DEF TalkerRecord
  <2>5. talker' = [talker EXCEPT ![t] = x] /\ talker[t] = Silent /\ lastId' = n
        /\ UNCHANGED <<sent, latest, overlaps>>
    BY <1>4, <2>1, <2>3 DEF SendStart, Say
  <2>6. talker'[t] = x /\ \A u \in Talkers \ {t} : talker'[u] = talker[u]
    BY <1>1, <2>5
  <2>7. SendHolds'
    <3>1. \A u \in Talkers : Writing(u)' => talker'[u].id \in 1..lastId'
      BY <1>1, <2>2, <2>4, <2>5, <2>6 DEF SendHolds, Writing
    <3>2. \A u \in Talkers : talker'[u].step = "touch" => talker'[u].id \in sent'
      BY <1>1, <2>4, <2>5, <2>6 DEF SendHolds
    <3>3. ASSUME "send" \notin overlaps'
          PROVE  \A u \in Talkers : Writing(u)' => talker'[u].id > latest'
      BY <1>1, <2>2, <2>4, <2>5, <2>6, <3>3 DEF SendHolds, Writing
    <3>4. ASSUME "send" \notin overlaps', NEW m \in sent'
          PROVE  m <= latest' \/ \E u \in Talkers : talker'[u].step = "touch" /\ talker'[u].id = m
      <4>1. \A u \in Talkers : talker[u].step = "touch" => u # t
        BY <2>5, SilentRecord
      <4>2. QED
        BY <1>1, <2>5, <2>6, <3>4, <4>1 DEF SendHolds
    <3>5. QED
      BY <1>1, <2>5, <3>1, <3>2, <3>3, <3>4 DEF SendHolds
  <2>8. QED
    BY <1>1, <1>3, <2>2, <2>4, <2>5, <2>7
<1>5. CASE SendInsert(t)
  <2>1. PICK x : x = [talker[t] EXCEPT !.step = "touch"]
    OBVIOUS
  <2>2. x \in TalkerRecord /\ x.step = "touch" /\ x.id = talker[t].id
    BY <1>1, <2>1 DEF TalkerRecord
  <2>3. talker' = [talker EXCEPT ![t] = x] /\ talker[t].step = "insert"
        /\ sent' = sent \cup {x.id} /\ UNCHANGED <<lastId, latest, overlaps>>
    BY <1>5, <2>1, <2>2 DEF SendInsert
  <2>4. talker'[t] = x /\ \A u \in Talkers \ {t} : talker'[u] = talker[u]
    BY <1>1, <2>3
  <2>5. x.id \in 1..lastId
    BY <1>1, <2>2, <2>3 DEF SendHolds, Writing
  <2>6. SendHolds'
    <3>1. \A u \in Talkers : Writing(u)' => talker'[u].id \in 1..lastId'
      BY <1>1, <2>3, <2>4, <2>5 DEF SendHolds, Writing
    <3>2. \A u \in Talkers : talker'[u].step = "touch" => talker'[u].id \in sent'
      BY <1>1, <2>3, <2>4 DEF SendHolds
    <3>3. ASSUME "send" \notin overlaps'
          PROVE  \A u \in Talkers : Writing(u)' => talker'[u].id > latest'
      BY <1>1, <2>2, <2>3, <2>4, <3>3 DEF SendHolds, Writing
    <3>4. ASSUME "send" \notin overlaps', NEW m \in sent'
          PROVE  m <= latest' \/ \E u \in Talkers : talker'[u].step = "touch" /\ talker'[u].id = m
      <4>1. CASE m = x.id
        BY <2>2, <2>4, <4>1
      <4>2. CASE m # x.id
        BY <1>1, <2>2, <2>3, <2>4, <3>4, <4>2 DEF SendHolds
      <4>3. QED
        BY <4>1, <4>2
    <3>5. QED
      BY <1>1, <2>3, <3>1, <3>2, <3>3, <3>4 DEF SendHolds
  <2>7. QED
    BY <1>1, <1>3, <2>2, <2>3, <2>5, <2>6
<1>6. CASE SendTouch(t)
  <2>1. talker' = [talker EXCEPT ![t] = Silent] /\ talker[t].step = "touch"
        /\ latest' = talker[t].id /\ UNCHANGED <<sent, lastId>>
    BY <1>6 DEF SendTouch, Hush, Touched
  <2>2. talker'[t] = Silent /\ \A u \in Talkers \ {t} : talker'[u] = talker[u]
    BY <1>1, <2>1
  <2>3. \/ overlaps' = overlaps \cup {"send"}
        \/ (\A u \in Talkers \ {t} : ~Writing(u)) /\ overlaps' = overlaps
    BY <1>6 DEF SendTouch, During, Writing
  <2>4. latest' \in sent /\ latest' \in Nat /\ latest' \in 1..lastId
    BY <1>1, <2>1 DEF SendHolds, TalkerRecord
  <2>5. SendHolds'
    <3>1. \A u \in Talkers : Writing(u)' => talker'[u].id \in 1..lastId'
      BY <1>1, <2>1, <2>2, SilentRecord DEF SendHolds, Writing
    <3>2. \A u \in Talkers : talker'[u].step = "touch" => talker'[u].id \in sent'
      BY <1>1, <2>1, <2>2, SilentRecord DEF SendHolds
    <3>3. ASSUME "send" \notin overlaps'
          PROVE  /\ \A u \in Talkers : ~Writing(u)'
                 /\ \A m \in sent' : m <= latest'
      <4>1. (\A u \in Talkers \ {t} : ~Writing(u)) /\ "send" \notin overlaps
        BY <2>3, <3>3
      <4>2. \A u \in Talkers : ~Writing(u)'
        BY <2>2, <4>1, SilentRecord DEF Writing
      <4>3. ASSUME NEW m \in sent' PROVE m <= latest'
        <5>1. talker[t].id > latest /\ Writing(t)
          BY <1>1, <2>1, <4>1 DEF SendHolds, Writing
        <5>2. m <= latest \/ m = talker[t].id
          BY <1>1, <2>1, <4>1 DEF SendHolds, Writing
        <5>3. m \in Nat
          BY <1>1, <2>1
        <5>4. QED
          BY <1>1, <2>1, <2>4, <5>1, <5>2, <5>3
      <4>4. QED
        BY <4>2, <4>3
    <3>4. QED
      BY <2>1, <2>4, <3>1, <3>2, <3>3 DEF SendHolds
  <2>6. QED
    BY <1>1, <1>3, <2>1, <2>3, <2>4, <2>5, SilentRecord
<1>7. QED
  BY <1>4, <1>5, <1>6

\* The least and the greatest id of a set are what they say.
LEMMA MinIsLeast ==
  ASSUME NEW T, T \subseteq Nat, T # {}
  PROVE  Min(T) \in T /\ \A y \in T : Min(T) <= y
<1>1. \E x \in T : \A y \in T : x <= y
  BY LeastExists
<1>2. Min(T) = CHOOSE x \in T : \A y \in T : x <= y
  BY DEF Min
<1>3. QED
  BY <1>1, <1>2

LEMMA MaxIsGreatest ==
  ASSUME NEW T, NEW x \in T, T \subseteq Nat, \A y \in T : y <= x
  PROVE  Max(T) = x
<1>1. Max(T) = CHOOSE z \in T : \A y \in T : z >= y
  BY DEF Max
<1>2. \A y \in T : x >= y
  <2>1. ASSUME NEW y \in T PROVE x >= y
    <3>1. y <= x /\ x \in Nat /\ y \in Nat
      OBVIOUS
    <3>2. QED
      BY <3>1
  <2>2. QED
    BY <2>1
<1>3. Max(T) \in T /\ \A y \in T : Max(T) >= y
  BY <1>1, <1>2
<1>4. Max(T) >= x /\ Max(T) <= x /\ Max(T) \in Nat /\ x \in Nat
  BY <1>3
<1>5. QED
  BY <1>4

\* A member reads a page.
LEMMA MessagesStep ==
  ASSUME ConversationsInv, Messages
  PROVE  ConversationsInv'
<1>0. PageSize \in Nat \ {0}
  BY ConversationsAssumption
<1>1. /\ reader \in ReaderRecord /\ lastId \in Nat /\ sent \subseteq 1..lastId /\ PagingHolds
      /\ reader.state \in {"none", "more"}
  BY DEF ConversationsInv, ConversationsTypeOK, Messages, ReaderRecord
<1>2. UNCHANGED <<threads, sent, lastId, latest, talker, ticket, talks, overlaps>>
  BY DEF Messages
<1> DEFINE cursor == reader.cursor
           B == Below(cursor)
           P == Page(cursor)
           Full == Cardinality(P) = PageSize
<1>3. reader' = [cursor |-> IF Full THEN NextCursor(P) ELSE 0,
                 start  |-> IF reader.state = "none" THEN sent ELSE reader.start,
                 seen   |-> reader.seen \cup P,
                 twice  |-> reader.twice \cup (reader.seen \cap P),
                 state  |-> IF Full THEN "more" ELSE "done"]
  BY DEF Messages
<1>4. B \subseteq sent /\ B \subseteq Nat /\ \A m \in B : m <= lastId
  <2>1. B \subseteq sent
    BY DEF Below
  <2>2. \A m \in sent : m \in Nat /\ m <= lastId
    BY <1>1
  <2>3. QED
    BY <2>1, <2>2
<1>5. P = Newest(B, PageSize)
  BY DEF Page, Newest
<1>6. /\ P \subseteq B /\ (~Full => P = B)
      /\ \A m \in B \ P : \A p \in P : m < p
      /\ Full => P # {}
  <2>1. P \subseteq B /\ (~Full => P = B) /\ \A m \in B \ P : \A p \in P : m < p
    <3> HIDE DEF B
    <3>1. /\ Newest(B, PageSize) \subseteq B
          /\ (Cardinality(Newest(B, PageSize)) # PageSize => Newest(B, PageSize) = B)
          /\ \A m \in B \ Newest(B, PageSize) : \A p \in Newest(B, PageSize) : m < p
      BY <1>0, <1>1, <1>4, NewestAreNewest
    <3>2. QED
      BY <1>5, <3>1
  <2>2. Full => P # {}
    BY <1>0, FS_EmptySet
  <2>3. QED
    BY <2>1, <2>2
<1>7. \A m \in reader.seen : m \notin B
  <2>1. CASE reader.state = "none"
    BY <1>1, <2>1 DEF PagingHolds
  <2>2. CASE reader.state = "more"
    <3>1. ASSUME NEW m \in reader.seen, m \in B PROVE FALSE
      <4>1. m >= cursor /\ cursor > 0 /\ m \in Nat /\ cursor \in Nat
        BY <1>1, <1>4, <2>2, <3>1 DEF PagingHolds, ReaderRecord
      <4>2. cursor = 0 \/ m < cursor
        BY <3>1 DEF Below
      <4>3. QED
        BY <4>1, <4>2
    <3>2. QED
      BY <3>1
  <2>3. QED
    BY <1>1, <2>1, <2>2
<1> DEFINE start == IF reader.state = "none" THEN sent ELSE reader.start
\* What was there at the start has been seen or is still below the cursor.
<1>8. start \subseteq sent /\ \A m \in start : m \in reader.seen \/ m \in B
  <2>1. CASE reader.state = "none"
    BY <1>1, <2>1 DEF PagingHolds, Below
  <2>2. CASE reader.state = "more"
    <3>1. start = reader.start /\ start \subseteq sent
      BY <1>1, <2>2 DEF PagingHolds
    <3>2. ASSUME NEW m \in start, m \notin reader.seen PROVE m \in B
      <4>1. m \in Nat /\ cursor \in Nat /\ m \in sent
        BY <1>1, <3>1 DEF ReaderRecord
      <4>2. ~(m >= cursor)
        BY <1>1, <2>2, <3>1, <3>2 DEF PagingHolds
      <4>3. m < cursor
        BY <4>1, <4>2
      <4>4. QED
        BY <4>1, <4>3 DEF Below
    <3>3. QED
      BY <3>1, <3>2
  <2>3. QED
    BY <1>1, <2>1, <2>2
<1>9. reader'.twice = {} /\ reader'.start = start /\ reader'.seen = reader.seen \cup P
  <2>1. reader.twice = {}
    BY <1>1 DEF PagingHolds
  <2>2. reader.seen \cap P = {}
    BY <1>6, <1>7
  <2>3. QED
    BY <1>3, <2>1, <2>2
<1>10. CASE ~Full
  <2>1. reader'.state = "done" /\ reader'.cursor = 0
    BY <1>3, <1>10
  <2>2. reader'.start \subseteq reader'.seen
    BY <1>6, <1>8, <1>9, <1>10
  <2>3. PagingHolds'
    BY <1>9, <2>1, <2>2 DEF PagingHolds
  <2>4. reader' \in ReaderRecord
    BY <1>1, <1>3, <1>4, <1>6, <1>8, <1>9, <1>10, <2>1 DEF ReaderRecord
  <2>5. QED
    BY <1>2, <2>3, <2>4
       DEF ConversationsInv, ConversationsTypeOK, SendHolds, Writing, OpenHolds, TicketHolds
<1>11. CASE Full
  <2>1. Min(P) \in P /\ \A p \in P : Min(P) <= p
    BY <1>4, <1>6, <1>11, MinIsLeast
  <2>2. PICK c : c = Min(P)
    OBVIOUS
  <2>3. c \in P /\ c \in B /\ c \in Nat /\ c > 0 /\ \A p \in P : c <= p
    BY <1>1, <1>4, <1>6, <2>1, <2>2
  <2>4. reader'.state = "more" /\ reader'.cursor = c
    BY <1>3, <1>11, <2>2 DEF NextCursor
  <2>5. ASSUME NEW m \in reader'.seen PROVE m >= c
    <3>1. CASE m \in P
      BY <2>3, <1>4, <1>6, <3>1
    <3>2. CASE m \in reader.seen
      <4>1. reader.state = "more"
        BY <1>1, <3>2 DEF PagingHolds
      <4>2. m >= cursor /\ cursor > 0 /\ cursor \in Nat /\ m \in Nat
        BY <1>1, <3>2, <4>1 DEF PagingHolds, ReaderRecord
      <4>3. cursor = 0 \/ c < cursor
        BY <2>3 DEF Below
      <4>4. QED
        BY <2>3, <4>2, <4>3
    <3>3. QED
      BY <1>9, <3>1, <3>2
  <2>6. ASSUME NEW m \in reader'.start, m >= c PROVE m \in reader'.seen
    <3>1. m \in reader.seen \/ m \in P \/ m \in B \ P
      BY <1>8, <1>9
    <3>2. ASSUME m \in B \ P PROVE FALSE
      <4>1. m < c /\ m \in Nat
        BY <1>4, <1>6, <2>3, <3>2
      <4>2. QED
        BY <2>3, <2>6, <4>1
    <3>3. QED
      BY <1>9, <3>1, <3>2
  <2>7. PagingHolds'
    BY <1>2, <1>8, <1>9, <2>3, <2>4, <2>5, <2>6 DEF PagingHolds
  <2>8. reader' \in ReaderRecord
    BY <1>1, <1>3, <1>4, <1>6, <1>8, <1>9, <2>3, <2>4 DEF ReaderRecord
  <2>9. QED
    BY <1>2, <2>7, <2>8
       DEF ConversationsInv, ConversationsTypeOK, SendHolds, Writing, OpenHolds, TicketHolds
<1>12. QED
  BY <1>10, <1>11

\* The ticket is opened, answered or set to another status by staff.
LEMMA TicketStep ==
  ASSUME ConversationsInv,
         CreateSupportTicket \/ AdminReply \/ \E status \in {"OPEN", "RESOLVED", "CLOSED"} : UpdateTicket(status)
  PROVE  ConversationsInv'
<1>1. talker \in [Talkers -> TalkerRecord] /\ talks \in Nat /\ SendHolds /\ OpenHolds /\ TicketHolds
      /\ PagingHolds
  BY DEF ConversationsInv, ConversationsTypeOK
<1>2. UNCHANGED <<threads, sent, lastId, latest, reader, overlaps>> /\ talks' \in Nat
  BY <1>1 DEF CreateSupportTicket, AdminReply, UpdateTicket, Talk
<1>3. CASE CreateSupportTicket \/ AdminReply
  <2>1. UNCHANGED talker /\ ticket' # "CLOSED"
    BY <1>3 DEF CreateSupportTicket, AdminReply
  <2>2. QED
    BY <1>2, <2>1
       DEF ConversationsInv, ConversationsTypeOK, PagingHolds, SendHolds, Writing, OpenHolds,
           TicketHolds
<1>4. ASSUME NEW status \in {"OPEN", "RESOLVED", "CLOSED"}, UpdateTicket(status)
      PROVE  ConversationsInv'
  <2>1. ticket' = status
        /\ talker' = [t \in Talkers |-> IF talker[t].step = "reply" /\ status = "CLOSED"
                                        THEN [talker[t] EXCEPT !.late = TRUE] ELSE talker[t]]
    BY <1>4 DEF UpdateTicket
  <2>2. ASSUME NEW t \in Talkers
        PROVE  /\ talker'[t] \in TalkerRecord
               /\ talker'[t].step = talker[t].step /\ talker'[t].id = talker[t].id
               /\ status = "CLOSED" /\ talker[t].step = "reply" => talker'[t].late
    <3>1. talker[t] \in TalkerRecord
      BY <1>1
    <3>2. CASE talker[t].step = "reply" /\ status = "CLOSED"
      BY <2>1, <3>1, <3>2 DEF TalkerRecord
    <3>3. CASE ~(talker[t].step = "reply" /\ status = "CLOSED")
      BY <2>1, <3>1, <3>3
    <3>4. QED
      BY <3>2, <3>3
  <2>3. talker' \in [Talkers -> TalkerRecord]
    <3>1. talker' = [t \in Talkers |-> talker'[t]]
      BY <2>1
    <3>2. QED
      BY <2>2, <3>1
  <2>4. ConversationsTypeOK'
    BY <1>2, <2>3 DEF ConversationsInv, ConversationsTypeOK
  <2>5. \A t \in Talkers : Writing(t)' <=> Writing(t)
    BY <2>2 DEF Writing
  <2>6. SendHolds'
    <3>1. /\ latest # 0 => latest \in sent
          /\ \A t \in Talkers : Writing(t)' => talker'[t].id \in 1..lastId
          /\ \A t \in Talkers : talker'[t].step = "touch" => talker'[t].id \in sent
      BY <1>1, <2>2, <2>5 DEF SendHolds
    <3>2. ASSUME "send" \notin overlaps
          PROVE  /\ \A t \in Talkers : Writing(t)' => talker'[t].id > latest
                 /\ \A m \in sent : m <= latest
                       \/ \E t \in Talkers : talker'[t].step = "touch" /\ talker'[t].id = m
      BY <1>1, <2>2, <2>5, <3>2 DEF SendHolds
    <3>3. QED
      BY <1>2, <3>1, <3>2 DEF SendHolds
  <2>7. OpenHolds' /\ TicketHolds'
    BY <1>1, <1>2, <2>1, <2>2 DEF OpenHolds, TicketHolds
  <2>8. PagingHolds'
    BY <1>1, <1>2, PagingKept
  <2>9. QED
    BY <2>4, <2>6, <2>7, <2>8 DEF ConversationsInv
<1>5. QED
  BY <1>3, <1>4

\* Every step keeps the invariant.
LEMMA ConversationsStep ==
  ConversationsInv /\ [ConversationsNext]_conversationVars => ConversationsInv'
<1> SUFFICES ASSUME ConversationsInv, [ConversationsNext]_conversationVars
             PROVE  ConversationsInv'
  OBVIOUS
<1>1. ASSUME NEW t \in Talkers,
             \/ CreateChatRead(t) \/ CreateChat(t)
             \/ SendStart(t) \/ SendInsert(t) \/ SendTouch(t)
             \/ ReplyRead(t) \/ Reply(t)
      PROVE  ConversationsInv'
  BY <1>1, OpenStep, SendStep
<1>2. CASE Messages
  BY <1>2, MessagesStep
<1>3. ASSUME CreateSupportTicket \/ CreateRiderTicket \/ AdminReply
             \/ \E status \in {"OPEN", "RESOLVED", "CLOSED"} : UpdateTicket(status)
      PROVE  ConversationsInv'
  BY <1>3, TicketStep DEF CreateRiderTicket
<1>4. CASE UNCHANGED conversationVars
  BY <1>4 DEF conversationVars, ConversationsInv, ConversationsTypeOK, PagingHolds, SendHolds,
              Writing, OpenHolds, TicketHolds
<1>5. QED
  BY <1>1, <1>2, <1>3, <1>4 DEF ConversationsNext

\* A closed ticket is opened again by staff or by a late reply.
LEMMA ClosedStays ==
  ConversationsInv /\ [ConversationsNext]_conversationVars => ClosedTicketStays
<1> SUFFICES ASSUME ConversationsInv, [ConversationsNext]_conversationVars,
                    ticket = "CLOSED", ticket' = "OPEN"
             PROVE  talks' # talks \/ \E t \in Talkers : talker[t].late /\ talker'[t] = Silent
  BY DEF ClosedTicketStays
<1>1. talks \in Nat /\ talker \in [Talkers -> TalkerRecord] /\ TicketHolds
  BY DEF ConversationsInv, ConversationsTypeOK
<1>2. ASSUME Talk PROVE talks' # talks
  BY <1>1, <1>2 DEF Talk
<1>3. ASSUME NEW t \in Talkers, Reply(t)
      PROVE  talker[t].late /\ talker'[t] = Silent
  BY <1>1, <1>3 DEF Reply, Hush, TicketHolds
<1>4. ASSUME NEW t \in Talkers,
             \/ CreateChatRead(t) \/ CreateChat(t) \/ ReplyRead(t)
             \/ SendStart(t) \/ SendInsert(t) \/ SendTouch(t)
      PROVE  ticket' = ticket
  BY <1>4 DEF CreateChatRead, CreateChat, ReplyRead, SendStart, SendInsert, SendTouch
<1>5. CASE Messages \/ UNCHANGED conversationVars
  BY <1>5 DEF Messages, conversationVars
<1>6. ASSUME AdminReply \/ \E status \in {"OPEN", "RESOLVED", "CLOSED"} : UpdateTicket(status)
      PROVE  Talk
  BY <1>6 DEF AdminReply, UpdateTicket
<1>7. CASE CreateSupportTicket \/ CreateRiderTicket
  BY <1>7 DEF CreateSupportTicket, CreateRiderTicket
<1>8. QED
  BY <1>2, <1>3, <1>4, <1>5, <1>6, <1>7 DEF ConversationsNext

\* What the invariant says of pages, of the list and of second conversations.
LEMMA ConversationsHold ==
  ConversationsInv => PagingIsComplete /\ ListShowsNewest /\ OneConversation
<1> SUFFICES ASSUME ConversationsInv
             PROVE  PagingIsComplete /\ ListShowsNewest /\ OneConversation
  OBVIOUS
<1>1. /\ threads \in Nat /\ lastId \in Nat /\ latest \in Nat /\ sent \subseteq 1..lastId
      /\ PagingHolds /\ SendHolds /\ OpenHolds
  BY DEF ConversationsInv, ConversationsTypeOK
<1>2. PagingIsComplete
  BY <1>1 DEF PagingHolds, PagingIsComplete
<1>3. ListShowsNewest
  <2>1. SUFFICES ASSUME \A t \in Talkers : talker[t].step \notin {"insert", "touch"},
                        "send" \notin overlaps, sent # {}
                 PROVE  latest = Max(sent)
    BY DEF ListShowsNewest
  <2>2. \A m \in sent : m <= latest
    BY <1>1, <2>1 DEF SendHolds
  <2>3. latest \in sent
    <3>1. PICK m \in sent : TRUE
      BY <2>1
    <3>2. m \in 1..lastId /\ m <= latest
      BY <1>1, <2>2
    <3>3. latest # 0
      BY <1>1, <3>2
    <3>4. QED
      BY <1>1, <3>3 DEF SendHolds
  <2>4. sent \subseteq Nat
    BY <1>1
  <2>5. QED
    BY <2>2, <2>3, <2>4, MaxIsGreatest
<1>4. OneConversation
  <2>1. ASSUME threads <= 1, threads > 1 PROVE FALSE
    BY <1>1, <2>1
  <2>2. QED
    BY <1>1, <2>1 DEF OpenHolds, OneConversation
<1>5. QED
  BY <1>2, <1>3, <1>4

\* Chats and tickets stay sound: paging back shows every message once, the list
\* shows the newest, a second conversation needs two openings at once, and a
\* closed ticket stays closed to later replies.
THEOREM ConversationsCorrect == ConversationsSpec => ConversationsAreSound
<1>1. ConversationsInv /\ [ConversationsNext]_conversationVars
        => [ClosedTicketStays /\ PagingIsComplete' /\ ListShowsNewest' /\ OneConversation']_conversationVars
  <2>1. ConversationsInv /\ [ConversationsNext]_conversationVars
          => ConversationsInv' /\ ClosedTicketStays
    BY ConversationsStep, ClosedStays
  <2>2. ConversationsInv' => PagingIsComplete' /\ ListShowsNewest' /\ OneConversation'
    BY ConversationsHold, PTL
  <2>3. QED
    BY <2>1, <2>2
<1>2. QED
  BY <1>1, ConversationsStart, ConversationsStep, PTL DEF ConversationsSpec, ConversationsAreSound

-----------------------------------------------------------------------------
(***************************************************************************)
(* Seeding.                                                                *)
(***************************************************************************)
SeedRow == [named: BOOLEAN, by: {"seed", "admin"}, of: Nat \X Nat]
RunRecord == [at: Sections \cup {"stopped"}, looked: BOOLEAN, found: Nat,
              product: Nat, store: Nat]

SeedingTypeOK ==
  /\ rows \in [Sections -> Seq(SeedRow)]
  /\ script \in [SeedRuns -> RunRecord]
  /\ settings \in Nat /\ parallel \in Nat
  /\ renamed \in [Sections -> Nat]

\* Only offers have a key of their own, and only three names can be lost.
RowsKeyed ==
  \A s \in Sections : \A i \in DOMAIN rows[s] :
    /\ s # "offers" => rows[s][i].of = <<0, 0>>
    /\ s \notin RenamableSections => rows[s][i].named

\* A row that was found is still there, under whatever name.
FoundIsThere ==
  \A r \in SeedRuns : script[r].found # 0 =>
    script[r].at \in Sections /\ script[r].found \in DOMAIN rows[script[r].at]

KeysUnique ==
  \A s \in Upserted : \A i, j \in DOMAIN rows[s] : rows[s][i].of = rows[s][j].of => i = j

ActiveRuns == {r \in SeedRuns : Running(r)}
\* The copies that no look-up finds.
Lost(s) == {i \in DOMAIN rows[s] : ~rows[s][i].named}
\* The runs that are about to create a copy.
Making(s) == {r \in SeedRuns : script[r].at = s /\ script[r].looked /\ script[r].found = 0}

\* Who found nothing found every copy lost, and the runs that are active at
\* once are the ones that started beside another, and one more.
SeedingInv ==
  /\ SeedingTypeOK /\ RowsKeyed /\ FoundIsThere /\ KeysUnique
  /\ Cardinality(ActiveRuns) <= 1 + parallel
  /\ \A s \in Sections : Cardinality(Lost(s)) <= renamed[s]
  /\ \A s \in FoundOrCreated :
       Len(rows[s]) + Cardinality(Making(s)) <= 1 + renamed[s] + parallel

\* The counted sets are finite.
LEMMA SeedingFinite ==
  ASSUME SeedingTypeOK
  PROVE  /\ IsFiniteSet(ActiveRuns) /\ Cardinality(ActiveRuns) \in Nat
         /\ \A s \in Sections :
              /\ IsFiniteSet(Making(s)) /\ Cardinality(Making(s)) \in Nat
              /\ DOMAIN rows[s] = 1..Len(rows[s]) /\ Len(rows[s]) \in Nat
              /\ IsFiniteSet(DOMAIN rows[s]) /\ Cardinality(DOMAIN rows[s]) = Len(rows[s])
              /\ IsFiniteSet(Lost(s)) /\ Cardinality(Lost(s)) \in Nat
<1>1. IsFiniteSet(ActiveRuns) /\ \A s \in Sections : IsFiniteSet(Making(s))
  BY SeedingAssumption, FS_Subset DEF ActiveRuns, Making
<1>2. ASSUME NEW s \in Sections
      PROVE  /\ DOMAIN rows[s] = 1..Len(rows[s]) /\ Len(rows[s]) \in Nat
             /\ IsFiniteSet(DOMAIN rows[s]) /\ Cardinality(DOMAIN rows[s]) = Len(rows[s])
             /\ IsFiniteSet(Lost(s))
  <2>1. DOMAIN rows[s] = 1..Len(rows[s]) /\ Len(rows[s]) \in Nat
    BY DEF SeedingTypeOK
  <2>2. IsFiniteSet(1..Len(rows[s])) /\ Cardinality(1..Len(rows[s])) = Len(rows[s])
    <3> DEFINE n == Len(rows[s])
    <3>1. n \in Nat
      BY <2>1
    <3> HIDE DEF n
    <3>2. IsFiniteSet(1..n) /\ Cardinality(1..n) = IF 1 > n THEN 0 ELSE n - 1 + 1
      BY <3>1, FS_Interval
    <3>3. IsFiniteSet(1..n) /\ Cardinality(1..n) = n
      BY <3>1, <3>2
    <3>4. QED BY <3>3 DEF n
  <2>3. Lost(s) \subseteq DOMAIN rows[s]
    BY DEF Lost
  <2>4. QED BY <2>1, <2>2, <2>3, FS_Subset
<1>3. QED BY <1>1, <1>2, FS_CardinalityType

\* The invariant holds at first.
LEMMA SeedingStart == SeedingInit => SeedingInv
<1> SUFFICES ASSUME SeedingInit PROVE SeedingInv
  OBVIOUS
<1>1. Stopped \in RunRecord /\ Stopped.at = "stopped" /\ Stopped.found = 0 /\ ~Stopped.looked
  BY DEF Stopped, RunRecord
<1>2. SeedingTypeOK
  BY <1>1 DEF SeedingInit, SeedingTypeOK
<1>3. \A s \in Sections : rows[s] = <<>> /\ DOMAIN rows[s] = {} /\ Len(rows[s]) = 0
  BY DEF SeedingInit
<1>4. RowsKeyed /\ KeysUnique
  <2>1. Upserted \subseteq Sections
    BY DEF Sections
  <2>2. QED BY <1>3, <2>1 DEF RowsKeyed, KeysUnique
<1>5. FoundIsThere
  BY <1>1 DEF SeedingInit, FoundIsThere
<1>6. ActiveRuns = {} /\ \A s \in Sections : Lost(s) = {} /\ Making(s) = {}
  BY <1>1, <1>3 DEF SeedingInit, ActiveRuns, Running, Lost, Making
<1>7. FoundOrCreated \subseteq Sections
  BY DEF Sections
<1>8. /\ parallel = 0 /\ Cardinality(ActiveRuns) = 0
      /\ \A s \in Sections :
           renamed[s] = 0 /\ Cardinality(Lost(s)) = 0 /\ Cardinality(Making(s)) = 0
  BY <1>6, FS_EmptySet DEF SeedingInit
<1>9. QED
  BY <1>2, <1>3, <1>4, <1>5, <1>7, <1>8 DEF SeedingInv

\* A run that goes on or stops is about to create nothing.
LEMMA RunMoves ==
  ASSUME SeedingInv, NEW r \in SeedRuns, NEW rec \in RunRecord,
         ~rec.looked, rec.found = 0, rec.at # "stopped" => Running(r),
         script' = [script EXCEPT ![r] = rec]
  PROVE  /\ script' \in [SeedRuns -> RunRecord]
         /\ \A q \in SeedRuns : script'[q] = IF q = r THEN rec ELSE script[q]
         /\ Cardinality(ActiveRuns') <= Cardinality(ActiveRuns)
         /\ \A s \in Sections : Making(s)' = Making(s) \ {r}
<1>1. /\ script \in [SeedRuns -> RunRecord]
      /\ script' \in [SeedRuns -> RunRecord]
      /\ \A q \in SeedRuns : script'[q] = IF q = r THEN rec ELSE script[q]
  BY DEF SeedingInv, SeedingTypeOK
<1>2. ActiveRuns' \subseteq ActiveRuns
  BY <1>1 DEF ActiveRuns, Running
<1>3. \A s \in Sections : Making(s)' = Making(s) \ {r}
  BY <1>1 DEF Making
<1>4. QED BY <1>1, <1>2, <1>3, SeedingFinite, FS_Subset DEF SeedingInv

\* A run starts, alone or beside others.
LEMMA StartStep ==
  ASSUME SeedingInv, NEW r \in SeedRuns, StartSeed(r)
  PROVE  SeedingInv'
<1> DEFINE rec == [Stopped EXCEPT !.at = "permissions"]
<1>0. /\ SeedingTypeOK /\ IsFiniteSet(ActiveRuns) /\ Cardinality(ActiveRuns) \in Nat
      /\ \A s \in Sections : rows'[s] = rows[s] /\ renamed'[s] = renamed[s]
      /\ rows' = rows /\ renamed' = renamed /\ settings' = settings
      /\ FoundOrCreated \subseteq Sections
  BY SeedingFinite DEF SeedingInv, StartSeed, Sections
<1>1. /\ rec \in RunRecord /\ rec.at = "permissions" /\ rec.found = 0 /\ ~rec.looked
  BY DEF Stopped, RunRecord, Sections, Upserted
<1>2. script' = [script EXCEPT ![r] = rec] /\ ~Running(r)
  BY DEF StartSeed
<1> HIDE DEF rec
<1>3. /\ script' \in [SeedRuns -> RunRecord]
      /\ \A q \in SeedRuns : script'[q] = IF q = r THEN rec ELSE script[q]
  BY <1>0, <1>1, <1>2 DEF SeedingTypeOK
<1>4. \A s \in Sections : Making(s)' = Making(s)
  <2>1. script[r].at = "stopped"
    BY <1>2 DEF Running
  <2>2. \A s \in Sections : r \notin Making(s) /\ r \notin Making(s)'
    BY <1>1, <1>3, <2>1 DEF Making, Sections, Upserted, FoundOrCreated
  <2>3. QED BY <1>3, <2>2 DEF Making
<1>5. ActiveRuns' = ActiveRuns \cup {r} /\ r \notin ActiveRuns
  BY <1>1, <1>2, <1>3 DEF ActiveRuns, Running
<1>6. Cardinality(ActiveRuns') = Cardinality(ActiveRuns) + 1
  BY <1>0, <1>5, OneJoins
<1>7. parallel' \in Nat /\ parallel' >= parallel /\ parallel \in Nat
      /\ Cardinality(ActiveRuns') <= 1 + parallel'
  <2>1. CASE \E q \in SeedRuns : Running(q)
    BY <1>0, <1>6, <2>1 DEF StartSeed, SeedingInv, SeedingTypeOK
  <2>2. CASE ~\E q \in SeedRuns : Running(q)
    <3>1. ActiveRuns = {}
      BY <2>2 DEF ActiveRuns
    <3>2. Cardinality(ActiveRuns) = 0
      BY <3>1, FS_EmptySet
    <3>3. parallel' = parallel /\ parallel \in Nat
      BY <1>0, <2>2 DEF StartSeed, SeedingTypeOK
    <3>4. QED BY <1>6, <3>2, <3>3
  <2>3. QED BY <2>1, <2>2
<1>8. SeedingTypeOK'
  BY <1>0, <1>3, <1>7 DEF SeedingTypeOK
<1>9. FoundIsThere'
  BY <1>0, <1>1, <1>3 DEF SeedingInv, FoundIsThere
<1>10. \A s \in Sections : Lost(s)' = Lost(s)
  BY <1>0 DEF Lost
<1>11. \A s \in FoundOrCreated :
         Len(rows'[s]) + Cardinality(Making(s)') <= 1 + renamed'[s] + parallel'
  <2> SUFFICES ASSUME NEW s \in FoundOrCreated
               PROVE  Len(rows'[s]) + Cardinality(Making(s)') <= 1 + renamed'[s] + parallel'
    OBVIOUS
  <2>1. /\ Len(rows[s]) \in Nat /\ Cardinality(Making(s)) \in Nat /\ renamed[s] \in Nat
        /\ Len(rows[s]) + Cardinality(Making(s)) <= 1 + renamed[s] + parallel
        /\ Making(s)' = Making(s)
    BY <1>0, <1>4, SeedingFinite DEF SeedingInv, SeedingTypeOK
  <2>2. QED BY <1>0, <1>7, <2>1
<1>12. RowsKeyed' /\ KeysUnique'
  BY <1>0 DEF SeedingInv, RowsKeyed, KeysUnique
<1>13. QED
  BY <1>0, <1>7, <1>8, <1>9, <1>10, <1>11, <1>12 DEF SeedingInv

\* A run stops.
LEMMA StopStep ==
  ASSUME SeedingInv, NEW r \in SeedRuns, SeedStops(r)
  PROVE  SeedingInv'
<1>0. /\ SeedingTypeOK /\ rows' = rows /\ renamed' = renamed /\ settings' = settings
      /\ parallel' = parallel /\ FoundOrCreated \subseteq Sections
  BY DEF SeedingInv, SeedStops, Sections
<1>1. Stopped \in RunRecord /\ Stopped.at = "stopped" /\ Stopped.found = 0 /\ ~Stopped.looked
  BY DEF Stopped, RunRecord
<1>2. script' = [script EXCEPT ![r] = Stopped]
  BY DEF SeedStops
<1>3. /\ script' \in [SeedRuns -> RunRecord]
      /\ \A q \in SeedRuns : script'[q] = IF q = r THEN Stopped ELSE script[q]
      /\ Cardinality(ActiveRuns') <= Cardinality(ActiveRuns)
      /\ \A s \in Sections : Making(s)' = Making(s) \ {r}
  BY <1>1, <1>2, RunMoves
<1>4. SeedingTypeOK'
  BY <1>0, <1>3 DEF SeedingTypeOK
<1>5. FoundIsThere'
  BY <1>0, <1>1, <1>3 DEF SeedingInv, FoundIsThere
<1>6. \A s \in Sections : Lost(s)' = Lost(s)
  BY <1>0 DEF Lost
<1>7. \A s \in FoundOrCreated :
        Len(rows[s]) + Cardinality(Making(s)') <= 1 + renamed[s] + parallel
  <2> SUFFICES ASSUME NEW s \in FoundOrCreated
               PROVE  Len(rows[s]) + Cardinality(Making(s)') <= 1 + renamed[s] + parallel
    OBVIOUS
  <2>1. /\ Len(rows[s]) \in Nat /\ Cardinality(Making(s)) \in Nat /\ IsFiniteSet(Making(s))
        /\ renamed[s] \in Nat /\ parallel \in Nat
        /\ Len(rows[s]) + Cardinality(Making(s)) <= 1 + renamed[s] + parallel
        /\ Making(s)' \subseteq Making(s)
    BY <1>0, <1>3, SeedingFinite DEF SeedingInv, SeedingTypeOK
  <2>2. Cardinality(Making(s)') \in Nat /\ Cardinality(Making(s)') <= Cardinality(Making(s))
    BY <2>1, FS_Subset, FS_CardinalityType
  <2>3. QED BY <2>1, <2>2
<1>8. Cardinality(ActiveRuns') \in Nat /\ Cardinality(ActiveRuns) \in Nat
  <2>1. ActiveRuns' \subseteq ActiveRuns
    BY <1>1, <1>3 DEF ActiveRuns, Running
  <2>2. QED BY <1>0, <2>1, SeedingFinite, FS_Subset, FS_CardinalityType
<1>9. Cardinality(ActiveRuns') <= 1 + parallel
  BY <1>0, <1>3, <1>8 DEF SeedingInv, SeedingTypeOK
<1>10. RowsKeyed' /\ KeysUnique'
  BY <1>0 DEF SeedingInv, RowsKeyed, KeysUnique
<1>11. QED BY <1>0, <1>4, <1>5, <1>6, <1>7, <1>9, <1>10 DEF SeedingInv

\* Who finds nothing finds every copy lost.
LEMMA LookStep ==
  ASSUME SeedingInv, NEW r \in SeedRuns, NEW s \in FoundOrCreated, LookUp(r, s)
  PROVE  SeedingInv'
<1>0. /\ SeedingTypeOK /\ rows' = rows /\ renamed' = renamed /\ settings' = settings
      /\ parallel' = parallel /\ FoundOrCreated \subseteq Sections /\ s # "offers"
  BY DEF SeedingInv, LookUp, Sections, FoundOrCreated
<1>1. PICK i \in IF FoundRows(r, s) = {} THEN {0} ELSE FoundRows(r, s) :
        script' = [script EXCEPT ![r].looked = TRUE, ![r].found = i]
  BY DEF LookUp
<1>2. /\ i \in Nat
      /\ i # 0 => i \in DOMAIN rows[s]
      /\ i = 0 => FoundRows(r, s) = {}
  <2>1. DOMAIN rows[s] = 1..Len(rows[s]) /\ Len(rows[s]) \in Nat
    BY <1>0, SeedingFinite
  <2>2. FoundRows(r, s) \subseteq DOMAIN rows[s]
    BY DEF FoundRows
  <2>3. QED BY <1>1, <2>1, <2>2
<1>3. /\ script[r].at = s /\ ~script[r].looked /\ script[r] \in RunRecord
  BY <1>0 DEF LookUp, SeedingTypeOK
<1>4. PICK rec \in RunRecord : rec = [script[r] EXCEPT !.looked = TRUE, !.found = i]
  BY <1>2, <1>3 DEF RunRecord
<1>5. rec.at = s /\ rec.looked /\ rec.found = i
  BY <1>3, <1>4 DEF RunRecord
<1>6. /\ script' \in [SeedRuns -> RunRecord]
      /\ \A q \in SeedRuns : script'[q] = IF q = r THEN rec ELSE script[q]
  BY <1>0, <1>1, <1>4 DEF SeedingTypeOK
<1>7. SeedingTypeOK' /\ RowsKeyed' /\ KeysUnique'
  BY <1>0, <1>6 DEF SeedingInv, SeedingTypeOK, RowsKeyed, KeysUnique
<1>8. FoundIsThere'
  BY <1>0, <1>2, <1>5, <1>6 DEF SeedingInv, FoundIsThere
<1>9. ActiveRuns' = ActiveRuns
  BY <1>3, <1>5, <1>6 DEF ActiveRuns, Running
<1>10. \A t \in Sections : Lost(t)' = Lost(t)
  BY <1>0 DEF Lost
<1>11. ASSUME NEW t \in FoundOrCreated
       PROVE  Len(rows[t]) + Cardinality(Making(t)') <= 1 + renamed[t] + parallel
  <2>1. /\ Len(rows[t]) \in Nat /\ Cardinality(Making(t)) \in Nat
        /\ renamed[t] \in Nat /\ parallel \in Nat
        /\ Len(rows[t]) + Cardinality(Making(t)) <= 1 + renamed[t] + parallel
    BY <1>0, SeedingFinite DEF SeedingInv, SeedingTypeOK
  <2>2. CASE t # s \/ i # 0
    <3>1. Making(t)' = Making(t)
      BY <1>3, <1>5, <1>6, <2>2 DEF Making
    <3>2. QED BY <2>1, <3>1
  <2>3. CASE t = s /\ i = 0
    <3>1. \A j \in DOMAIN rows[s] : ~rows[s][j].named
      BY <1>0, <1>2, <2>3 DEF SeedingInv, RowsKeyed, FoundRows, Of
    <3>2. Lost(s) = DOMAIN rows[s]
      BY <3>1 DEF Lost
    <3>3. Len(rows[s]) <= renamed[s]
      BY <1>0, <3>2, SeedingFinite DEF SeedingInv
    <3>4. Making(t)' \subseteq ActiveRuns
      BY <1>0, <1>3, <1>5, <1>6, <2>3 DEF Making, ActiveRuns, Running, Sections, Upserted,
                                         FoundOrCreated
    <3>5. /\ Cardinality(Making(t)') <= Cardinality(ActiveRuns)
          /\ Cardinality(Making(t)') \in Nat /\ Cardinality(ActiveRuns) \in Nat
      BY <1>0, <3>4, SeedingFinite, FS_Subset, FS_CardinalityType
    <3>6. Cardinality(ActiveRuns) <= 1 + parallel
      BY DEF SeedingInv
    <3>7. QED BY <2>1, <2>3, <3>3, <3>5, <3>6
  <2>4. QED BY <2>2, <2>3
<1>12. QED
  BY <1>0, <1>7, <1>8, <1>9, <1>10, <1>11 DEF SeedingInv

\* A row is added behind the others, or changed in its place.
LEMMA RowAdded ==
  ASSUME SeedingTypeOK, NEW s \in Sections, NEW row \in SeedRow,
         rows' = [rows EXCEPT ![s] = Append(@, row)]
  PROVE  /\ rows' \in [Sections -> Seq(SeedRow)]
         /\ \A t \in Sections \ {s} : rows'[t] = rows[t]
         /\ DOMAIN rows'[s] = DOMAIN rows[s] \cup {Len(rows[s]) + 1}
         /\ Len(rows'[s]) = Len(rows[s]) + 1
         /\ \A j \in DOMAIN rows[s] : rows'[s][j] = rows[s][j]
         /\ rows'[s][Len(rows[s]) + 1] = row
<1> DEFINE old == rows[s]
<1>1. old \in Seq(SeedRow) /\ DOMAIN old = 1..Len(old) /\ Len(old) \in Nat
  BY DEF SeedingTypeOK
<1>2. /\ rows' \in [Sections -> Seq(SeedRow)]
      /\ rows'[s] = Append(old, row) /\ \A t \in Sections \ {s} : rows'[t] = rows[t]
  <2>1. Append(old, row) \in Seq(SeedRow)
    BY <1>1
  <2>2. QED BY <2>1 DEF SeedingTypeOK
<1> HIDE DEF old
<1>3. /\ DOMAIN Append(old, row) = 1..(Len(old) + 1)
      /\ Len(Append(old, row)) = Len(old) + 1
      /\ \A j \in 1..Len(old) : Append(old, row)[j] = old[j]
      /\ Append(old, row)[Len(old) + 1] = row
  BY <1>1
<1>4. 1..(Len(old) + 1) = 1..Len(old) \cup {Len(old) + 1}
  BY <1>1
<1>5. QED BY <1>1, <1>2, <1>3, <1>4 DEF old

LEMMA RowChanged ==
  ASSUME SeedingTypeOK, NEW s \in Sections, NEW i \in DOMAIN rows[s], NEW row \in SeedRow,
         rows' = [rows EXCEPT ![s] = [@ EXCEPT ![i] = row]]
  PROVE  /\ rows' \in [Sections -> Seq(SeedRow)]
         /\ \A t \in Sections \ {s} : rows'[t] = rows[t]
         /\ DOMAIN rows'[s] = DOMAIN rows[s] /\ Len(rows'[s]) = Len(rows[s])
         /\ \A j \in DOMAIN rows[s] : rows'[s][j] = IF j = i THEN row ELSE rows[s][j]
<1> DEFINE old == rows[s]  new == [rows[s] EXCEPT ![i] = row]
<1>1. old \in Seq(SeedRow) /\ DOMAIN old = 1..Len(old) /\ Len(old) \in Nat
  BY DEF SeedingTypeOK
<1>2. new \in [1..Len(old) -> SeedRow] /\ DOMAIN new = DOMAIN old
      /\ \A j \in DOMAIN old : new[j] = IF j = i THEN row ELSE old[j]
  BY <1>1
<1>3. new \in Seq(SeedRow) /\ Len(new) = Len(old)
  BY <1>1, <1>2
<1>4. rows'[s] = new /\ \A t \in Sections \ {s} : rows'[t] = rows[t]
  BY DEF SeedingTypeOK
<1>5. rows' \in [Sections -> Seq(SeedRow)]
  BY <1>3, <1>4 DEF SeedingTypeOK
<1>6. QED BY <1>2, <1>3, <1>4, <1>5

\* The sections.
LEMMA SectionFacts ==
  /\ Upserted \subseteq Sections /\ FoundOrCreated \subseteq Sections
  /\ EditableSections \subseteq Sections /\ RenamableSections \cap Upserted = {}
  /\ "stopped" \notin Sections /\ "offers" \notin FoundOrCreated
BY DEF Sections, Upserted, FoundOrCreated, EditableSections, RenamableSections

\* What GoOn leaves of the run's record.
LEMMA RunGoesOn ==
  ASSUME SeedingInv, NEW r \in SeedRuns, NEW s \in Sections, script[r].at = s,
         NEW i \in Nat, NEW next \in Sections \cup {"stopped"}, GoOn(r, s, i, next)
  PROVE  /\ script' \in [SeedRuns -> RunRecord]
         /\ script'[r].found = 0
         /\ \A q \in SeedRuns : q # r => script'[q] = script[q]
         /\ Cardinality(ActiveRuns') <= Cardinality(ActiveRuns)
         /\ \A t \in Sections : Making(t)' = Making(t) \ {r}
<1>1. script[r] \in RunRecord /\ Running(r)
  BY SectionFacts DEF SeedingInv, SeedingTypeOK, Running
<1>2. PICK rec \in RunRecord :
        rec = [Stopped EXCEPT !.at = next,
                 !.product = IF s = "products" THEN i
                             ELSE IF s = "offers" THEN 0 ELSE script[r].product,
                 !.store = IF s = "stores" THEN i
                           ELSE IF s = "offers" THEN 0 ELSE script[r].store]
  BY <1>1 DEF Stopped, RunRecord
<1>3. ~rec.looked /\ rec.found = 0
  BY <1>2 DEF Stopped, RunRecord
<1>4. script' = [script EXCEPT ![r] = rec]
  BY <1>2 DEF GoOn
<1>5. QED BY <1>1, <1>3, <1>4, RunMoves

\* The runs that are active are counted, after a step too.
LEMMA ActiveCount ==
  ASSUME SeedingTypeOK' PROVE Cardinality(ActiveRuns') \in Nat
<1>1. ActiveRuns' \subseteq SeedRuns
  BY DEF ActiveRuns
<1>2. QED BY <1>1, SeedingAssumption, FS_Subset, FS_CardinalityType

\* A row that nobody found is created.
LEMMA InsertStep ==
  ASSUME SeedingInv, NEW r \in SeedRuns, NEW s \in Sections, script[r].at = s,
         NEW next \in Sections \cup {"stopped"},
         Insert(r, s), GoOn(r, s, Len(rows[s]) + 1, next),
         UNCHANGED <<seeds, settings, renamed, parallel>>,
         s \in Upserted => FoundRows(r, s) = {}, s \in FoundOrCreated => r \in Making(s)
  PROVE  SeedingInv'
<1> DEFINE n == Len(rows[s]) + 1
<1>0. SeedingTypeOK /\ Len(rows[s]) \in Nat /\ n \in Nat
      /\ settings' = settings /\ renamed' = renamed /\ parallel' = parallel
  BY SeedingFinite DEF SeedingInv
<1>1. PICK row \in SeedRow : row = [named |-> TRUE, by |-> "seed", of |-> Of(r, s)]
  <2>1. script[r] \in RunRecord
    BY <1>0 DEF SeedingTypeOK
  <2>2. Of(r, s) \in Nat \X Nat
    BY <2>1 DEF Of, RunRecord
  <2>3. QED BY <2>2 DEF SeedRow
<1>2. row.named /\ row.of = Of(r, s)
  BY <1>1
<1>3. rows' = [rows EXCEPT ![s] = Append(@, row)]
  BY <1>1 DEF Insert
<1>4. /\ rows' \in [Sections -> Seq(SeedRow)]
      /\ \A t \in Sections \ {s} : rows'[t] = rows[t]
      /\ DOMAIN rows'[s] = DOMAIN rows[s] \cup {n} /\ Len(rows'[s]) = n
      /\ \A j \in DOMAIN rows[s] : rows'[s][j] = rows[s][j]
      /\ rows'[s][n] = row
  BY <1>0, <1>3, RowAdded
<1>5. /\ script' \in [SeedRuns -> RunRecord] /\ script'[r].found = 0
      /\ \A q \in SeedRuns : q # r => script'[q] = script[q]
      /\ Cardinality(ActiveRuns') <= Cardinality(ActiveRuns)
      /\ \A t \in Sections : Making(t)' = Making(t) \ {r}
  BY <1>0, RunGoesOn
<1>6. n \notin DOMAIN rows[s]
  BY <1>0, SeedingFinite
<1> HIDE DEF n
<1>7. SeedingTypeOK'
  BY <1>0, <1>4, <1>5 DEF SeedingTypeOK
<1>8. RowsKeyed'
  <2> SUFFICES ASSUME NEW t \in Sections, NEW j \in DOMAIN rows'[t]
               PROVE  /\ t # "offers" => rows'[t][j].of = <<0, 0>>
                      /\ t \notin RenamableSections => rows'[t][j].named
    BY DEF RowsKeyed
  <2>1. CASE t = s /\ j = n
    BY <1>2, <1>4, <2>1 DEF Of
  <2>2. CASE ~(t = s /\ j = n)
    <3>1. j \in DOMAIN rows[t] /\ rows'[t][j] = rows[t][j]
      BY <1>4, <2>2
    <3>2. QED BY <3>1 DEF SeedingInv, RowsKeyed
  <2>3. QED BY <2>1, <2>2
<1>9. FoundIsThere'
  <2> SUFFICES ASSUME NEW q \in SeedRuns, script'[q].found # 0
               PROVE  /\ script'[q].at \in Sections
                      /\ script'[q].found \in DOMAIN rows'[script'[q].at]
    BY DEF FoundIsThere
  <2>1. script'[q] = script[q]
    BY <1>5
  <2>2. script[q].at \in Sections /\ script[q].found \in DOMAIN rows[script[q].at]
    BY <2>1 DEF SeedingInv, FoundIsThere
  <2>3. QED BY <1>4, <2>1, <2>2
<1>10. KeysUnique'
  <2> SUFFICES ASSUME NEW t \in Upserted, NEW j \in DOMAIN rows'[t], NEW k \in DOMAIN rows'[t],
                      rows'[t][j].of = rows'[t][k].of
               PROVE  j = k
    BY DEF KeysUnique
  <2>0. t \in Sections
    BY SectionFacts
  <2>1. CASE t # s
    BY <1>4, <2>0, <2>1 DEF SeedingInv, KeysUnique
  <2>2. CASE t = s
    <3>1. \A m \in DOMAIN rows[s] : rows[s][m].of # row.of
      BY <1>2, <2>2, SectionFacts DEF SeedingInv, RowsKeyed, FoundRows
    <3>2. \A m \in DOMAIN rows[s], l \in DOMAIN rows[s] :
            rows[s][m].of = rows[s][l].of => m = l
      BY <2>2 DEF SeedingInv, KeysUnique
    <3>3. \A m \in DOMAIN rows'[s] : m = n \/ (m \in DOMAIN rows[s] /\ rows'[s][m] = rows[s][m])
      BY <1>4
    <3>4. CASE j = n /\ k = n
      BY <3>4
    <3>5. CASE j = n /\ k # n
      BY <1>4, <2>2, <3>1, <3>3, <3>5
    <3>6. CASE j # n /\ k = n
      BY <1>4, <2>2, <3>1, <3>3, <3>6
    <3>7. CASE j # n /\ k # n
      BY <2>2, <3>2, <3>3, <3>7
    <3>8. QED BY <3>4, <3>5, <3>6, <3>7
  <2>3. QED BY <2>1, <2>2
<1>11. \A t \in Sections : Lost(t)' = Lost(t)
  <2> SUFFICES ASSUME NEW t \in Sections PROVE Lost(t)' = Lost(t)
    OBVIOUS
  <2>1. CASE t # s
    BY <1>4, <2>1 DEF Lost
  <2>2. CASE t = s
    <3>1. \A j \in DOMAIN rows'[s] :
            ~rows'[s][j].named <=> j \in DOMAIN rows[s] /\ ~rows[s][j].named
      BY <1>2, <1>4, <1>6
    <3>2. QED BY <1>4, <2>2, <3>1 DEF Lost
  <2>3. QED BY <2>1, <2>2
<1>12. ASSUME NEW t \in FoundOrCreated
       PROVE  Len(rows'[t]) + Cardinality(Making(t)') <= 1 + renamed[t] + parallel
  <2>1. /\ t \in Sections
        /\ Len(rows[t]) \in Nat /\ Cardinality(Making(t)) \in Nat /\ IsFiniteSet(Making(t))
        /\ renamed[t] \in Nat /\ parallel \in Nat
        /\ Len(rows[t]) + Cardinality(Making(t)) <= 1 + renamed[t] + parallel
    BY <1>0, SeedingFinite, SectionFacts DEF SeedingInv, SeedingTypeOK
  <2>2. Making(t)' = Making(t) \ {r}
    BY <1>5, <2>1
  <2>3. CASE t = s
    <3>1. Cardinality(Making(t)') = Cardinality(Making(t)) - 1
      BY <2>1, <2>2, <2>3, OneLeaves
    <3>2. Len(rows'[t]) = Len(rows[t]) + 1
      BY <1>4, <2>3 DEF n
    <3>3. QED BY <2>1, <3>1, <3>2
  <2>4. CASE t # s
    <3>1. Making(t)' = Making(t)
      BY <2>2, <2>4 DEF Making
    <3>2. QED BY <1>4, <2>1, <2>4, <3>1
  <2>5. QED BY <2>3, <2>4
<1>13. Cardinality(ActiveRuns') <= 1 + parallel
  <2>1. Cardinality(ActiveRuns') \in Nat /\ Cardinality(ActiveRuns) \in Nat /\ parallel \in Nat
    BY <1>0, <1>7, SeedingFinite, ActiveCount DEF SeedingTypeOK
  <2>2. QED BY <1>5, <2>1 DEF SeedingInv
<1>14. QED
  BY <1>0, <1>7, <1>8, <1>9, <1>10, <1>11, <1>12, <1>13 DEF SeedingInv

\* A row is changed in its place, and may only get its name back.
LEMMA UpdateStep ==
  ASSUME SeedingInv, NEW r \in SeedRuns, NEW s \in Sections, script[r].at = s,
         NEW next \in Sections \cup {"stopped"}, NEW overwrites \in BOOLEAN,
         NEW i \in DOMAIN rows[s], Update(s, i, overwrites), GoOn(r, s, i, next),
         UNCHANGED <<seeds, settings, renamed, parallel>>
  PROVE  SeedingInv'
<1>0. SeedingTypeOK /\ Len(rows[s]) \in Nat /\ i \in Nat /\ rows[s][i] \in SeedRow
      /\ settings' = settings /\ renamed' = renamed /\ parallel' = parallel
  <2>1. SeedingTypeOK
    BY DEF SeedingInv
  <2>2. DOMAIN rows[s] = 1..Len(rows[s]) /\ Len(rows[s]) \in Nat
    BY <2>1, SeedingFinite
  <2>3. QED BY <2>1, <2>2 DEF SeedingTypeOK
<1>1. PICK row \in SeedRow : row = Updated(rows[s][i], overwrites)
  BY <1>0 DEF Updated, SeedRow
<1>2. (rows[s][i].named => row.named) /\ row.of = rows[s][i].of
  BY <1>0, <1>1 DEF Updated, SeedRow
<1>3. rows' = [rows EXCEPT ![s] = [@ EXCEPT ![i] = row]]
  BY <1>0, <1>1 DEF Update, SeedingTypeOK
<1>4. /\ rows' \in [Sections -> Seq(SeedRow)]
      /\ \A t \in Sections \ {s} : rows'[t] = rows[t]
      /\ DOMAIN rows'[s] = DOMAIN rows[s] /\ Len(rows'[s]) = Len(rows[s])
      /\ \A j \in DOMAIN rows[s] : rows'[s][j] = IF j = i THEN row ELSE rows[s][j]
  BY <1>0, <1>3, RowChanged
<1>5. /\ script' \in [SeedRuns -> RunRecord] /\ script'[r].found = 0
      /\ \A q \in SeedRuns : q # r => script'[q] = script[q]
      /\ Cardinality(ActiveRuns') <= Cardinality(ActiveRuns)
      /\ \A t \in Sections : Making(t)' = Making(t) \ {r}
  BY <1>0, RunGoesOn
<1>6. \A t \in Sections :
        /\ DOMAIN rows'[t] = DOMAIN rows[t] /\ Len(rows'[t]) = Len(rows[t])
        /\ \A j \in DOMAIN rows[t] : rows'[t][j].of = rows[t][j].of
        /\ \A j \in DOMAIN rows[t] : rows[t][j].named => rows'[t][j].named
  BY <1>2, <1>4
<1>7. SeedingTypeOK'
  BY <1>0, <1>4, <1>5 DEF SeedingTypeOK
<1>8. RowsKeyed' /\ KeysUnique'
  <2>1. RowsKeyed'
    BY <1>6 DEF SeedingInv, RowsKeyed
  <2>2. KeysUnique'
    BY <1>6, SectionFacts DEF SeedingInv, KeysUnique
  <2>3. QED BY <2>1, <2>2
<1>9. FoundIsThere'
  BY <1>5, <1>6 DEF SeedingInv, FoundIsThere
<1>10. ASSUME NEW t \in Sections
       PROVE  Cardinality(Lost(t)') <= renamed[t]
  <2>1. Lost(t)' \subseteq Lost(t)
    BY <1>6 DEF Lost
  <2>2. /\ IsFiniteSet(Lost(t)) /\ Cardinality(Lost(t)) \in Nat /\ renamed[t] \in Nat
        /\ Cardinality(Lost(t)) <= renamed[t]
    BY <1>0, SeedingFinite DEF SeedingInv, SeedingTypeOK
  <2>3. Cardinality(Lost(t)') \in Nat /\ Cardinality(Lost(t)') <= Cardinality(Lost(t))
    BY <2>1, <2>2, FS_Subset, FS_CardinalityType
  <2>4. QED BY <2>2, <2>3
<1>11. ASSUME NEW t \in FoundOrCreated
       PROVE  Len(rows'[t]) + Cardinality(Making(t)') <= 1 + renamed[t] + parallel
  <2>1. /\ t \in Sections
        /\ Len(rows[t]) \in Nat /\ Cardinality(Making(t)) \in Nat /\ IsFiniteSet(Making(t))
        /\ renamed[t] \in Nat /\ parallel \in Nat
        /\ Len(rows[t]) + Cardinality(Making(t)) <= 1 + renamed[t] + parallel
    BY <1>0, SeedingFinite, SectionFacts DEF SeedingInv, SeedingTypeOK
  <2>2. Making(t)' \subseteq Making(t) /\ Len(rows'[t]) = Len(rows[t])
    BY <1>5, <1>6, <2>1
  <2>3. Cardinality(Making(t)') \in Nat /\ Cardinality(Making(t)') <= Cardinality(Making(t))
    BY <2>1, <2>2, FS_Subset, FS_CardinalityType
  <2>4. QED BY <2>1, <2>2, <2>3
<1>12. Cardinality(ActiveRuns') <= 1 + parallel
  <2>1. Cardinality(ActiveRuns') \in Nat /\ Cardinality(ActiveRuns) \in Nat /\ parallel \in Nat
    BY <1>0, <1>7, SeedingFinite, ActiveCount DEF SeedingTypeOK
  <2>2. QED BY <1>5, <2>1 DEF SeedingInv
<1>13. QED
  BY <1>0, <1>7, <1>8, <1>9, <1>10, <1>11, <1>12 DEF SeedingInv

\* One section of a run.
LEMMA UpsertStep ==
  ASSUME SeedingInv, NEW r \in SeedRuns, NEW s \in Upserted,
         NEW next \in Sections \cup {"stopped"}, NEW overwrites \in BOOLEAN,
         Upsert(r, s, overwrites, next)
  PROVE  SeedingInv'
<1>1. s \in Sections /\ s \notin FoundOrCreated /\ script[r].at = s
      /\ UNCHANGED <<seeds, settings, renamed, parallel>>
  BY DEF Upsert, Sections, Upserted, FoundOrCreated
<1>2. CASE FoundRows(r, s) = {} /\ Insert(r, s) /\ GoOn(r, s, Len(rows[s]) + 1, next)
  BY <1>1, <1>2, InsertStep
<1>3. CASE \E i \in FoundRows(r, s) : Update(s, i, overwrites) /\ GoOn(r, s, i, next)
  <2>1. PICK i \in FoundRows(r, s) : Update(s, i, overwrites) /\ GoOn(r, s, i, next)
    BY <1>3
  <2>2. i \in DOMAIN rows[s]
    BY DEF FoundRows
  <2>3. QED BY <1>1, <2>1, <2>2, UpdateStep
<1>4. QED BY <1>2, <1>3 DEF Upsert

LEMMA FindOrCreateStep ==
  ASSUME SeedingInv, NEW r \in SeedRuns, NEW s \in FoundOrCreated,
         NEW next \in Sections \cup {"stopped"}, NEW overwrites \in BOOLEAN,
         FindOrCreate(r, s, overwrites, next)
  PROVE  SeedingInv'
<1>1. CASE LookUp(r, s)
  BY <1>1, LookStep
<1>2. CASE CreateOrUpdate(r, s, overwrites, next)
  <2>1. s \in Sections /\ s \notin Upserted /\ script[r].at = s /\ script[r].looked
        /\ UNCHANGED <<seeds, settings, renamed, parallel>>
    BY <1>2 DEF CreateOrUpdate, Sections, Upserted, FoundOrCreated
  <2>2. CASE script[r].found = 0
    <3>1. r \in Making(s)
      BY <2>1, <2>2 DEF Making
    <3>2. Insert(r, s) /\ GoOn(r, s, Len(rows[s]) + 1, next)
      BY <1>2, <2>2 DEF CreateOrUpdate
    <3>3. QED BY <2>1, <3>1, <3>2, InsertStep
  <2>3. CASE script[r].found # 0
    <3>1. script[r].found \in DOMAIN rows[s]
      BY <2>1, <2>3 DEF SeedingInv, FoundIsThere
    <3>2. Update(s, script[r].found, overwrites) /\ GoOn(r, s, script[r].found, next)
      BY <1>2, <2>3 DEF CreateOrUpdate
    <3>3. QED BY <2>1, <3>1, <3>2, UpdateStep
  <2>4. QED BY <2>2, <2>3
<1>3. QED BY <1>1, <1>2 DEF FindOrCreate

LEMMA SectionStep ==
  ASSUME SeedingInv, NEW r \in SeedRuns, SeedSection(r)
  PROVE  SeedingInv'
<1>0. \A s \in {"permissions", "roles", "policies", "superAdmin", "customer", "vendors",
                "offers", "checkoutSettings", "rates", "rewards"} : s \in Upserted
  BY DEF Upserted
<1>1. \A s \in {"categories", "products", "stores", "faqs", "stations"} : s \in FoundOrCreated
  BY DEF FoundOrCreated
<1>2. \A s \in Upserted \cup FoundOrCreated \cup {"stopped"} : s \in Sections \cup {"stopped"}
  BY DEF Sections
<1>3. CASE SeedPermissions(r) \/ SeedRoles(r) \/ SeedPolicies(r) \/ SeedSuperAdmin(r)
  BY <1>0, <1>1, <1>2, <1>3, UpsertStep DEF SeedPermissions, SeedRoles, SeedPolicies,
                                            SeedSuperAdmin
<1>4. CASE SeedCustomer(r) \/ SeedVendors(r) \/ SeedOffers(r) \/ SeedCheckoutSettings(r)
  BY <1>0, <1>1, <1>2, <1>4, UpsertStep DEF SeedCustomer, SeedVendors, SeedOffers,
                                            SeedCheckoutSettings
<1>5. CASE SeedRates(r) \/ SeedRewards(r)
  BY <1>0, <1>1, <1>2, <1>5, UpsertStep DEF SeedRates, SeedRewards
<1>6. CASE SeedCategories(r) \/ SeedProducts(r) \/ SeedStores(r)
  BY <1>0, <1>1, <1>2, <1>6, FindOrCreateStep DEF SeedCategories, SeedProducts, SeedStores
<1>7. CASE SeedFaqs(r) \/ SeedStations(r)
  BY <1>0, <1>1, <1>2, <1>7, FindOrCreateStep DEF SeedFaqs, SeedStations
<1>8. QED BY <1>3, <1>4, <1>5, <1>6, <1>7 DEF SeedSection

\* Somebody edits a copy.
LEMMA ConfigureStep ==
  ASSUME SeedingInv, NEW s \in EditableSections, NEW i \in DOMAIN rows[s],
         NEW named \in BOOLEAN, Configure(s, i, named)
  PROVE  SeedingInv'
<1>0. /\ SeedingTypeOK /\ s \in Sections /\ rows[s][i] \in SeedRow
      /\ settings' \in Nat /\ script' = script /\ parallel' = parallel
      /\ s \in RenamableSections \/ named = rows[s][i].named
  BY SectionFacts DEF SeedingInv, SeedingTypeOK, Configure
<1>1. PICK row \in SeedRow : row = [rows[s][i] EXCEPT !.by = "admin", !.named = named]
  BY <1>0 DEF SeedRow
<1>2. row.named = named /\ row.of = rows[s][i].of
  BY <1>0, <1>1 DEF SeedRow
<1>3. rows' = [rows EXCEPT ![s] = [@ EXCEPT ![i] = row]]
  BY <1>0, <1>1 DEF Configure, SeedingTypeOK
<1>4. /\ rows' \in [Sections -> Seq(SeedRow)]
      /\ \A t \in Sections \ {s} : rows'[t] = rows[t]
      /\ DOMAIN rows'[s] = DOMAIN rows[s] /\ Len(rows'[s]) = Len(rows[s])
      /\ \A j \in DOMAIN rows[s] : rows'[s][j] = IF j = i THEN row ELSE rows[s][j]
  BY <1>0, <1>3, RowChanged
<1>5. \A t \in Sections :
        /\ DOMAIN rows'[t] = DOMAIN rows[t] /\ Len(rows'[t]) = Len(rows[t])
        /\ \A j \in DOMAIN rows[t] : rows'[t][j].of = rows[t][j].of
        /\ \A j \in DOMAIN rows[t] :
             t \notin RenamableSections => rows'[t][j].named = rows[t][j].named
  BY <1>0, <1>2, <1>4
<1>6. /\ renamed' \in [Sections -> Nat]
      /\ \A t \in Sections :
           renamed'[t] = IF t = s /\ rows[s][i].named /\ ~named
                         THEN renamed[t] + 1 ELSE renamed[t]
  BY <1>0 DEF Configure, SeedingTypeOK
<1>7. SeedingTypeOK'
  BY <1>0, <1>4, <1>6 DEF SeedingTypeOK
<1>8. RowsKeyed' /\ KeysUnique'
  <2>1. RowsKeyed'
    BY <1>5 DEF SeedingInv, RowsKeyed
  <2>2. KeysUnique'
    BY <1>5, SectionFacts DEF SeedingInv, KeysUnique
  <2>3. QED BY <2>1, <2>2
<1>9. FoundIsThere'
  BY <1>0, <1>5 DEF SeedingInv, FoundIsThere
<1>10. ASSUME NEW t \in Sections
       PROVE  Cardinality(Lost(t)') <= renamed'[t]
  <2>1. /\ IsFiniteSet(Lost(t)) /\ Cardinality(Lost(t)) \in Nat /\ renamed[t] \in Nat
        /\ Cardinality(Lost(t)) <= renamed[t]
    BY <1>0, SeedingFinite DEF SeedingInv, SeedingTypeOK
  <2>2. CASE t = s /\ rows[s][i].named /\ ~named
    <3>1. Lost(t)' = Lost(t) \cup {i} /\ i \notin Lost(t)
      BY <1>2, <1>4, <2>2 DEF Lost
    <3>2. Cardinality(Lost(t)') = Cardinality(Lost(t)) + 1
      BY <2>1, <3>1, OneJoins
    <3>3. QED BY <1>6, <2>1, <2>2, <3>2
  <2>3. CASE ~(t = s /\ rows[s][i].named /\ ~named)
    <3>1. Lost(t)' \subseteq Lost(t)
      <4>1. CASE t = s
        BY <1>2, <1>4, <2>3, <4>1 DEF Lost
      <4>2. CASE t # s
        BY <1>4, <4>2 DEF Lost
      <4>3. QED BY <4>1, <4>2
    <3>2. Cardinality(Lost(t)') \in Nat /\ Cardinality(Lost(t)') <= Cardinality(Lost(t))
      BY <2>1, <3>1, FS_Subset, FS_CardinalityType
    <3>3. QED BY <1>6, <2>1, <2>3, <3>2
  <2>4. QED BY <2>2, <2>3
<1>11. ASSUME NEW t \in FoundOrCreated
       PROVE  Len(rows'[t]) + Cardinality(Making(t)') <= 1 + renamed'[t] + parallel
  <2>1. /\ t \in Sections
        /\ Len(rows[t]) \in Nat /\ Cardinality(Making(t)) \in Nat
        /\ renamed[t] \in Nat /\ parallel \in Nat
        /\ Len(rows[t]) + Cardinality(Making(t)) <= 1 + renamed[t] + parallel
    BY <1>0, SeedingFinite, SectionFacts DEF SeedingInv, SeedingTypeOK
  <2>2. Making(t)' = Making(t)
    BY <1>0 DEF Making
  <2>3. renamed'[t] \in Nat /\ renamed'[t] >= renamed[t] /\ Len(rows'[t]) = Len(rows[t])
    BY <1>5, <1>6, <2>1
  <2>4. QED BY <2>1, <2>2, <2>3
<1>12. ActiveRuns' = ActiveRuns
  BY <1>0 DEF ActiveRuns, Running
<1>13. QED
  BY <1>0, <1>7, <1>8, <1>9, <1>10, <1>11, <1>12 DEF SeedingInv

\* Every step keeps the invariant.
LEMMA SeedingStep == SeedingInv /\ [SeedingNext]_seedingVars => SeedingInv'
<1> SUFFICES ASSUME SeedingInv, [SeedingNext]_seedingVars PROVE SeedingInv'
  OBVIOUS
<1>1. CASE \E r \in SeedRuns : StartSeed(r) \/ SeedStops(r) \/ SeedSection(r)
  BY <1>1, StartStep, StopStep, SectionStep
<1>2. CASE \E s \in EditableSections : \E i \in DOMAIN rows[s], named \in BOOLEAN :
             Configure(s, i, named)
  BY <1>2, ConfigureStep
<1>3. CASE UNCHANGED seedingVars
  <2>1. /\ rows' = rows /\ script' = script /\ settings' = settings /\ renamed' = renamed
        /\ parallel' = parallel
    BY <1>3 DEF seedingVars
  <2>2. /\ ActiveRuns' = ActiveRuns
        /\ \A s \in Sections : Lost(s)' = Lost(s) /\ Making(s)' = Making(s)
    BY <2>1 DEF ActiveRuns, Running, Lost, Making
  <2>3. SeedingTypeOK' /\ RowsKeyed' /\ FoundIsThere' /\ KeysUnique'
    BY <2>1 DEF SeedingInv, SeedingTypeOK, RowsKeyed, FoundIsThere, KeysUnique
  <2>4. QED BY <2>1, <2>2, <2>3, SectionFacts DEF SeedingInv
<1>4. QED BY <1>1, <1>2, <1>3 DEF SeedingNext

LEMMA CopiesHold == SeedingInv => CopiesHaveCause
<1> SUFFICES ASSUME SeedingInv, NEW s \in FoundOrCreated
             PROVE  Len(rows[s]) <= 1 + renamed[s] + parallel
  BY DEF SeedingInv, KeysUnique, CopiesHaveCause
<1>1. /\ Len(rows[s]) \in Nat /\ Cardinality(Making(s)) \in Nat
      /\ renamed[s] \in Nat /\ parallel \in Nat
      /\ Len(rows[s]) + Cardinality(Making(s)) <= 1 + renamed[s] + parallel
  BY SeedingFinite, SectionFacts DEF SeedingInv, SeedingTypeOK
<1>2. QED BY <1>1

\* Where the script overwrites, another section is concerned.
LEMMA SectionKeeps ==
  ASSUME SeedingInv, NEW r \in SeedRuns, SeedSection(r)
  PROVE  ConfiguredValuesStand
<1> DEFINE Kept == Sections \ {"permissions", "roles", "policies", "products", "offers",
                               "stations"}
<1>0. SeedingTypeOK
  BY DEF SeedingInv
<1> SUFFICES ASSUME NEW s \in Kept, NEW i \in DOMAIN rows[s]
             PROVE  rows'[s][i] = rows[s][i]
  BY DEF ConfiguredValuesStand
<1>1. \A t \in Sections : Insert(r, t) => rows'[s][i] = rows[s][i]
  <2> SUFFICES ASSUME NEW t \in Sections, Insert(r, t) PROVE rows'[s][i] = rows[s][i]
    OBVIOUS
  <2>1. script[r] \in RunRecord
    BY <1>0 DEF SeedingTypeOK
  <2>2. Of(r, t) \in Nat \X Nat
    BY <2>1 DEF Of, RunRecord
  <2>3. PICK row \in SeedRow : row = [named |-> TRUE, by |-> "seed", of |-> Of(r, t)]
    BY <2>2 DEF SeedRow
  <2>4. rows' = [rows EXCEPT ![t] = Append(@, row)]
    BY <2>3 DEF Insert
  <2>5. (\A u \in Sections \ {t} : rows'[u] = rows[u])
        /\ \A j \in DOMAIN rows[t] : rows'[t][j] = rows[t][j]
    BY <1>0, <2>4, RowAdded
  <2>6. QED BY <2>5
<1>2. \A t \in Sections, j \in Nat :
        Update(t, j, FALSE) => rows'[s][i] = rows[s][i]
  BY <1>0 DEF Update, Updated, SeedingTypeOK
<1>3. \A t \in Sections \ Kept, j \in Nat, o \in BOOLEAN :
        Update(t, j, o) => rows'[s][i] = rows[s][i]
  BY <1>0 DEF Update, SeedingTypeOK
<1>4. \A t \in Sections, o \in BOOLEAN : \A next :
        Upsert(r, t, o, next) /\ (o => t \notin Kept) => rows'[s][i] = rows[s][i]
  <2> SUFFICES ASSUME NEW t \in Sections, NEW o \in BOOLEAN, NEW next,
                      Upsert(r, t, o, next), o => t \notin Kept
               PROVE  rows'[s][i] = rows[s][i]
    OBVIOUS
  <2>1. FoundRows(r, t) \subseteq Nat
    BY <1>0, SeedingFinite DEF FoundRows
  <2>2. QED BY <1>1, <1>2, <1>3, <2>1 DEF Upsert
<1>5. \A t \in Sections, o \in BOOLEAN : \A next :
        FindOrCreate(r, t, o, next) /\ (o => t \notin Kept) => rows'[s][i] = rows[s][i]
  <2> SUFFICES ASSUME NEW t \in Sections, NEW o \in BOOLEAN, NEW next,
                      FindOrCreate(r, t, o, next), o => t \notin Kept
               PROVE  rows'[s][i] = rows[s][i]
    OBVIOUS
  <2>1. script[r].found \in Nat
    BY <1>0 DEF SeedingTypeOK, RunRecord
  <2>2. CASE LookUp(r, t)
    BY <2>2 DEF LookUp
  <2>3. CASE CreateOrUpdate(r, t, o, next)
    BY <1>1, <1>2, <1>3, <2>1, <2>3 DEF CreateOrUpdate
  <2>4. QED BY <2>2, <2>3 DEF FindOrCreate
<1>6. \A t \in {"permissions", "roles", "policies", "products", "offers", "stations"} :
        t \in Sections /\ t \notin Kept
  BY DEF Sections, Upserted, FoundOrCreated
<1>7. \A t \in {"superAdmin", "customer", "categories", "vendors", "stores",
                "checkoutSettings", "rates", "rewards", "faqs"} : t \in Sections
  BY DEF Sections, Upserted, FoundOrCreated
<1> HIDE DEF Kept
<1>8. CASE SeedPermissions(r) \/ SeedRoles(r) \/ SeedPolicies(r) \/ SeedOffers(r)
  BY <1>4, <1>6, <1>8 DEF SeedPermissions, SeedRoles, SeedPolicies, SeedOffers
<1>9. CASE SeedSuperAdmin(r) \/ SeedCustomer(r) \/ SeedVendors(r)
           \/ SeedCheckoutSettings(r) \/ SeedRates(r) \/ SeedRewards(r)
  BY <1>4, <1>7, <1>9 DEF SeedSuperAdmin, SeedCustomer, SeedVendors, SeedCheckoutSettings,
                          SeedRates, SeedRewards
<1>10. CASE SeedProducts(r) \/ SeedStations(r)
  BY <1>5, <1>6, <1>10 DEF SeedProducts, SeedStations
<1>11. CASE SeedCategories(r) \/ SeedStores(r) \/ SeedFaqs(r)
  BY <1>5, <1>7, <1>11 DEF SeedCategories, SeedStores, SeedFaqs
<1>12. QED BY <1>8, <1>9, <1>10, <1>11 DEF SeedSection

\* For any number of runs, stops and edits: a copy has its cause, and a value
\* that an update does not write is what somebody made it.
THEOREM SeedingCorrect == SeedingSpec => RerunsAreHarmless
<1>1. SeedingInv /\ [SeedingNext]_seedingVars =>
        [ConfiguredValuesStand]_seedingVars
  <2> SUFFICES ASSUME SeedingInv, SeedingNext
               PROVE  ConfiguredValuesStand
    OBVIOUS
  <2>1. CASE \E r \in SeedRuns : StartSeed(r) \/ SeedStops(r)
    <3>1. rows' = rows
      BY <2>1 DEF StartSeed, SeedStops
    <3>2. QED BY <3>1 DEF ConfiguredValuesStand
  <2>2. CASE \E r \in SeedRuns : SeedSection(r)
    BY <2>2, SectionKeeps
  <2>3. CASE \E s \in EditableSections : \E i \in DOMAIN rows[s], named \in BOOLEAN :
               Configure(s, i, named)
    <3>1. settings' = settings + 1 /\ settings \in Nat
      BY <2>3 DEF Configure, SeedingInv, SeedingTypeOK
    <3>2. QED BY <3>1 DEF ConfiguredValuesStand
  <2>4. QED BY <2>1, <2>2, <2>3 DEF SeedingNext
<1>2. SeedingSpec => []SeedingInv /\ []CopiesHaveCause
  BY SeedingStart, SeedingStep, CopiesHold, PTL DEF SeedingSpec
<1>3. QED BY <1>1, <1>2, PTL DEF SeedingSpec, RerunsAreHarmless
=============================================================================
