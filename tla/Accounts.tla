------------------------------ MODULE Accounts ------------------------------
(***************************************************************************)
(* A customer account: registration, e-mailed one-time codes, password,    *)
(* passkey and Google sign-in, sessions with rotating refresh tokens       *)
(* (auth.service.ts, passkey.service.ts, google-auth.service.ts, the       *)
(* password change of users.service.ts, jwt.guard.ts).                     *)
(*                                                                         *)
(* One e-mail address.  Handlers run concurrently; every await between a   *)
(* read and the write that depends on it is a step boundary.  Passwords    *)
(* are numbered in the order they were set; the code of a challenge is     *)
(* known to whoever answers it or it is not.                               *)
(***************************************************************************)
EXTENDS Naturals, FiniteSets

CONSTANTS Requests,       \* concurrent HTTP handlers
          Sessions,       \* rows of AdminSession that may come to exist
          MaxAttempts,    \* OTP_MAX_ATTEMPTS
          MaxChallenges,  \* bound: codes sent
          MaxPasswords,   \* bound: passwords set
          MaxRotations,   \* bound: refresh tokens of a session
          MaxStarted      \* bound: requests that change something

\* 0 stands for no session; at least one guess is allowed.
ASSUME AccountsAssumption ==
  /\ IsFiniteSet(Requests) /\ 0 \notin Sessions
  /\ MaxAttempts \in Nat \ {0}
  /\ {MaxChallenges, MaxPasswords, MaxRotations, MaxStarted} \subseteq Nat

VARIABLES account,     \* the User row with its OAuth link and passkey
          challenges,  \* the OtpChallenge rows, numbered by createdAt
          cooldown,    \* purposes whose redis cooldown key is set
          passkeys,    \* redis challenges: a registration, a login
          sessions,    \* the AdminSession rows
          request,     \* what each handler has read and does next
          started,     \* requests started (bound)
          guesses,     \* history: codes compared with a challenge
          effects,     \* history: requests a challenge let through
          redeemed     \* history: exchanges of each refresh token

accountsVars == <<account, challenges, cooldown, passkeys, sessions, request,
                  started, guesses, effects, redeemed>>

Purposes == {"EMAIL_VERIFICATION", "PASSWORD_RESET"}
Challenges == 1..MaxChallenges

NoAccount == [exists |-> FALSE, verified |-> FALSE, active |-> TRUE,
              password |-> 0, google |-> FALSE, passkey |-> FALSE]

Idle == [step |-> "idle", then |-> "none", code |-> 0, session |-> 0,
         token |-> 0, known |-> FALSE, user |-> NoAccount]

SignedUp == [NoAccount EXCEPT !.exists = TRUE, !.verified = TRUE, !.password = 1]

\* Nobody has registered, or a customer is signed in on one device and has
\* just asked for a new password.
AccountsInit ==
  /\ account \in {NoAccount, SignedUp}
  /\ challenges = [c \in Challenges |->
       IF account.exists /\ c = 1
       THEN [purpose |-> "PASSWORD_RESET", attempts |-> 0, state |-> "live"]
       ELSE [purpose |-> "EMAIL_VERIFICATION", attempts |-> 0, state |-> "unsent"]]
  /\ cooldown = IF account.exists THEN {"PASSWORD_RESET"} ELSE {}
  /\ passkeys = {}
  /\ LET device == CHOOSE s \in Sessions : TRUE IN
     sessions = [s \in Sessions |->
       IF account.exists /\ s = device
       THEN [state |-> "live", token |-> 1, password |-> 1, kept |-> 0]
       ELSE [state |-> "none", token |-> 0, password |-> 0, kept |-> 0]]
  /\ request = [r \in Requests |-> Idle]
  /\ started = 0
  /\ guesses = [c \in Challenges |-> 0]
  /\ effects = [c \in Challenges |-> 0]
  /\ redeemed = [s \in Sessions |-> [n \in 1..MaxRotations |-> 0]]

-----------------------------------------------------------------------------
(* Helpers: a handler starts, goes on, or answers.                         *)

Start(r) == request[r] = Idle /\ started < MaxStarted /\ started' = started + 1
At(r, step) == request[r].step = step
Continue(r, rec) == request' = [request EXCEPT ![r] = rec]
Answer(r) == Continue(r, Idle)

LiveSession(s) == sessions[s].state = "live"
\* JwtAuthGuard: the bearer of an access token of session s gets through.
canActivate(s) == account.exists /\ account.active /\ LiveSession(s)

-----------------------------------------------------------------------------
(* Registration and login.                                                 *)

\* register: the address is free when it is looked up.
RegisterRead(r) ==
  /\ Start(r)
  /\ ~account.exists
  /\ Continue(r, [Idle EXCEPT !.step = "create"])
  /\ UNCHANGED <<account, challenges, cooldown, passkeys, sessions, guesses, effects, redeemed>>

\* user.create: the unique e-mail refuses the second of two registrations.
RegisterCreate(r) ==
  /\ At(r, "create")
  /\ IF account.exists
     THEN Answer(r) /\ UNCHANGED account
     ELSE /\ account' = [NoAccount EXCEPT !.exists = TRUE, !.password = 1]
          /\ Continue(r, [Idle EXCEPT !.step = "send", !.then = "EMAIL_VERIFICATION"])
  /\ UNCHANGED <<challenges, cooldown, passkeys, sessions, started, guesses, effects, redeemed>>

MayLogIn(password) == password = account.password /\ password > 0 /\ account.active

FaultyEmailVerified == TRUE
EmailVerified == account.verified

\* login: password and status are checked on one read of the row; an
\* unverified address is sent a new code and refused.
LoginRead(r, password) ==
  /\ Start(r)
  /\ account.exists /\ MayLogIn(password)
  /\ Continue(r, IF EmailVerified
                 THEN [Idle EXCEPT !.step = "issue"]
                 ELSE [Idle EXCEPT !.step = "send", !.then = "EMAIL_VERIFICATION"])
  /\ UNCHANGED <<account, challenges, cooldown, passkeys, sessions, guesses, effects, redeemed>>

\* issueTokens without a session: a new row with the first refresh token.
NewSession == [state |-> "live", token |-> 1, password |-> account.password, kept |-> 0]

IssueSession(r) ==
  /\ At(r, "issue")
  /\ \E s \in Sessions :
       /\ sessions[s].state = "none"
       /\ sessions' = [sessions EXCEPT ![s] = NewSession]
  /\ Answer(r)
  /\ UNCHANGED <<account, challenges, cooldown, passkeys, started, guesses, effects, redeemed>>

\* createSessionForUser: the account is read again before a session is issued.
CreateSessionForUser(r) ==
  /\ At(r, "session")
  /\ Continue(r, IF account.active THEN [Idle EXCEPT !.step = "issue"] ELSE Idle)
  /\ UNCHANGED <<account, challenges, cooldown, passkeys, sessions, started, guesses, effects, redeemed>>

-----------------------------------------------------------------------------
(* One-time codes.                                                         *)

\* resendEmailOtp and forgotPassword decide on one read whether to send.
ResendEmailOtp(r) ==
  /\ Start(r)
  /\ account.exists /\ ~account.verified
  /\ Continue(r, [Idle EXCEPT !.step = "send", !.then = "EMAIL_VERIFICATION"])
  /\ UNCHANGED <<account, challenges, cooldown, passkeys, sessions, guesses, effects, redeemed>>

ForgotPassword(r) ==
  /\ Start(r)
  /\ account.exists /\ account.active
  /\ Continue(r, [Idle EXCEPT !.step = "send", !.then = "PASSWORD_RESET"])
  /\ UNCHANGED <<account, challenges, cooldown, passkeys, sessions, guesses, effects, redeemed>>

\* createAndSendOtp: the cooldown key is looked up first ...
CheckCooldown(r) ==
  /\ At(r, "send")
  /\ Continue(r, IF request[r].then \in cooldown THEN Idle
                 ELSE [request[r] EXCEPT !.step = "replace"])
  /\ UNCHANGED <<account, challenges, cooldown, passkeys, sessions, started, guesses, effects, redeemed>>

\* ... then the earlier challenges of the purpose are deleted ...
DeleteChallenges(r) ==
  /\ At(r, "replace")
  /\ challenges' = [c \in Challenges |->
       IF challenges[c].purpose = request[r].then /\ challenges[c].state # "unsent"
       THEN [challenges[c] EXCEPT !.state = "gone"] ELSE challenges[c]]
  /\ Continue(r, [request[r] EXCEPT !.step = "mail"])
  /\ UNCHANGED <<account, cooldown, passkeys, sessions, started, guesses, effects, redeemed>>

\* ... and the new one is created, the cooldown set and the mail sent.  When
\* the mail fails the challenge is deleted again; the cooldown stays.
CreateChallenge(r) ==
  /\ At(r, "mail")
  /\ \E c \in Challenges, outcome \in {"live", "gone"} :
       /\ challenges[c].state = "unsent"
       /\ \A d \in Challenges : d < c => challenges[d].state # "unsent"
       /\ challenges' = [challenges EXCEPT ![c] =
            [purpose |-> request[r].then, attempts |-> 0, state |-> outcome]]
  /\ cooldown' = cooldown \cup {request[r].then}
  /\ Answer(r)
  /\ UNCHANGED <<account, passkeys, sessions, started, guesses, effects, redeemed>>

\* findFirst ... orderBy createdAt desc: the youngest code still valid.
Latest(purpose) ==
  {c \in Challenges :
     /\ challenges[c].state = "live" /\ challenges[c].purpose = purpose
     /\ \A d \in Challenges : d > c =>
          ~(challenges[d].state = "live" /\ challenges[d].purpose = purpose)}

FaultyAttemptsLeft(c) == challenges[c].attempts <= MaxAttempts
AttemptsLeft(c) == challenges[c].attempts < MaxAttempts

\* verifyEmailOtp and resetPassword, with consumeOtp up to the comparison.
ConsumeRead(r, purpose, known) ==
  /\ Start(r)
  /\ account.exists /\ (purpose = "PASSWORD_RESET" => account.active)
  /\ \E c \in Latest(purpose) :
       /\ AttemptsLeft(c)
       /\ guesses' = [guesses EXCEPT ![c] = @ + 1]
       /\ Continue(r, [Idle EXCEPT !.step = "consume", !.then = purpose,
                                   !.code = c, !.known = known])
  /\ UNCHANGED <<account, challenges, cooldown, passkeys, sessions, effects, redeemed>>

\* A wrong code is counted on the row, if it is still there, and refused.
CountAttempt(r) ==
  /\ At(r, "consume") /\ ~request[r].known
  /\ LET c == request[r].code IN
     challenges' = IF challenges[c].state = "gone" THEN challenges
                   ELSE [challenges EXCEPT ![c].attempts = @ + 1]
  /\ Answer(r)
  /\ UNCHANGED <<account, cooldown, passkeys, sessions, started, guesses, effects, redeemed>>

FaultyDeletedOne(c) == TRUE

\* A right code counts only for the request whose deleteMany removed the row.
DeletedOne(c) == challenges[c].state \in {"live", "stale"}

ConsumeChallenge(r) ==
  /\ At(r, "consume") /\ request[r].known
  /\ LET c == request[r].code IN
     /\ challenges' = [challenges EXCEPT ![c].state = "gone"]
     /\ effects' = IF DeletedOne(c) THEN [effects EXCEPT ![c] = @ + 1] ELSE effects
     /\ Continue(r, IF DeletedOne(c) THEN [request[r] EXCEPT !.step = "apply"] ELSE Idle)
  /\ UNCHANGED <<account, cooldown, passkeys, sessions, started, guesses, redeemed>>

VerifyEmail(r) ==
  /\ At(r, "apply") /\ request[r].then = "EMAIL_VERIFICATION"
  /\ account' = [account EXCEPT !.verified = TRUE]
  /\ Answer(r)
  /\ UNCHANGED <<challenges, cooldown, passkeys, sessions, started, guesses, effects, redeemed>>

FaultyRevoked(spared) ==
  [s \in Sessions |-> IF LiveSession(s) /\ s # spared /\ sessions[s].token = 1
                      THEN [sessions[s] EXCEPT !.state = "revoked"] ELSE sessions[s]]

\* updateMany where revokedAt is null, sparing one session if there is one.
Revoked(spared) ==
  [s \in Sessions |-> IF LiveSession(s) /\ s # spared
                      THEN [sessions[s] EXCEPT !.state = "revoked"] ELSE sessions[s]]

\* resetPassword: the password and the revocation in one transaction.
ResetPassword(r) ==
  /\ At(r, "apply") /\ request[r].then = "PASSWORD_RESET"
  /\ account.password < MaxPasswords
  /\ account' = [account EXCEPT !.password = @ + 1]
  /\ sessions' = Revoked(0)
  /\ Answer(r)
  /\ UNCHANGED <<challenges, cooldown, passkeys, started, guesses, effects, redeemed>>

-----------------------------------------------------------------------------
(* Sessions.                                                               *)

\* refreshToken: the presented token is the one whose hash the row holds.
RefreshRead(r, s) ==
  /\ Start(r)
  /\ canActivate(s)
  /\ sessions[s].token < MaxRotations
  /\ Continue(r, [Idle EXCEPT !.step = "rotate", !.session = s, !.token = sessions[s].token])
  /\ UNCHANGED <<account, challenges, cooldown, passkeys, sessions, guesses, effects, redeemed>>

FaultyRotatable(s, token) == LiveSession(s)

\* The conditional updateMany of issueTokens.
Rotatable(s, token) == LiveSession(s) /\ sessions[s].token = token

RefreshRotate(r) ==
  /\ At(r, "rotate")
  /\ LET s == request[r].session
         token == request[r].token IN
     IF Rotatable(s, token)
     THEN /\ sessions' = [sessions EXCEPT ![s].token = token + 1]
          /\ redeemed' = [redeemed EXCEPT ![s][token] = @ + 1]
     ELSE UNCHANGED <<sessions, redeemed>>
  /\ Answer(r)
  /\ UNCHANGED <<account, challenges, cooldown, passkeys, started, guesses, effects>>

\* logout; a session that runs out of time ends the same way.
Logout(s) ==
  /\ canActivate(s)
  /\ sessions' = [sessions EXCEPT ![s].state = "revoked"]
  /\ UNCHANGED <<account, challenges, cooldown, passkeys, request, started, guesses, effects, redeemed>>

\* changePassword of UsersService, called in session s.
ChangePasswordRead(r, s, password) ==
  /\ Start(r)
  /\ canActivate(s)
  /\ password = account.password /\ password > 0
  /\ Continue(r, [Idle EXCEPT !.step = "change", !.session = s])
  /\ UNCHANGED <<account, challenges, cooldown, passkeys, sessions, guesses, effects, redeemed>>

ChangePassword(r) ==
  /\ At(r, "change")
  /\ account.password < MaxPasswords
  /\ account' = [account EXCEPT !.password = @ + 1]
  /\ sessions' = [Revoked(request[r].session) EXCEPT
                    ![request[r].session].kept = account.password + 1]
  /\ Answer(r)
  /\ UNCHANGED <<challenges, cooldown, passkeys, started, guesses, effects, redeemed>>

-----------------------------------------------------------------------------
(* Passkeys and Google.                                                    *)

\* registrationOptions and authenticationOptions store a challenge.
RegistrationOptions(s) ==
  /\ canActivate(s) /\ "register" \notin passkeys /\ ~account.passkey
  /\ passkeys' = passkeys \cup {"register"}
  /\ UNCHANGED <<account, challenges, cooldown, sessions, request, started, guesses, effects, redeemed>>

AuthenticationOptions ==
  /\ account.passkey /\ "login" \notin passkeys
  /\ passkeys' = passkeys \cup {"login"}
  /\ UNCHANGED <<account, challenges, cooldown, sessions, request, started, guesses, effects, redeemed>>

VerifyRegistration(s) ==
  /\ canActivate(s) /\ "register" \in passkeys
  /\ account' = [account EXCEPT !.passkey = TRUE]
  /\ passkeys' = passkeys \ {"register"}
  /\ UNCHANGED <<challenges, cooldown, sessions, request, started, guesses, effects, redeemed>>

\* verifyAuthentication: reads the challenge and the credential ...
VerifyAuthentication(r) ==
  /\ Start(r)
  /\ "login" \in passkeys /\ account.passkey /\ account.active
  /\ Continue(r, [Idle EXCEPT !.step = "passkey"])
  /\ UNCHANGED <<account, challenges, cooldown, passkeys, sessions, guesses, effects, redeemed>>

\* ... saves the counter (which fails for a removed credential), drops the
\* challenge and opens a session.
PasskeyVerified(r) ==
  /\ At(r, "passkey")
  /\ passkeys' = IF account.passkey THEN passkeys \ {"login"} ELSE passkeys
  /\ Continue(r, IF account.passkey THEN [Idle EXCEPT !.step = "session"] ELSE Idle)
  /\ UNCHANGED <<account, challenges, cooldown, sessions, started, guesses, effects, redeemed>>

RemovePasskey(s) ==
  /\ canActivate(s) /\ account.passkey
  /\ account' = [account EXCEPT !.passkey = FALSE]
  /\ UNCHANGED <<challenges, cooldown, passkeys, sessions, request, started, guesses, effects, redeemed>>

\* signIn with a linked Google account opens a session at once; otherwise
\* the user of the address, if there is one, is read before the transaction.
GoogleRead(r) ==
  /\ Start(r)
  /\ account.google => account.active
  /\ Continue(r, IF account.google THEN [Idle EXCEPT !.step = "session"]
                 ELSE [Idle EXCEPT !.step = "google", !.user = account])
  /\ UNCHANGED <<account, challenges, cooldown, passkeys, sessions, guesses, effects, redeemed>>

\* The transaction: unique e-mail and unique provider account abort the
\* loser of a race, the status is the one read unless the row is updated
\* first, and a Google address counts as verified.
LinkFails(r) ==
  LET user == request[r].user IN
  \/ ~user.exists /\ account.exists
  \/ user.exists /\ ~(IF user.verified THEN user ELSE account).active
  \/ account.google

GoogleLink(r) ==
  /\ At(r, "google")
  /\ IF LinkFails(r)
     THEN Answer(r) /\ UNCHANGED account
     ELSE /\ account' = [account EXCEPT !.exists = TRUE, !.verified = TRUE, !.google = TRUE]
          /\ Continue(r, [Idle EXCEPT !.step = "session"])
  /\ UNCHANGED <<challenges, cooldown, passkeys, sessions, started, guesses, effects, redeemed>>

-----------------------------------------------------------------------------
(* Time, and an operator who suspends the account in the database.          *)

CodeExpires(c) ==
  /\ challenges[c].state = "live"
  /\ challenges' = [challenges EXCEPT ![c].state = "stale"]
  /\ UNCHANGED <<account, cooldown, passkeys, sessions, request, started, guesses, effects, redeemed>>

CooldownEnds(p) ==
  /\ p \in cooldown
  /\ cooldown' = cooldown \ {p}
  /\ UNCHANGED <<account, challenges, passkeys, sessions, request, started, guesses, effects, redeemed>>

Suspend ==
  /\ account.exists /\ account.active
  /\ account' = [account EXCEPT !.active = FALSE]
  /\ UNCHANGED <<challenges, cooldown, passkeys, sessions, request, started, guesses, effects, redeemed>>

AccountsNext ==
  \/ \E r \in Requests :
       \/ RegisterRead(r) \/ RegisterCreate(r) \/ IssueSession(r) \/ CreateSessionForUser(r)
       \/ \E password \in 1..MaxPasswords : LoginRead(r, password)
       \/ ResendEmailOtp(r) \/ ForgotPassword(r)
       \/ CheckCooldown(r) \/ DeleteChallenges(r) \/ CreateChallenge(r)
       \/ \E p \in Purposes, known \in BOOLEAN : ConsumeRead(r, p, known)
       \/ CountAttempt(r) \/ ConsumeChallenge(r) \/ VerifyEmail(r) \/ ResetPassword(r)
       \/ \E s \in Sessions : RefreshRead(r, s)
       \/ RefreshRotate(r)
       \/ \E s \in Sessions, password \in 1..MaxPasswords : ChangePasswordRead(r, s, password)
       \/ ChangePassword(r)
       \/ VerifyAuthentication(r) \/ PasskeyVerified(r)
       \/ GoogleRead(r) \/ GoogleLink(r)
  \/ \E s \in Sessions :
       Logout(s) \/ RegistrationOptions(s) \/ VerifyRegistration(s) \/ RemovePasskey(s)
  \/ AuthenticationOptions
  \/ \E c \in Challenges : CodeExpires(c)
  \/ \E p \in Purposes : CooldownEnds(p)
  \/ Suspend

AccountsSpec == AccountsInit /\ [][AccountsNext]_accountsVars

-----------------------------------------------------------------------------
(* Properties.                                                             *)

\* Setting a password ends every session opened before it, whatever refresh
\* is under way (resetPassword, changePassword): a live session was opened
\* under the present password, or it is the one the change was made in.
\* (A login that compared the old password may open its session after the
\* change; a session counts as opened under the password it finds.)
SessionsEndWithPassword ==
  \A s \in Sessions : LiveSession(s) =>
     \/ sessions[s].password = account.password
     \/ sessions[s].kept = account.password

\* Two handlers that present one refresh token never both get a new one
\* (the conditional rotation of issueTokens).
RefreshTokenIsSingleUse ==
  \A s \in Sessions, n \in 1..MaxRotations : redeemed[s][n] <= 1

\* consumeOtp checks the attempt count on a read and counts afterwards, so
\* concurrent guesses overshoot the limit, but by less than the number of
\* handlers; the limit is never lost.
GuessesAreBounded ==
  \A c \in Challenges : guesses[c] < MaxAttempts + Cardinality(Requests)

\* One e-mailed code verifies an address or resets a password once, however
\* many requests carry it at the same time.
CodeTakesEffectOnce == \A c \in Challenges : effects[c] <= 1

\* No way to sign in, by password, passkey or Google, opens a session for
\* an address nobody has proved to own.
SessionsAreVerified ==
  (\E s \in Sessions : sessions[s].state # "none") => account.verified

\* A session lives only with the present password, by a refresh token used
\* once, and for a proven address, whichever of login, refresh, reset and
\* logout overlap.
SessionsAreSound ==
  SessionsEndWithPassword /\ RefreshTokenIsSingleUse /\ SessionsAreVerified

\* A one-time code survives concurrent use: few guesses, one effect.
CodesAreSound == GuessesAreBounded /\ CodeTakesEffectOnce
=============================================================================
