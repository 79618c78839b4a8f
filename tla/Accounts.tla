------------------------------ MODULE Accounts ------------------------------
(***************************************************************************)
(* Accounts of yaneMedia: registration and the verification mail, login,   *)
(* logout and password reset on the server, and the account a page shows   *)
(* (AuthProvider) together with the account queries it keeps in its cache. *)
(*                                                                         *)
(* Every handler that awaits is cut where it awaits: what it read before   *)
(* may be old when it goes on.  A password is its version number (the      *)
(* number of resets so far), a token of a mail and a session are serial    *)
(* numbers.  A token is never guessed, so only mailed tokens are used.     *)
(***************************************************************************)
EXTENDS Naturals, FiniteSets

CONSTANTS Email,        \* the addresses people register
          Browser,      \* browsers: each has one cookie jar and one open page
          MaxSerial,    \* bound on the tokens and sessions handed out
          MaxResets     \* bound on the password resets of one account

Kinds == {"verify", "reset"}
None == [kind |-> "none"]
NoOne == "nobody"

VARIABLES account,   \* account[e]: the row of users, or a row not made yet
          token,     \* token[k][e]: the one row of the token tables of a user
          mail,      \* letters delivered: the tokens people can follow
          session,   \* rows of sessions
          cookie,    \* cookie[b]: the session cookie, and whose session it names
          op,        \* op[b]: the form of the page that awaits its answer
          leaving,   \* leaving[b]: the page awaits the answer to its logout
          me,        \* me[b]: the pending /auth/me of AuthProvider.refresh
          page,      \* page[b]: AuthState, and the account key the provider remembers
          cached,    \* cached[b]: accounts with queries in the page's cache
          serial     \* serials handed out

vars == <<account, token, mail, session, cookie, op, leaving, me, page, cached, serial>>
server == <<account, token, mail, session, serial>>
client == <<cookie, leaving, me, page, cached>>

Unmade == [made |-> FALSE, verified |-> FALSE, pass |-> 0]
NoToken == [n |-> 0, cooling |-> FALSE, expired |-> FALSE]

NoCookie == [n |-> 0, user |-> NoOne]
NoAsk == [asked |-> FALSE, answered |-> FALSE, user |-> NoOne]

\* late: the account came back with the answer to a form sent before (see ProfileSaved).
Shown(status, user, key, late) == [status |-> status, user |-> user, key |-> key, late |-> late]

TypeOK ==
  /\ account \in [Email -> [made : BOOLEAN, verified : BOOLEAN, pass : 0 .. MaxResets]]
  /\ token \in [Kinds -> [Email -> [n : 0 .. MaxSerial, cooling : BOOLEAN, expired : BOOLEAN]]]
  /\ mail \subseteq [kind : Kinds, user : Email, n : 1 .. MaxSerial]
  /\ session \subseteq [n : 1 .. MaxSerial, user : Email, pass : 0 .. MaxResets, overtaken : BOOLEAN]
  /\ cookie \in [Browser -> [n : 0 .. MaxSerial, user : Email \union {NoOne}]]
  /\ page \in [Browser -> [status : {"loading", "guest", "error", "authenticated"},
                           user : Email \union {NoOne}, key : Email \union {NoOne}, late : BOOLEAN]]
  /\ \A b \in Browser : (page[b].status = "authenticated") = (page[b].user # NoOne)
  /\ cached \in [Browser -> SUBSET Email]
  /\ serial \in 0 .. MaxSerial
  /\ \A e \in Email : ~account[e].made => ~account[e].verified

Init ==
  /\ account = [e \in Email |-> Unmade]
  /\ token = [k \in Kinds |-> [e \in Email |-> NoToken]]
  /\ mail = {} /\ session = {} /\ serial = 0
  /\ cookie = [b \in Browser |-> NoCookie]
  /\ leaving = [b \in Browser |-> FALSE]
  /\ op = [b \in Browser |-> None]
  /\ me = [b \in Browser |-> [NoAsk EXCEPT !.asked = TRUE]]
  /\ page = [b \in Browser |-> Shown("loading", NoOne, NoOne, FALSE)]
  /\ cached = [b \in Browser |-> {}]

Idle(b) == op[b] = None
Done(b) == op' = [op EXCEPT ![b] = None]

-----------------------------------------------------------------------------
(* Mailed tokens. *)

\* One token per user and table: the upsert replaces it only after the cooldown.
SaveToken(k, e) ==
  IF ~token[k][e].cooling
  THEN /\ serial < MaxSerial
       /\ serial' = serial + 1
       /\ token' = [token EXCEPT ![k][e] =
                      [n |-> serial + 1, cooling |-> TRUE, expired |-> FALSE]]
  ELSE UNCHANGED <<serial, token>>

\* The letter is sent only when the token was stored.
Mailing(b, k, e) ==
  op' = [op EXCEPT ![b] = IF token[k][e].cooling THEN None
                          ELSE [kind |-> "mail", token |-> k, user |-> e, n |-> serial + 1]]

\* register: the email is looked up first, the password hashed afterwards.
Register(b, e) ==
  /\ Idle(b) /\ page[b].status = "guest"
  /\ ~account[e].made
  /\ op' = [op EXCEPT ![b] = [kind |-> "register", user |-> e]]
  /\ UNCHANGED <<server, client>>

\* usersService.create: users_email_unique refuses the second of two registrations.
CreateUser(b) ==
  /\ op[b].kind = "register"
  /\ LET e == op[b].user IN
       IF account[e].made
       THEN Done(b) /\ UNCHANGED server
       ELSE /\ account' = [account EXCEPT ![e].made = TRUE]
            /\ SaveToken("verify", e) /\ Mailing(b, "verify", e)
            /\ UNCHANGED <<mail, session>>
  /\ UNCHANGED client

\* resendVerification: only a known and unverified account gets a letter.
ResendVerification(b, e) ==
  /\ Idle(b) /\ page[b].status = "guest"
  /\ account[e].made /\ ~account[e].verified
  /\ SaveToken("verify", e) /\ Mailing(b, "verify", e)
  /\ UNCHANGED <<account, mail, session, client>>

RequestPasswordReset(b, e) ==
  /\ Idle(b) /\ page[b].status = "guest"
  /\ account[e].made
  /\ SaveToken("reset", e) /\ Mailing(b, "reset", e)
  /\ UNCHANGED <<account, mail, session, client>>

\* The provider takes the letter, or refuses it: the token stays in its table.
SendMail(b) ==
  /\ op[b].kind = "mail"
  /\ \/ mail' = mail \union {[kind |-> op[b].token, user |-> op[b].user, n |-> op[b].n]}
     \/ UNCHANGED mail
  /\ Done(b)
  /\ UNCHANGED <<account, token, session, serial, client>>

\* A row a letter can spend: the same digest, and not expired.
Spends(l) == token[l.kind][l.user].n = l.n /\ ~token[l.kind][l.user].expired
Spent(l) == [token EXCEPT ![l.kind][l.user] = NoToken]

VerifyEmail(l) ==
  /\ l \in mail /\ l.kind = "verify" /\ Spends(l)
  /\ token' = Spent(l)
  /\ account' = [account EXCEPT ![l.user].verified = TRUE]
  /\ UNCHANGED <<mail, session, serial, op, client>>

\* Mutant: only the password changes.
SessionsKept(e) == session

\* resetPasswordByTokenHash: one transaction spends the token, sets the hash and
\* deletes the sessions (the torrents it stops are the Logout of TorrentSession).
SessionsRevoked(e) == {s \in session : s.user # e}

ResetPassword(l) ==
  /\ l \in mail /\ l.kind = "reset" /\ Spends(l)
  /\ account[l.user].pass < MaxResets
  /\ token' = Spent(l)
  /\ account' = [account EXCEPT ![l.user].pass = @ + 1]
  /\ session' = SessionsRevoked(l.user)
  /\ op' = [b \in Browser |-> IF op[b].kind = "login" /\ op[b].user = l.user
                              THEN [op[b] EXCEPT !.overtaken = TRUE] ELSE op[b]]
  /\ UNCHANGED <<mail, serial, client>>

\* Time: a minute ends the cooldown of a token, an hour or a day its life.
Cooled(k, e) ==
  /\ token[k][e].cooling
  /\ token' = [token EXCEPT ![k][e].cooling = FALSE]
  /\ UNCHANGED <<account, mail, session, serial, op, client>>

TokenExpires(k, e) ==
  /\ token[k][e].n > 0 /\ ~token[k][e].cooling /\ ~token[k][e].expired
  /\ token' = [token EXCEPT ![k][e].expired = TRUE]
  /\ UNCHANGED <<account, mail, session, serial, op, client>>

\* An expired row is never found; SessionGuard deletes it when it is used.
SessionExpires(s) ==
  /\ s \in session
  /\ session' = session \ {s}
  /\ UNCHANGED <<account, token, mail, serial, op, client>>

-----------------------------------------------------------------------------
(* The account of a page. *)

\* Whatever /auth/me answers after this is not applied.
CancelRequest(b) == me' = [me EXCEPT ![b] = NoAsk]

\* setAuthenticated: the queries of the account the page knew before are removed.
Forgets(b, e) == IF page[b].key \in {NoOne, e} THEN {} ELSE {page[b].key}

SetAuthenticated(b, e) ==
  /\ CancelRequest(b)
  /\ cached' = [cached EXCEPT ![b] = @ \ Forgets(b, e)]
  /\ page' = [page EXCEPT ![b] = Shown("authenticated", e, e, FALSE)]

SetGuest(b) ==
  /\ CancelRequest(b)
  /\ cached' = [cached EXCEPT ![b] = IF page[b].key = NoOne THEN {} ELSE @ \ {page[b].key}]
  /\ page' = [page EXCEPT ![b] = Shown("guest", NoOne, NoOne, FALSE)]

\* login: the account is read and its password verified before the session is made.
Login(b, e) ==
  /\ Idle(b) /\ ~leaving[b]
  /\ account[e].made /\ account[e].verified
  /\ op' = [op EXCEPT ![b] = [kind |-> "login", user |-> e, pass |-> account[e].pass,
                              overtaken |-> FALSE]]
  /\ UNCHANGED <<server, client>>

CreateSession(b) ==
  /\ op[b].kind = "login" /\ serial < MaxSerial
  /\ serial' = serial + 1
  /\ session' = session \union {[n |-> serial + 1, user |-> op[b].user, pass |-> op[b].pass,
                                 overtaken |-> op[b].overtaken]}
  /\ op' = [op EXCEPT ![b] = [kind |-> "loggedIn", user |-> op[b].user, n |-> serial + 1]]
  /\ UNCHANGED <<account, token, mail, client>>

LoginAnswered(b) ==
  /\ op[b].kind = "loggedIn"
  /\ cookie' = [cookie EXCEPT ![b] = [n |-> op[b].n, user |-> op[b].user]]
  /\ SetAuthenticated(b, op[b].user)
  /\ Done(b)
  /\ UNCHANGED <<server, leaving>>

\* AccountControl.handleLogout: the server forgets the session of the cookie ...
Logout(b) ==
  /\ ~leaving[b] /\ page[b].status = "authenticated"
  /\ op[b].kind \notin {"login", "loggedIn"}
  /\ leaving' = [leaving EXCEPT ![b] = TRUE]
  /\ session' = {s \in session : s.n # cookie[b].n}
  /\ UNCHANGED <<account, token, mail, serial, op, cookie, me, page, cached>>

\* ... and the answer clears the cookie and the page; a lost answer leaves both.
LogoutAnswered(b) ==
  /\ leaving[b]
  /\ leaving' = [leaving EXCEPT ![b] = FALSE]
  /\ \/ cookie' = [cookie EXCEPT ![b] = NoCookie] /\ SetGuest(b)
     \/ UNCHANGED <<cookie, me, page, cached>>
  /\ UNCHANGED <<server, op>>

\* refresh: the page forgets its account and asks for the one of its cookie.
Refresh(b) ==
  /\ page[b].status \in {"authenticated", "error"}
  /\ me' = [me EXCEPT ![b] = [NoAsk EXCEPT !.asked = TRUE]]
  /\ page' = [page EXCEPT ![b] = Shown("loading", NoOne, @.key, FALSE)]
  /\ UNCHANGED <<server, op, cookie, leaving, cached>>

\* SessionGuard.findUser: the account of the cookie's session, or nobody.
UserOf(b) == IF \E s \in session : s.n = cookie[b].n THEN cookie[b].user ELSE NoOne

FindUser(b) ==
  /\ me[b].asked /\ ~me[b].answered
  /\ me' = [me EXCEPT ![b].answered = TRUE, ![b].user = UserOf(b)]
  /\ UNCHANGED <<server, op, cookie, leaving, page, cached>>

RefreshAnswered(b) ==
  /\ me[b].answered
  /\ IF me[b].user = NoOne THEN SetGuest(b) ELSE SetAuthenticated(b, me[b].user)
  /\ UNCHANGED <<server, op, cookie, leaving>>

RefreshFailed(b) ==
  /\ me[b].asked
  /\ CancelRequest(b)
  /\ page' = [page EXCEPT ![b] = Shown("error", NoOne, @.key, FALSE)]
  /\ UNCHANGED <<server, op, cookie, leaving, cached>>

\* A query of the account (profile, library, torrent session) fills the cache.
LoadAccountQuery(b) ==
  /\ page[b].status = "authenticated" /\ UserOf(b) = page[b].user
  /\ cached' = [cached EXCEPT ![b] = @ \union {page[b].user}]
  /\ UNCHANGED <<server, op, cookie, leaving, me, page>>

\* ProfileEditForm.handleSubmit: the account it was submitted for is captured ...
SaveProfile(b) ==
  /\ Idle(b) /\ page[b].status = "authenticated" /\ UserOf(b) = page[b].user
  /\ op' = [op EXCEPT ![b] = [kind |-> "save", user |-> page[b].user]]
  /\ UNCHANGED <<server, client>>

\* ... and the answer is applied to whatever the page shows by then.
ProfileSaved(b) ==
  /\ op[b].kind = "save"
  /\ LET e == op[b].user IN
       /\ CancelRequest(b)
       /\ cached' = [cached EXCEPT ![b] = (@ \union {e}) \ Forgets(b, e)]
       /\ page' = [page EXCEPT ![b] = Shown("authenticated", e, e, @.late \/ @.key # e)]
  /\ Done(b)
  /\ UNCHANGED <<server, cookie, leaving>>

Next ==
  \/ \E b \in Browser, e \in Email :
       Register(b, e) \/ ResendVerification(b, e) \/ RequestPasswordReset(b, e) \/ Login(b, e)
  \/ \E b \in Browser :
       \/ CreateUser(b) \/ SendMail(b) \/ CreateSession(b) \/ LoginAnswered(b)
       \/ Logout(b) \/ LogoutAnswered(b)
       \/ Refresh(b) \/ FindUser(b) \/ RefreshAnswered(b) \/ RefreshFailed(b)
       \/ LoadAccountQuery(b) \/ SaveProfile(b) \/ ProfileSaved(b)
  \/ \E l \in mail : VerifyEmail(l) \/ ResetPassword(l)
  \/ \E k \in Kinds, e \in Email : Cooled(k, e) \/ TokenExpires(k, e)
  \/ \E s \in session : SessionExpires(s)

Spec == Init /\ [][Next]_vars

-----------------------------------------------------------------------------
(* What must hold. *)

\* A page that shows an account has that account's cookie, and a page that shows a
\* guest has no live session: an /auth/me answered before a login or a logout of the
\* page never replaces what that login or logout showed (AuthProvider aborts it).
\* Left out: an account brought back by a profile form answered after the logout.
ShownIsSignedIn ==
  \A b \in Browser :
    /\ page[b].status = "authenticated" /\ ~page[b].late => cookie[b].user = page[b].user
    /\ page[b].status = "guest" => UserOf(b) = NoOne

\* No page keeps the private queries of one account while it shows another or a guest,
\* whatever reloads, failures and logins it went through (clearAccountQueries).
NoForeignData ==
  \A b \in Browser : page[b].status \in {"authenticated", "guest"} => cached[b] \subseteq {page[b].user}

\* After a password reset no session of the old password is left, except one whose
\* login had already verified the old password when the reset committed.
ResetRevokes ==
  \A s \in session : s.pass = account[s.user].pass \/ s.overtaken
=============================================================================
