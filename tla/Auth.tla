-------------------------------- MODULE Auth --------------------------------
(***************************************************************************)
(* auth-svc's identity half: registration, e-mail verification, password   *)
(* reset, profile updates, and the refresh-token sessions kept in Redis.   *)
(*                                                                         *)
(* A request is a worker going through its handler.  A step of a worker is *)
(* one statement that can wait for a lock or be overtaken by another       *)
(* request: a SELECT ... FOR UPDATE, the statements after it up to COMMIT, *)
(* one Redis command.  What a transaction writes becomes visible at its    *)
(* COMMIT; its row locks are held until then.                              *)
(*                                                                         *)
(* A user is its e-mail address.  A code is the number of its row, and     *)
(* guess 0 is a wrong one.  Malformed input is refused before any state is *)
(* touched and is left out, as are mail and token signing.                 *)
(***************************************************************************)
EXTENDS Integers, Sequences, FiniteSets

CONSTANTS
    Users,        \* e-mail addresses
    Workers,      \* concurrent requests
    Passwords,    \* what clients choose
    Names,        \* display names
    Attempts,     \* attempts_remaining of a fresh code
    MaxRequests,  \* bound: requests in a behaviour
    None

Purposes == {"email_verify", "password_reset"}

Ops == {"register", "resend", "forgot", "verify", "reset",
        "login", "refresh", "logout", "profile"}

VARIABLES
    users,        \* users rows: status, password, display name
    codes,        \* verification_codes rows of a user and purpose, oldest first
    outbox,       \* auth_outbox, in id order
    userLock,     \* who has the users row locked
    codeLock,     \* who has the unused code of a purpose locked
    cooldown,     \* SET NX keys of resend-verification and forgot-password
    tokens,       \* refresh tokens ever issued; history: the login's token, session
    refresh,      \* "refresh:<token>" keys that exist
    userRefresh,  \* "user_refresh:<user>" sets
    req,          \* what each worker is doing
    requests,     \* requests so far
    logins,       \* history: sessions opened with a password
    proof,        \* history: passwords chosen by someone the mailbox vouches for
    revoked,      \* history: tokens issued when a finished revocation listed them
    escaped       \* history: tokens issued, or being rotated, under a revocation

tables == <<users, codes, outbox>>
locks == <<userLock, codeLock>>
redis == <<cooldown, tokens, refresh, userRefresh>>
history == <<logins, proof, revoked, escaped>>
vars == <<tables, locks, redis, req, requests, history>>

Steps == {"select", "insert", "issue", "pick", "take", "compare", "apply", "authenticate",
          "getdel", "srem", "find", "mint", "list", "del", "update", "event"}

ASSUME AuthAssumption ==
    /\ IsFiniteSet(Workers)
    /\ Attempts \in Nat
    /\ MaxRequests \in Nat
    /\ None \notin Workers \cup Ops \cup Steps \cup {"pending_verification", "active"}

Idle == [op |-> None, user |-> None, at |-> None, arg |-> None, row |-> 0,
         listed |-> {}]

\* The types of the tables, the Redis keys and the requests.
TypeOK ==
    /\ users \in [Users -> [status : {None, "pending_verification", "active"},
                            password : Passwords \cup {None},
                            name : Names \cup {None}]]
    /\ \A u \in Users, p \in Purposes : codes[u][p] \in
         Seq([attempts : 0 .. Attempts, guesses : Nat, used : BOOLEAN,
              expired : BOOLEAN, for : Passwords])
    /\ outbox \in Seq([type : {"UserActivated", "ProfileUpdated"},
                       user : Users, name : Names \cup {None}])
    /\ userLock \in [Users -> Workers \cup {None}]
    /\ codeLock \in [Users -> [Purposes -> Workers \cup {None}]]
    /\ cooldown \subseteq {"resend", "forgot"} \X Users
    /\ tokens \in Seq([owner : Users, session : Nat])
    /\ refresh \subseteq DOMAIN tokens
    /\ userRefresh \in [Users -> SUBSET (DOMAIN tokens)]
    /\ escaped \subseteq DOMAIN tokens
    /\ \A w \in Workers : req[w].op \in Ops \cup {None}
                       /\ req[w].at \in Steps \cup {None}
    /\ requests \in 0 .. MaxRequests

Init ==
    /\ users = [u \in Users |-> [status |-> None, password |-> None, name |-> None]]
    /\ codes = [u \in Users |-> [p \in Purposes |-> <<>>]]
    /\ outbox = <<>>
    /\ userLock = [u \in Users |-> None]
    /\ codeLock = [u \in Users |-> [p \in Purposes |-> None]]
    /\ cooldown = {}
    /\ tokens = <<>>
    /\ refresh = {}
    /\ userRefresh = [u \in Users |-> {}]
    /\ req = [w \in Workers |-> Idle]
    /\ requests = 0
    /\ logins = [u \in Users |-> 0]
    /\ proof = [u \in Users |-> {}]
    /\ revoked = [u \in Users |-> 0]
    /\ escaped = {}

-----------------------------------------------------------------------------
(***************************************************************************)
(* Requests.                                                               *)
(***************************************************************************)
Begin(w, op, u, step, a, r) ==
    /\ req[w] = Idle
    /\ requests < MaxRequests
    /\ requests' = requests + 1
    /\ req' = [req EXCEPT ![w] = [op |-> op, user |-> u, at |-> step, arg |-> a,
                                  row |-> r, listed |-> {}]]

At(w, step) == req[w].at = step

Op(w, ops) == req[w].op \in ops

Goto(w, step) == req' = [req EXCEPT ![w].at = step]

Answer(w) == req' = [req EXCEPT ![w] = Idle]

\* A transaction ends: its locks go with it.
Unlock(w) ==
    /\ userLock' = [u \in Users |-> IF userLock[u] = w THEN None ELSE userLock[u]]
    /\ codeLock' = [u \in Users |-> [p \in Purposes |->
                      IF codeLock[u][p] = w THEN None ELSE codeLock[u][p]]]

\* Faulty: SELECT without FOR UPDATE.
UserFreeUnlocked(w) == TRUE

\* FOR UPDATE, or an UPDATE of the row, waits while another transaction has it.
UserFree(w) == userLock[req[w].user] \in {None, w}

PurposeOf(w) == IF Op(w, {"forgot", "reset"}) THEN "password_reset" ELSE "email_verify"

\* Faulty: the code is read without FOR UPDATE.
CodeFreeUnlocked(w) == TRUE

\* Nobody has the user's unused code of the purpose locked.
CodeFree(w) == codeLock[req[w].user][PurposeOf(w)] = None

Unused(u, p) == {i \in DOMAIN codes[u][p] : ~codes[u][p][i].used}

-----------------------------------------------------------------------------
(***************************************************************************)
(* Issuing codes: /register, /resend-verification, /forgot-password.       *)
(***************************************************************************)
registerHandler(w, u, pw) ==
    /\ Begin(w, "register", u, "select", pw, 0)
    /\ UNCHANGED <<tables, locks, redis, history>>

\* SET NX answers 429 while the key lives.
resendVerificationHandler(w, u) ==
    /\ <<"resend", u>> \notin cooldown
    /\ Begin(w, "resend", u, "select", None, 0)
    /\ cooldown' = cooldown \cup {<<"resend", u>>}
    /\ UNCHANGED <<tables, locks, tokens, refresh, userRefresh, history>>

forgotPasswordHandler(w, u) ==
    /\ <<"forgot", u>> \notin cooldown
    /\ Begin(w, "forgot", u, "select", None, 0)
    /\ cooldown' = cooldown \cup {<<"forgot", u>>}
    /\ UNCHANGED <<tables, locks, tokens, refresh, userRefresh, history>>

\* SELECT ... FROM users WHERE email = $1 FOR UPDATE: a registration goes on
\* for a missing or a pending user, a resend for a pending one, a reset
\* request for any that exists.
registerUserAndIssueCode(w) ==
    /\ At(w, "select") /\ Op(w, {"register"})
    /\ UserFree(w)
    /\ LET u == req[w].user IN
       \/ /\ users[u].status = None
          /\ Goto(w, "insert")
          /\ UNCHANGED userLock
       \/ /\ users[u].status = "active"       \* email_already_registered
          /\ Answer(w)
          /\ UNCHANGED userLock
       \/ /\ users[u].status = "pending_verification"
          /\ Goto(w, "issue")
          /\ userLock' = [userLock EXCEPT ![u] = w]
    /\ UNCHANGED <<tables, codeLock, redis, requests, history>>

\* INSERT INTO users: the unique index makes a second registration wait for
\* the first and then fail.
InsertUser(w) ==
    /\ At(w, "insert")
    /\ UserFree(w)
    /\ LET u == req[w].user IN
       \/ users[u].status # None /\ Answer(w) /\ UNCHANGED userLock
       \/ /\ users[u].status = None
          /\ Goto(w, "issue")
          /\ userLock' = [userLock EXCEPT ![u] = w]
    /\ UNCHANGED <<tables, codeLock, redis, requests, history>>

resendVerificationCode(w) ==
    /\ At(w, "select") /\ Op(w, {"resend"})
    /\ UserFree(w)
    /\ LET u == req[w].user IN
       \/ /\ users[u].status # "pending_verification"
          /\ Answer(w)
          /\ UNCHANGED userLock
       \/ /\ users[u].status = "pending_verification"
          /\ Goto(w, "issue")
          /\ userLock' = [userLock EXCEPT ![u] = w]
    /\ UNCHANGED <<tables, codeLock, redis, requests, history>>

issuePasswordResetCode(w) ==
    /\ At(w, "select") /\ Op(w, {"forgot"})
    /\ UserFree(w)
    /\ LET u == req[w].user IN
       \/ users[u].status = None /\ Answer(w) /\ UNCHANGED userLock
       \/ /\ users[u].status # None
          /\ Goto(w, "issue")
          /\ userLock' = [userLock EXCEPT ![u] = w]
    /\ UNCHANGED <<tables, codeLock, redis, requests, history>>

\* The unused codes of the purpose are retired and a fresh one follows.
invalidateAndIssueCode(rows, pw) ==
    Append([i \in DOMAIN rows |-> [rows[i] EXCEPT !.used = TRUE]],
           [attempts |-> Attempts, guesses |-> 0, used |-> FALSE,
            expired |-> FALSE, for |-> pw])

\* The UPDATE that retires the unused codes waits for a verification that
\* has one locked; the rest of the transaction cannot wait.
IssueAndCommit(w) ==
    /\ At(w, "issue")
    /\ CodeFree(w)
    /\ LET u == req[w].user
           p == PurposeOf(w)
           pw == IF Op(w, {"register"}) THEN req[w].arg ELSE users[u].password
       IN /\ users' = IF Op(w, {"register"})
                        THEN [users EXCEPT ![u].password = pw, ![u].status =
                                IF @ = None THEN "pending_verification" ELSE @]
                        ELSE users
          /\ codes' = [codes EXCEPT ![u][p] = invalidateAndIssueCode(@, pw)]
    /\ Unlock(w)
    /\ Answer(w)
    /\ UNCHANGED <<outbox, redis, requests, history>>

-----------------------------------------------------------------------------
(***************************************************************************)
(* Using codes: /verify-email and /reset-password.                         *)
(***************************************************************************)
verifyEmailHandler(w, u, guess) ==
    /\ Begin(w, "verify", u, "pick", guess, 0)
    /\ UNCHANGED <<tables, locks, redis, history>>

resetPasswordHandler(w, u, guess, pw) ==
    /\ Begin(w, "reset", u, "pick", <<guess, pw>>, 0)
    /\ UNCHANGED <<tables, locks, redis, history>>

\* SELECT id (no lock), then the newest unused code FOR UPDATE LIMIT 1: the
\* row is chosen now and locked when it is free.
PickCode(w) ==
    /\ At(w, "pick")
    /\ LET unused == Unused(req[w].user, PurposeOf(w)) IN
       \/ unused = {} /\ Answer(w)            \* no such user, or no active code
       \/ \E i \in unused :
            /\ \A j \in unused : j <= i
            /\ req' = [req EXCEPT ![w].at = "take", ![w].row = i]
    /\ UNCHANGED <<tables, locks, redis, requests, history>>

Guess(w) == IF Op(w, {"reset"}) THEN req[w].arg[1] ELSE req[w].arg

Exhausted(row) == row.attempts <= 0

\* READ COMMITTED reads the row again once it has the lock; a code retired
\* while it waited no longer qualifies, and no other row takes its place.
Superseded(row) == row.used

LockCode(w) ==
    /\ At(w, "take")
    /\ CodeFree(w)
    /\ LET u == req[w].user
           p == PurposeOf(w)
           row == codes[u][p][req[w].row]
           refused == Superseded(row) \/ row.expired \/ Exhausted(row)
       IN \/ refused /\ Answer(w) /\ UNCHANGED codeLock
          \/ /\ ~refused
             /\ codeLock' = [codeLock EXCEPT ![u][p] = w]
             /\ Goto(w, "compare")
    /\ UNCHANGED <<tables, userLock, redis, requests, history>>

\* The guess against what was read under the lock: a wrong one costs an
\* attempt and commits (invalid_verification_code), the right one goes on.
consumeVerificationCode(w) ==
    /\ At(w, "compare")
    /\ LET u == req[w].user
           p == PurposeOf(w)
           i == req[w].row
           row == codes[u][p][i]
       IN \/ /\ Guess(w) # i
             /\ codes' = [codes EXCEPT ![u][p][i] =
                              [row EXCEPT !.attempts = @ - 1, !.guesses = @ + 1]]
             /\ Unlock(w)
             /\ Answer(w)
          \/ /\ Guess(w) = i
             /\ Goto(w, "apply")
             /\ UNCHANGED <<codes, locks>>
    /\ UNCHANGED <<users, outbox, redis, requests, history>>

\* Faulty: the event is published after the commit, which may not happen.
ActivatedEventLost(u) == outbox

\* The event goes to the outbox in the transaction that activates the user.
ActivatedEvent(u) ==
    Append(outbox, [type |-> "UserActivated", user |-> u, name |-> None])

\* UPDATE users waits for the row; then the code is used, the user active and
\* the event queued in one COMMIT.
verifyEmailCode(w) ==
    /\ At(w, "apply") /\ Op(w, {"verify"})
    /\ UserFree(w)
    /\ LET u == req[w].user
           i == req[w].row
       IN /\ users' = [users EXCEPT ![u].status = "active"]
          /\ codes' = [codes EXCEPT ![u]["email_verify"][i].used = TRUE]
          /\ outbox' = ActivatedEvent(u)
          /\ proof' = [proof EXCEPT ![u] = @ \cup {codes[u]["email_verify"][i].for}]
    /\ Unlock(w)
    /\ Answer(w)
    /\ UNCHANGED <<redis, requests, logins, revoked, escaped>>

resetPassword(w) ==
    /\ At(w, "apply") /\ Op(w, {"reset"})
    /\ UserFree(w)
    /\ LET u == req[w].user
           pw == req[w].arg[2]
       IN /\ users' = [users EXCEPT ![u].password = pw]
          /\ codes' = [codes EXCEPT ![u]["password_reset"][req[w].row].used = TRUE]
          /\ proof' = [proof EXCEPT ![u] = @ \cup {pw}]
    /\ Unlock(w)
    /\ Goto(w, "list")
    /\ UNCHANGED <<outbox, redis, requests, logins, revoked, escaped>>

\* revokeAllUserRefreshTokens: SMEMBERS, then one DEL of what it listed and of
\* the set itself.  row keeps how many tokens existed when it listed.
ListTokens(w) ==
    /\ At(w, "list")
    /\ req' = [req EXCEPT ![w] = [@ EXCEPT !.at = "del", !.row = Len(tokens),
                                           !.listed = userRefresh[req[w].user]]]
    /\ UNCHANGED <<tables, locks, redis, requests, history>>

\* A refresh of u that has consumed its token and not issued the next one.
Rotating(u) == {w \in Workers : /\ Op(w, {"refresh"}) /\ req[w].user = u
                                /\ req[w].at \in {"srem", "find", "mint"}}

revokeAllUserRefreshTokens(w) ==
    /\ At(w, "del")
    /\ LET u == req[w].user IN
          /\ refresh' = refresh \ req[w].listed
          /\ userRefresh' = [userRefresh EXCEPT ![u] = {}]
          /\ revoked' = [revoked EXCEPT ![u] = IF @ < req[w].row THEN req[w].row ELSE @]
          /\ escaped' = escaped \cup {req[v].row : v \in Rotating(u)}
    /\ Answer(w)
    /\ UNCHANGED <<tables, locks, cooldown, tokens, requests, logins, proof>>

-----------------------------------------------------------------------------
(***************************************************************************)
(* Sessions: /login, /refresh, /logout.                                    *)
(***************************************************************************)
loginHandler(w, u, pw) ==
    /\ Begin(w, "login", u, "authenticate", pw, 0)
    /\ UNCHANGED <<tables, locks, redis, history>>

refreshHandler(w, t) ==
    /\ Begin(w, "refresh", tokens[t].owner, "getdel", None, t)
    /\ UNCHANGED <<tables, locks, redis, history>>

logoutHandler(w, t) ==
    /\ Begin(w, "logout", tokens[t].owner, "getdel", None, t)
    /\ UNCHANGED <<tables, locks, redis, history>>

\* One SELECT; the password is compared before the status is looked at.
authenticateUser(w) ==
    /\ At(w, "authenticate")
    /\ LET row == users[req[w].user] IN
       \/ /\ row.password = req[w].arg /\ row.status = "active"
          /\ logins' = [logins EXCEPT ![req[w].user] = @ + 1]
          /\ Goto(w, "mint")
       \/ /\ ~(row.password = req[w].arg /\ row.status = "active")
          /\ Answer(w)
          /\ UNCHANGED logins
    /\ UNCHANGED <<tables, locks, redis, requests, proof, revoked, escaped>>

\* Faulty: GET, which leaves the key to the next refresh.
PoppedGet(t) == refresh

\* GETDEL.
Popped(t) == refresh \ {t}

\* consumeRefreshToken and logoutHandler: GETDEL, SREM, and for a refresh the
\* user is read again.
GetDelToken(w) ==
    /\ At(w, "getdel")
    /\ \/ /\ req[w].row \notin refresh        \* redis.Nil
          /\ Answer(w)
          /\ UNCHANGED refresh
       \/ /\ req[w].row \in refresh
          /\ refresh' = Popped(req[w].row)
          /\ Goto(w, "srem")
    /\ UNCHANGED <<tables, locks, cooldown, tokens, userRefresh, requests, history>>

RemoveFromSet(w) ==
    /\ At(w, "srem")
    /\ userRefresh' = [userRefresh EXCEPT ![req[w].user] = @ \ {req[w].row}]
    /\ IF Op(w, {"refresh"}) THEN Goto(w, "find") ELSE Answer(w)
    /\ UNCHANGED <<tables, locks, cooldown, tokens, refresh, requests, history>>

consumeRefreshToken(w) ==
    /\ At(w, "find")
    /\ IF users[req[w].user].status = "active" THEN Goto(w, "mint") ELSE Answer(w)
    /\ UNCHANGED <<tables, locks, redis, requests, history>>

\* Faulty: the token is not added to the user's set.
TrackedNot(u, t) == userRefresh

Tracked(u, t) == [userRefresh EXCEPT ![u] = @ \cup {t}]

\* A revocation of u that has listed the tokens and not deleted the set yet.
Revoking(u) == \E v \in Workers : At(v, "del") /\ req[v].user = u

\* MULTI: SET refresh:<token>, SADD user_refresh:<user>, EXPIRE.  A login
\* opens a session, and a refresh goes on with its token's; a session that got
\* past a reset counts as opened by the token that got it past.  A token
\* escapes a reset that has listed without it and will delete the set that
\* names it.
issueTokenPair(w) ==
    /\ At(w, "mint")
    /\ LET u == req[w].user
           t == Len(tokens) + 1
           goesOn == Op(w, {"refresh"}) /\ req[w].row \notin escaped
       IN /\ tokens' = Append(tokens, [owner |-> u, session |->
                            IF goesOn THEN tokens[req[w].row].session ELSE t])
          /\ refresh' = refresh \cup {t}
          /\ userRefresh' = Tracked(u, t)
          /\ escaped' = IF Revoking(u) THEN escaped \cup {t} ELSE escaped
    /\ Answer(w)
    /\ UNCHANGED <<tables, locks, cooldown, requests, logins, proof, revoked>>

-----------------------------------------------------------------------------
(***************************************************************************)
(* PATCH /profile: UPDATE ... RETURNING takes the row, the event follows   *)
(* in the same transaction.                                                *)
(***************************************************************************)
updateProfileHandler(w, u, name) ==
    /\ Begin(w, "profile", u, "update", name, 0)
    /\ UNCHANGED <<tables, locks, redis, history>>

LockProfile(w) ==
    /\ At(w, "update")
    /\ UserFree(w)
    /\ \/ users[req[w].user].status = None /\ Answer(w) /\ UNCHANGED userLock
       \/ /\ users[req[w].user].status # None
          /\ userLock' = [userLock EXCEPT ![req[w].user] = w]
          /\ Goto(w, "event")
    /\ UNCHANGED <<tables, codeLock, redis, requests, history>>

\* None clears the name; the event then carries "".
updateProfile(w) ==
    /\ At(w, "event")
    /\ users' = [users EXCEPT ![req[w].user].name = req[w].arg]
    /\ outbox' = Append(outbox, [type |-> "ProfileUpdated", user |-> req[w].user,
                                 name |-> req[w].arg])
    /\ Unlock(w)
    /\ Answer(w)
    /\ UNCHANGED <<codes, redis, requests, history>>

-----------------------------------------------------------------------------
(***************************************************************************)
(* Failures and time.                                                      *)
(***************************************************************************)

\* An error, a crash, or Postgres breaking a deadlock between a registration
\* (users row, then code) and a verification (code, then users row): the open
\* transaction rolls back; what Redis already did stays.
Fail(w) ==
    /\ req[w] # Idle
    /\ Unlock(w)
    /\ Answer(w)
    /\ UNCHANGED <<tables, redis, requests, history>>

ExpireCode(u, p) ==
    /\ \E i \in Unused(u, p) :
         /\ ~codes[u][p][i].expired
         /\ codes' = [codes EXCEPT ![u][p][i].expired = TRUE]
    /\ UNCHANGED <<users, outbox, locks, redis, req, requests, history>>

CooldownEnds ==
    /\ \E k \in cooldown : cooldown' = cooldown \ {k}
    /\ UNCHANGED <<tables, locks, tokens, refresh, userRefresh, req, requests, history>>

\* A token's key expires by itself; its entry in the set stays.
ExpireToken(t) ==
    /\ t \in refresh
    /\ refresh' = refresh \ {t}
    /\ UNCHANGED <<tables, locks, cooldown, tokens, userRefresh, req, requests, history>>

-----------------------------------------------------------------------------
Handle(w) ==
    \/ \E u \in Users :
         \/ \E pw \in Passwords : registerHandler(w, u, pw) \/ loginHandler(w, u, pw)
         \/ resendVerificationHandler(w, u)
         \/ forgotPasswordHandler(w, u)
         \/ \E g \in 0 .. Len(codes[u]["email_verify"]) : verifyEmailHandler(w, u, g)
         \/ \E g \in 0 .. Len(codes[u]["password_reset"]), pw \in Passwords :
              resetPasswordHandler(w, u, g, pw)
         \/ \E name \in Names \cup {None} : updateProfileHandler(w, u, name)
    \/ \E t \in DOMAIN tokens : refreshHandler(w, t) \/ logoutHandler(w, t)

Step(w) ==
    \/ registerUserAndIssueCode(w)
    \/ InsertUser(w)
    \/ resendVerificationCode(w)
    \/ issuePasswordResetCode(w)
    \/ IssueAndCommit(w)
    \/ PickCode(w)
    \/ LockCode(w)
    \/ consumeVerificationCode(w)
    \/ verifyEmailCode(w)
    \/ resetPassword(w)
    \/ ListTokens(w)
    \/ revokeAllUserRefreshTokens(w)
    \/ authenticateUser(w)
    \/ GetDelToken(w)
    \/ RemoveFromSet(w)
    \/ consumeRefreshToken(w)
    \/ issueTokenPair(w)
    \/ LockProfile(w)
    \/ updateProfile(w)

Next ==
    \/ \E w \in Workers : Handle(w) \/ Step(w) \/ Fail(w)
    \/ \E u \in Users, p \in Purposes : ExpireCode(u, p)
    \/ CooldownEnds
    \/ \E t \in DOMAIN tokens : ExpireToken(t)

Spec == Init /\ [][Next]_vars

-----------------------------------------------------------------------------
(***************************************************************************)
(* Properties.                                                             *)
(***************************************************************************)
Announced(u, type) ==
    {i \in DOMAIN outbox : outbox[i].user = u /\ outbox[i].type = type}

\* What the other services are told is what the users table says: a user is
\* announced once if it is active and never otherwise, and the last profile
\* event of a user carries the name the row has, whatever registrations,
\* verifications and profile updates overlap or fail.
OutboxTellsUsers ==
    \A u \in Users :
        /\ users[u].status = "active" <=> Announced(u, "UserActivated") # {}
        /\ \A i, j \in Announced(u, "UserActivated") : i = j
        /\ LET named == Announced(u, "ProfileUpdated") IN
             /\ named = {} => users[u].name = None
             /\ \A i \in named :
                  (\A j \in named : j <= i) => users[u].name = outbox[i].name

\* The password of an active account was chosen by someone who could read its
\* mailbox: in the registration whose own code was confirmed, or in a reset.
\* A registration that replaces the password of a pending user while its
\* first code is being confirmed must not slip in between.
ActivationIsProven ==
    \A u \in Users : users[u].status = "active" => users[u].password \in proof[u]

\* A code gives a guesser its five attempts, however many requests share it.
GuessesBounded ==
    \A u \in Users, p \in Purposes : \A i \in DOMAIN codes[u][p] :
        codes[u][p][i].guesses <= Attempts

LiveOf(u) == {t \in refresh : tokens[t].owner = u}

\* A refresh token is worth one successor: rotation never leaves more
\* sessions than were opened with a password.
SessionsNeverMultiply ==
    \A u \in Users :
        Cardinality(LiveOf(u))
        + Cardinality({w \in Workers : Op(w, {"login", "refresh"}) /\ req[w].user = u
                                       /\ req[w].at \in {"srem", "find", "mint"}})
        <= logins[u]

\* A password reset ends every session opened before it listed them, however
\* often that session was rotated since, and every live token stays where the
\* next reset finds it.  What is left of "forcing re-login everywhere"
\* (reset.go:203-204) has two exceptions.  A token issued between the SMEMBERS
\* and the DEL of a reset lives on and is out of the set for good: it is in
\* `escaped'.  A refresh that had consumed its token when the DEL ran, and
\* issues the next one afterwards, carries its session past that reset, and
\* only that one: issueTokenPair counts the session as opened anew.
RevocationReaches ==
    \A u \in Users : \A t \in LiveOf(u) :
        /\ tokens[t].session <= revoked[u] => t \in escaped
        /\ t \notin userRefresh[u] => t \in escaped

\* reset.go:203-204 as it is written, the rotation that overtakes a reset
\* already granted: no session opened before a reset is alive after it.
ResetForcesLogin ==
    \A u \in Users : \A t \in LiveOf(u) : tokens[t].session > revoked[u]
=============================================================================
