----------------------------- MODULE AuthProofs -----------------------------
(***************************************************************************)
(* Proofs about Auth for any number of users, requests, passwords and      *)
(* attempts.  They are layered: Base (types, locks and what a request may  *)
(* rely on at each step) is inductive by itself, and each property is then *)
(* proved on top of it.                                                    *)
(***************************************************************************)
EXTENDS Auth, TLAPS, FiniteSetTheorems, SequenceTheorems

CodeRow == [attempts : 0 .. Attempts, guesses : Nat, used : BOOLEAN,
            expired : BOOLEAN, for : Passwords]

UserRow == [status : {None, "pending_verification", "active"},
            password : Passwords \cup {None}, name : Names \cup {None}]

EventRow == [type : {"UserActivated", "ProfileUpdated"}, user : Users,
             name : Names \cup {None}]

Args == Passwords \cup Names \cup {None} \cup Nat \cup (Nat \X Passwords)

Request == [op : Ops \cup {None}, user : Users \cup {None}, at : Steps \cup {None},
            arg : Args, row : Nat, listed : SUBSET Nat]

\* TypeOK with the domains and the local state it leaves open.
Types ==
    /\ users \in [Users -> UserRow]
    /\ codes \in [Users -> [Purposes -> Seq(CodeRow)]]
    /\ outbox \in Seq(EventRow)
    /\ userLock \in [Users -> Workers \cup {None}]
    /\ codeLock \in [Users -> [Purposes -> Workers \cup {None}]]
    /\ cooldown \subseteq {"resend", "forgot"} \X Users
    /\ tokens \in Seq([owner : Users, session : Nat])
    /\ refresh \subseteq DOMAIN tokens
    /\ userRefresh \in [Users -> SUBSET (DOMAIN tokens)]
    /\ escaped \subseteq DOMAIN tokens
    /\ req \in [Workers -> Request]
    /\ requests \in 0 .. MaxRequests
    /\ logins \in [Users -> Nat]
    /\ proof \in [Users -> SUBSET Passwords]
    /\ revoked \in [Users -> Nat]

OpsAt(step) ==
    CASE step \in {"select", "issue"} -> {"register", "resend", "forgot"}
      [] step = "insert" -> {"register"}
      [] step \in {"pick", "take", "compare", "apply"} -> {"verify", "reset"}
      [] step \in {"list", "del"} -> {"reset"}
      [] step = "authenticate" -> {"login"}
      [] step \in {"getdel", "srem"} -> {"refresh", "logout"}
      [] step = "find" -> {"refresh"}
      [] step = "mint" -> {"login", "refresh"}
      [] step \in {"update", "event"} -> {"profile"}

\* A request is at a step of its own handler, with that handler's input.
Fits(w) ==
    req[w].at # None =>
        /\ req[w].user \in Users
        /\ req[w].op \in OpsAt(req[w].at)
        /\ req[w].op = "register" => req[w].arg \in Passwords
        /\ req[w].op = "profile" => req[w].arg \in Names \cup {None}
        /\ req[w].op = "reset" => req[w].arg[2] \in Passwords
        /\ req[w].at \in {"getdel", "srem", "find"}
             \/ (req[w].at = "mint" /\ req[w].op = "refresh") =>
              /\ req[w].row \in DOMAIN tokens
              /\ tokens[req[w].row].owner = req[w].user
        /\ req[w].at \in {"take", "compare", "apply"} =>
              req[w].row \in DOMAIN codes[req[w].user][PurposeOf(w)]

\* The codes with attempts left.
Left(u, p) == {i \in DOMAIN codes[u][p] : codes[u][p][i].attempts > 0}

\* What a transaction read under its locks is still so: the status of a users
\* row it holds, the unused code it holds and that it has attempts left.
Holds(w) ==
    /\ req[w].at \in {"issue", "event"} => userLock[req[w].user] = w
    /\ req[w].at = "issue" =>
          /\ req[w].op = "register" => users[req[w].user].status # "active"
          /\ req[w].op = "resend" => users[req[w].user].status = "pending_verification"
          /\ req[w].op = "forgot" => users[req[w].user].status # None
    /\ req[w].at \in {"compare", "apply"} =>
          /\ codeLock[req[w].user][PurposeOf(w)] = w
          /\ req[w].row \in Unused(req[w].user, PurposeOf(w))
    /\ req[w].at = "compare" => req[w].row \in Left(req[w].user, PurposeOf(w))

\* A registered user has a password, and nobody else has codes.
Registered ==
    \A u \in Users :
        /\ users[u].status # None => users[u].password \in Passwords
        /\ \A p \in Purposes : DOMAIN codes[u][p] # {} => users[u].status # None

\* The inductive invariant of the base layer.
Base ==
    /\ Types
    /\ Registered
    /\ \A w \in Workers : Fits(w)
    /\ \A w \in Workers : Holds(w)


\* A step that leaves the requests in V what they rely on.
Respects(V) ==
    /\ \A v \in V : req'[v] = req[v]
    /\ \A v \in V, u \in Users : userLock[u] = v =>
          userLock'[u] = v /\ users'[u].status = users[u].status
    /\ \A v \in V, u \in Users, p \in Purposes : codeLock[u][p] = v =>
          /\ codeLock'[u][p] = v
          /\ Unused(u, p) \subseteq Unused(u, p)' /\ Left(u, p) \subseteq Left(u, p)'
    /\ \A u \in Users, p \in Purposes : DOMAIN codes[u][p] \subseteq DOMAIN codes'[u][p]
    /\ \A t \in DOMAIN tokens : t \in DOMAIN tokens' /\ tokens'[t].owner = tokens[t].owner

-----------------------------------------------------------------------------
(***************************************************************************)
(* The base layer.                                                         *)
(***************************************************************************)

\* The elements of a sequence and their indices.
LEMMA SeqElement ==
    ASSUME NEW S, NEW s \in Seq(S), NEW i \in DOMAIN s
    PROVE  s[i] \in S /\ i \in Nat
  OBVIOUS

\* Every request's purpose is one of the two.
LEMMA PurposeType == \A w : PurposeOf(w) \in Purposes
  BY DEF PurposeOf, Purposes

\* None is no step, operation, worker or status.
LEMMA NoneFacts ==
    /\ \A step \in Steps : step # None
    /\ \A op \in Ops : op # None
    /\ \A w \in Workers : w # None
    /\ None # "active" /\ None # "pending_verification"
  BY AuthAssumption

\* The other requests keep what they rely on.
LEMMA OthersFit ==
    ASSUME Base, NEW V \in SUBSET Workers, Respects(V), NEW v \in V
    PROVE  Fits(v)' /\ Holds(v)'
<1>1. req'[v] = req[v] /\ PurposeOf(v)' = PurposeOf(v) /\ PurposeOf(v) \in Purposes
  BY PurposeType DEF Respects, PurposeOf, Op
<1>2. Fits(v)'
  BY <1>1, NoneFacts DEF Base, Respects, Fits, Steps
<1>3. Holds(v)'
  <2>1. req[v].at \in {"issue", "event", "compare", "apply"} => req[v].user \in Users
    BY NoneFacts DEF Base, Fits, Steps
  <2> QED BY <1>1, <2>1 DEF Base, Respects, Holds
<1> QED BY <1>2, <1>3

\* A request that ends relies on nothing.
LEMMA Answered ==
    ASSUME Types, NEW w \in Workers, Answer(w)
    PROVE  /\ req' \in [Workers -> Request]
           /\ \A v \in Workers \ {w} : req'[v] = req[v]
           /\ req'[w] = Idle
           /\ Fits(w)' /\ Holds(w)'
<1>1. Idle \in Request /\ Idle.at = None
  BY DEF Idle, Request, Args
<1>2. /\ req' \in [Workers -> Request] /\ req'[w] = Idle
      /\ \A v \in Workers \ {w} : req'[v] = req[v]
  BY <1>1 DEF Types, Answer
<1>3. req'[w].at \notin Steps
  BY <1>1, <1>2, NoneFacts
<1> QED BY <1>1, <1>2, <1>3 DEF Fits, Holds, Steps

\* A request with another step.
LEMMA StepChanged ==
    ASSUME NEW R \in Request, NEW step \in Steps
    PROVE  /\ [R EXCEPT !.at = step] \in Request
           /\ [R EXCEPT !.at = step].at = step
           /\ [R EXCEPT !.at = step].op = R.op
           /\ [R EXCEPT !.at = step].user = R.user
           /\ [R EXCEPT !.at = step].arg = R.arg
           /\ [R EXCEPT !.at = step].row = R.row
           /\ [R EXCEPT !.at = step].listed = R.listed
  BY DEF Request

\* One entry of a table of requests with another step.
LEMMA StepChangedAt ==
    ASSUME NEW f \in [Workers -> Request], NEW w \in Workers, NEW step \in Steps, NEW g,
           g = [f EXCEPT ![w].at = step]
    PROVE  /\ g \in [Workers -> Request]
           /\ \A v \in Workers \ {w} : g[v] = f[v]
           /\ g[w] = [f[w] EXCEPT !.at = step]
  BY DEF Request

\* A request that goes on keeps all but its step.
LEMMA WentOn ==
    ASSUME Types, NEW w \in Workers, NEW step \in Steps, Goto(w, step)
    PROVE  /\ req' \in [Workers -> Request]
           /\ \A v \in Workers \ {w} : req'[v] = req[v]
           /\ req'[w].at = step /\ req'[w].op = req[w].op /\ req'[w].user = req[w].user
           /\ req'[w].arg = req[w].arg /\ req'[w].row = req[w].row
           /\ PurposeOf(w)' = PurposeOf(w)
<1>1. req \in [Workers -> Request] /\ req[w] \in Request
  BY DEF Types
<1>2. /\ req' \in [Workers -> Request]
      /\ \A v \in Workers \ {w} : req'[v] = req[v]
      /\ req'[w] = [req[w] EXCEPT !.at = step]
  BY <1>1, StepChangedAt DEF Goto
<1>3. /\ req'[w].at = step /\ req'[w].op = req[w].op /\ req'[w].user = req[w].user
      /\ req'[w].arg = req[w].arg /\ req'[w].row = req[w].row
  BY <1>1, <1>2, StepChanged
<1> QED BY <1>2, <1>3 DEF PurposeOf, Op

\* Nobody is there at first.
LEMMA InitBase == Init => Base
<1> SUFFICES ASSUME Init PROVE Base
  OBVIOUS
<1>1. Idle \in Request /\ Idle.at = None
  BY DEF Idle, Request, Args
<1>2. Types
  BY <1>1, AuthAssumption DEF Init, Types, UserRow
<1>3. Registered
  BY DEF Init, Registered
<1>4. \A w \in Workers : Fits(w) /\ Holds(w)
  BY <1>1, NoneFacts DEF Init, Fits, Holds, Steps
<1> QED BY <1>2, <1>3, <1>4 DEF Base

\* A new request has its user and its input.
LEMMA BeginBase ==
    ASSUME Base, NEW w \in Workers, NEW op \in Ops, NEW u \in Users, NEW step \in Steps,
           NEW x \in Args, NEW r \in Nat, Begin(w, op, u, step, x, r),
           step \notin {"issue", "event", "apply", "take", "compare", "srem", "find", "mint"},
           op \in OpsAt(step),
           op = "register" => x \in Passwords,
           op = "profile" => x \in Names \cup {None},
           op = "reset" => x[2] \in Passwords,
           step = "getdel" => r \in DOMAIN tokens /\ tokens[r].owner = u,
           UNCHANGED <<tables, locks, tokens, refresh, userRefresh, history>>,
           cooldown' \subseteq {"resend", "forgot"} \X Users
    PROVE  Base'
<1>1. /\ req' = [req EXCEPT ![w] = [op |-> op, user |-> u, at |-> step, arg |-> x,
                                    row |-> r, listed |-> {}]]
      /\ requests' \in 0 .. MaxRequests
  <2>1. requests \in 0 .. MaxRequests /\ requests < MaxRequests /\ requests' = requests + 1
    BY DEF Begin, Base, Types
  <2>2. requests' \in 0 .. MaxRequests
    BY <2>1, AuthAssumption
  <2> QED BY <2>2 DEF Begin
<1>2. /\ req'[w] = [op |-> op, user |-> u, at |-> step, arg |-> x, row |-> r, listed |-> {}]
      /\ \A v \in Workers \ {w} : req'[v] = req[v]
      /\ req' \in [Workers -> Request]
  BY <1>1 DEF Base, Types, Request
<1>3. Types'
  BY <1>1, <1>2 DEF Base, Types, tables, locks, history
<1>4. Registered'
  BY DEF Base, Registered, tables
<1>5. Fits(w)' /\ Holds(w)'
  BY <1>2 DEF Fits, Holds, tables
<1>6. Respects(Workers \ {w})
  BY <1>2 DEF Respects, tables, locks, Unused, Left
<1> QED BY <1>3, <1>4, <1>5, <1>6, OthersFit DEF Base

\* The nine handlers begin.
LEMMA HandleBase ==
    ASSUME Base, NEW w \in Workers, Handle(w)
    PROVE  Base'
<1>1. /\ \A pw \in Passwords : pw \in Args
      /\ \A n \in Names \cup {None} : n \in Args
      /\ \A g \in Nat : g \in Args
      /\ \A g \in Nat, pw \in Passwords : <<g, pw>> \in Args /\ <<g, pw>>[2] = pw
  BY DEF Args
<1>2. /\ "register" \in OpsAt("select") /\ "resend" \in OpsAt("select")
      /\ "forgot" \in OpsAt("select") /\ "verify" \in OpsAt("pick")
      /\ "reset" \in OpsAt("pick") /\ "login" \in OpsAt("authenticate")
      /\ "refresh" \in OpsAt("getdel") /\ "logout" \in OpsAt("getdel")
      /\ "profile" \in OpsAt("update")
  BY DEF OpsAt
<1>3. {"register", "resend", "forgot", "verify", "reset", "login", "refresh", "logout",
       "profile"} \subseteq Ops
  BY DEF Ops
<1>4. {"select", "pick", "authenticate", "getdel", "update"} \subseteq Steps
  BY DEF Steps
<1>5. cooldown \subseteq {"resend", "forgot"} \X Users /\ None \in Args /\ 0 \in Nat
  BY <1>1 DEF Base, Types
<1>6. ASSUME NEW u \in Users, NEW pw \in Passwords,
             registerHandler(w, u, pw) \/ loginHandler(w, u, pw)
      PROVE  Base'
  <2>1. CASE registerHandler(w, u, pw)
    BY <1>1, <1>2, <1>3, <1>4, <1>5, <2>1, BeginBase DEF registerHandler, redis
  <2>2. CASE loginHandler(w, u, pw)
    BY <1>1, <1>2, <1>3, <1>4, <1>5, <2>2, BeginBase DEF loginHandler, redis
  <2> QED BY <1>6, <2>1, <2>2
<1>7. ASSUME NEW u \in Users, resendVerificationHandler(w, u) \/ forgotPasswordHandler(w, u)
      PROVE  Base'
  <2>1. CASE resendVerificationHandler(w, u)
    <3>1. cooldown' \subseteq {"resend", "forgot"} \X Users
      BY <1>5, <2>1 DEF resendVerificationHandler
    <3>2. /\ Begin(w, "resend", u, "select", None, 0)
          /\ UNCHANGED <<tables, locks, tokens, refresh, userRefresh, history>>
      BY <2>1 DEF resendVerificationHandler
    <3> QED BY <1>2, <1>3, <1>4, <1>5, <3>1, <3>2, BeginBase
  <2>2. CASE forgotPasswordHandler(w, u)
    <3>1. cooldown' \subseteq {"resend", "forgot"} \X Users
      BY <1>5, <2>2 DEF forgotPasswordHandler
    <3>2. /\ Begin(w, "forgot", u, "select", None, 0)
          /\ UNCHANGED <<tables, locks, tokens, refresh, userRefresh, history>>
      BY <2>2 DEF forgotPasswordHandler
    <3> QED BY <1>2, <1>3, <1>4, <1>5, <3>1, <3>2, BeginBase
  <2> QED BY <1>7, <2>1, <2>2
<1>8. ASSUME NEW u \in Users, NEW g \in 0 .. Len(codes[u]["email_verify"]),
             verifyEmailHandler(w, u, g)
      PROVE  Base'
  <2>1. g \in Nat
    BY DEF Base, Types, Purposes
  <2> QED BY <1>1, <1>2, <1>3, <1>4, <1>5, <1>8, <2>1, BeginBase DEF verifyEmailHandler, redis
<1>9. ASSUME NEW u \in Users, NEW g \in 0 .. Len(codes[u]["password_reset"]),
             NEW pw \in Passwords, resetPasswordHandler(w, u, g, pw)
      PROVE  Base'
  <2>1. g \in Nat
    BY DEF Base, Types, Purposes
  <2>2. <<g, pw>> \in Args /\ <<g, pw>>[2] \in Passwords
    BY <1>1, <2>1
  <2> QED BY <1>2, <1>3, <1>4, <1>5, <1>9, <2>2, BeginBase DEF resetPasswordHandler, redis
<1>10. ASSUME NEW u \in Users, NEW name \in Names \cup {None}, updateProfileHandler(w, u, name)
       PROVE  Base'
  BY <1>1, <1>2, <1>3, <1>4, <1>5, <1>10, BeginBase DEF updateProfileHandler, redis
<1>11. ASSUME NEW t \in DOMAIN tokens, refreshHandler(w, t) \/ logoutHandler(w, t)
       PROVE  Base'
  <2>1. t \in Nat /\ tokens[t].owner \in Users
    <3>1. tokens \in Seq([owner : Users, session : Nat])
      BY DEF Base, Types
    <3>2. tokens[t] \in [owner : Users, session : Nat] /\ t \in Nat
      BY <3>1, SeqElement
    <3> QED BY <3>2
  <2>2. CASE refreshHandler(w, t)
    BY <1>2, <1>3, <1>4, <1>5, <2>1, <2>2, BeginBase DEF refreshHandler, redis
  <2>3. CASE logoutHandler(w, t)
    BY <1>2, <1>3, <1>4, <1>5, <2>1, <2>3, BeginBase DEF logoutHandler, redis
  <2> QED BY <1>11, <2>2, <2>3
<1> QED BY <1>6, <1>7, <1>8, <1>9, <1>10, <1>11 DEF Handle

\* A transaction that ends leaves the locks of the others alone.
LEMMA Unlocked ==
    ASSUME Types, NEW w \in Workers, Unlock(w)
    PROVE  /\ userLock' \in [Users -> Workers \cup {None}]
           /\ codeLock' \in [Users -> [Purposes -> Workers \cup {None}]]
           /\ \A v \in Workers \ {w}, u \in Users : userLock[u] = v => userLock'[u] = v
           /\ \A v \in Workers \ {w}, u \in Users, p \in Purposes :
                 codeLock[u][p] = v => codeLock'[u][p] = v
  BY DEF Types, Unlock

\* What registerUserAndIssueCode, resendVerificationCode, issuePasswordResetCode,
\* InsertUser and LockProfile have in common: they get the users row with the
\* status they need, or go no further.
LEMMA SelectBase ==
    ASSUME Base, NEW w \in Workers,
           UNCHANGED <<tables, codeLock, redis, requests, history>>,
           req[w].at \in Steps, UserFree(w),
           \/ UNCHANGED userLock /\ Answer(w)
           \/ UNCHANGED userLock /\ Goto(w, "insert") /\ req[w].op = "register"
           \/ /\ userLock' = [userLock EXCEPT ![req[w].user] = w]
              /\ \/ /\ Goto(w, "issue")
                    /\ req[w].op = "register" => users[req[w].user].status # "active"
                    /\ req[w].op = "resend" =>
                         users[req[w].user].status = "pending_verification"
                    /\ req[w].op = "forgot" => users[req[w].user].status # None
                    /\ req[w].op \in OpsAt("issue")
                 \/ Goto(w, "event") /\ req[w].op = "profile"
    PROVE  Base'
<1> DEFINE u == req[w].user
<1>1. u \in Users /\ Fits(w) /\ Types /\ req[w].at # None
  BY NoneFacts DEF Base, Fits
<1>2. Registered'
  BY DEF Base, Registered, tables
<1>3. ASSUME req' \in [Workers -> Request],
             userLock' = userLock \/ userLock' = [userLock EXCEPT ![u] = w],
             \A v \in Workers \ {w} : req'[v] = req[v],
             Fits(w)', Holds(w)'
      PROVE  Base'
  <2>1. Types'
    BY <1>1, <1>3 DEF Types, tables, redis, history
  <2>2. \A v \in Workers \ {w}, x \in Users : userLock[x] = v => userLock'[x] = v
    BY <1>1, <1>3, NoneFacts DEF Types, UserFree
  <2>3. Respects(Workers \ {w})
    BY <1>3, <2>2 DEF Respects, tables, redis, Unused, Left
  <2> QED BY <1>2, <1>3, <2>1, <2>3, OthersFit DEF Base
<1>4. CASE UNCHANGED userLock /\ Answer(w)
  BY <1>1, <1>3, <1>4, Answered
<1>5. CASE UNCHANGED userLock /\ Goto(w, "insert") /\ req[w].op = "register"
  <2>1. "insert" \in Steps /\ "register" \in OpsAt("insert")
    BY DEF Steps, OpsAt
  <2>2. Fits(w)' /\ Holds(w)'
    BY <1>1, <1>5, <2>1, WentOn DEF Fits, Holds
  <2> QED BY <1>1, <1>3, <1>5, <2>1, <2>2, WentOn
<1>6. CASE /\ userLock' = [userLock EXCEPT ![u] = w]
           /\ Goto(w, "issue")
           /\ req[w].op = "register" => users[u].status # "active"
           /\ req[w].op = "resend" => users[u].status = "pending_verification"
           /\ req[w].op = "forgot" => users[u].status # None
           /\ req[w].op \in OpsAt("issue")
  <2>1. "issue" \in Steps
    BY DEF Steps
  <2>2. userLock'[u] = w /\ users' = users
    BY <1>1, <1>6 DEF Types, tables
  <2>3. Fits(w)' /\ Holds(w)'
    BY <1>1, <1>6, <2>1, <2>2, WentOn DEF Fits, Holds
  <2> QED BY <1>1, <1>3, <1>6, <2>1, <2>3, WentOn
<1>7. CASE /\ userLock' = [userLock EXCEPT ![u] = w]
           /\ Goto(w, "event") /\ req[w].op = "profile"
  <2>1. "event" \in Steps /\ "profile" \in OpsAt("event")
    BY DEF Steps, OpsAt
  <2>2. userLock'[u] = w
    BY <1>1, <1>7 DEF Types
  <2>3. Fits(w)' /\ Holds(w)'
    BY <1>1, <1>7, <2>1, <2>2, WentOn DEF Fits, Holds
  <2> QED BY <1>1, <1>3, <1>7, <2>1, <2>3, WentOn
<1> QED BY <1>4, <1>5, <1>6, <1>7

\* The steps that take the lock of a users row.
LEMMA LockingBase ==
    ASSUME Base, NEW w \in Workers,
           \/ registerUserAndIssueCode(w) \/ InsertUser(w) \/ resendVerificationCode(w)
           \/ issuePasswordResetCode(w) \/ LockProfile(w)
    PROVE  Base'
<1> USE DEF At, Op
<1>1. /\ {"register", "resend", "forgot"} \subseteq OpsAt("issue")
      /\ {"select", "insert", "update"} \subseteq Steps
      /\ OpsAt("insert") = {"register"} /\ OpsAt("update") = {"profile"}
  BY DEF OpsAt, Steps
<1>2. Fits(w)
  BY DEF Base
<1>3. CASE registerUserAndIssueCode(w)
  BY <1>1, <1>3, NoneFacts, SelectBase DEF registerUserAndIssueCode
<1>4. CASE InsertUser(w)
  <2>1. req[w].op = "register" /\ req[w].at = "insert"
    BY <1>1, <1>2, <1>4, NoneFacts DEF InsertUser, Fits
  <2> QED BY <1>1, <1>4, <2>1, NoneFacts, SelectBase DEF InsertUser
<1>5. CASE resendVerificationCode(w)
  BY <1>1, <1>5, NoneFacts, SelectBase DEF resendVerificationCode
<1>6. CASE issuePasswordResetCode(w)
  BY <1>1, <1>6, NoneFacts, SelectBase DEF issuePasswordResetCode
<1>7. CASE LockProfile(w)
  <2>1. req[w].op = "profile" /\ req[w].at = "update"
    BY <1>1, <1>2, <1>7, NoneFacts DEF LockProfile, Fits
  <2> QED BY <1>1, <1>7, <2>1, NoneFacts, SelectBase DEF LockProfile
<1> QED BY <1>3, <1>4, <1>5, <1>6, <1>7

\* The updates of a code row.
LEMMA CodeUpdated ==
    ASSUME NEW R \in CodeRow
    PROVE  /\ [R EXCEPT !.used = TRUE] \in CodeRow
           /\ [R EXCEPT !.expired = TRUE] \in CodeRow
           /\ R.attempts > 0 =>
                [R EXCEPT !.attempts = R.attempts - 1, !.guesses = R.guesses + 1] \in CodeRow
<1>1. [R EXCEPT !.used = TRUE] \in CodeRow /\ [R EXCEPT !.expired = TRUE] \in CodeRow
  BY DEF CodeRow
<1>2. R.attempts \in 0 .. Attempts /\ R.guesses \in Nat
  BY DEF CodeRow
<1>3. ASSUME R.attempts > 0
      PROVE  [R EXCEPT !.attempts = R.attempts - 1, !.guesses = R.guesses + 1] \in CodeRow
  <2>1. R.attempts - 1 \in 0 .. Attempts /\ R.guesses + 1 \in Nat
    BY <1>2, <1>3, AuthAssumption
  <2> QED BY <2>1 DEF CodeRow
<1> QED BY <1>1, <1>3

\* The rows of a purpose after the unused codes were retired.
LEMMA CodeIssued ==
    ASSUME NEW rows \in Seq(CodeRow), NEW pw \in Passwords
    PROVE  LET next == invalidateAndIssueCode(rows, pw) IN
           /\ next \in Seq(CodeRow)
           /\ Len(next) = Len(rows) + 1
           /\ DOMAIN rows \subseteq DOMAIN next
           /\ \A i \in DOMAIN rows : next[i] = [rows[i] EXCEPT !.used = TRUE]
           /\ next[Len(rows) + 1] = [attempts |-> Attempts, guesses |-> 0, used |-> FALSE,
                                     expired |-> FALSE, for |-> pw]
<1> DEFINE retired == [i \in DOMAIN rows |-> [rows[i] EXCEPT !.used = TRUE]]
           fresh == [attempts |-> Attempts, guesses |-> 0, used |-> FALSE,
                     expired |-> FALSE, for |-> pw]
<1>1. fresh \in CodeRow
  BY AuthAssumption DEF CodeRow
<1>2. \A i \in DOMAIN rows : [rows[i] EXCEPT !.used = TRUE] \in CodeRow
  BY SeqElement, CodeUpdated
<1>3. DOMAIN rows = 1 .. Len(rows) /\ Len(rows) \in Nat
  OBVIOUS
<1>4. retired \in [1 .. Len(rows) -> CodeRow]
  BY <1>2, <1>3
<1>5. retired \in Seq(CodeRow) /\ Len(retired) = Len(rows)
  BY <1>3, <1>4
<1>6. \A i \in DOMAIN rows : retired[i] = [rows[i] EXCEPT !.used = TRUE]
  OBVIOUS
<1> HIDE DEF retired, fresh
<1>7. /\ Append(retired, fresh) \in Seq(CodeRow)
      /\ Len(Append(retired, fresh)) = Len(rows) + 1
      /\ Append(retired, fresh)[Len(rows) + 1] = fresh
      /\ \A i \in 1 .. Len(rows) : Append(retired, fresh)[i] = retired[i]
  BY <1>1, <1>3, <1>5
<1>8. DOMAIN Append(retired, fresh) = 1 .. Len(rows) + 1
  BY <1>7
<1> QED BY <1>3, <1>6, <1>7, <1>8 DEF invalidateAndIssueCode, retired, fresh

\* What the COMMIT of a code does to the tables.
LEMMA IssueFacts ==
    ASSUME Base, NEW w \in Workers, IssueAndCommit(w)
    PROVE  LET u == req[w].user
               p == PurposeOf(w)
               pw == IF req[w].op = "register" THEN req[w].arg ELSE users[u].password
           IN  /\ u \in Users /\ p \in Purposes /\ pw \in Passwords
               /\ req[w].at = "issue" /\ req[w].op \in {"register", "resend", "forgot"}
               /\ userLock[u] = w /\ codeLock[u][p] = None
               /\ users' \in [Users -> UserRow]
               /\ \A x \in Users \ {u} : users'[x] = users[x]
               /\ req[w].op # "register" => users' = users
               /\ users'[u].password = pw /\ users'[u].name = users[u].name
               /\ users'[u].status = IF users[u].status = None
                                      THEN "pending_verification" ELSE users[u].status
               /\ codes' = [codes EXCEPT ![u][p] = invalidateAndIssueCode(codes[u][p], pw)]
<1> DEFINE u == req[w].user
           p == PurposeOf(w)
           pw == IF req[w].op = "register" THEN req[w].arg ELSE users[u].password
<1> USE DEF At, Op
<1>1. req[w].at = "issue" /\ codeLock[u][p] = None
  BY DEF IssueAndCommit, CodeFree
<1>2. OpsAt("issue") = {"register", "resend", "forgot"} /\ "issue" # None
  BY NoneFacts DEF OpsAt, Steps
<1>3. /\ u \in Users /\ req[w].op \in {"register", "resend", "forgot"}
      /\ req[w].op = "register" => req[w].arg \in Passwords
  BY <1>1, <1>2 DEF Base, Fits
<1>4. /\ userLock[u] = w
      /\ req[w].op \in {"resend", "forgot"} => users[u].status # None
  BY <1>1, NoneFacts DEF Base, Holds
<1>5. pw \in Passwords
  BY <1>3, <1>4 DEF Base, Registered
<1>6. p \in Purposes
  BY PurposeType
<1>7. codes' = [codes EXCEPT ![u][p] = invalidateAndIssueCode(codes[u][p], pw)]
  BY DEF IssueAndCommit
<1>8. users \in [Users -> UserRow] /\ users[u] \in UserRow
  BY <1>3 DEF Base, Types
<1>9. CASE req[w].op = "register"
  <2>1. users' = [users EXCEPT ![u].password = pw, ![u].status =
                    IF @ = None THEN "pending_verification" ELSE @]
    BY <1>9 DEF IssueAndCommit
  <2> HIDE DEF u, pw, p
  <2>2. /\ users' \in [Users -> UserRow]
        /\ \A x \in Users \ {u} : users'[x] = users[x]
        /\ users'[u].password = pw /\ users'[u].name = users[u].name
        /\ users'[u].status = IF users[u].status = None
                              THEN "pending_verification" ELSE users[u].status
    BY <1>3, <1>5, <1>8, <2>1, NoneFacts DEF UserRow
  <2> QED BY <1>1, <1>3, <1>4, <1>5, <1>6, <1>7, <1>9, <2>2 DEF u, pw, p
<1>10. CASE req[w].op # "register"
  <2>1. users' = users
    BY <1>10 DEF IssueAndCommit
  <2> QED BY <1>1, <1>3, <1>4, <1>5, <1>6, <1>7, <1>8, <1>10, <2>1
<1> QED BY <1>9, <1>10

\* The transaction that issues a code ends.
LEMMA IssueBase ==
    ASSUME Base, NEW w \in Workers, IssueAndCommit(w)
    PROVE  Base'
<1> DEFINE u == req[w].user
           p == PurposeOf(w)
           pw == IF req[w].op = "register" THEN req[w].arg ELSE users[u].password
<1>1. /\ u \in Users /\ p \in Purposes /\ pw \in Passwords
      /\ userLock[u] = w /\ codeLock[u][p] = None
      /\ users' \in [Users -> UserRow]
      /\ \A x \in Users \ {u} : users'[x] = users[x]
      /\ users'[u].password = pw /\ users'[u].status # None
      /\ codes' = [codes EXCEPT ![u][p] = invalidateAndIssueCode(codes[u][p], pw)]
  BY IssueFacts, NoneFacts
<1>2. Unlock(w) /\ Answer(w) /\ UNCHANGED <<outbox, redis, requests, history>> /\ Types
  BY DEF IssueAndCommit, Base
<1> HIDE DEF u, p, pw
<1>3. codes \in [Users -> [Purposes -> Seq(CodeRow)]] /\ codes[u][p] \in Seq(CodeRow)
  BY <1>1 DEF Base, Types
<1> DEFINE next == invalidateAndIssueCode(codes[u][p], pw)
<1>4. next \in Seq(CodeRow) /\ DOMAIN codes[u][p] \subseteq DOMAIN next
  BY <1>1, <1>3, CodeIssued
<1>5. codes' = [codes EXCEPT ![u][p] = next]
  BY <1>1
<1> HIDE DEF next
<1>6. /\ codes' \in [Users -> [Purposes -> Seq(CodeRow)]]
      /\ codes'[u][p] = next
      /\ \A x \in Users, q \in Purposes : (x # u \/ q # p) => codes'[x][q] = codes[x][q]
  BY <1>1, <1>3, <1>4, <1>5
<1>7. Types'
  BY <1>1, <1>2, <1>6, Answered, Unlocked DEF Types, redis, history
<1>8. Registered'
  BY <1>1, <1>6 DEF Base, Registered
<1>9. Respects(Workers \ {w})
  <2>1. \A v \in Workers \ {w} : req'[v] = req[v]
    BY <1>2, Answered
  <2>2. \A v \in Workers \ {w}, x \in Users : userLock[x] = v =>
          userLock'[x] = v /\ users'[x].status = users[x].status
    BY <1>1, <1>2, Unlocked
  <2>3. \A v \in Workers \ {w}, x \in Users, q \in Purposes : codeLock[x][q] = v =>
          /\ codeLock'[x][q] = v
          /\ Unused(x, q) \subseteq Unused(x, q)' /\ Left(x, q) \subseteq Left(x, q)'
    BY <1>1, <1>2, <1>6, Unlocked, NoneFacts DEF Unused, Left
  <2>4. \A x \in Users, q \in Purposes : DOMAIN codes[x][q] \subseteq DOMAIN codes'[x][q]
    BY <1>4, <1>6
  <2> QED BY <1>2, <2>1, <2>2, <2>3, <2>4 DEF Respects, redis
<1> QED BY <1>2, <1>7, <1>8, <1>9, OthersFit, Answered DEF Base

\* A step that replaces one code row and leaves the others.
LEMMA CodeReplaced ==
    ASSUME Types, NEW u \in Users, NEW p \in Purposes, NEW i \in DOMAIN codes[u][p],
           NEW R \in CodeRow, codes' = [codes EXCEPT ![u][p][i] = R]
    PROVE  /\ codes' \in [Users -> [Purposes -> Seq(CodeRow)]]
           /\ \A x \in Users, q \in Purposes : DOMAIN codes'[x][q] = DOMAIN codes[x][q]
           /\ codes'[u][p][i] = R
           /\ \A x \in Users, q \in Purposes : \A j \in DOMAIN codes[x][q] :
                 (x # u \/ q # p \/ j # i) => codes'[x][q][j] = codes[x][q][j]
<1>1. codes \in [Users -> [Purposes -> Seq(CodeRow)]] /\ codes[u][p] \in Seq(CodeRow)
  BY DEF Types
<1> DEFINE next == [codes[u][p] EXCEPT ![i] = R]
<1>2. i \in 1 .. Len(codes[u][p])
  BY <1>1
<1>3. /\ next \in Seq(CodeRow) /\ Len(next) = Len(codes[u][p])
      /\ \A j \in 1 .. Len(codes[u][p]) : next[j] = IF j = i THEN R ELSE codes[u][p][j]
  BY <1>1, <1>2, ExceptSeq
<1>4. codes' = [codes EXCEPT ![u][p] = next]
  OBVIOUS
<1> HIDE DEF next
<1>5. /\ codes' \in [Users -> [Purposes -> Seq(CodeRow)]]
      /\ codes'[u][p] = next
      /\ \A x \in Users, q \in Purposes : (x # u \/ q # p) => codes'[x][q] = codes[x][q]
  BY <1>1, <1>3, <1>4
<1>6. DOMAIN next = 1 .. Len(codes[u][p]) /\ DOMAIN codes[u][p] = 1 .. Len(codes[u][p])
  BY <1>1, <1>3
<1> QED BY <1>2, <1>3, <1>5, <1>6

\* The newest unused code is chosen.
LEMMA PickCodeBase ==
    ASSUME Base, NEW w \in Workers, PickCode(w)
    PROVE  Base'
<1> USE DEF At, Op
<1>1. /\ req[w].at = "pick" /\ UNCHANGED <<tables, locks, redis, requests, history>>
      /\ Types
  BY DEF PickCode, Base
<1>2. Registered'
  BY <1>1 DEF Base, Registered, tables
<1>3. ASSUME req' \in [Workers -> Request], \A v \in Workers \ {w} : req'[v] = req[v],
             Fits(w)', Holds(w)'
      PROVE  Base'
  <2>1. Types'
    BY <1>1, <1>3 DEF Types, tables, locks, redis, history
  <2>2. Respects(Workers \ {w})
    BY <1>1, <1>3 DEF Respects, tables, locks, redis, Unused, Left
  <2> QED BY <1>2, <1>3, <2>1, <2>2, OthersFit DEF Base
<1>4. CASE Answer(w)
  BY <1>1, <1>3, <1>4, Answered
<1>5. ASSUME NEW i \in Unused(req[w].user, PurposeOf(w)),
             req' = [req EXCEPT ![w].at = "take", ![w].row = i]
      PROVE  Base'
  <2>1. /\ "pick" # None /\ "take" \in Steps
        /\ OpsAt("pick") = {"verify", "reset"} /\ OpsAt("take") = {"verify", "reset"}
    BY NoneFacts DEF Steps, OpsAt
  <2>2. req[w].user \in Users /\ PurposeOf(w) \in Purposes /\ Fits(w)
    BY <1>1, <2>1, PurposeType DEF Base, Fits
  <2>3. codes[req[w].user][PurposeOf(w)] \in Seq(CodeRow)
    BY <2>2 DEF Base, Types
  <2>4. i \in DOMAIN codes[req[w].user][PurposeOf(w)] /\ i \in Nat
    BY <2>3, SeqElement DEF Unused
  <2>5. req \in [Workers -> Request]
    BY DEF Base, Types
  <2>6. /\ req' \in [Workers -> Request]
        /\ \A v \in Workers \ {w} : req'[v] = req[v]
        /\ req'[w].at = "take" /\ req'[w].row = i /\ req'[w].op = req[w].op
        /\ req'[w].user = req[w].user /\ req'[w].arg = req[w].arg
    BY <1>5, <2>1, <2>4, <2>5 DEF Request
  <2>7. PurposeOf(w)' = PurposeOf(w) /\ codes' = codes
    BY <1>1, <2>6 DEF PurposeOf, tables
  <2>8. Fits(w)' /\ Holds(w)'
    BY <1>1, <2>1, <2>2, <2>4, <2>6, <2>7 DEF Fits, Holds
  <2> QED BY <1>3, <2>6, <2>8
<1> QED BY <1>4, <1>5 DEF PickCode

\* The request at "take", "compare" or "apply" and its row.
LEMMA TakenRow ==
    ASSUME Base, NEW w \in Workers, req[w].at \in {"take", "compare", "apply"}
    PROVE  /\ req[w].user \in Users /\ PurposeOf(w) \in Purposes
           /\ req[w].row \in DOMAIN codes[req[w].user][PurposeOf(w)]
           /\ codes[req[w].user][PurposeOf(w)] \in Seq(CodeRow)
           /\ codes[req[w].user][PurposeOf(w)][req[w].row] \in CodeRow
           /\ req[w].op \in {"verify", "reset"} /\ req[w].at # None
<1>1. /\ "take" # None /\ "compare" # None /\ "apply" # None
      /\ \A step \in {"take", "compare", "apply"} : OpsAt(step) = {"verify", "reset"}
  BY NoneFacts DEF Steps, OpsAt
<1>2. /\ req[w].user \in Users /\ PurposeOf(w) \in Purposes
      /\ req[w].row \in DOMAIN codes[req[w].user][PurposeOf(w)]
      /\ req[w].op \in {"verify", "reset"}
  BY <1>1, PurposeType DEF Base, Fits
<1>3. codes[req[w].user][PurposeOf(w)] \in Seq(CodeRow)
  BY <1>2 DEF Base, Types
<1> QED BY <1>1, <1>2, <1>3, SeqElement

\* What taking the code's lock does: nothing, or the code locked with an
\* attempt left.
LEMMA LockCodeFacts ==
    ASSUME Base, NEW w \in Workers, LockCode(w)
    PROVE  LET u == req[w].user
               p == PurposeOf(w)
               row == codes[u][p][req[w].row]
           IN  /\ codeLock[u][p] = None /\ req[w].at = "take"
               /\ \/ Answer(w) /\ UNCHANGED codeLock
                  \/ /\ codeLock' = [codeLock EXCEPT ![u][p] = w]
                     /\ Goto(w, "compare") /\ row.attempts > 0 /\ ~row.used
<1> DEFINE u == req[w].user
           p == PurposeOf(w)
           i == req[w].row
           row == codes[u][p][i]
           refused == Superseded(row) \/ row.expired \/ Exhausted(row)
<1>1. req[w].at = "take" /\ codeLock[u][p] = None
  BY DEF LockCode, CodeFree, At
<1>2. u \in Users /\ p \in Purposes /\ i \in DOMAIN codes[u][p] /\ row \in CodeRow
  BY <1>1, TakenRow
<1>3. ~refused => ~row.used /\ row.attempts > 0
  <2>1. row.attempts \in 0 .. Attempts /\ Attempts \in Nat
    BY <1>2, AuthAssumption DEF CodeRow
  <2> HIDE DEF row
  <2> QED BY <2>1 DEF Superseded, Exhausted
<1>4. CASE refused /\ Answer(w) /\ UNCHANGED codeLock
  BY <1>1, <1>4
<1>5. CASE /\ ~refused
           /\ codeLock' = [codeLock EXCEPT ![u][p] = w]
           /\ Goto(w, "compare")
  BY <1>1, <1>3, <1>5
<1> QED BY <1>4, <1>5 DEF LockCode

\* Taking the lock of a code.
LEMMA LockCodeBase ==
    ASSUME Base, NEW w \in Workers, LockCode(w)
    PROVE  Base'
<1> DEFINE u == req[w].user
           p == PurposeOf(w)
           i == req[w].row
           row == codes[u][p][i]
<1>1. /\ req[w].at = "take" /\ codeLock[u][p] = None /\ Types
      /\ UNCHANGED <<tables, userLock, redis, requests, history>>
  BY LockCodeFacts DEF LockCode, Base
<1>2. /\ u \in Users /\ p \in Purposes /\ i \in DOMAIN codes[u][p] /\ row \in CodeRow
      /\ req[w].op \in {"verify", "reset"} /\ req[w].at # None
  BY <1>1, TakenRow
<1>3. Registered'
  BY <1>1 DEF Base, Registered, tables
<1>4. ASSUME codeLock' \in [Users -> [Purposes -> Workers \cup {None}]],
             req' \in [Workers -> Request], \A v \in Workers \ {w} : req'[v] = req[v],
             \A x \in Users, q \in Purposes : codeLock[x][q] # None =>
                      codeLock'[x][q] = codeLock[x][q],
             Fits(w)', Holds(w)'
      PROVE  Base'
  <2>1. Types'
    BY <1>1, <1>4 DEF Types, tables, redis, history
  <2>2. Respects(Workers \ {w})
    BY <1>1, <1>4, NoneFacts DEF Respects, tables, redis, Unused, Left
  <2> QED BY <1>3, <1>4, <2>1, <2>2, OthersFit DEF Base
<1>5. CASE Answer(w) /\ UNCHANGED codeLock
  BY <1>1, <1>4, <1>5, Answered DEF Types
<1>6. CASE /\ codeLock' = [codeLock EXCEPT ![u][p] = w] /\ Goto(w, "compare")
           /\ row.attempts > 0 /\ ~row.used
  <2>1. "compare" \in Steps /\ OpsAt("compare") = {"verify", "reset"}
    BY DEF Steps, OpsAt
  <2>2. /\ req' \in [Workers -> Request] /\ \A v \in Workers \ {w} : req'[v] = req[v]
        /\ req'[w].at = "compare" /\ req'[w].op = req[w].op /\ req'[w].user = u
        /\ req'[w].arg = req[w].arg /\ req'[w].row = i /\ PurposeOf(w)' = p
    BY <1>1, <1>6, <2>1, WentOn
  <2>3. /\ codeLock' \in [Users -> [Purposes -> Workers \cup {None}]]
        /\ codeLock'[u][p] = w
        /\ \A x \in Users, q \in Purposes :
              (x # u \/ q # p) => codeLock'[x][q] = codeLock[x][q]
    BY <1>1, <1>2, <1>6 DEF Types
  <2>4. /\ codes' = codes
        /\ i \in {j \in DOMAIN codes[u][p] : ~codes[u][p][j].used}
        /\ i \in {j \in DOMAIN codes[u][p] : codes[u][p][j].attempts > 0}
    BY <1>1, <1>2, <1>6 DEF tables
  <2>5. Fits(w)
    BY DEF Base
  <2>6. Fits(w)'
    BY <1>1, <1>2, <2>1, <2>2, <2>4, <2>5 DEF Fits
  <2>7. Holds(w)'
    BY <2>2, <2>3, <2>4 DEF Holds, Unused, Left
  <2> QED BY <1>1, <1>4, <2>2, <2>3, <2>6, <2>7
<1> QED BY <1>5, <1>6, LockCodeFacts

\* What a guess does: one attempt less and the end, or on to the rest.
LEMMA ConsumeFacts ==
    ASSUME Base, NEW w \in Workers, consumeVerificationCode(w)
    PROVE  LET u == req[w].user
               p == PurposeOf(w)
               row == codes[u][p][req[w].row]
           IN  /\ codeLock[u][p] = w /\ req[w].at = "compare"
               /\ row.attempts > 0 /\ ~row.used
               /\ \/ /\ Answer(w) /\ Unlock(w)
                     /\ codes' = [codes EXCEPT ![u][p][req[w].row] =
                          [row EXCEPT !.attempts = row.attempts - 1,
                                      !.guesses = row.guesses + 1]]
                  \/ Goto(w, "apply") /\ UNCHANGED <<codes, locks>>
<1>1. req[w].at = "compare"
  BY DEF consumeVerificationCode, At
<1>2. Holds(w)
  BY DEF Base
<1>3. /\ codeLock[req[w].user][PurposeOf(w)] = w
      /\ codes[req[w].user][PurposeOf(w)][req[w].row].attempts > 0
      /\ ~codes[req[w].user][PurposeOf(w)][req[w].row].used
  BY <1>1, <1>2 DEF Holds, Unused, Left
<1> DEFINE u == req[w].user
           p == PurposeOf(w)
           i == req[w].row
           row == codes[u][p][i]
<1>4. CASE /\ Answer(w) /\ Unlock(w)
           /\ codes' = [codes EXCEPT ![u][p][i] = [row EXCEPT !.attempts = @ - 1,
                                                              !.guesses = @ + 1]]
  <2>1. codes' = [codes EXCEPT ![u][p][i] =
                    [row EXCEPT !.attempts = row.attempts - 1, !.guesses = row.guesses + 1]]
    BY <1>4
  <2> QED BY <1>1, <1>3, <1>4, <2>1
<1>5. CASE Goto(w, "apply") /\ UNCHANGED <<codes, locks>>
  BY <1>1, <1>3, <1>5
<1> QED BY <1>4, <1>5 DEF consumeVerificationCode

\* A guess is compared.
LEMMA ConsumeBase ==
    ASSUME Base, NEW w \in Workers, consumeVerificationCode(w)
    PROVE  Base'
<1> DEFINE u == req[w].user
           p == PurposeOf(w)
           i == req[w].row
           row == codes[u][p][i]
<1>1. /\ req[w].at = "compare" /\ codeLock[u][p] = w /\ Types
      /\ row.attempts > 0 /\ ~row.used
      /\ UNCHANGED <<users, outbox, redis, requests, history>>
  BY ConsumeFacts DEF consumeVerificationCode, Base
<1>2. /\ u \in Users /\ p \in Purposes /\ i \in DOMAIN codes[u][p] /\ row \in CodeRow
      /\ req[w].op \in {"verify", "reset"} /\ req[w].at # None
  BY <1>1, TakenRow
<1>3. CASE /\ Answer(w) /\ Unlock(w)
           /\ codes' = [codes EXCEPT ![u][p][i] =
                [row EXCEPT !.attempts = row.attempts - 1, !.guesses = row.guesses + 1]]
  <2> DEFINE R == [row EXCEPT !.attempts = row.attempts - 1, !.guesses = row.guesses + 1]
  <2>1. R \in CodeRow
    BY <1>1, <1>2, CodeUpdated
  <2>2. codes' = [codes EXCEPT ![u][p][i] = R]
    BY <1>3
  <2> HIDE DEF R, u, p, i, row
  <2>3. /\ codes' \in [Users -> [Purposes -> Seq(CodeRow)]]
        /\ \A x \in Users, q \in Purposes : DOMAIN codes'[x][q] = DOMAIN codes[x][q]
    BY <1>1, <1>2, <2>1, <2>2, CodeReplaced
  <2>4. \A x \in Users, q \in Purposes : (x # u \/ q # p) => codes'[x][q] = codes[x][q]
    BY <1>1, <1>2, <2>2 DEF Types
  <2>5. Types'
    BY <1>1, <1>3, <2>3, Answered, Unlocked DEF Types, redis, history
  <2>6. Registered'
    BY <1>1, <2>3 DEF Base, Registered
  <2>7. \A v \in Workers \ {w}, x \in Users, q \in Purposes : codeLock[x][q] = v =>
          codeLock'[x][q] = v /\ codes'[x][q] = codes[x][q]
    BY <1>1, <1>3, <2>4, Unlocked
  <2>8. Respects(Workers \ {w})
    BY <1>1, <1>3, <2>3, <2>7, Answered, Unlocked DEF Respects, redis, Unused, Left
  <2> QED BY <1>1, <1>3, <2>5, <2>6, <2>8, Answered, OthersFit DEF Base
<1>4. CASE Goto(w, "apply") /\ UNCHANGED <<codes, locks>>
  <2>1. "apply" \in Steps /\ OpsAt("apply") = {"verify", "reset"}
    BY DEF Steps, OpsAt
  <2>2. /\ req' \in [Workers -> Request] /\ \A v \in Workers \ {w} : req'[v] = req[v]
        /\ req'[w].at = "apply" /\ req'[w].op = req[w].op /\ req'[w].user = u
        /\ req'[w].arg = req[w].arg /\ req'[w].row = i /\ PurposeOf(w)' = p
    BY <1>1, <1>4, <2>1, WentOn
  <2>3. Types' /\ Registered'
    BY <1>1, <1>4, <2>2 DEF Base, Types, Registered, locks, redis, history
  <2>4. Respects(Workers \ {w})
    BY <1>1, <1>4, <2>2 DEF Respects, locks, redis, Unused, Left
  <2>5. Fits(w) /\ Holds(w)
    BY DEF Base
  <2>6. Fits(w)'
    BY <1>1, <1>2, <1>4, <2>1, <2>2, <2>5 DEF Fits
  <2>7. Holds(w)'
    BY <1>1, <1>4, <2>2, <2>5 DEF Holds, Unused, Left, locks
  <2> QED BY <2>2, <2>3, <2>4, <2>6, <2>7, OthersFit DEF Base
<1> QED BY <1>3, <1>4, ConsumeFacts

\* The users row after it was activated.
LEMMA UserActivated ==
    ASSUME NEW f \in [Users -> UserRow], NEW u \in Users, NEW g,
           g = [f EXCEPT ![u].status = "active"]
    PROVE  /\ g \in [Users -> UserRow] /\ g[u].status = "active"
           /\ g[u].password = f[u].password /\ g[u].name = f[u].name
           /\ \A x \in Users \ {u} : g[x] = f[x]
  BY DEF UserRow

\* The users row with another password.
LEMMA PasswordChanged ==
    ASSUME NEW f \in [Users -> UserRow], NEW u \in Users, NEW pw \in Passwords, NEW g,
           g = [f EXCEPT ![u].password = pw]
    PROVE  /\ g \in [Users -> UserRow] /\ g[u].password = pw
           /\ g[u].status = f[u].status /\ g[u].name = f[u].name
           /\ \A x \in Users \ {u} : g[x] = f[x]
  BY DEF UserRow

\* The users row with another name.
LEMMA NameChanged ==
    ASSUME NEW f \in [Users -> UserRow], NEW u \in Users, NEW n \in Names \cup {None}, NEW g,
           g = [f EXCEPT ![u].name = n]
    PROVE  /\ g \in [Users -> UserRow] /\ g[u].name = n
           /\ g[u].status = f[u].status /\ g[u].password = f[u].password
           /\ \A x \in Users \ {u} : g[x] = f[x]
  BY DEF UserRow

\* A request that has listed the tokens of its user.
LEMMA ListingChanged ==
    ASSUME NEW R \in Request, NEW n \in Nat, NEW S \in SUBSET Nat, NEW g,
           g = [R EXCEPT !.at = "del", !.row = n, !.listed = S]
    PROVE  /\ g \in Request
           /\ g.at = "del" /\ g.op = R.op /\ g.user = R.user /\ g.arg = R.arg
           /\ g.row = n /\ g.listed = S
<1>1. "del" \in Steps
  BY DEF Steps
<1> QED BY <1>1 DEF Request

\* What listing the tokens does.
LEMMA ListFacts ==
    ASSUME Base, NEW w \in Workers, ListTokens(w)
    PROVE  /\ req[w].at = "list" /\ req[w].user \in Users /\ req[w].op = "reset"
           /\ req' \in [Workers -> Request] /\ \A v \in Workers \ {w} : req'[v] = req[v]
           /\ req'[w].at = "del" /\ req'[w].op = req[w].op /\ req'[w].user = req[w].user
           /\ req'[w].arg = req[w].arg /\ req'[w].row = Len(tokens)
           /\ req'[w].listed = userRefresh[req[w].user]
<1> DEFINE S == userRefresh[req[w].user]
           n == Len(tokens)
           g == [req[w] EXCEPT !.at = "del", !.row = n, !.listed = S]
<1>1. req' = [req EXCEPT ![w] = g] /\ req[w].at = "list"
  BY DEF ListTokens, At
<1>2. OpsAt("list") = {"reset"} /\ "list" # None
  BY NoneFacts DEF OpsAt, Steps
<1>3. req[w].user \in Users /\ req[w].op = "reset"
  BY <1>1, <1>2 DEF Base, Fits
<1>4. /\ tokens \in Seq([owner : Users, session : Nat])
      /\ userRefresh \in [Users -> SUBSET (DOMAIN tokens)] /\ req \in [Workers -> Request]
  BY DEF Base, Types
<1>5. n \in Nat /\ S \in SUBSET Nat /\ req[w] \in Request
  BY <1>3, <1>4
<1>9. g = [req[w] EXCEPT !.at = "del", !.row = n, !.listed = S]
  OBVIOUS
<1> HIDE DEF S, n, g
<1>6. g \in Request
  BY <1>5, <1>9, ListingChanged
<1>7. /\ g.at = "del" /\ g.op = req[w].op /\ g.user = req[w].user /\ g.arg = req[w].arg
      /\ g.row = n /\ g.listed = S
  <2>1. g.at = "del" /\ g.op = req[w].op /\ g.user = req[w].user /\ g.arg = req[w].arg
    BY <1>5, <1>9 DEF Request
  <2>2. g.row = n
    BY <1>5, <1>9 DEF Request
  <2>3. g.listed = S
    BY <1>5, <1>9 DEF Request
  <2> QED BY <2>1, <2>2, <2>3
<1>8. /\ req' \in [Workers -> Request] /\ \A v \in Workers \ {w} : req'[v] = req[v]
      /\ req'[w] = g
  BY <1>1, <1>4, <1>6
<1> QED BY <1>1, <1>3, <1>7, <1>8 DEF S, n

\* What a confirmed code does to the tables: the row is used, and the user is
\* active or has the new password.
LEMMA ApplyFacts ==
    ASSUME Base, NEW w \in Workers, verifyEmailCode(w) \/ resetPassword(w)
    PROVE  LET u == req[w].user
               p == PurposeOf(w)
               row == codes[u][p][req[w].row]
           IN  /\ u \in Users /\ p \in Purposes /\ req[w].row \in DOMAIN codes[u][p]
               /\ row \in CodeRow /\ ~row.used /\ codeLock[u][p] = w
               /\ req[w].at = "apply" /\ userLock[u] \in {None, w}
               /\ codes' = [codes EXCEPT ![u][p][req[w].row] = [row EXCEPT !.used = TRUE]]
               /\ req[w].op = "verify" => p = "email_verify"
               /\ req[w].op = "reset" => p = "password_reset" /\ req[w].arg[2] \in Passwords
               /\ verifyEmailCode(w) => req[w].op = "verify"
               /\ resetPassword(w) => req[w].op = "reset"
<1> USE DEF At, Op
<1>1. req[w].at = "apply" /\ userLock[req[w].user] \in {None, w}
  BY DEF verifyEmailCode, resetPassword, UserFree
<1>2. /\ (verifyEmailCode(w) => req[w].op = "verify")
      /\ (resetPassword(w) => req[w].op = "reset")
      /\ (req[w].op = "verify" => PurposeOf(w) = "email_verify")
      /\ (req[w].op = "reset" => PurposeOf(w) = "password_reset")
  BY DEF verifyEmailCode, resetPassword, PurposeOf
<1> DEFINE u == req[w].user
           p == PurposeOf(w)
           i == req[w].row
           row == codes[u][p][i]
<1>3. u \in Users /\ p \in Purposes /\ i \in DOMAIN codes[u][p] /\ row \in CodeRow
  BY <1>1, TakenRow
<1>4. req[w].op = "reset" => req[w].arg[2] \in Passwords
  BY <1>1, NoneFacts DEF Base, Fits, Steps
<1>5. ~row.used /\ codeLock[u][p] = w
  BY <1>1 DEF Base, Holds, Unused
<1>6. codes' = [codes EXCEPT ![u][p][i].used = TRUE]
  BY <1>2 DEF verifyEmailCode, resetPassword
<1>7. codes' = [codes EXCEPT ![u][p][i] = [row EXCEPT !.used = TRUE]]
  BY <1>6
<1> QED BY <1>1, <1>2, <1>3, <1>4, <1>5, <1>7

\* The transaction that uses a code ends.
LEMMA ApplyBase ==
    ASSUME Base, NEW w \in Workers, verifyEmailCode(w) \/ resetPassword(w)
    PROVE  Base'
<1> DEFINE u == req[w].user
           p == PurposeOf(w)
           i == req[w].row
           R == [codes[u][p][i] EXCEPT !.used = TRUE]
<1>1. /\ u \in Users /\ p \in Purposes /\ i \in DOMAIN codes[u][p]
      /\ codes[u][p][i] \in CodeRow /\ codeLock[u][p] = w
      /\ userLock[u] \in {None, w} /\ codes' = [codes EXCEPT ![u][p][i] = R]
      /\ Types
  BY ApplyFacts DEF Base
<1>2. R \in CodeRow
  BY <1>1, CodeUpdated
<1>3. Unlock(w) /\ UNCHANGED <<redis, requests, logins, revoked, escaped>>
  BY DEF verifyEmailCode, resetPassword
<1>4. codes[u][p][i].for \in Passwords
  BY <1>1 DEF CodeRow
<1>5. users \in [Users -> UserRow] /\ users[u] \in UserRow
  BY <1>1 DEF Types
<1>6. /\ codes' \in [Users -> [Purposes -> Seq(CodeRow)]]
      /\ \A x \in Users, q \in Purposes : DOMAIN codes'[x][q] = DOMAIN codes[x][q]
      /\ \A x \in Users, q \in Purposes : (x # u \/ q # p) => codes'[x][q] = codes[x][q]
  <2> HIDE DEF u, p, i, R
  <2>1. /\ codes' \in [Users -> [Purposes -> Seq(CodeRow)]]
        /\ \A x \in Users, q \in Purposes : DOMAIN codes'[x][q] = DOMAIN codes[x][q]
    BY <1>1, <1>2, CodeReplaced
  <2>2. \A x \in Users, q \in Purposes : (x # u \/ q # p) => codes'[x][q] = codes[x][q]
    BY <1>1 DEF Types
  <2> QED BY <2>1, <2>2
<1>7. users[u].password \in Passwords /\ users[u].status # None
  BY <1>1 DEF Base, Registered
<1>8. ASSUME users' \in [Users -> UserRow], \A x \in Users \ {u} : users'[x] = users[x],
             users'[u].password \in Passwords, users'[u].status # None,
             outbox' \in Seq(EventRow), proof' \in [Users -> SUBSET Passwords],
             req' \in [Workers -> Request], \A v \in Workers \ {w} : req'[v] = req[v],
             Fits(w)', Holds(w)'
      PROVE  Base'
  <2> HIDE DEF u, p, i, R
  <2>1. Types'
    BY <1>1, <1>3, <1>6, <1>8, Unlocked DEF Types, redis
  <2>2. Registered'
    BY <1>6, <1>8 DEF Base, Registered
  <2>3. Respects(Workers \ {w})
    <3>1. \A v \in Workers \ {w}, x \in Users : userLock[x] = v =>
            userLock'[x] = v /\ users'[x].status = users[x].status
      <4> SUFFICES ASSUME NEW v \in Workers \ {w}, NEW x \in Users, userLock[x] = v
                   PROVE  userLock'[x] = v /\ users'[x].status = users[x].status
        OBVIOUS
      <4>1. v # w /\ v # None
        BY NoneFacts
      <4>2. x # u
        BY <1>1, <4>1
      <4>3. users'[x] = users[x]
        BY <1>8, <4>2
      <4>4. userLock'[x] = v
        BY <1>1, <1>3, <4>1, Unlocked
      <4> QED BY <4>3, <4>4
    <3>2. \A v \in Workers \ {w}, x \in Users, q \in Purposes : codeLock[x][q] = v =>
            codeLock'[x][q] = v /\ codes'[x][q] = codes[x][q]
      BY <1>1, <1>3, <1>6, Unlocked
    <3> QED BY <1>3, <1>6, <1>8, <3>1, <3>2 DEF Respects, redis, Unused, Left
  <2> QED BY <1>8, <2>1, <2>2, <2>3, OthersFit DEF Base
<1>9. CASE verifyEmailCode(w)
  <2>1. /\ Answer(w) /\ users' = [users EXCEPT ![u].status = "active"]
        /\ outbox' = Append(outbox, [type |-> "UserActivated", user |-> u, name |-> None])
        /\ proof' = [proof EXCEPT ![u] = @ \cup {codes[u]["email_verify"][i].for}]
        /\ p = "email_verify"
    BY <1>9, ApplyFacts DEF verifyEmailCode, ActivatedEvent
  <2>2. proof' \in [Users -> SUBSET Passwords]
    BY <1>1, <1>4, <2>1 DEF Types
  <2>3. outbox' \in Seq(EventRow)
    <3>1. [type |-> "UserActivated", user |-> u, name |-> None] \in EventRow
      BY <1>1 DEF EventRow
    <3>2. outbox \in Seq(EventRow)
      BY <1>1 DEF Types
    <3> QED BY <2>1, <3>1, <3>2
  <2>4. /\ users' \in [Users -> UserRow] /\ users'[u].password = users[u].password
        /\ users'[u].status = "active" /\ \A x \in Users \ {u} : users'[x] = users[x]
    <3>1. /\ u \in Users /\ users \in [Users -> UserRow]
          /\ users' = [users EXCEPT ![u].status = "active"]
      BY <1>1, <1>5, <2>1
    <3> HIDE DEF u
    <3> QED BY <3>1, UserActivated
  <2> QED BY <1>1, <1>7, <1>8, <2>1, <2>2, <2>3, <2>4, Answered, NoneFacts
<1>10. CASE resetPassword(w)
  <2> DEFINE pw == req[w].arg[2]
  <2>1. /\ Goto(w, "list") /\ users' = [users EXCEPT ![u].password = pw]
        /\ proof' = [proof EXCEPT ![u] = @ \cup {pw}] /\ outbox' = outbox
        /\ req[w].at = "apply" /\ req[w].op = "reset" /\ pw \in Passwords
    BY <1>10, ApplyFacts DEF resetPassword
  <2>2. proof' \in [Users -> SUBSET Passwords] /\ outbox' \in Seq(EventRow)
    BY <1>1, <2>1 DEF Types
  <2>3. /\ users' \in [Users -> UserRow] /\ users'[u].password = pw
        /\ users'[u].status = users[u].status /\ \A x \in Users \ {u} : users'[x] = users[x]
    <3>1. u \in Users /\ pw \in Passwords /\ users' = [users EXCEPT ![u].password = pw]
      BY <1>1, <2>1
    <3> HIDE DEF u, pw
    <3> QED BY <1>5, <3>1, PasswordChanged
  <2>4. "list" \in Steps /\ OpsAt("list") = {"reset"} /\ "list" # None
    BY NoneFacts DEF Steps, OpsAt
  <2>5. /\ req' \in [Workers -> Request] /\ \A v \in Workers \ {w} : req'[v] = req[v]
        /\ req'[w].at = "list" /\ req'[w].op = "reset" /\ req'[w].user = u
        /\ req'[w].arg = req[w].arg
    BY <1>1, <2>1, <2>4, WentOn
  <2>6. Fits(w)' /\ Holds(w)'
    BY <1>1, <2>1, <2>4, <2>5 DEF Fits, Holds
  <2> QED BY <1>7, <1>8, <2>1, <2>2, <2>3, <2>5, <2>6
<1> QED BY <1>9, <1>10

\* The steps after the commits: they leave the tables and the locks alone, and
\* the worker goes on with a step of its handler or is done.
LEMMA QuietBase ==
    ASSUME Base, NEW w \in Workers, UNCHANGED <<tables, locks, cooldown, requests, proof>>,
           logins' \in [Users -> Nat], revoked' \in [Users -> Nat],
           tokens' \in Seq([owner : Users, session : Nat]),
           \A t \in DOMAIN tokens : t \in DOMAIN tokens' /\ tokens'[t].owner = tokens[t].owner,
           refresh' \subseteq DOMAIN tokens', userRefresh' \in [Users -> SUBSET (DOMAIN tokens')],
           escaped' \subseteq DOMAIN tokens',
           \/ Answer(w)
           \/ /\ req[w].at # None
              /\ \E step \in Steps : /\ Goto(w, step)
                                     /\ step \notin {"issue", "event", "apply", "take", "compare"}
                                     /\ step = "srem" => req[w].at = "getdel"
                                     /\ step = "find" => req[w].at = "srem"
                                     /\ step = "mint" => req[w].at = "find" \/ req[w].op = "login"
                                     /\ step # "getdel"
                                     /\ req[w].op \in OpsAt(step)
    PROVE  Base'
<1>1. Registered'
  BY DEF Base, Registered, tables
<1>2. ASSUME req' \in [Workers -> Request], \A v \in Workers \ {w} : req'[v] = req[v],
             Fits(w)', Holds(w)'
      PROVE  Base'
  <2>1. Types'
    BY <1>2 DEF Base, Types, tables, locks
  <2>2. Respects(Workers \ {w})
    BY <1>2 DEF Respects, tables, locks, Unused, Left
  <2> QED BY <1>1, <1>2, <2>1, <2>2, OthersFit DEF Base
<1>3. CASE Answer(w)
  BY <1>2, <1>3, Answered DEF Base
<1>4. ASSUME NEW step \in Steps, Goto(w, step), step \notin {"issue", "event", "apply", "take", "compare"},
             step = "srem" => req[w].at = "getdel", step = "find" => req[w].at = "srem",
             step = "mint" => req[w].at = "find" \/ req[w].op = "login", step # "getdel", req[w].op \in OpsAt(step),
             req[w].at # None
      PROVE  Base'
  <2>1. Fits(w) /\ Types
    BY DEF Base
  <2>2. /\ req' \in [Workers -> Request] /\ \A v \in Workers \ {w} : req'[v] = req[v]
        /\ req'[w].at = step /\ req'[w].op = req[w].op /\ req'[w].user = req[w].user
        /\ req'[w].arg = req[w].arg /\ req'[w].row = req[w].row
    BY <1>4, <2>1, WentOn
  <2>3. Fits(w)'
    BY <1>4, <2>1, <2>2 DEF Fits
  <2>4. Holds(w)'
    BY <1>4, <2>2 DEF Holds
  <2> QED BY <1>2, <2>2, <2>3, <2>4
<1> QED BY <1>3, <1>4

\* What a refresh under way has consumed.
LEMMA RotatingRow ==
    ASSUME Base, NEW u, NEW v \in Rotating(u)
    PROVE  v \in Workers /\ req[v].row \in DOMAIN tokens
<1>1. /\ v \in Workers /\ req[v].op = "refresh" /\ req[v].at \in {"srem", "find", "mint"}
  BY DEF Rotating, Op
<1>2. Fits(v) /\ req[v].at # None
  BY <1>1, NoneFacts DEF Base, Steps
<1> QED BY <1>1, <1>2 DEF Fits

\* The steps of login, refresh, logout and of a revocation.
LEMMA SessionBase ==
    ASSUME Base, NEW w \in Workers,
           \/ ListTokens(w) \/ revokeAllUserRefreshTokens(w) \/ authenticateUser(w)
           \/ GetDelToken(w) \/ RemoveFromSet(w) \/ consumeRefreshToken(w)
           \/ issueTokenPair(w)
    PROVE  Base'
<1> USE DEF At, Op
<1>1. /\ tokens \in Seq([owner : Users, session : Nat]) /\ refresh \subseteq DOMAIN tokens
      /\ userRefresh \in [Users -> SUBSET (DOMAIN tokens)] /\ Types /\ Fits(w)
      /\ escaped \subseteq DOMAIN tokens
      /\ logins \in [Users -> Nat] /\ revoked \in [Users -> Nat] /\ req[w] \in Request
  BY DEF Base, Types
<1>2. /\ {"list", "del", "authenticate", "getdel", "srem", "find", "mint"} \subseteq Steps
      /\ OpsAt("list") = {"reset"} /\ OpsAt("del") = {"reset"}
      /\ OpsAt("authenticate") = {"login"} /\ OpsAt("find") = {"refresh"}
      /\ OpsAt("getdel") = {"refresh", "logout"} /\ OpsAt("srem") = {"refresh", "logout"}
      /\ OpsAt("mint") = {"login", "refresh"}
  BY DEF Steps, OpsAt
<1>3. req[w].at \in {"list", "del", "authenticate", "getdel", "srem", "find", "mint"}
  BY DEF ListTokens, revokeAllUserRefreshTokens, authenticateUser, GetDelToken, RemoveFromSet,
         consumeRefreshToken, issueTokenPair
<1>4. req[w].at # None /\ req[w].user \in Users /\ req[w].op \in OpsAt(req[w].at)
  BY <1>1, <1>2, <1>3, NoneFacts DEF Fits
<1>5. CASE ListTokens(w)
  <2>4. /\ req' \in [Workers -> Request] /\ \A v \in Workers \ {w} : req'[v] = req[v]
        /\ req'[w].at = "del" /\ req'[w].op = req[w].op
        /\ req'[w].user = req[w].user /\ req'[w].arg = req[w].arg
    BY <1>5, ListFacts
  <2>5. UNCHANGED <<tables, locks, redis, requests, history>> /\ req[w].at = "list"
    BY <1>5 DEF ListTokens
  <2>6. Types' /\ Registered'
    BY <2>4, <2>5 DEF Base, Types, Registered, tables, locks, redis, history
  <2>7. Respects(Workers \ {w})
    BY <2>4, <2>5 DEF Respects, tables, locks, redis, Unused, Left
  <2>8. Fits(w)' /\ Holds(w)'
    BY <1>1, <1>2, <1>4, <2>4, <2>5 DEF Fits, Holds
  <2> QED BY <2>4, <2>6, <2>7, <2>8, OthersFit DEF Base
<1>6. CASE revokeAllUserRefreshTokens(w)
  <2>1. /\ UNCHANGED <<tables, locks, cooldown, tokens, requests, logins, proof>> /\ Answer(w)
        /\ refresh' \subseteq DOMAIN tokens
        /\ userRefresh' = [userRefresh EXCEPT ![req[w].user] = {}]
        /\ revoked' = [revoked EXCEPT ![req[w].user] = IF @ < req[w].row THEN req[w].row ELSE @]
        /\ escaped' = escaped \cup {req[v].row : v \in Rotating(req[w].user)}
    BY <1>1, <1>6 DEF revokeAllUserRefreshTokens
  <2>2. req[w].row \in Nat
    BY <1>1 DEF Request
  <2>3. revoked' \in [Users -> Nat] /\ userRefresh' \in [Users -> SUBSET (DOMAIN tokens)]
    BY <1>1, <1>4, <2>1, <2>2
  <2>4. \A v \in Rotating(req[w].user) : req[v].row \in DOMAIN tokens
    BY RotatingRow
  <2>5. escaped' \subseteq DOMAIN tokens
    BY <1>1, <2>1, <2>4
  <2> QED BY <1>1, <2>1, <2>3, <2>5, QuietBase
<1>7. CASE authenticateUser(w)
  <2>1. /\ UNCHANGED <<tables, locks, redis, requests, proof, revoked, escaped>>
        /\ req[w].op = "login" /\ req[w].op \in OpsAt("mint")
    BY <1>2, <1>4, <1>7 DEF authenticateUser
  <2>2. CASE /\ logins' = [logins EXCEPT ![req[w].user] = @ + 1] /\ Goto(w, "mint")
    <3>1. logins' \in [Users -> Nat]
      BY <1>1, <1>4, <2>2
    <3> QED BY <1>1, <1>2, <1>4, <2>1, <2>2, <3>1, QuietBase DEF redis
  <2>3. CASE Answer(w) /\ UNCHANGED logins
    BY <1>1, <2>1, <2>3, QuietBase DEF redis
  <2> QED BY <1>7, <2>2, <2>3 DEF authenticateUser
<1>8. CASE GetDelToken(w)
  <2>1. /\ UNCHANGED <<tables, locks, cooldown, tokens, userRefresh, requests, history>>
        /\ refresh' \subseteq DOMAIN tokens
        /\ req[w].at = "getdel" /\ (Answer(w) \/ Goto(w, "srem"))
    BY <1>1, <1>8 DEF GetDelToken, Popped
  <2> QED BY <1>1, <1>2, <1>4, <2>1, QuietBase DEF history
<1>9. CASE RemoveFromSet(w)
  <2>1. /\ UNCHANGED <<tables, locks, cooldown, tokens, requests, history>>
        /\ refresh' \subseteq DOMAIN tokens
        /\ userRefresh' = [userRefresh EXCEPT ![req[w].user] = @ \ {req[w].row}]
        /\ req[w].at = "srem" /\ (Answer(w) \/ (Goto(w, "find") /\ req[w].op = "refresh"))
    BY <1>1, <1>9 DEF RemoveFromSet
  <2>2. userRefresh' \in [Users -> SUBSET (DOMAIN tokens)]
    BY <1>1, <1>4, <2>1
  <2> QED BY <1>1, <1>2, <1>4, <2>1, <2>2, QuietBase DEF history
<1>10. CASE consumeRefreshToken(w)
  <2>1. /\ UNCHANGED <<tables, locks, redis, requests, history>> /\ req[w].at = "find"
        /\ Answer(w) \/ Goto(w, "mint")
    BY <1>10 DEF consumeRefreshToken
  <2> QED BY <1>1, <1>2, <1>4, <2>1, QuietBase DEF history, redis
<1>11. CASE issueTokenPair(w)
  <2> DEFINE t == [owner |-> req[w].user, session |->
                     IF req[w].op = "refresh" /\ req[w].row \notin escaped
                       THEN tokens[req[w].row].session ELSE Len(tokens) + 1]
  <2>1. /\ UNCHANGED <<tables, locks, cooldown, requests, logins, proof, revoked>> /\ Answer(w)
        /\ req[w].at = "mint" /\ escaped' \subseteq escaped \cup {Len(tokens) + 1}
        /\ tokens' = Append(tokens, t) /\ refresh' = refresh \cup {Len(tokens) + 1}
        /\ userRefresh' = [userRefresh EXCEPT ![req[w].user] = @ \cup {Len(tokens) + 1}]
    BY <1>11 DEF issueTokenPair, Tracked
  <2>2. t \in [owner : Users, session : Nat]
    <3>1. ASSUME req[w].op = "refresh" PROVE tokens[req[w].row].session \in Nat
      <4>1. req[w].row \in DOMAIN tokens
        BY <1>1, <1>4, <2>1, <3>1 DEF Fits
      <4>2. tokens[req[w].row] \in [owner : Users, session : Nat]
        BY <1>1, <4>1, SeqElement
      <4> QED BY <4>2
    <3>2. Len(tokens) + 1 \in Nat
      BY <1>1
    <3> QED BY <1>4, <3>1, <3>2
  <2> HIDE DEF t
  <2>3. /\ tokens' \in Seq([owner : Users, session : Nat])
        /\ Len(tokens') = Len(tokens) + 1 /\ Len(tokens) \in Nat
        /\ \A k \in 1 .. Len(tokens) : tokens'[k] = tokens[k]
    BY <1>1, <2>1, <2>2
  <2>4. DOMAIN tokens = 1 .. Len(tokens) /\ DOMAIN tokens' = 1 .. Len(tokens) + 1
    BY <1>1, <2>3
  <2>5. \A k \in DOMAIN tokens : k \in DOMAIN tokens' /\ tokens'[k].owner = tokens[k].owner
    BY <2>3, <2>4
  <2>6. Len(tokens) + 1 \in DOMAIN tokens' /\ DOMAIN tokens \subseteq DOMAIN tokens'
    BY <2>3, <2>4
  <2>7. /\ refresh' \subseteq DOMAIN tokens' /\ userRefresh' \in [Users -> SUBSET (DOMAIN tokens')]
        /\ escaped' \subseteq DOMAIN tokens'
    BY <1>1, <1>4, <2>1, <2>6
  <2> QED BY <1>1, <2>1, <2>3, <2>5, <2>7, QuietBase
<1> QED BY <1>5, <1>6, <1>7, <1>8, <1>9, <1>10, <1>11

\* The profile transaction commits.
LEMMA ProfileBase ==
    ASSUME Base, NEW w \in Workers, updateProfile(w)
    PROVE  /\ Base' /\ req[w].user \in Users /\ req[w].arg \in Names \cup {None}
           /\ users'[req[w].user].name = req[w].arg
           /\ users'[req[w].user].status = users[req[w].user].status
           /\ users'[req[w].user].password = users[req[w].user].password
           /\ \A x \in Users \ {req[w].user} : users'[x] = users[x]
<1> DEFINE u == req[w].user
           n == req[w].arg
<1>1. /\ req[w].at = "event" /\ Types /\ Unlock(w) /\ Answer(w)
      /\ UNCHANGED <<codes, redis, requests, history>>
      /\ users' = [users EXCEPT ![u].name = n]
      /\ outbox' = Append(outbox, [type |-> "ProfileUpdated", user |-> u, name |-> n])
  BY DEF updateProfile, At, Base
<1>2. u \in Users /\ n \in Names \cup {None} /\ userLock[u] = w
  <2>1. "event" # None /\ OpsAt("event") = {"profile"}
    BY NoneFacts DEF Steps, OpsAt
  <2> QED BY <1>1, <2>1 DEF Base, Fits, Holds
<1>3. users \in [Users -> UserRow] /\ outbox \in Seq(EventRow)
  BY <1>1 DEF Types
<1> HIDE DEF u, n
<1>4. /\ users' \in [Users -> UserRow] /\ users'[u].name = n
      /\ users'[u].status = users[u].status /\ users'[u].password = users[u].password
      /\ \A x \in Users \ {u} : users'[x] = users[x]
  <2>1. users' = [users EXCEPT ![u].name = n]
    BY <1>1
  <2> QED BY <1>2, <1>3, <2>1, NameChanged
<1>5. outbox' \in Seq(EventRow)
  BY <1>1, <1>2, <1>3 DEF EventRow
<1>6. Types'
  BY <1>1, <1>4, <1>5, Answered, Unlocked DEF Types, redis, history
<1>7. Registered'
  BY <1>1, <1>4 DEF Base, Registered
<1>8. Respects(Workers \ {w})
  <2>1. \A x \in Users : users'[x].status = users[x].status
    BY <1>4
  <2> QED BY <1>1, <2>1, Answered, Unlocked DEF Respects, redis, Unused, Left
<1> QED BY <1>1, <1>2, <1>4, <1>6, <1>7, <1>8, Answered, OthersFit DEF Base, u, n

\* A request fails: its transaction rolls back.
LEMMA FailBase ==
    ASSUME Base, NEW w \in Workers, Fail(w)
    PROVE  Base'
<1>1. Unlock(w) /\ Answer(w) /\ UNCHANGED <<tables, redis, requests, history>> /\ Types
  BY DEF Fail, Base
<1>2. Types' /\ Registered'
  BY <1>1, Answered, Unlocked DEF Base, Types, Registered, tables, redis, history
<1>3. Respects(Workers \ {w})
  BY <1>1, Answered, Unlocked DEF Respects, tables, redis, Unused, Left
<1> QED BY <1>1, <1>2, <1>3, Answered, OthersFit DEF Base

\* Codes, cooldowns and tokens expire.
LEMMA ExpireBase ==
    ASSUME Base,
           \/ \E u \in Users, p \in Purposes : ExpireCode(u, p)
           \/ CooldownEnds
           \/ \E t \in DOMAIN tokens : ExpireToken(t)
    PROVE  Base'
<1>1. ASSUME Respects(Workers), Types', Registered'
      PROVE  Base'
  BY <1>1, OthersFit DEF Base
<1>2. ASSUME NEW u \in Users, NEW p \in Purposes, ExpireCode(u, p)
      PROVE  Base'
  <2>1. PICK i \in Unused(u, p) : codes' = [codes EXCEPT ![u][p][i].expired = TRUE]
    BY <1>2 DEF ExpireCode
  <2> DEFINE R == [codes[u][p][i] EXCEPT !.expired = TRUE]
  <2>2. i \in DOMAIN codes[u][p]
    BY DEF Unused
  <2>11. codes' = [codes EXCEPT ![u][p][i] = R]
    BY <2>1
  <2>3. codes[u][p] \in Seq(CodeRow)
    BY DEF Base, Types
  <2>4. codes[u][p][i] \in CodeRow /\ Types
    BY <2>2, <2>3, SeqElement DEF Base
  <2>5. R.used = codes[u][p][i].used /\ R.attempts = codes[u][p][i].attempts
    BY <2>4 DEF CodeRow
  <2>12. R \in CodeRow
    BY <2>4, CodeUpdated
  <2> HIDE DEF R
  <2>6. /\ codes' \in [Users -> [Purposes -> Seq(CodeRow)]]
        /\ \A x \in Users, q \in Purposes : DOMAIN codes'[x][q] = DOMAIN codes[x][q]
        /\ codes'[u][p][i] = R
        /\ \A x \in Users, q \in Purposes : \A j \in DOMAIN codes[x][q] :
              (x # u \/ q # p \/ j # i) => codes'[x][q][j] = codes[x][q][j]
    <3>1. codes' \in [Users -> [Purposes -> Seq(CodeRow)]]
      BY <2>2, <2>4, <2>11, <2>12, CodeReplaced
    <3>2. \A x \in Users, q \in Purposes : DOMAIN codes'[x][q] = DOMAIN codes[x][q]
      BY <2>2, <2>4, <2>11, <2>12, CodeReplaced
    <3>3. codes'[u][p][i] = R
      <4>1. codes \in [Users -> [Purposes -> Seq(CodeRow)]]
        BY <2>4 DEF Types
      <4> QED BY <2>2, <2>3, <2>11, <4>1
    <3>4. \A x \in Users, q \in Purposes : \A j \in DOMAIN codes[x][q] :
            (x # u \/ q # p \/ j # i) => codes'[x][q][j] = codes[x][q][j]
      BY <2>2, <2>4, <2>11, <2>12, CodeReplaced
    <3> QED BY <3>1, <3>2, <3>3, <3>4
  <2>7. UNCHANGED <<users, outbox, locks, redis, req, requests, history>>
    BY <1>2 DEF ExpireCode
  <2>8. Types' /\ Registered'
    BY <2>6, <2>7 DEF Base, Types, Registered, locks, redis, history
  <2>13. \A x \in Users, q \in Purposes : \A j \in DOMAIN codes[x][q] :
           /\ codes'[x][q][j].used = codes[x][q][j].used
           /\ codes'[x][q][j].attempts = codes[x][q][j].attempts
    BY <2>5, <2>6
  <2>9. \A x \in Users, q \in Purposes :
           Unused(x, q) \subseteq Unused(x, q)' /\ Left(x, q) \subseteq Left(x, q)'
    <3> SUFFICES ASSUME NEW x \in Users, NEW q \in Purposes
                 PROVE  Unused(x, q) \subseteq Unused(x, q)' /\ Left(x, q) \subseteq Left(x, q)'
      OBVIOUS
    <3>1. DOMAIN codes'[x][q] = DOMAIN codes[x][q]
      BY <2>6
    <3>2. Unused(x, q) \subseteq Unused(x, q)'
      BY <2>13, <3>1 DEF Unused
    <3>3. Left(x, q) \subseteq Left(x, q)'
      BY <2>13, <3>1 DEF Left
    <3> QED BY <3>2, <3>3
  <2>10. Respects(Workers)
    BY <2>6, <2>7, <2>9 DEF Respects, locks, redis
  <2> QED BY <1>1, <2>8, <2>10
<1>3. CASE CooldownEnds
  <2>1. UNCHANGED <<tables, locks, tokens, refresh, userRefresh, req, requests, history>>
        /\ cooldown' \subseteq cooldown
    BY <1>3 DEF CooldownEnds
  <2>2. Types' /\ Registered'
    BY <2>1 DEF Base, Types, Registered, tables, locks, history
  <2>3. Respects(Workers)
    BY <2>1 DEF Respects, tables, locks, Unused, Left
  <2> QED BY <1>1, <2>2, <2>3
<1>4. ASSUME NEW t \in DOMAIN tokens, ExpireToken(t)
      PROVE  Base'
  <2>1. UNCHANGED <<tables, locks, cooldown, tokens, userRefresh, req, requests, history>>
        /\ refresh' \subseteq refresh
    BY <1>4 DEF ExpireToken
  <2>2. Types' /\ Registered'
    BY <2>1 DEF Base, Types, Registered, tables, locks, history
  <2>3. Respects(Workers)
    BY <2>1 DEF Respects, tables, locks, Unused, Left
  <2> QED BY <1>1, <2>2, <2>3
<1> QED BY <1>2, <1>3, <1>4

\* Every step keeps the base layer.
LEMMA NextBase ==
    ASSUME Base, [Next]_vars
    PROVE  Base'
<1>1. CASE UNCHANGED vars
  <2>1. UNCHANGED <<tables, locks, redis, req, requests, history>>
    BY <1>1 DEF vars
  <2>2. Types' /\ Registered'
    BY <2>1 DEF Base, Types, Registered, tables, locks, redis, history
  <2>3. Respects(Workers)
    BY <2>1 DEF Respects, tables, locks, redis, Unused, Left
  <2> QED BY <2>2, <2>3, OthersFit DEF Base
<1>2. ASSUME NEW w \in Workers, Handle(w) \/ Step(w) \/ Fail(w)
      PROVE  Base'
  BY <1>2, HandleBase, FailBase, LockingBase, IssueBase, PickCodeBase, LockCodeBase, ConsumeBase, ApplyBase,
     SessionBase, ProfileBase DEF Step
<1> QED BY <1>1, <1>2, ExpireBase DEF Next

\* The base layer holds in every behaviour.
THEOREM SpecBase == Spec => []Base
<1>1. Init => Base
  BY InitBase
<1>2. Base /\ [Next]_vars => Base'
  BY NextBase
<1> QED BY <1>1, <1>2, PTL DEF Spec

\* The tables, the Redis keys and the requests are always well formed.
THEOREM TypeCorrect == Spec => []TypeOK
<1>1. ASSUME Base PROVE TypeOK
  <2>1. Types
    BY <1>1 DEF Base
  <2>2. /\ users \in [Users -> [status : {None, "pending_verification", "active"},
                                 password : Passwords \cup {None}, name : Names \cup {None}]]
        /\ outbox \in Seq([type : {"UserActivated", "ProfileUpdated"}, user : Users,
                            name : Names \cup {None}])
    BY <2>1 DEF Types, UserRow, EventRow
  <2>3. \A u \in Users, p \in Purposes : codes[u][p] \in
          Seq([attempts : 0 .. Attempts, guesses : Nat, used : BOOLEAN,
               expired : BOOLEAN, for : Passwords])
    BY <2>1 DEF Types, CodeRow
  <2>4. \A w \in Workers : req[w].op \in Ops \cup {None} /\ req[w].at \in Steps \cup {None}
    BY <2>1 DEF Types, Request
  <2> QED BY <2>1, <2>2, <2>3, <2>4 DEF Types, TypeOK
<1> QED BY <1>1, SpecBase, PTL

-----------------------------------------------------------------------------
(***************************************************************************)
(* What the tables say: codes, users and the outbox.                       *)
(***************************************************************************)

\* A guess keeps the sum of what a code has left and what was tried.
GuessesSpend ==
    \A u \in Users, p \in Purposes : \A i \in DOMAIN codes[u][p] :
        codes[u][p][i].guesses + codes[u][p][i].attempts = Attempts

\* The unused e-mail code of a user was sent for the password it has now,
\* unless a reset has proven that one already.
CodesProve ==
    \A u \in Users : \A i \in Unused(u, "email_verify") :
        \/ codes[u]["email_verify"][i].for = users[u].password
        \/ users[u].password \in proof[u]

\* An active user has no unused e-mail code, and nobody has two.
CodesAreSpent ==
    \A u \in Users :
        /\ users[u].status = "active" => Unused(u, "email_verify") = {}
        /\ \A i, j \in Unused(u, "email_verify") : i = j

\* A step that neither issues nor uses a code, nor renames a user.
Untold ==
    /\ UNCHANGED <<users, outbox, proof>>
    /\ \A x \in Users, q \in Purposes :
         /\ DOMAIN codes'[x][q] = DOMAIN codes[x][q]
         /\ \A j \in DOMAIN codes[x][q] :
              /\ codes'[x][q][j].used = codes[x][q][j].used
              /\ codes'[x][q][j].for = codes[x][q][j].for
              /\ codes'[x][q][j].guesses + codes'[x][q][j].attempts =
                   codes[x][q][j].guesses + codes[x][q][j].attempts

\* The updates of a code row that the properties do not see.
LEMMA CodeKept ==
    ASSUME NEW R \in CodeRow, NEW g,
           \/ g = [R EXCEPT !.expired = TRUE]
           \/ g = [R EXCEPT !.attempts = R.attempts - 1, !.guesses = R.guesses + 1]
    PROVE  /\ g.used = R.used /\ g.for = R.for
           /\ g.guesses + g.attempts = R.guesses + R.attempts
<1>1. CASE g = [R EXCEPT !.expired = TRUE]
  BY <1>1 DEF CodeRow
<1>2. CASE g = [R EXCEPT !.attempts = R.attempts - 1, !.guesses = R.guesses + 1]
  <2>1. g.used = R.used /\ g.for = R.for
    BY <1>2 DEF CodeRow
  <2>2. g.attempts = R.attempts - 1 /\ g.guesses = R.guesses + 1
    BY <1>2 DEF CodeRow
  <2>3. R.attempts \in Int /\ R.guesses \in Int
    BY AuthAssumption DEF CodeRow
  <2> QED BY <2>1, <2>2, <2>3
<1> QED BY <1>1, <1>2

\* Only four transactions are seen by the properties of the tables.
LEMMA TableSteps ==
    ASSUME Base, [Next]_vars
    PROVE  \/ Untold
           \/ \E w \in Workers : \/ IssueAndCommit(w) \/ verifyEmailCode(w)
                                 \/ resetPassword(w) \/ updateProfile(w)
<1>1. ASSUME UNCHANGED <<users, codes, outbox, proof>> PROVE Untold
  BY <1>1 DEF Untold
<1>2. ASSUME NEW u \in Users, NEW p \in Purposes, NEW i \in DOMAIN codes[u][p], NEW g \in CodeRow,
             \/ g = [codes[u][p][i] EXCEPT !.expired = TRUE]
             \/ g = [codes[u][p][i] EXCEPT !.attempts = codes[u][p][i].attempts - 1,
                                           !.guesses = codes[u][p][i].guesses + 1],
             codes' = [codes EXCEPT ![u][p][i] = g], UNCHANGED <<users, outbox, proof>>
      PROVE  Untold
  <2>1. codes[u][p] \in Seq(CodeRow) /\ Types
    BY DEF Base, Types
  <2>2. codes[u][p][i] \in CodeRow
    BY <2>1, SeqElement
  <2>3. /\ g.used = codes[u][p][i].used /\ g.for = codes[u][p][i].for
        /\ g.guesses + g.attempts = codes[u][p][i].guesses + codes[u][p][i].attempts
    BY <1>2, <2>2, CodeKept
  <2>8. codes' = [codes EXCEPT ![u][p][i] = g]
    BY <1>2
  <2>4. \A x \in Users, q \in Purposes : DOMAIN codes'[x][q] = DOMAIN codes[x][q]
    BY <2>8, <2>1, CodeReplaced
  <2>5. codes'[u][p][i] = g
    BY <2>8, <2>1, CodeReplaced
  <2>6. \A x \in Users, q \in Purposes : \A j \in DOMAIN codes[x][q] :
            (x # u \/ q # p \/ j # i) => codes'[x][q][j] = codes[x][q][j]
    BY <2>8, <2>1, CodeReplaced
  <2>7. ASSUME NEW x \in Users, NEW q \in Purposes, NEW j \in DOMAIN codes[x][q]
        PROVE  /\ codes'[x][q][j].used = codes[x][q][j].used
               /\ codes'[x][q][j].for = codes[x][q][j].for
               /\ codes'[x][q][j].guesses + codes'[x][q][j].attempts
                    = codes[x][q][j].guesses + codes[x][q][j].attempts
    <3>1. CASE x = u /\ q = p /\ j = i
      BY <2>3, <2>5, <3>1
    <3>2. CASE x # u \/ q # p \/ j # i
      BY <2>6, <3>2
    <3> QED BY <3>1, <3>2
  <2> QED BY <1>2, <2>4, <2>7 DEF Untold
<1>3. CASE UNCHANGED vars
  BY <1>1, <1>3 DEF vars, tables, history
<1>4. ASSUME NEW w \in Workers, Handle(w) PROVE Untold
  BY <1>1, <1>4 DEF Handle, registerHandler, loginHandler, resendVerificationHandler,
     forgotPasswordHandler, verifyEmailHandler, resetPasswordHandler, updateProfileHandler,
     refreshHandler, logoutHandler, tables, history
<1>5. ASSUME NEW w \in Workers, consumeVerificationCode(w) PROVE Untold
  <2> DEFINE u == req[w].user
             p == PurposeOf(w)
             i == req[w].row
             row == codes[u][p][i]
  <2>1. /\ req[w].at = "compare" /\ UNCHANGED <<users, outbox, proof>>
        /\ u \in Users /\ p \in Purposes /\ i \in DOMAIN codes[u][p] /\ row \in CodeRow
    BY <1>5, ConsumeFacts, TakenRow DEF consumeVerificationCode, history
  <2>2. CASE codes' = codes
    BY <1>1, <2>1, <2>2
  <2>3. CASE /\ row.attempts > 0
             /\ codes' = [codes EXCEPT ![u][p][i] =
                  [row EXCEPT !.attempts = row.attempts - 1, !.guesses = row.guesses + 1]]
    <3> DEFINE g == [row EXCEPT !.attempts = row.attempts - 1, !.guesses = row.guesses + 1]
    <3>1. g \in CodeRow
      BY <2>1, <2>3, CodeUpdated
    <3>2. codes' = [codes EXCEPT ![u][p][i] = g]
      BY <2>3
    <3>3. g = [codes[u][p][i] EXCEPT !.attempts = codes[u][p][i].attempts - 1,
                                     !.guesses = codes[u][p][i].guesses + 1]
      OBVIOUS
    <3> HIDE DEF u, p, i, g
    <3> QED BY <1>2, <2>1, <3>1, <3>2, <3>3
  <2> QED BY <1>5, <2>2, <2>3, ConsumeFacts
<1>6. ASSUME NEW w \in Workers, Step(w), ~IssueAndCommit(w), ~verifyEmailCode(w),
             ~resetPassword(w), ~updateProfile(w), ~consumeVerificationCode(w)
      PROVE  Untold
  BY <1>1, <1>6 DEF Step, registerUserAndIssueCode, InsertUser, resendVerificationCode,
     issuePasswordResetCode, PickCode, LockCode, ListTokens, revokeAllUserRefreshTokens, authenticateUser,
     GetDelToken, RemoveFromSet, consumeRefreshToken, issueTokenPair, LockProfile,
     tables, history
<1>7. ASSUME NEW w \in Workers, Fail(w) PROVE Untold
  BY <1>1, <1>7 DEF Fail, tables, history
<1>8. ASSUME NEW u \in Users, NEW p \in Purposes, ExpireCode(u, p) PROVE Untold
  <2>1. PICK i \in Unused(u, p) : codes' = [codes EXCEPT ![u][p][i].expired = TRUE]
    BY <1>8 DEF ExpireCode
  <2> DEFINE g == [codes[u][p][i] EXCEPT !.expired = TRUE]
  <2>2. i \in DOMAIN codes[u][p] /\ codes[u][p] \in Seq(CodeRow)
    BY DEF Unused, Base, Types
  <2>3. codes[u][p][i] \in CodeRow
    BY <2>2, SeqElement
  <2>4. g \in CodeRow
    BY <2>3, CodeUpdated
  <2>5. codes' = [codes EXCEPT ![u][p][i] = g] /\ g = [codes[u][p][i] EXCEPT !.expired = TRUE]
    BY <2>1
  <2>6. UNCHANGED <<users, outbox, proof>>
    BY <1>8 DEF ExpireCode, history
  <2> HIDE DEF g
  <2> QED BY <1>2, <2>2, <2>4, <2>5, <2>6
<1>9. CASE CooldownEnds \/ \E t \in DOMAIN tokens : ExpireToken(t)
  BY <1>1, <1>9 DEF CooldownEnds, ExpireToken, tables, history
<1> QED BY <1>3, <1>4, <1>5, <1>6, <1>7, <1>8, <1>9 DEF Next

\* The rows of a purpose after a code was issued: the fresh one is the only
\* unused one.
LEMMA IssuedRows ==
    ASSUME Base, NEW w \in Workers, IssueAndCommit(w)
    PROVE  LET u == req[w].user
               p == PurposeOf(w)
               n == Len(codes[u][p]) + 1
           IN  /\ \A x \in Users, q \in Purposes : (x # u \/ q # p) => codes'[x][q] = codes[x][q]
               /\ n \in DOMAIN codes'[u][p]
               /\ codes'[u][p][n].guesses = 0 /\ codes'[u][p][n].attempts = Attempts
               /\ codes'[u][p][n].for = users'[u].password
               /\ \A j \in DOMAIN codes'[u][p] \ {n} :
                     /\ j \in DOMAIN codes[u][p] /\ codes'[u][p][j].used
                     /\ codes'[u][p][j].guesses = codes[u][p][j].guesses
                     /\ codes'[u][p][j].attempts = codes[u][p][j].attempts
<1> DEFINE u == req[w].user
           p == PurposeOf(w)
           n == Len(codes[u][p]) + 1
           pw == IF req[w].op = "register" THEN req[w].arg ELSE users[u].password
           rows == codes[u][p]
           next == invalidateAndIssueCode(rows, pw)
<1>1. /\ u \in Users /\ p \in Purposes /\ pw \in Passwords /\ users'[u].password = pw
      /\ codes' = [codes EXCEPT ![u][p] = next]
  BY IssueFacts
<1>2. codes \in [Users -> [Purposes -> Seq(CodeRow)]] /\ rows \in Seq(CodeRow)
  BY <1>1 DEF Base, Types
<1>8. n = Len(rows) + 1 /\ rows = codes[u][p]
  OBVIOUS
<1> HIDE DEF u, p, n, pw, rows
<1>3. /\ next \in Seq(CodeRow) /\ Len(next) = n
      /\ \A j \in DOMAIN rows : next[j] = [rows[j] EXCEPT !.used = TRUE]
      /\ next[n] = [attempts |-> Attempts, guesses |-> 0, used |-> FALSE,
                    expired |-> FALSE, for |-> pw]
  BY <1>1, <1>2, <1>8, CodeIssued
<1> HIDE DEF next
<1>4. DOMAIN rows = 1 .. n - 1 /\ DOMAIN next = 1 .. n /\ n \in Nat \ {0}
  <2>1. Len(rows) \in Nat /\ DOMAIN rows = 1 .. Len(rows)
    BY <1>2
  <2>2. DOMAIN next = 1 .. Len(next)
    BY <1>3
  <2> QED BY <1>3, <1>8, <2>1, <2>2
<1>5. codes'[u][p] = next
      /\ \A x \in Users, q \in Purposes : (x # u \/ q # p) => codes'[x][q] = codes[x][q]
  BY <1>1, <1>2
<1>6. /\ n \in DOMAIN next /\ next[n].guesses = 0 /\ next[n].attempts = Attempts
      /\ next[n].for = pw
  BY <1>3, <1>4
<1>7. ASSUME NEW j \in DOMAIN next \ {n}
      PROVE  /\ j \in DOMAIN codes[u][p] /\ next[j].used
             /\ next[j].guesses = codes[u][p][j].guesses
             /\ next[j].attempts = codes[u][p][j].attempts
  <2>1. j \in DOMAIN rows
    BY <1>4
  <2>2. rows[j] \in CodeRow /\ next[j] = [rows[j] EXCEPT !.used = TRUE]
    BY <1>2, <1>3, <2>1, SeqElement
  <2>3. next[j].used /\ next[j].guesses = rows[j].guesses
        /\ next[j].attempts = rows[j].attempts
    BY <2>2 DEF CodeRow
  <2> QED BY <1>8, <2>1, <2>3
<1>9. /\ \A x \in Users, q \in Purposes : x # u \/ q # p => codes'[x][q] = codes[x][q]
      /\ n \in DOMAIN codes'[u][p]
      /\ codes'[u][p][n].guesses = 0 /\ codes'[u][p][n].attempts = Attempts
      /\ codes'[u][p][n].for = users'[u].password
      /\ \A j \in DOMAIN codes'[u][p] \ {n} :
            /\ j \in DOMAIN codes[u][p] /\ codes'[u][p][j].used
            /\ codes'[u][p][j].guesses = codes[u][p][j].guesses
            /\ codes'[u][p][j].attempts = codes[u][p][j].attempts
  BY <1>1, <1>5, <1>6, <1>7
<1> QED BY <1>9 DEF u, p, n

\* The rows after a code was used.
LEMMA AppliedRows ==
    ASSUME Base, NEW w \in Workers, verifyEmailCode(w) \/ resetPassword(w)
    PROVE  LET u == req[w].user
               p == PurposeOf(w)
               i == req[w].row
           IN  /\ \A x \in Users, q \in Purposes : DOMAIN codes'[x][q] = DOMAIN codes[x][q]
               /\ i \in Unused(u, p) /\ codes'[u][p][i].used
               /\ \A x \in Users, q \in Purposes : \A j \in DOMAIN codes[x][q] :
                    /\ (x # u \/ q # p \/ j # i) => codes'[x][q][j].used = codes[x][q][j].used
                    /\ codes'[x][q][j].for = codes[x][q][j].for
                    /\ codes'[x][q][j].guesses = codes[x][q][j].guesses
                    /\ codes'[x][q][j].attempts = codes[x][q][j].attempts
<1> DEFINE u == req[w].user
           p == PurposeOf(w)
           i == req[w].row
           R == [codes[u][p][i] EXCEPT !.used = TRUE]
<1>1. /\ u \in Users /\ p \in Purposes /\ i \in DOMAIN codes[u][p] /\ ~codes[u][p][i].used
      /\ codes[u][p][i] \in CodeRow /\ codes' = [codes EXCEPT ![u][p][i] = R] /\ Types
  BY ApplyFacts DEF Base
<1>2. R \in CodeRow
  BY <1>1, CodeUpdated
<1>3. /\ R.used /\ R.for = codes[u][p][i].for /\ R.guesses = codes[u][p][i].guesses
      /\ R.attempts = codes[u][p][i].attempts
  BY <1>1 DEF CodeRow
<1> HIDE DEF u, p, i, R
<1>4. \A x \in Users, q \in Purposes : DOMAIN codes'[x][q] = DOMAIN codes[x][q]
  BY <1>1, <1>2, CodeReplaced
<1>5. codes'[u][p][i] = R
  <2>1. /\ u \in Users /\ p \in Purposes /\ i \in DOMAIN codes[u][p] /\ Types
        /\ codes' = [codes EXCEPT ![u][p][i] = R]
    BY <1>1
  <2> QED BY <1>2, <2>1, CodeReplaced
<1>6. \A x \in Users, q \in Purposes : \A j \in DOMAIN codes[x][q] :
         (x # u \/ q # p \/ j # i) => codes'[x][q][j] = codes[x][q][j]
  BY <1>1, <1>2, CodeReplaced
<1>7. i \in Unused(u, p)
  BY <1>1 DEF Unused
<1>8. ASSUME NEW x \in Users, NEW q \in Purposes, NEW j \in DOMAIN codes[x][q]
      PROVE  /\ (x # u \/ q # p \/ j # i) => codes'[x][q][j].used = codes[x][q][j].used
             /\ codes'[x][q][j].for = codes[x][q][j].for
             /\ codes'[x][q][j].guesses = codes[x][q][j].guesses
             /\ codes'[x][q][j].attempts = codes[x][q][j].attempts
  <2>1. CASE x = u /\ q = p /\ j = i
    BY <1>3, <1>5, <2>1
  <2>2. CASE x # u \/ q # p \/ j # i
    BY <1>6, <2>2
  <2> QED BY <2>1, <2>2
<1>9. codes'[u][p][i].used
  BY <1>3, <1>5
<1> QED BY <1>4, <1>7, <1>8, <1>9 DEF u, p, i

\* The sum is kept.
LEMMA GuessesStep ==
    ASSUME Base, GuessesSpend, [Next]_vars
    PROVE  GuessesSpend'
<1>1. CASE Untold
  BY <1>1 DEF Untold, GuessesSpend
<1>2. ASSUME NEW w \in Workers, IssueAndCommit(w) PROVE GuessesSpend'
  <2> DEFINE u == req[w].user
             p == PurposeOf(w)
             n == Len(codes[u][p]) + 1
  <2>1. /\ \A x \in Users, q \in Purposes : (x # u \/ q # p) => codes'[x][q] = codes[x][q]
        /\ codes'[u][p][n].guesses = 0 /\ codes'[u][p][n].attempts = Attempts
        /\ \A j \in DOMAIN codes'[u][p] \ {n} :
              /\ j \in DOMAIN codes[u][p]
              /\ codes'[u][p][j].guesses = codes[u][p][j].guesses
              /\ codes'[u][p][j].attempts = codes[u][p][j].attempts
    BY <1>2, IssuedRows
  <2> HIDE DEF u, p, n
  <2> QED BY <2>1, AuthAssumption DEF GuessesSpend
<1>3. ASSUME NEW w \in Workers, verifyEmailCode(w) \/ resetPassword(w) PROVE GuessesSpend'
  BY <1>3, AppliedRows DEF GuessesSpend
<1>4. ASSUME NEW w \in Workers, updateProfile(w) PROVE GuessesSpend'
  BY <1>4 DEF updateProfile, GuessesSpend
<1> QED BY <1>1, <1>2, <1>3, <1>4, TableSteps

\* However many requests guess at a code, they have its attempts between them:
\* the row is locked from the test of the budget to the decrement.
THEOREM GuessesAreBounded == Spec => []GuessesBounded
<1>1. Init => GuessesSpend
  BY DEF Init, GuessesSpend
<1>2. Base /\ GuessesSpend /\ [Next]_vars => GuessesSpend'
  BY GuessesStep
<1>3. ASSUME Base, GuessesSpend PROVE GuessesBounded
  <2> SUFFICES ASSUME NEW u \in Users, NEW p \in Purposes, NEW i \in DOMAIN codes[u][p]
               PROVE  codes[u][p][i].guesses <= Attempts
    BY DEF GuessesBounded
  <2>1. codes[u][p] \in Seq(CodeRow)
    BY <1>3 DEF Base, Types
  <2>2. codes[u][p][i] \in CodeRow
    BY <2>1, SeqElement
  <2>3. codes[u][p][i].attempts \in 0 .. Attempts /\ codes[u][p][i].guesses \in Nat
    BY <2>2 DEF CodeRow
  <2>4. codes[u][p][i].guesses + codes[u][p][i].attempts = Attempts
    BY <1>3 DEF GuessesSpend
  <2> QED BY <2>3, <2>4, AuthAssumption
<1> QED BY <1>1, <1>2, <1>3, SpecBase, PTL DEF Spec

\* What the four transactions do to the users table and to the proofs.
LEMMA UserFacts ==
    ASSUME Base, NEW w \in Workers, verifyEmailCode(w) \/ resetPassword(w)
    PROVE  LET u == req[w].user IN
           /\ u \in Users /\ users[u].status # None
           /\ \A x \in Users \ {u} : users'[x] = users[x] /\ proof'[x] = proof[x]
           /\ users'[u].name = users[u].name /\ proof[u] \subseteq proof'[u]
           /\ verifyEmailCode(w) =>
                /\ users'[u].status = "active" /\ users'[u].password = users[u].password
                /\ codes[u]["email_verify"][req[w].row].for \in proof'[u]
                /\ PurposeOf(w) = "email_verify"
           /\ resetPassword(w) =>
                /\ users'[u].status = users[u].status /\ users'[u].password \in proof'[u]
                /\ PurposeOf(w) = "password_reset"
<1> DEFINE u == req[w].user
<1>1. /\ u \in Users /\ PurposeOf(w) \in Purposes
      /\ req[w].row \in DOMAIN codes[u][PurposeOf(w)]
      /\ verifyEmailCode(w) => PurposeOf(w) = "email_verify"
      /\ resetPassword(w) => PurposeOf(w) = "password_reset" /\ req[w].arg[2] \in Passwords
  BY ApplyFacts
<1>2. users[u].status # None
  BY <1>1 DEF Base, Registered
<1>3. users \in [Users -> UserRow] /\ proof \in [Users -> SUBSET Passwords]
  BY DEF Base, Types
<1>4. CASE verifyEmailCode(w)
  <2>1. /\ users' = [users EXCEPT ![u].status = "active"]
        /\ proof' = [proof EXCEPT ![u] = @ \cup {codes[u]["email_verify"][req[w].row].for}]
    BY <1>4 DEF verifyEmailCode
  <2> HIDE DEF u
  <2>2. /\ users'[u].status = "active" /\ users'[u].password = users[u].password
        /\ users'[u].name = users[u].name /\ \A x \in Users \ {u} : users'[x] = users[x]
    BY <1>1, <1>3, <2>1, UserActivated
  <2>3. /\ codes[u]["email_verify"][req[w].row].for \in proof'[u] /\ proof[u] \subseteq proof'[u]
        /\ \A x \in Users \ {u} : proof'[x] = proof[x]
    BY <1>1, <1>3, <2>1
  <2>4. ~resetPassword(w)
    BY <1>1, <1>4
  <2> QED BY <1>1, <1>2, <1>4, <2>2, <2>3, <2>4 DEF u
<1>5. CASE resetPassword(w)
  <2> DEFINE pw == req[w].arg[2]
  <2>1. /\ users' = [users EXCEPT ![u].password = pw] /\ pw \in Passwords
        /\ proof' = [proof EXCEPT ![u] = @ \cup {pw}]
    BY <1>1, <1>5 DEF resetPassword
  <2> HIDE DEF u, pw
  <2>2. /\ users'[u].password = pw /\ users'[u].status = users[u].status
        /\ users'[u].name = users[u].name /\ \A x \in Users \ {u} : users'[x] = users[x]
    <3>1. users' = [users EXCEPT ![u].password = pw] /\ pw \in Passwords
      BY <2>1
    <3> QED BY <1>1, <1>3, <3>1, PasswordChanged
  <2>3. /\ pw \in proof'[u] /\ proof[u] \subseteq proof'[u]
        /\ \A x \in Users \ {u} : proof'[x] = proof[x]
    BY <1>1, <1>3, <2>1
  <2>4. ~verifyEmailCode(w)
    BY <1>1, <1>5
  <2> QED BY <1>1, <1>2, <1>5, <2>2, <2>3, <2>4 DEF u
<1> QED BY <1>4, <1>5

\* The purpose of a request that issues a code.
LEMMA IssuePurpose ==
    ASSUME Base, NEW w \in Workers, IssueAndCommit(w)
    PROVE  LET u == req[w].user IN
           /\ u \in Users /\ PurposeOf(w) \in Purposes
           /\ \A x \in Users \ {u} : users'[x] = users[x]
           /\ users'[u].name = users[u].name
           /\ users'[u].status = "active" <=> users[u].status = "active"
           /\ \/ PurposeOf(w) = "email_verify" /\ users[u].status # "active"
              \/ PurposeOf(w) = "password_reset" /\ users' = users
           /\ proof' = proof /\ outbox' = outbox
<1> DEFINE u == req[w].user
<1>1. /\ u \in Users /\ PurposeOf(w) \in Purposes
      /\ req[w].at = "issue" /\ req[w].op \in {"register", "resend", "forgot"}
      /\ \A x \in Users \ {u} : users'[x] = users[x]
      /\ req[w].op # "register" => users' = users
      /\ users'[u].name = users[u].name
      /\ users'[u].status = IF users[u].status = None
                              THEN "pending_verification" ELSE users[u].status
  BY IssueFacts
<1>2. /\ req[w].op = "register" => users[u].status # "active"
      /\ req[w].op = "resend" => users[u].status = "pending_verification"
  BY <1>1 DEF Base, Holds
<1>3. /\ req[w].op = "forgot" => PurposeOf(w) = "password_reset"
      /\ req[w].op \in {"register", "resend"} => PurposeOf(w) = "email_verify"
  BY DEF PurposeOf, Op
<1>4. proof' = proof /\ outbox' = outbox
  BY DEF IssueAndCommit, history
<1>5. users'[u].status = "active" <=> users[u].status = "active"
  BY <1>1, NoneFacts
<1> QED BY <1>1, <1>2, <1>3, <1>4, <1>5

\* The codes in the mail prove the password of their user.
LEMMA ProofStep ==
    ASSUME Base, CodesProve, ActivationIsProven, [Next]_vars
    PROVE  CodesProve' /\ ActivationIsProven'
<1> DEFINE e == "email_verify"
<1>0. e \in Purposes
  BY DEF Purposes
<1>1. CASE Untold
  BY <1>0, <1>1 DEF Untold, CodesProve, ActivationIsProven, Unused
<1>2. ASSUME NEW w \in Workers, IssueAndCommit(w) PROVE CodesProve' /\ ActivationIsProven'
  <2> DEFINE u == req[w].user
             p == PurposeOf(w)
             n == Len(codes[u][p]) + 1
  <2>1. /\ \A x \in Users, q \in Purposes : (x # u \/ q # p) => codes'[x][q] = codes[x][q]
        /\ codes'[u][p][n].for = users'[u].password
        /\ \A j \in DOMAIN codes'[u][p] \ {n} : codes'[u][p][j].used
    BY <1>2, IssuedRows
  <2>2. /\ u \in Users /\ \A x \in Users \ {u} : users'[x] = users[x]
        /\ users'[u].status = "active" <=> users[u].status = "active"
        /\ \/ p = e /\ users[u].status # "active"
           \/ p = "password_reset" /\ users' = users
        /\ proof' = proof
    BY <1>2, IssuePurpose
  <2> HIDE DEF u, p, n
  <2>3. ActivationIsProven'
    BY <2>2 DEF ActivationIsProven
  <2>4. CodesProve'
    BY <1>0, <2>1, <2>2 DEF CodesProve, Unused
  <2> QED BY <2>3, <2>4
<1>3. ASSUME NEW w \in Workers, verifyEmailCode(w) \/ resetPassword(w)
      PROVE  CodesProve' /\ ActivationIsProven'
  <2> DEFINE u == req[w].user
             i == req[w].row
  <2>1. /\ u \in Users
        /\ \A x \in Users \ {u} : users'[x] = users[x] /\ proof'[x] = proof[x]
        /\ proof[u] \subseteq proof'[u]
        /\ verifyEmailCode(w) =>
             /\ users'[u].password = users[u].password
             /\ codes[u][e][i].for \in proof'[u] /\ PurposeOf(w) = e
        /\ resetPassword(w) =>
             users'[u].status = users[u].status /\ users'[u].password \in proof'[u]
    BY <1>3, UserFacts
  <2>2. /\ i \in Unused(u, PurposeOf(w))
        /\ \A x \in Users : DOMAIN codes'[x][e] = DOMAIN codes[x][e]
        /\ \A x \in Users : \A j \in DOMAIN codes[x][e] :
             /\ ~codes'[x][e][j].used => ~codes[x][e][j].used
             /\ codes'[x][e][j].for = codes[x][e][j].for
    <3>1. i \in Unused(u, PurposeOf(w)) /\ codes'[u][PurposeOf(w)][i].used
      BY <1>3, AppliedRows
    <3>2. \A x \in Users : DOMAIN codes'[x][e] = DOMAIN codes[x][e]
      BY <1>0, <1>3, AppliedRows
    <3>3. \A x \in Users : \A j \in DOMAIN codes[x][e] :
            /\ (x # u \/ e # PurposeOf(w) \/ j # i) =>
                  codes'[x][e][j].used = codes[x][e][j].used
            /\ codes'[x][e][j].for = codes[x][e][j].for
      BY <1>0, <1>3, AppliedRows
    <3> HIDE DEF u, i, e
    <3> QED BY <3>1, <3>2, <3>3
  <2> HIDE DEF u, i
  <2>3. users'[u].password \in proof'[u]
    BY <1>3, <2>1, <2>2 DEF CodesProve
  <2>4. ActivationIsProven'
    BY <2>1, <2>3 DEF ActivationIsProven
  <2>5. CodesProve'
    BY <2>1, <2>2, <2>3 DEF CodesProve, Unused
  <2> QED BY <2>4, <2>5
<1>4. ASSUME NEW w \in Workers, updateProfile(w) PROVE CodesProve' /\ ActivationIsProven'
  <2>1. /\ \A x \in Users : users'[x].status = users[x].status /\ users'[x].password = users[x].password
        /\ codes' = codes /\ proof' = proof
    BY <1>4, ProfileBase DEF updateProfile, history
  <2> QED BY <2>1 DEF CodesProve, ActivationIsProven, Unused
<1> QED BY <1>1, <1>2, <1>3, <1>4, TableSteps

\* The password of an active account is one its mailbox vouches for, however
\* registrations, verifications and resets of the account interleave.
THEOREM ActivationProof == Spec => []ActivationIsProven
<1>1. Init => CodesProve /\ ActivationIsProven
  BY NoneFacts DEF Init, CodesProve, ActivationIsProven, Unused, Purposes
<1>2. Base /\ CodesProve /\ ActivationIsProven /\ [Next]_vars => CodesProve' /\ ActivationIsProven'
  BY ProofStep
<1> QED BY <1>1, <1>2, SpecBase, PTL DEF Spec

\* One live e-mail code at most, and none for an active user.
LEMMA SpentStep ==
    ASSUME Base, CodesAreSpent, [Next]_vars
    PROVE  CodesAreSpent'
<1> DEFINE e == "email_verify"
<1>0. e \in Purposes
  BY DEF Purposes
<1>1. CASE Untold
  <2>1. \A x \in Users : Unused(x, e)' = Unused(x, e)
    BY <1>0, <1>1 DEF Untold, Unused
  <2> QED BY <1>1, <2>1 DEF Untold, CodesAreSpent
<1>2. ASSUME NEW w \in Workers, IssueAndCommit(w) PROVE CodesAreSpent'
  <2> DEFINE u == req[w].user
             p == PurposeOf(w)
             n == Len(codes[u][p]) + 1
  <2>1. /\ \A x \in Users, q \in Purposes : (x # u \/ q # p) => codes'[x][q] = codes[x][q]
        /\ \A j \in DOMAIN codes'[u][p] \ {n} : codes'[u][p][j].used
    BY <1>2, IssuedRows
  <2>2. /\ u \in Users /\ \A x \in Users \ {u} : users'[x] = users[x]
        /\ users'[u].status = "active" <=> users[u].status = "active"
        /\ \/ p = e /\ users[u].status # "active"
           \/ p = "password_reset" /\ users' = users
    BY <1>2, IssuePurpose
  <2> HIDE DEF u, p, n
  <2>3. \A x \in Users : Unused(x, e)' # Unused(x, e) =>
          x = u /\ p = e /\ \A i \in Unused(x, e)' : i = n
    BY <1>0, <2>1 DEF Unused
  <2> QED BY <2>2, <2>3 DEF CodesAreSpent
<1>3. ASSUME NEW w \in Workers, verifyEmailCode(w) \/ resetPassword(w) PROVE CodesAreSpent'
  <2> DEFINE u == req[w].user
             i == req[w].row
  <2>1. /\ u \in Users /\ \A x \in Users \ {u} : users'[x] = users[x]
        /\ verifyEmailCode(w) => PurposeOf(w) = e
        /\ resetPassword(w) => users'[u].status = users[u].status
    BY <1>3, UserFacts
  <2>2. /\ i \in Unused(u, PurposeOf(w)) /\ codes'[u][PurposeOf(w)][i].used
        /\ \A x \in Users : DOMAIN codes'[x][e] = DOMAIN codes[x][e]
        /\ \A x \in Users : \A j \in DOMAIN codes[x][e] :
             ~codes'[x][e][j].used => ~codes[x][e][j].used
    <3>1. i \in Unused(u, PurposeOf(w)) /\ codes'[u][PurposeOf(w)][i].used
      BY <1>3, AppliedRows
    <3>2. \A x \in Users : DOMAIN codes'[x][e] = DOMAIN codes[x][e]
      BY <1>0, <1>3, AppliedRows
    <3>3. \A x \in Users : \A j \in DOMAIN codes[x][e] :
            (x # u \/ e # PurposeOf(w) \/ j # i) =>
               codes'[x][e][j].used = codes[x][e][j].used
      BY <1>0, <1>3, AppliedRows
    <3> HIDE DEF u, i, e
    <3> QED BY <3>1, <3>2, <3>3
  <2> HIDE DEF u, i
  <2>3. \A x \in Users : Unused(x, e)' \subseteq Unused(x, e)
    BY <2>2 DEF Unused
  <2>4. verifyEmailCode(w) => \A j \in Unused(u, e) : j = i
    BY <2>1, <2>2 DEF CodesAreSpent
  <2>5. ASSUME verifyEmailCode(w), NEW j \in {k \in DOMAIN codes'[u][e] : ~codes'[u][e][k].used}
        PROVE  FALSE
    BY <2>1, <2>2, <2>4, <2>5 DEF Unused
  <2>6. ASSUME NEW x \in Users, users'[x].status = "active" PROVE Unused(x, e)' = {}
    <3>1. CASE x = u /\ verifyEmailCode(w)
      BY <2>5, <3>1 DEF Unused
    <3>2. CASE x # u \/ resetPassword(w)
      BY <2>1, <2>3, <2>6, <3>2 DEF CodesAreSpent
    <3> QED BY <1>3, <3>1, <3>2
  <2> QED BY <2>3, <2>6 DEF CodesAreSpent
<1>4. ASSUME NEW w \in Workers, updateProfile(w) PROVE CodesAreSpent'
  <2>1. (\A x \in Users : users'[x].status = users[x].status) /\ codes' = codes
    BY <1>4, ProfileBase DEF updateProfile
  <2> QED BY <2>1 DEF CodesAreSpent, Unused
<1> QED BY <1>1, <1>2, <1>3, <1>4, TableSteps

\* One event more.
LEMMA AnnouncedMore ==
    ASSUME outbox \in Seq(EventRow), NEW ev \in EventRow, outbox' = Append(outbox, ev)
    PROVE  /\ Len(outbox) \in Nat
           /\ \A x \in Users, type \in {"UserActivated", "ProfileUpdated"} :
                /\ \A k \in Announced(x, type) : k <= Len(outbox) /\ k \in Nat
                /\ Announced(x, type)' =
                     Announced(x, type) \cup
                       (IF ev.user = x /\ ev.type = type THEN {Len(outbox) + 1} ELSE {})
           /\ \A k \in 1 .. Len(outbox) : outbox'[k] = outbox[k]
           /\ outbox'[Len(outbox) + 1] = ev
<1>1. /\ Len(outbox) \in Nat /\ DOMAIN outbox = 1 .. Len(outbox)
      /\ DOMAIN outbox' = 1 .. Len(outbox) + 1
      /\ \A k \in 1 .. Len(outbox) : outbox'[k] = outbox[k]
      /\ outbox'[Len(outbox) + 1] = ev
  OBVIOUS
<1>2. 1 .. Len(outbox) + 1 = (1 .. Len(outbox)) \cup {Len(outbox) + 1}
  BY <1>1
<1>3. ASSUME NEW x \in Users, NEW type \in {"UserActivated", "ProfileUpdated"}
      PROVE  /\ \A k \in Announced(x, type) : k <= Len(outbox) /\ k \in Nat
             /\ Announced(x, type)' =
                  Announced(x, type) \cup
                    (IF ev.user = x /\ ev.type = type THEN {Len(outbox) + 1} ELSE {})
  BY <1>1, <1>2 DEF Announced
<1> QED BY <1>1, <1>3

\* The outbox says what the users table says.
LEMMA OutboxStep ==
    ASSUME Base, CodesAreSpent, OutboxTellsUsers, [Next]_vars
    PROVE  OutboxTellsUsers'
<1> DEFINE types == {"UserActivated", "ProfileUpdated"}
           Told(x) == /\ users[x].status = "active" <=> Announced(x, "UserActivated") # {}
                      /\ \A i, j \in Announced(x, "UserActivated") : i = j
                      /\ Announced(x, "ProfileUpdated") = {} => users[x].name = None
                      /\ \A i \in Announced(x, "ProfileUpdated") :
                           (\A j \in Announced(x, "ProfileUpdated") : j <= i)
                             => users[x].name = outbox[i].name
<1>1. /\ OutboxTellsUsers <=> \A x \in Users : Told(x)
      /\ OutboxTellsUsers' <=> \A x \in Users : Told(x)'
  BY DEF OutboxTellsUsers
<1>2. outbox \in Seq(EventRow) /\ users \in [Users -> UserRow]
  BY DEF Base, Types
<1>3. ASSUME outbox' = outbox,
             \A x \in Users : /\ users'[x].name = users[x].name
                              /\ users'[x].status = "active" <=> users[x].status = "active"
      PROVE  OutboxTellsUsers'
  <2>2. ASSUME NEW x \in Users PROVE Told(x)'
    <3>1. Told(x)
      BY <1>1
    <3>4. /\ Announced(x, "UserActivated")' = Announced(x, "UserActivated")
          /\ Announced(x, "ProfileUpdated")' = Announced(x, "ProfileUpdated")
      BY <1>3 DEF Announced
    <3>5. users'[x].name = users[x].name /\ (users'[x].status = "active" <=> users[x].status = "active")
      BY <1>3
    <3>2. /\ users'[x].status = "active" <=> Announced(x, "UserActivated")' # {}
          /\ \A i, j \in Announced(x, "UserActivated")' : i = j
      BY <3>1, <3>4, <3>5
    <3>3. /\ Announced(x, "ProfileUpdated")' = {} => users'[x].name = None
          /\ \A i \in Announced(x, "ProfileUpdated")' :
               (\A j \in Announced(x, "ProfileUpdated")' : j <= i)
                  => users'[x].name = outbox'[i].name
      BY <1>3, <3>1, <3>4, <3>5
    <3> QED BY <3>2, <3>3
  <2> QED BY <1>1, <2>2
<1>4. CASE Untold
  BY <1>3, <1>4 DEF Untold
<1>5. ASSUME NEW w \in Workers, IssueAndCommit(w) PROVE OutboxTellsUsers'
  BY <1>3, <1>5, IssuePurpose
<1>6. ASSUME NEW w \in Workers, resetPassword(w) PROVE OutboxTellsUsers'
  <2>1. outbox' = outbox
    BY <1>6 DEF resetPassword
  <2> QED BY <1>3, <1>6, <2>1, UserFacts
<1>7. ASSUME NEW w \in Workers, verifyEmailCode(w) PROVE OutboxTellsUsers'
  <2> DEFINE u == req[w].user
             ev == [type |-> "UserActivated", user |-> u, name |-> None]
  <2>1. /\ u \in Users /\ \A x \in Users \ {u} : users'[x] = users[x]
        /\ users'[u].status = "active" /\ users'[u].name = users[u].name
        /\ PurposeOf(w) = "email_verify"
    BY <1>7, UserFacts
  <2>2. users[u].status # "active"
    BY <1>7, <2>1, AppliedRows DEF CodesAreSpent
  <2>3. outbox' = Append(outbox, ev) /\ ev \in EventRow /\ ev.user = u
        /\ ev.type = "UserActivated"
    BY <1>7, <2>1 DEF verifyEmailCode, ActivatedEvent, EventRow
  <2> HIDE DEF u, ev
  <2>4. /\ Len(outbox) \in Nat
        /\ \A x \in Users, type \in types :
              \A k \in Announced(x, type) : k <= Len(outbox) /\ k \in Nat
        /\ \A x \in Users, type \in types :
              Announced(x, type)' = Announced(x, type) \cup
                       (IF ev.user = x /\ ev.type = type THEN {Len(outbox) + 1} ELSE {})
        /\ \A k \in 1 .. Len(outbox) : outbox'[k] = outbox[k]
    BY <1>2, <2>3, AnnouncedMore
  <2>5. \A x \in Users : \A k \in Announced(x, "ProfileUpdated") : outbox'[k] = outbox[k]
    BY <1>2, <2>4 DEF Announced
  <2>6. /\ \A x \in Users : Announced(x, "ProfileUpdated")' = Announced(x, "ProfileUpdated")
        /\ \A x \in Users \ {u} : Announced(x, "UserActivated")' = Announced(x, "UserActivated")
        /\ Announced(u, "UserActivated") = {}
    <3>1. \A x \in Users : Announced(x, "ProfileUpdated")' = Announced(x, "ProfileUpdated")
      BY <2>3, <2>4
    <3>2. \A x \in Users \ {u} : Announced(x, "UserActivated")' = Announced(x, "UserActivated")
      BY <2>3, <2>4
    <3>3. Announced(u, "UserActivated") = {}
      BY <2>1, <2>2 DEF OutboxTellsUsers
    <3> QED BY <3>1, <3>2, <3>3
  <2>7. \A k \in {k \in DOMAIN outbox' : outbox'[k].user = u /\ outbox'[k].type = "UserActivated"} :
           k = Len(outbox) + 1
    BY <2>1, <2>3, <2>4, <2>6 DEF Announced
  <2>8. Len(outbox) + 1 \in
          {k \in DOMAIN outbox' : outbox'[k].user = u /\ outbox'[k].type = "UserActivated"}
    BY <1>2, <2>1, <2>3, AnnouncedMore DEF EventRow
  <2>9. ASSUME NEW x \in Users PROVE Told(x)'
    <3>1. Told(x) /\ users'[x].name = users[x].name
      BY <1>1, <2>1
    <3>2. /\ Announced(x, "ProfileUpdated")' = {} => users'[x].name = None
          /\ \A i \in Announced(x, "ProfileUpdated")' :
               (\A j \in Announced(x, "ProfileUpdated")' : j <= i)
                  => users'[x].name = outbox'[i].name
      BY <2>5, <2>6, <3>1
    <3>3. /\ users'[x].status = "active" <=> Announced(x, "UserActivated")' # {}
          /\ \A i, j \in Announced(x, "UserActivated")' : i = j
      <4>1. CASE x # u
        BY <2>1, <2>6, <3>1, <4>1
      <4>2. CASE x = u
        BY <2>1, <2>7, <2>8, <4>2 DEF Announced
      <4> QED BY <4>1, <4>2
    <3> QED BY <3>2, <3>3
  <2> QED BY <1>1, <2>9
<1>8. ASSUME NEW w \in Workers, updateProfile(w) PROVE OutboxTellsUsers'
  <2> DEFINE u == req[w].user
             n == req[w].arg
             ev == [type |-> "ProfileUpdated", user |-> u, name |-> n]
  <2>1. /\ u \in Users /\ n \in Names \cup {None} /\ \A x \in Users \ {u} : users'[x] = users[x]
        /\ users'[u].status = users[u].status /\ users'[u].name = n
    BY <1>8, ProfileBase
  <2>2. outbox' = Append(outbox, ev) /\ ev \in EventRow /\ ev.user = u
        /\ ev.type = "ProfileUpdated" /\ ev.name = n
    BY <1>8, <2>1 DEF updateProfile, EventRow
  <2> HIDE DEF u, n, ev
  <2>3. /\ Len(outbox) \in Nat
        /\ \A x \in Users, type \in types :
              \A k \in Announced(x, type) : k <= Len(outbox) /\ k \in Nat
        /\ \A x \in Users, type \in types :
              Announced(x, type)' = Announced(x, type) \cup
                       (IF ev.user = x /\ ev.type = type THEN {Len(outbox) + 1} ELSE {})
        /\ \A k \in 1 .. Len(outbox) : outbox'[k] = outbox[k]
        /\ outbox'[Len(outbox) + 1] = ev
    BY <1>2, <2>2, AnnouncedMore
  <2>4. \A x \in Users : \A k \in Announced(x, "ProfileUpdated") : outbox'[k] = outbox[k]
    BY <1>2, <2>3 DEF Announced
  <2>5. ASSUME NEW x \in Users PROVE Told(x)'
    <3>1. Told(x)
      BY <1>1
    <3>2. /\ users'[x].status = users[x].status
          /\ Announced(x, "UserActivated")' = Announced(x, "UserActivated")
      BY <2>1, <2>2, <2>3
    <3>3. /\ Announced(x, "ProfileUpdated")' = {} => users'[x].name = None
          /\ \A i \in Announced(x, "ProfileUpdated")' :
               (\A j \in Announced(x, "ProfileUpdated")' : j <= i)
                  => users'[x].name = outbox'[i].name
      <4>1. CASE x # u
        <5>1. /\ Announced(x, "ProfileUpdated")' = Announced(x, "ProfileUpdated")
              /\ users'[x] = users[x]
          <6>1. ev.user # x /\ users'[x] = users[x]
            BY <2>1, <2>2, <4>1
          <6>2. Announced(x, "ProfileUpdated")' = Announced(x, "ProfileUpdated") \cup {}
            BY <2>3, <6>1
          <6> QED BY <6>1, <6>2
        <5> QED BY <2>4, <3>1, <5>1
      <4>2. CASE x = u
        <5>1. Announced(x, "ProfileUpdated")' =
                Announced(x, "ProfileUpdated") \cup {Len(outbox) + 1}
          BY <2>1, <2>2, <2>3, <4>2
        <5>2. ASSUME NEW i \in Announced(x, "ProfileUpdated")',
                     \A j \in Announced(x, "ProfileUpdated")' : j <= i
              PROVE  i = Len(outbox) + 1
          BY <2>3, <5>1, <5>2
        <5> QED BY <2>1, <2>2, <2>3, <4>2, <5>1, <5>2
      <4> QED BY <4>1, <4>2
    <3> QED BY <3>1, <3>2, <3>3
  <2> QED BY <1>1, <2>5
<1> QED BY <1>4, <1>5, <1>6, <1>7, <1>8, TableSteps

\* auth_outbox announces each activation once and the names in the order the
\* row had them, because the event is written while the row is locked.
THEOREM OutboxIsTrue == Spec => []OutboxTellsUsers
<1>1. Init => CodesAreSpent /\ OutboxTellsUsers
  BY NoneFacts DEF Init, CodesAreSpent, OutboxTellsUsers, Announced, Unused, Purposes
<1>2. Base /\ CodesAreSpent /\ OutboxTellsUsers /\ [Next]_vars => CodesAreSpent' /\ OutboxTellsUsers'
  BY SpentStep, OutboxStep
<1> QED BY <1>1, <1>2, SpecBase, PTL DEF Spec

-----------------------------------------------------------------------------
(***************************************************************************)
(* Sessions: refresh tokens and their revocation.                          *)
(***************************************************************************)

\* A token is gone before its entry in the set is removed.
Consumed == \A w \in Workers : req[w].at = "srem" => req[w].row \notin refresh

\* What a revocation has not listed, and what it may not see because it is
\* being rotated.
RevocationsSee ==
    /\ \A w \in Workers : req[w].at = "del" =>
          /\ req[w].row <= Len(tokens)
          /\ \A t \in LiveOf(req[w].user) : t \notin req[w].listed => t \in escaped
    /\ \A u \in Users : revoked[u] <= Len(tokens)
    /\ \A u \in Users : \A w \in Rotating(u) :
          req[w].row \notin escaped => tokens[req[w].row].session > revoked[u]

SessionSteps == {"del", "srem", "find", "mint"}

\* A step the sessions do not see.
Sessionless ==
    /\ UNCHANGED <<tokens, refresh, userRefresh, revoked, escaped, logins>>
    /\ \A v \in Workers : req'[v].at \in SessionSteps => req'[v] = req[v]

\* Seven steps of a request, and the expiry of a token, concern sessions.
LEMMA TokenSteps ==
    ASSUME Base, [Next]_vars
    PROVE  \/ Sessionless
           \/ \E w \in Workers :
                \/ ListTokens(w) \/ revokeAllUserRefreshTokens(w) \/ authenticateUser(w)
                \/ GetDelToken(w) \/ RemoveFromSet(w) \/ consumeRefreshToken(w)
                \/ issueTokenPair(w)
           \/ \E t \in DOMAIN tokens : ExpireToken(t)
<1>0. Types
  BY DEF Base
<1>1. ASSUME req' = req, UNCHANGED <<tokens, refresh, userRefresh, revoked, escaped, logins>>
      PROVE  Sessionless
  BY <1>1 DEF Sessionless
<1>2. ASSUME NEW w \in Workers, Answer(w),
             UNCHANGED <<tokens, refresh, userRefresh, revoked, escaped, logins>>
      PROVE  Sessionless
  <2>1. req'[w].at = None /\ \A v \in Workers \ {w} : req'[v] = req[v]
    BY <1>0, <1>2, Answered DEF Idle
  <2>2. None \notin SessionSteps
    BY NoneFacts DEF SessionSteps, Steps
  <2> QED BY <1>2, <2>1, <2>2 DEF Sessionless
<1>3. ASSUME NEW w \in Workers, NEW step \in Steps \ SessionSteps, Goto(w, step),
             UNCHANGED <<tokens, refresh, userRefresh, revoked, escaped, logins>>
      PROVE  Sessionless
  <2>1. req'[w].at = step /\ \A v \in Workers \ {w} : req'[v] = req[v]
    BY <1>0, <1>3, WentOn
  <2> QED BY <1>3, <2>1 DEF Sessionless
<1>4. {"insert", "issue", "take", "compare", "apply", "list", "event"} \subseteq Steps \ SessionSteps
  BY DEF Steps, SessionSteps
<1>5. CASE UNCHANGED vars
  BY <1>1, <1>5 DEF vars, redis, history
<1>6. ASSUME NEW w \in Workers, Handle(w) PROVE Sessionless
  <2>1. ASSUME NEW op, NEW u, NEW step \in {"select", "pick", "authenticate", "getdel", "update"},
               NEW x, NEW r, Begin(w, op, u, step, x, r),
               UNCHANGED <<tokens, refresh, userRefresh, revoked, escaped, logins>>
        PROVE  Sessionless
    <3>1. req'[w].at = step /\ \A v \in Workers \ {w} : req'[v] = req[v]
      BY <1>0, <2>1 DEF Begin, Types
    <3> QED BY <2>1, <3>1 DEF Sessionless, SessionSteps
  <2> QED BY <1>6, <2>1 DEF Handle, registerHandler, loginHandler, resendVerificationHandler,
     forgotPasswordHandler, verifyEmailHandler, resetPasswordHandler, updateProfileHandler,
     refreshHandler, logoutHandler, redis, history
<1>7. ASSUME NEW w \in Workers,
             \/ registerUserAndIssueCode(w) \/ InsertUser(w) \/ resendVerificationCode(w)
             \/ issuePasswordResetCode(w) \/ LockProfile(w)
      PROVE  Sessionless
  <2>1. /\ UNCHANGED <<tokens, refresh, userRefresh, revoked, escaped, logins>>
        /\ Answer(w) \/ Goto(w, "insert") \/ Goto(w, "issue") \/ Goto(w, "event")
    BY <1>7 DEF registerUserAndIssueCode, InsertUser, resendVerificationCode,
       issuePasswordResetCode, LockProfile, redis, history
  <2> QED BY <1>2, <1>3, <1>4, <2>1
<1>8. ASSUME NEW w \in Workers, IssueAndCommit(w) \/ Fail(w) \/ updateProfile(w)
      PROVE  Sessionless
  BY <1>2, <1>8 DEF IssueAndCommit, Fail, updateProfile, redis, history
<1>9. ASSUME NEW w \in Workers, PickCode(w) PROVE Sessionless
  <2>1. UNCHANGED <<tokens, refresh, userRefresh, revoked, escaped, logins>>
    BY <1>9 DEF PickCode, redis, history
  <2>2. CASE Answer(w)
    BY <1>2, <2>1, <2>2
  <2>3. ASSUME NEW i, req' = [req EXCEPT ![w].at = "take", ![w].row = i] PROVE Sessionless
    <3>1. req \in [Workers -> Request]
      BY <1>0 DEF Types
    <3>2. req'[w].at = "take" /\ \A v \in Workers \ {w} : req'[v] = req[v]
      BY <2>3, <3>1 DEF Request
    <3> QED BY <2>1, <3>2 DEF Sessionless, SessionSteps
  <2> QED BY <1>9, <2>2, <2>3 DEF PickCode
<1>10. ASSUME NEW w \in Workers, consumeVerificationCode(w) PROVE Sessionless
  <2>1. UNCHANGED <<tokens, refresh, userRefresh, revoked, escaped, logins>>
    BY <1>10 DEF consumeVerificationCode, redis, history
  <2>2. Answer(w) \/ Goto(w, "apply")
    BY <1>10, ConsumeFacts
  <2> QED BY <1>2, <1>3, <1>4, <2>1, <2>2
<1>11. ASSUME NEW w \in Workers, verifyEmailCode(w) \/ resetPassword(w) PROVE Sessionless
  <2>1. UNCHANGED <<tokens, refresh, userRefresh, revoked, escaped, logins>>
        /\ (Answer(w) \/ Goto(w, "list"))
    BY <1>11 DEF verifyEmailCode, resetPassword, redis
  <2> QED BY <1>2, <1>3, <1>4, <2>1
<1>12. CASE CooldownEnds \/ \E u \in Users, p \in Purposes : ExpireCode(u, p)
  BY <1>1, <1>12 DEF CooldownEnds, ExpireCode, redis, history
<1>13. ASSUME NEW w \in Workers, LockCode(w) PROVE Sessionless
  <2>1. UNCHANGED <<tokens, refresh, userRefresh, revoked, escaped, logins>>
    BY <1>13 DEF LockCode, redis, history
  <2>2. Answer(w) \/ Goto(w, "compare")
    BY <1>13, LockCodeFacts
  <2> QED BY <1>2, <1>3, <1>4, <2>1, <2>2
<1> QED BY <1>5, <1>6, <1>7, <1>8, <1>9, <1>10, <1>11, <1>12, <1>13 DEF Next, Step

\* What issuing a token does.
LEMMA MintFacts ==
    ASSUME Base, NEW w \in Workers, issueTokenPair(w)
    PROVE  LET u == req[w].user
               n == Len(tokens) + 1
           IN  /\ u \in Users /\ req[w].at = "mint" /\ Len(tokens) \in Nat
               /\ req[w].op \in {"login", "refresh"}
               /\ Len(tokens') = n /\ tokens'[n].owner = u
               /\ tokens'[n].session = IF req[w].op = "refresh" /\ req[w].row \notin escaped
                                        THEN tokens[req[w].row].session ELSE n
               /\ escaped' = IF Revoking(u) THEN escaped \cup {n} ELSE escaped
               /\ DOMAIN tokens = 1 .. Len(tokens)
               /\ \A t \in DOMAIN tokens : tokens'[t] = tokens[t]
               /\ refresh' = refresh \cup {n}
               /\ \A x \in Users : userRefresh'[x] =
                     userRefresh[x] \cup (IF x = u THEN {n} ELSE {})
<1> DEFINE u == req[w].user
           s == IF req[w].op = "refresh" /\ req[w].row \notin escaped
                  THEN tokens[req[w].row].session ELSE Len(tokens) + 1
           t == [owner |-> u, session |-> s]
<1>1. /\ req[w].at = "mint" /\ tokens' = Append(tokens, t)
      /\ refresh' = refresh \cup {Len(tokens) + 1}
      /\ userRefresh' = [userRefresh EXCEPT ![u] = @ \cup {Len(tokens) + 1}]
      /\ escaped' = IF Revoking(u) THEN escaped \cup {Len(tokens) + 1} ELSE escaped
  BY DEF issueTokenPair, At, Op, Tracked
<1>2. OpsAt("mint") = {"login", "refresh"} /\ "mint" # None
  BY NoneFacts DEF OpsAt, Steps
<1>3. u \in Users /\ req[w].op \in {"login", "refresh"}
  BY <1>1, <1>2 DEF Base, Fits
<1>4. /\ tokens \in Seq([owner : Users, session : Nat])
      /\ tokens' \in Seq([owner : Users, session : Nat])
      /\ userRefresh \in [Users -> SUBSET (DOMAIN tokens)]
  BY SessionBase DEF Base, Types
<1>5. t.owner = u /\ t.session = s
  OBVIOUS
<1> HIDE DEF u, t, s
<1>6. /\ Len(tokens) \in Nat /\ Len(tokens') = Len(tokens) + 1
      /\ tokens'[Len(tokens) + 1] = t /\ DOMAIN tokens = 1 .. Len(tokens)
      /\ \A k \in DOMAIN tokens : tokens'[k] = tokens[k]
  BY <1>1, <1>4
<1>7. \A x \in Users : userRefresh'[x] =
         userRefresh[x] \cup (IF x = u THEN {Len(tokens) + 1} ELSE {})
  BY <1>1, <1>3, <1>4
<1> QED BY <1>1, <1>3, <1>5, <1>6, <1>7 DEF u, s

\* A request that is done, or goes on to a step that lists nothing.
LEMMA OthersList ==
    ASSUME Base, NEW w \in Workers, Answer(w) \/ Goto(w, "srem") \/ Goto(w, "find") \/ Goto(w, "mint")
    PROVE  /\ \A v \in Workers \ {w} : req'[v] = req[v]
           /\ req'[w].at # "del"
<1>1. Types /\ {"srem", "find", "mint", "del"} \subseteq Steps
  BY DEF Base, Steps
<1>2. CASE Answer(w)
  BY <1>1, <1>2, Answered, NoneFacts DEF Idle
<1> QED BY <1>1, <1>2, WentOn

\* Tokens do not come back.
LEMMA ConsumedStep ==
    ASSUME Base, Consumed, [Next]_vars
    PROVE  Consumed'
<1>0. /\ refresh \subseteq DOMAIN tokens /\ Types /\ tokens \in Seq([owner : Users, session : Nat])
      /\ {"srem", "find", "mint", "del"} \subseteq Steps
  BY DEF Base, Types, Steps
<1>1. ASSUME refresh' \subseteq refresh,
             \A v \in Workers : req'[v].at = "srem" => req'[v] = req[v]
      PROVE  Consumed'
  BY <1>1 DEF Consumed
<1>2. ASSUME NEW w \in Workers, req'[w].at # "srem", \A v \in Workers \ {w} : req'[v] = req[v]
      PROVE  \A v \in Workers : req'[v].at = "srem" => req'[v] = req[v]
  BY <1>2
<1>3. ASSUME NEW w \in Workers, Answer(w) PROVE req'[w].at # "srem"
  BY <1>0, <1>3, Answered, NoneFacts DEF Idle
<1>4. CASE Sessionless
  BY <1>1, <1>4 DEF Sessionless, SessionSteps
<1>5. ASSUME NEW w \in Workers, ListTokens(w) PROVE Consumed'
  <2>1. req'[w].at # "srem" /\ (\A v \in Workers \ {w} : req'[v] = req[v]) /\ refresh' = refresh
    BY <1>5, ListFacts DEF ListTokens, redis
  <2> QED BY <1>1, <1>2, <2>1
<1>6. ASSUME NEW w \in Workers, Answer(w) \/ Goto(w, "find") \/ Goto(w, "mint"),
             refresh' \subseteq refresh
      PROVE  Consumed'
  <2>1. (\A v \in Workers \ {w} : req'[v] = req[v])
    BY <1>6, OthersList
  <2>2. req'[w].at # "srem"
    BY <1>0, <1>3, <1>6, WentOn
  <2> QED BY <1>1, <1>2, <1>6, <2>1, <2>2
<1>7. ASSUME NEW w \in Workers,
             \/ revokeAllUserRefreshTokens(w) \/ authenticateUser(w) \/ RemoveFromSet(w)
             \/ consumeRefreshToken(w)
      PROVE  Consumed'
  <2>1. refresh' \subseteq refresh /\ (Answer(w) \/ Goto(w, "find") \/ Goto(w, "mint"))
    BY <1>7 DEF revokeAllUserRefreshTokens, authenticateUser, RemoveFromSet,
       consumeRefreshToken, redis
  <2> QED BY <1>6, <2>1
<1>8. ASSUME NEW w \in Workers, GetDelToken(w) PROVE Consumed'
  <2>1. CASE Answer(w) /\ UNCHANGED refresh
    BY <1>6, <2>1
  <2>2. CASE refresh' = refresh \ {req[w].row} /\ Goto(w, "srem")
    <3>1. (\A v \in Workers \ {w} : req'[v] = req[v]) /\ req'[w].row = req[w].row
      BY <1>0, <2>2, WentOn
    <3> QED BY <2>2, <3>1 DEF Consumed
  <2> QED BY <1>8, <2>1, <2>2 DEF GetDelToken, Popped
<1>9. ASSUME NEW w \in Workers, issueTokenPair(w) PROVE Consumed'
  <2>1. /\ refresh' = refresh \cup {Len(tokens) + 1} /\ Answer(w)
        /\ DOMAIN tokens = 1 .. Len(tokens) /\ Len(tokens) \in Nat
    BY <1>9, MintFacts DEF issueTokenPair
  <2>2. (\A v \in Workers \ {w} : req'[v] = req[v]) /\ req'[w].at # "srem"
    BY <1>3, <2>1, OthersList
  <2>3. \A v \in Workers : req[v].at = "srem" => req[v].row \in DOMAIN tokens
    BY NoneFacts DEF Base, Fits, Steps
  <2> QED BY <2>1, <2>2, <2>3 DEF Consumed
<1>10. ASSUME NEW t \in DOMAIN tokens, ExpireToken(t) PROVE Consumed'
  BY <1>1, <1>10 DEF ExpireToken
<1> QED BY <1>4, <1>5, <1>7, <1>8, <1>9, <1>10, TokenSteps

\* A refresh under way that was under way before, with the same token.
LEMMA StillRotating ==
    ASSUME Base, RevocationsSee, NEW w \in Workers, tokens' = tokens, escaped' = escaped,
           revoked' = revoked, \A v \in Workers \ {w} : req'[v] = req[v],
           \A u : w \in Rotating(u)' => w \in Rotating(u) /\ req'[w].row = req[w].row
    PROVE  \A u \in Users : \A v \in Rotating(u)' :
              req'[v].row \notin escaped' => tokens'[req'[v].row].session > revoked'[u]
<1> SUFFICES ASSUME NEW u \in Users, NEW v \in Rotating(u)', req'[v].row \notin escaped'
             PROVE  tokens'[req'[v].row].session > revoked'[u]
  OBVIOUS
<1>1. v \in Rotating(u) /\ req'[v].row = req[v].row
  BY DEF Rotating, Op
<1> QED BY <1>1 DEF RevocationsSee

\* A revocation finds what is in the set, and a session that is being rotated
\* while it runs is known to have escaped it.
LEMMA RevocationStep ==
    ASSUME Base, Consumed, RevocationsSee, RevocationReaches, [Next]_vars
    PROVE  RevocationsSee' /\ RevocationReaches'
<1>0. /\ tokens \in Seq([owner : Users, session : Nat]) /\ Len(tokens) \in Nat
      /\ refresh \subseteq DOMAIN tokens /\ DOMAIN tokens = 1 .. Len(tokens)
      /\ userRefresh \in [Users -> SUBSET (DOMAIN tokens)] /\ revoked \in [Users -> Nat]
      /\ req \in [Workers -> Request] /\ escaped \subseteq DOMAIN tokens
  BY DEF Base, Types
<1>1. ASSUME tokens' = tokens, escaped' = escaped, refresh' \subseteq refresh, revoked' = revoked,
             \A u \in Users : \A t \in LiveOf(u)' : t \in userRefresh[u] => t \in userRefresh'[u],
             \A v \in Workers : req'[v].at = "del" => req'[v] = req[v],
             \A u \in Users : \A v \in Rotating(u)' :
                req'[v].row \notin escaped' => tokens'[req'[v].row].session > revoked'[u]
      PROVE  RevocationsSee' /\ RevocationReaches'
  <2>1. \A u : LiveOf(u)' \subseteq LiveOf(u)
    BY <1>1 DEF LiveOf
  <2>2. ASSUME NEW v \in Workers, req'[v].at = "del"
        PROVE  /\ req'[v].row <= Len(tokens')
               /\ \A t \in refresh' : tokens'[t].owner = req'[v].user =>
                     (t \notin req'[v].listed => t \in escaped')
    BY <1>1, <2>2 DEF RevocationsSee, LiveOf
  <2>3. RevocationsSee'
    BY <1>1, <2>2 DEF RevocationsSee, LiveOf
  <2>4. RevocationReaches'
    BY <1>1, <2>1 DEF RevocationReaches
  <2> QED BY <2>3, <2>4
<1>2. CASE Sessionless
  <2>1. \A v \in Workers : req'[v].at = "del" => req'[v] = req[v]
    BY <1>2 DEF Sessionless, SessionSteps
  <2>2. ASSUME NEW u \in Users, NEW v \in Rotating(u)', req'[v].row \notin escaped'
        PROVE  tokens'[req'[v].row].session > revoked'[u]
    <3>1. v \in Workers /\ req'[v].at \in SessionSteps
      BY DEF Rotating, SessionSteps
    <3>2. req'[v] = req[v] /\ tokens' = tokens /\ escaped' = escaped /\ revoked' = revoked
      BY <1>2, <3>1 DEF Sessionless
    <3>3. v \in Rotating(u)
      BY <3>2 DEF Rotating, Op
    <3> QED BY <2>2, <3>2, <3>3 DEF RevocationsSee
  <2> QED BY <1>1, <1>2, <2>1, <2>2 DEF Sessionless
<1>3. ASSUME NEW w \in Workers, ListTokens(w)
      PROVE  RevocationsSee' /\ RevocationReaches'
  <2>1. /\ req[w].user \in Users /\ \A v \in Workers \ {w} : req'[v] = req[v]
        /\ req'[w].at = "del" /\ req'[w].user = req[w].user /\ req'[w].row = Len(tokens)
        /\ req'[w].listed = userRefresh[req[w].user]
    BY <1>3, ListFacts
  <2>2. UNCHANGED <<tokens, refresh, userRefresh, revoked, escaped>>
    BY <1>3 DEF ListTokens, redis, history
  <2>3. RevocationReaches'
    BY <2>2 DEF RevocationReaches, LiveOf
  <2>4. ASSUME NEW v \in Workers, req'[v].at = "del"
        PROVE  /\ req'[v].row <= Len(tokens')
               /\ \A t \in refresh' : tokens'[t].owner = req'[v].user =>
                     (t \notin req'[v].listed => t \in escaped')
    <3>1. CASE v = w
      BY <1>0, <2>1, <2>2, <3>1 DEF RevocationReaches, LiveOf
    <3>2. CASE v # w
      BY <2>1, <2>2, <2>4, <3>2 DEF RevocationsSee, LiveOf
    <3> QED BY <3>1, <3>2
  <2>5. \A u : w \notin Rotating(u)'
    BY <2>1 DEF Rotating
  <2>6. \A u \in Users : \A v \in Rotating(u)' :
           req'[v].row \notin escaped' => tokens'[req'[v].row].session > revoked'[u]
    BY <2>1, <2>2, <2>5, StillRotating
  <2>7. RevocationsSee'
    BY <2>2, <2>4, <2>6 DEF RevocationsSee, LiveOf
  <2> QED BY <2>3, <2>7
<1>4. ASSUME NEW w \in Workers, revokeAllUserRefreshTokens(w)
      PROVE  RevocationsSee' /\ RevocationReaches'
  <2> DEFINE u == req[w].user
             n == req[w].row
  <2>1. /\ req[w].at = "del" /\ Answer(w) /\ tokens' = tokens
        /\ refresh' = refresh \ req[w].listed
        /\ userRefresh' = [userRefresh EXCEPT ![u] = {}]
        /\ revoked' = [revoked EXCEPT ![u] = IF @ < n THEN n ELSE @]
        /\ escaped' = escaped \cup {req[v].row : v \in Rotating(u)}
    BY <1>4 DEF revokeAllUserRefreshTokens, At
  <2>2. u \in Users
    BY <2>1, NoneFacts DEF Base, Fits, Steps
  <2>3. n \in Nat /\ n <= Len(tokens)
    BY <1>0, <2>1 DEF Request, RevocationsSee
  <2>4. (\A v \in Workers \ {w} : req'[v] = req[v]) /\ req'[w].at # "del" /\ req'[w] = Idle
    <3>1. req'[w] = Idle
      BY <2>1, Answered DEF Base
    <3> QED BY <2>1, <3>1, OthersList
  <2>5. \A t \in refresh' : tokens[t].owner = u => t \in escaped
    BY <2>1 DEF RevocationsSee, LiveOf
  <2>11. \A x, v : v \in Rotating(x)' => v \in Rotating(x) /\ req'[v] = req[v]
    <3>1. Idle.at \notin {"srem", "find", "mint"}
      BY NoneFacts DEF Idle, Steps
    <3> QED BY <2>4, <3>1 DEF Rotating, Op
  <2> HIDE DEF u, n
  <2>6. /\ \A x \in Users \ {u} : userRefresh'[x] = userRefresh[x] /\ revoked'[x] = revoked[x]
        /\ revoked'[u] <= Len(tokens)
    <3>1. revoked[u] \in Nat /\ revoked[u] <= Len(tokens)
      BY <1>0, <2>2 DEF RevocationsSee
    <3> QED BY <1>0, <2>1, <2>2, <2>3, <3>1
  <2>7. ASSUME NEW x \in Users, NEW t \in refresh', tokens'[t].owner = x
        PROVE  /\ tokens'[t].session <= revoked'[x] => t \in escaped'
               /\ t \notin userRefresh'[x] => t \in escaped'
    <3>1. CASE x = u
      BY <2>1, <2>5, <2>7, <3>1
    <3>2. CASE x # u
      BY <2>1, <2>6, <2>7, <3>2 DEF RevocationReaches, LiveOf
    <3> QED BY <3>1, <3>2
  <2>8. ASSUME NEW v \in Workers, req'[v].at = "del"
        PROVE  /\ req'[v].row <= Len(tokens')
               /\ \A t \in refresh' : tokens'[t].owner = req'[v].user =>
                     (t \notin req'[v].listed => t \in escaped')
    BY <2>1, <2>4, <2>8 DEF RevocationsSee, LiveOf
  <2>12. ASSUME NEW x \in Users, NEW v \in Rotating(x)', req'[v].row \notin escaped'
         PROVE  tokens'[req'[v].row].session > revoked'[x]
    <3>1. v \in Rotating(x) /\ req'[v] = req[v]
      BY <2>11
    <3>2. x # u /\ req[v].row \notin escaped
      BY <2>1, <2>12, <3>1
    <3> QED BY <2>1, <2>6, <3>1, <3>2 DEF RevocationsSee
  <2>9. RevocationsSee'
    <3>1. \A x \in Users : revoked'[x] <= Len(tokens')
      BY <2>1, <2>6 DEF RevocationsSee
    <3> QED BY <2>8, <2>12, <3>1 DEF RevocationsSee, LiveOf
  <2>10. RevocationReaches'
    BY <2>7 DEF RevocationReaches, LiveOf
  <2> QED BY <2>9, <2>10
<1>5. ASSUME NEW w \in Workers, authenticateUser(w) \/ consumeRefreshToken(w)
      PROVE  RevocationsSee' /\ RevocationReaches'
  <2>1. /\ UNCHANGED <<tokens, refresh, userRefresh, revoked, escaped>>
        /\ Answer(w) \/ (Goto(w, "mint") /\ req[w].at \in {"authenticate", "find"})
    BY <1>5 DEF authenticateUser, consumeRefreshToken, redis, history, At
  <2>2. (\A v \in Workers \ {w} : req'[v] = req[v]) /\ req'[w].at # "del"
    BY <2>1, OthersList
  <2>3. \A u : w \in Rotating(u)' => w \in Rotating(u) /\ req'[w].row = req[w].row
    <3>1. CASE Answer(w)
      <4>1. req'[w] = Idle /\ Idle.at \notin {"srem", "find", "mint"}
        BY <3>1, Answered, NoneFacts DEF Base, Idle, Steps
      <4> QED BY <4>1 DEF Rotating
    <3>2. CASE Goto(w, "mint") /\ req[w].at \in {"authenticate", "find"}
      <4>1. req'[w].op = req[w].op /\ req'[w].user = req[w].user /\ req'[w].row = req[w].row
        BY <3>2, WentOn DEF Base, Steps
      <4>2. req[w].at = "authenticate" => req[w].op = "login"
        BY NoneFacts DEF Base, Fits, OpsAt, Steps
      <4> QED BY <3>2, <4>1, <4>2 DEF Rotating, Op
    <3> QED BY <2>1, <3>1, <3>2
  <2>4. \A u \in Users : \A v \in Rotating(u)' :
           req'[v].row \notin escaped' => tokens'[req'[v].row].session > revoked'[u]
    BY <2>1, <2>2, <2>3, StillRotating
  <2> QED BY <1>1, <2>1, <2>2, <2>4
<1>6. ASSUME NEW w \in Workers, GetDelToken(w)
      PROVE  RevocationsSee' /\ RevocationReaches'
  <2>1. /\ UNCHANGED <<tokens, userRefresh, revoked, escaped>> /\ refresh' \subseteq refresh
        /\ Answer(w) \/ (Goto(w, "srem") /\ req[w].row \in refresh)
        /\ req[w].at = "getdel"
    BY <1>6 DEF GetDelToken, Popped, history, At
  <2>2. (\A v \in Workers \ {w} : req'[v] = req[v]) /\ req'[w].at # "del"
    BY <2>1, OthersList
  <2>3. tokens[req[w].row].owner = req[w].user
    BY <2>1, NoneFacts DEF Base, Fits, Steps
  <2>4. ASSUME NEW u \in Users, NEW v \in Rotating(u)', req'[v].row \notin escaped'
        PROVE  tokens'[req'[v].row].session > revoked'[u]
    <3>1. CASE v # w
      <4>1. v \in Rotating(u) /\ req'[v] = req[v]
        BY <2>2, <3>1 DEF Rotating, Op
      <4> QED BY <2>1, <2>4, <4>1 DEF RevocationsSee
    <3>2. CASE v = w
      <4>1. Goto(w, "srem") /\ req[w].row \in refresh
        <5>1. Idle.at \notin {"srem", "find", "mint"}
          BY NoneFacts DEF Idle, Steps
        <5>2. req'[w] # Idle
          BY <3>2, <5>1 DEF Rotating
        <5> QED BY <2>1, <5>2, Answered DEF Base
      <4>2. req'[w].user = req[w].user /\ req'[w].row = req[w].row
        BY <4>1, WentOn DEF Base, Steps
      <4>3. req[w].user = u
        BY <3>2, <4>2 DEF Rotating
      <4>4. ~(tokens[req[w].row].session <= revoked[u])
        BY <2>1, <2>3, <2>4, <3>2, <4>1, <4>2, <4>3 DEF RevocationReaches, LiveOf
      <4>5. tokens[req[w].row] \in [owner : Users, session : Nat] /\ revoked[u] \in Nat
        BY <1>0, <4>1, SeqElement
      <4>6. tokens[req[w].row].session \in Nat
        BY <4>5
      <4>7. tokens[req[w].row].session > revoked[u]
        BY <4>4, <4>5, <4>6
      <4> QED BY <2>1, <3>2, <4>2, <4>7
    <3> QED BY <3>1, <3>2
  <2> QED BY <1>1, <2>1, <2>2, <2>4
<1>7. ASSUME NEW w \in Workers, RemoveFromSet(w)
      PROVE  RevocationsSee' /\ RevocationReaches'
  <2>1. /\ UNCHANGED <<tokens, refresh, revoked, escaped>>
        /\ userRefresh' = [userRefresh EXCEPT ![req[w].user] = @ \ {req[w].row}]
        /\ Answer(w) \/ Goto(w, "find")
        /\ req[w].at = "srem"
    BY <1>7 DEF RemoveFromSet, history, At
  <2>2. (\A v \in Workers \ {w} : req'[v] = req[v]) /\ req'[w].at # "del"
    BY <2>1, OthersList
  <2>3. \A u \in Users : \A t \in refresh' : t \in userRefresh[u] => t \in userRefresh'[u]
    <3>1. req[w].row \notin refresh
      BY <2>1 DEF Consumed
    <3> QED BY <1>0, <2>1, <3>1
  <2>4. \A u \in Users : \A t \in LiveOf(u)' : t \in userRefresh[u] => t \in userRefresh'[u]
    BY <2>3 DEF LiveOf
  <2>5. \A u : w \in Rotating(u)' => w \in Rotating(u) /\ req'[w].row = req[w].row
    <3>1. CASE Answer(w)
      <4>1. req'[w] = Idle /\ Idle.at \notin {"srem", "find", "mint"}
        BY <3>1, Answered, NoneFacts DEF Base, Idle, Steps
      <4> QED BY <4>1 DEF Rotating
    <3>2. CASE Goto(w, "find")
      <4>1. req'[w].op = req[w].op /\ req'[w].user = req[w].user /\ req'[w].row = req[w].row
        BY <3>2, WentOn DEF Base, Steps
      <4> QED BY <2>1, <4>1 DEF Rotating, Op
    <3> QED BY <2>1, <3>1, <3>2
  <2>6. \A u \in Users : \A v \in Rotating(u)' :
           req'[v].row \notin escaped' => tokens'[req'[v].row].session > revoked'[u]
    BY <2>1, <2>2, <2>5, StillRotating
  <2> QED BY <1>1, <2>1, <2>2, <2>4, <2>6
<1>8. ASSUME NEW w \in Workers, issueTokenPair(w)
      PROVE  RevocationsSee' /\ RevocationReaches'
  <2> DEFINE u == req[w].user
             n == Len(tokens) + 1
  <2>1. /\ u \in Users /\ Len(tokens') = n /\ tokens'[n].owner = u
        /\ tokens'[n].session = IF req[w].op = "refresh" /\ req[w].row \notin escaped
                                  THEN tokens[req[w].row].session ELSE n
        /\ escaped' = IF Revoking(u) THEN escaped \cup {n} ELSE escaped
        /\ \A t \in DOMAIN tokens : tokens'[t] = tokens[t]
        /\ refresh' = refresh \cup {n}
        /\ \A x \in Users : userRefresh'[x] = userRefresh[x] \cup (IF x = u THEN {n} ELSE {})
        /\ req[w].at = "mint"
    BY <1>8, MintFacts
  <2>2. Answer(w) /\ revoked' = revoked
    BY <1>8 DEF issueTokenPair
  <2>3. (\A v \in Workers \ {w} : req'[v] = req[v]) /\ req'[w].at # "del" /\ req'[w] = Idle
    <3>1. req'[w] = Idle
      BY <2>2, Answered DEF Base
    <3> QED BY <2>2, <3>1, OthersList
  <2>4. n \in Nat /\ Len(tokens) < n /\ \A t \in refresh : t \in DOMAIN tokens
    BY <1>0
  <2>9. tokens'[n].session > revoked[u]
    <3>1. revoked[u] \in Nat /\ revoked[u] <= Len(tokens)
      BY <1>0, <2>1 DEF RevocationsSee
    <3>2. CASE req[w].op = "refresh" /\ req[w].row \notin escaped
      <4>1. w \in Rotating(u)
        BY <2>1, <3>2 DEF Rotating, Op
      <4> QED BY <2>1, <3>2, <4>1 DEF RevocationsSee
    <3>3. CASE ~(req[w].op = "refresh" /\ req[w].row \notin escaped)
      BY <1>0, <2>1, <3>1, <3>3
    <3> QED BY <3>2, <3>3
  <2>11. \A x, v : v \in Rotating(x)' => v \in Rotating(x) /\ req'[v] = req[v]
    <3>1. Idle.at \notin {"srem", "find", "mint"}
      BY NoneFacts DEF Idle, Steps
    <3> QED BY <2>3, <3>1 DEF Rotating, Op
  <2> HIDE DEF u, n
  <2>5. ASSUME NEW v \in Workers, req'[v].at = "del"
        PROVE  /\ req'[v].row <= Len(tokens')
               /\ \A t \in refresh' : tokens'[t].owner = req'[v].user =>
                     (t \notin req'[v].listed => t \in escaped')
    <3>1. v # w /\ req'[v] = req[v] /\ req[v].at = "del"
      BY <2>3, <2>5
    <3>2. req[v].row <= Len(tokens) /\ req[v].row \in Nat
      BY <1>0, <3>1 DEF RevocationsSee, Request
    <3>3. req[v].user = u => n \in escaped'
      BY <2>1, <3>1 DEF Revoking, At
    <3>4. \A t \in refresh : tokens[t].owner = req[v].user =>
             (t \notin req[v].listed => t \in escaped)
      BY <3>1 DEF RevocationsSee, LiveOf
    <3>5. req'[v].row <= Len(tokens')
      BY <1>0, <2>1, <2>4, <3>1, <3>2
    <3>6. ASSUME NEW t \in refresh', tokens'[t].owner = req'[v].user, t \notin req'[v].listed
          PROVE  t \in escaped'
      <4>1. CASE t = n
        BY <2>1, <3>1, <3>3, <3>6, <4>1
      <4>2. CASE t \in refresh
        <5>1. tokens'[t] = tokens[t] /\ (t \in escaped => t \in escaped')
          BY <2>1, <2>4, <4>2
        <5> QED BY <3>1, <3>4, <3>6, <4>2, <5>1
      <4> QED BY <2>1, <4>1, <4>2
    <3> QED BY <3>5, <3>6
  <2>12. ASSUME NEW x \in Users, NEW v \in Rotating(x)', req'[v].row \notin escaped'
         PROVE  tokens'[req'[v].row].session > revoked'[x]
    <3>1. v \in Rotating(x) /\ req'[v] = req[v]
      BY <2>11
    <3>2. req[v].row \in DOMAIN tokens
      BY <3>1, RotatingRow
    <3>3. req[v].row \notin escaped /\ tokens'[req[v].row] = tokens[req[v].row]
      BY <2>1, <2>12, <3>1, <3>2
    <3>4. tokens[req[v].row].session > revoked[x]
      BY <3>1, <3>3 DEF RevocationsSee
    <3> QED BY <2>2, <3>1, <3>3, <3>4
  <2>6. RevocationsSee'
    <3>1. \A x \in Users : revoked'[x] <= Len(tokens')
      BY <1>0, <2>1, <2>2, <2>4 DEF RevocationsSee
    <3> QED BY <2>5, <2>12, <3>1 DEF RevocationsSee, LiveOf
  <2>7. ASSUME NEW x \in Users, NEW t \in refresh', tokens'[t].owner = x
        PROVE  /\ tokens'[t].session <= revoked'[x] => t \in escaped'
               /\ t \notin userRefresh'[x] => t \in escaped'
    <3>1. CASE t = n
      <4>2. x = u /\ n \in userRefresh'[x]
        BY <2>1, <2>7, <3>1
      <4>3. ~(tokens'[n].session <= revoked'[x])
        <5>1. tokens'[n] \in [owner : Users, session : Nat] /\ revoked[u] \in Nat
          <6>1. tokens' \in Seq([owner : Users, session : Nat])
            BY <1>8, SessionBase DEF Base, Types
          <6>2. n \in DOMAIN tokens'
            BY <2>1, <2>4, <6>1
          <6>3. tokens'[n] \in [owner : Users, session : Nat]
            BY <6>1, <6>2, SeqElement
          <6>4. revoked[u] \in Nat
            BY <1>0, <2>1
          <6> QED BY <6>3, <6>4
        <5>2. tokens'[n].session \in Nat
          BY <5>1
        <5> QED BY <2>2, <2>9, <4>2, <5>1, <5>2
      <4> QED BY <3>1, <4>2, <4>3
    <3>2. CASE t \in refresh
      <4>1. tokens'[t] = tokens[t] /\ (t \in escaped => t \in escaped')
        BY <2>1, <2>4, <3>2
      <4>2. t \in userRefresh[x] => t \in userRefresh'[x]
        BY <2>1
      <4> QED BY <2>2, <2>7, <3>2, <4>1, <4>2 DEF RevocationReaches, LiveOf
    <3> QED BY <2>1, <3>1, <3>2
  <2>8. RevocationReaches'
    BY <2>7 DEF RevocationReaches, LiveOf
  <2> QED BY <2>6, <2>8
<1>9. ASSUME NEW t \in DOMAIN tokens, ExpireToken(t)
      PROVE  RevocationsSee' /\ RevocationReaches'
  <2>1. UNCHANGED <<tokens, userRefresh, revoked, escaped, req>> /\ refresh' \subseteq refresh
    BY <1>9 DEF ExpireToken, history
  <2>2. ASSUME NEW u \in Users, NEW v \in Rotating(u)', req'[v].row \notin escaped'
        PROVE  tokens'[req'[v].row].session > revoked'[u]
    <3>1. v \in Rotating(u)
      BY <2>1 DEF Rotating, Op
    <3> QED BY <2>1, <2>2, <3>1 DEF RevocationsSee
  <2> QED BY <1>1, <2>1, <2>2
<1> QED BY <1>2, <1>3, <1>4, <1>5, <1>6, <1>7, <1>8, <1>9, TokenSteps

\* A password reset ends the sessions opened before it listed the tokens, but
\* for the tokens issued between its SMEMBERS and its DEL; a session it may
\* have overlooked in mid-rotation is one that the next reset ends.
THEOREM RevocationIsSound == Spec => []RevocationReaches
<1>1. Init => Consumed /\ RevocationsSee /\ RevocationReaches
  <2> SUFFICES ASSUME Init PROVE Consumed /\ RevocationsSee /\ RevocationReaches
    OBVIOUS
  <2>1. \A w \in Workers : req[w].at \notin SessionSteps
    BY NoneFacts DEF Init, Idle, Steps, SessionSteps
  <2>2. tokens = <<>> /\ refresh = {} /\ \A u \in Users : revoked[u] = 0
    BY DEF Init
  <2> QED BY <2>1, <2>2 DEF Consumed, RevocationsSee, RevocationReaches, LiveOf,
     SessionSteps, Rotating
<1>2. Base /\ Consumed /\ RevocationsSee /\ RevocationReaches /\ [Next]_vars
        => Consumed' /\ RevocationsSee' /\ RevocationReaches'
  BY ConsumedStep, RevocationStep
<1> QED BY <1>1, <1>2, SpecBase, PTL DEF Spec

\* The requests of a user that hold a session on its way to the next token.
Busy(u) == {w \in Workers : Op(w, {"login", "refresh"}) /\ req[w].user = u
                           /\ req[w].at \in {"srem", "find", "mint"}}

\* A set that lost an element, or gained at most one.
LEMMA OneMoves ==
    ASSUME NEW S, IsFiniteSet(S), NEW x, NEW T
    PROVE  /\ Cardinality(S) \in Nat
           /\ T \subseteq S => IsFiniteSet(T) /\ Cardinality(T) \in Nat
                                /\ Cardinality(T) <= Cardinality(S)
           /\ T \subseteq S \cup {x} => IsFiniteSet(T) /\ Cardinality(T) \in Nat
                                /\ Cardinality(T) <= Cardinality(S) + 1
           /\ x \in S /\ T \subseteq S \ {x} => IsFiniteSet(T) /\ Cardinality(T) \in Nat
                                /\ Cardinality(T) <= Cardinality(S) - 1
<1>1. Cardinality(S) \in Nat
  BY FS_CardinalityType
<1>2. ASSUME T \subseteq S
      PROVE  IsFiniteSet(T) /\ Cardinality(T) \in Nat /\ Cardinality(T) <= Cardinality(S)
  BY <1>2, FS_Subset, FS_CardinalityType
<1>3. ASSUME T \subseteq S \cup {x}
      PROVE  IsFiniteSet(T) /\ Cardinality(T) \in Nat /\ Cardinality(T) <= Cardinality(S) + 1
  <2>1. IsFiniteSet(S \cup {x}) /\ Cardinality(S \cup {x}) \in Nat
    BY FS_AddElement, FS_CardinalityType
  <2>4. Cardinality(S \cup {x}) = IF x \in S THEN Cardinality(S) ELSE Cardinality(S) + 1
    BY FS_AddElement
  <2>2. Cardinality(S \cup {x}) <= Cardinality(S) + 1
    BY <1>1, <2>4
  <2>3. IsFiniteSet(T) /\ Cardinality(T) \in Nat /\ Cardinality(T) <= Cardinality(S \cup {x})
    BY <1>3, <2>1, FS_Subset, FS_CardinalityType
  <2> QED BY <1>1, <2>1, <2>2, <2>3
<1>4. ASSUME x \in S, T \subseteq S \ {x}
      PROVE  IsFiniteSet(T) /\ Cardinality(T) \in Nat /\ Cardinality(T) <= Cardinality(S) - 1
  <2>1. IsFiniteSet(S \ {x}) /\ Cardinality(S \ {x}) = Cardinality(S) - 1
    BY <1>4, FS_RemoveElement
  <2>2. IsFiniteSet(T) /\ Cardinality(T) \in Nat /\ Cardinality(T) <= Cardinality(S \ {x})
    BY <1>4, <2>1, FS_Subset, FS_CardinalityType
  <2> QED BY <2>1, <2>2
<1> QED BY <1>1, <1>2, <1>3, <1>4

\* Tokens and busy requests trade places.
LEMMA SessionStep ==
    ASSUME Base, SessionsNeverMultiply, [Next]_vars
    PROVE  SessionsNeverMultiply'
<1> DEFINE Sum(x) == Cardinality(LiveOf(x)) + Cardinality(Busy(x))
<1>0. /\ tokens \in Seq([owner : Users, session : Nat]) /\ Len(tokens) \in Nat
      /\ refresh \subseteq DOMAIN tokens /\ DOMAIN tokens = 1 .. Len(tokens)
      /\ logins \in [Users -> Nat] /\ req \in [Workers -> Request]
  BY DEF Base, Types
<1>1. \A x \in Users : IsFiniteSet(LiveOf(x)) /\ IsFiniteSet(Busy(x))
  <2>1. IsFiniteSet(1 .. Len(tokens))
    BY <1>0, FS_Interval
  <2>2. \A x \in Users : LiveOf(x) \subseteq 1 .. Len(tokens) /\ Busy(x) \subseteq Workers
    BY <1>0 DEF LiveOf, Busy
  <2> QED BY <2>1, <2>2, AuthAssumption, FS_Subset
<1>2. /\ SessionsNeverMultiply => \A x \in Users : Sum(x) <= logins[x]
      /\ (\A x \in Users : Sum(x)' <= logins'[x]) => SessionsNeverMultiply'
  BY DEF SessionsNeverMultiply, Busy
<1>3. \A x \in Users : Cardinality(LiveOf(x)) \in Nat /\ Cardinality(Busy(x)) \in Nat
                       /\ logins[x] \in Nat /\ Sum(x) <= logins[x]
  BY <1>0, <1>1, <1>2, FS_CardinalityType
<1>4. ASSUME NEW x \in Users, LiveOf(x)' \subseteq LiveOf(x), Busy(x)' \subseteq Busy(x),
             logins'[x] = logins[x]
      PROVE  Sum(x)' <= logins'[x]
  <2>1. Cardinality(LiveOf(x)') <= Cardinality(LiveOf(x)) /\ Cardinality(LiveOf(x)') \in Nat
    BY <1>1, <1>4, OneMoves
  <2>2. Cardinality(Busy(x)') <= Cardinality(Busy(x)) /\ Cardinality(Busy(x)') \in Nat
    BY <1>1, <1>4, OneMoves
  <2> QED BY <1>3, <1>4, <2>1, <2>2
<1>5. ASSUME NEW x \in Users, NEW t \in LiveOf(x), NEW w, LiveOf(x)' \subseteq LiveOf(x) \ {t},
             Busy(x)' \subseteq Busy(x) \cup {w}, logins'[x] = logins[x]
      PROVE  Sum(x)' <= logins'[x]
  <2>1. Cardinality(LiveOf(x)') <= Cardinality(LiveOf(x)) - 1 /\ Cardinality(LiveOf(x)') \in Nat
    BY <1>1, <1>5, OneMoves
  <2>2. Cardinality(Busy(x)') <= Cardinality(Busy(x)) + 1 /\ Cardinality(Busy(x)') \in Nat
    BY <1>1, <1>5, OneMoves
  <2> QED BY <1>3, <1>5, <2>1, <2>2
<1>6. ASSUME NEW x \in Users, NEW w \in Busy(x), NEW t, Busy(x)' \subseteq Busy(x) \ {w},
             LiveOf(x)' \subseteq LiveOf(x) \cup {t}, logins'[x] = logins[x]
      PROVE  Sum(x)' <= logins'[x]
  <2>1. Cardinality(LiveOf(x)') <= Cardinality(LiveOf(x)) + 1 /\ Cardinality(LiveOf(x)') \in Nat
    BY <1>1, <1>6, OneMoves
  <2>2. Cardinality(Busy(x)') <= Cardinality(Busy(x)) - 1 /\ Cardinality(Busy(x)') \in Nat
    BY <1>1, <1>6, OneMoves
  <2> QED BY <1>3, <1>6, <2>1, <2>2
<1>7. ASSUME NEW x \in Users, NEW w, LiveOf(x)' \subseteq LiveOf(x),
             Busy(x)' \subseteq Busy(x) \cup {w}, logins'[x] = logins[x] + 1
      PROVE  Sum(x)' <= logins'[x]
  <2>1. Cardinality(LiveOf(x)') <= Cardinality(LiveOf(x)) /\ Cardinality(LiveOf(x)') \in Nat
    BY <1>1, <1>7, OneMoves
  <2>2. Cardinality(Busy(x)') <= Cardinality(Busy(x)) + 1 /\ Cardinality(Busy(x)') \in Nat
    BY <1>1, <1>7, OneMoves
  <2> QED BY <1>3, <1>7, <2>1, <2>2
<1> HIDE DEF Sum
<1>8. Types /\ {"srem", "find", "mint"} \subseteq Steps /\ None \notin {"srem", "find", "mint"}
      /\ "del" \notin {"srem", "find", "mint"}
  BY NoneFacts DEF Base, Steps
<1>9. ASSUME NEW w \in Workers, Answer(w)
      PROVE  \A x \in Users : Busy(x)' \subseteq Busy(x) \ {w}
  <2>1. req'[w].at = None /\ \A v \in Workers \ {w} : req'[v] = req[v]
    BY <1>8, <1>9, Answered DEF Idle
  <2> QED BY <1>8, <2>1 DEF Busy, Op
<1>10. ASSUME NEW w \in Workers, NEW step \in {"srem", "find", "mint"}, Goto(w, step)
       PROVE  /\ \A x \in Users \ {req[w].user} : Busy(x)' \subseteq Busy(x)
              /\ \A x \in Users : Busy(x)' \subseteq Busy(x) \cup {w}
              /\ req[w].at \in {"srem", "find", "mint"} =>
                   \A x \in Users : Busy(x)' \subseteq Busy(x)
              /\ req[w].op \notin {"login", "refresh"} =>
                   \A x \in Users : Busy(x)' \subseteq Busy(x)
  <2>1. /\ req'[w].at = step /\ req'[w].op = req[w].op /\ req'[w].user = req[w].user
        /\ \A v \in Workers \ {w} : req'[v] = req[v]
    BY <1>8, <1>10, WentOn
  <2> QED BY <2>1 DEF Busy, Op
<1>11. ASSUME tokens' = tokens, refresh' \subseteq refresh
       PROVE  \A x \in Users : LiveOf(x)' \subseteq LiveOf(x)
  BY <1>11 DEF LiveOf
<1>12. CASE Sessionless
  <2>1. \A x \in Users : Busy(x)' \subseteq Busy(x)
    BY <1>12 DEF Sessionless, SessionSteps, Busy, Op
  <2>2. \A x \in Users : LiveOf(x)' \subseteq LiveOf(x)
    BY <1>11, <1>12 DEF Sessionless
  <2> QED BY <1>2, <1>4, <1>12, <2>1, <2>2 DEF Sessionless
<1>13. ASSUME NEW w \in Workers, ListTokens(w) PROVE SessionsNeverMultiply'
  <2>1. (\A v \in Workers \ {w} : req'[v] = req[v]) /\ req'[w].at = "del"
        /\ UNCHANGED <<tokens, refresh, logins>>
    BY <1>13, ListFacts DEF ListTokens, redis, history
  <2>2. \A x \in Users : Busy(x)' \subseteq Busy(x)
    BY <1>8, <2>1 DEF Busy, Op
  <2>3. \A x \in Users : LiveOf(x)' \subseteq LiveOf(x)
    BY <1>11, <2>1
  <2> QED BY <1>2, <1>4, <2>1, <2>2, <2>3
<1>14. ASSUME NEW w \in Workers, revokeAllUserRefreshTokens(w) PROVE SessionsNeverMultiply'
  <2>1. Answer(w) /\ UNCHANGED <<tokens, logins>> /\ refresh' \subseteq refresh
    BY <1>14 DEF revokeAllUserRefreshTokens
  <2>2. \A x \in Users : Busy(x)' \subseteq Busy(x) /\ LiveOf(x)' \subseteq LiveOf(x)
    BY <1>9, <1>11, <2>1
  <2> QED BY <1>2, <1>4, <2>1, <2>2
<1>15. ASSUME NEW w \in Workers, authenticateUser(w) PROVE SessionsNeverMultiply'
  <2>1. UNCHANGED <<tokens, refresh>> /\ req[w].at = "authenticate"
    BY <1>15 DEF authenticateUser, redis, At
  <2>2. \A x \in Users : LiveOf(x)' \subseteq LiveOf(x)
    BY <1>11, <2>1
  <2>3. CASE Answer(w) /\ UNCHANGED logins
    <3>1. \A x \in Users : Busy(x)' \subseteq Busy(x)
      BY <1>9, <2>3
    <3> QED BY <1>2, <1>4, <2>2, <2>3, <3>1
  <2>4. CASE logins' = [logins EXCEPT ![req[w].user] = @ + 1] /\ Goto(w, "mint")
    <3>1. /\ \A x \in Users \ {req[w].user} : Busy(x)' \subseteq Busy(x)
          /\ \A x \in Users : Busy(x)' \subseteq Busy(x) \cup {w}
      BY <1>10, <2>4
    <3>2. ASSUME NEW x \in Users PROVE Sum(x)' <= logins'[x]
      <4>1. CASE x # req[w].user
        BY <1>0, <1>4, <2>2, <2>4, <3>1, <4>1
      <4>2. CASE x = req[w].user
        <5>1. logins'[x] = logins[x] + 1
          BY <1>0, <2>4, <4>2
        <5> QED BY <1>7, <2>2, <3>1, <5>1
      <4> QED BY <4>1, <4>2
    <3> QED BY <1>2, <3>2
  <2> QED BY <1>15, <2>3, <2>4 DEF authenticateUser
<1>16. ASSUME NEW w \in Workers, GetDelToken(w) PROVE SessionsNeverMultiply'
  <2>1. UNCHANGED <<tokens, logins>> /\ req[w].at = "getdel"
    BY <1>16 DEF GetDelToken, history, At
  <2>2. CASE Answer(w) /\ UNCHANGED refresh
    <3>1. \A x \in Users : Busy(x)' \subseteq Busy(x) /\ LiveOf(x)' \subseteq LiveOf(x)
      BY <1>9, <1>11, <2>1, <2>2
    <3> QED BY <1>2, <1>4, <2>1, <3>1
  <2>3. CASE /\ req[w].row \in refresh /\ refresh' = refresh \ {req[w].row} /\ Goto(w, "srem")
    <3>1. tokens[req[w].row].owner = req[w].user
      BY <2>1, NoneFacts DEF Base, Fits, Steps
    <3>2. /\ \A x \in Users \ {req[w].user} : Busy(x)' \subseteq Busy(x)
          /\ \A x \in Users : Busy(x)' \subseteq Busy(x) \cup {w}
      BY <1>10, <2>3
    <3>3. /\ \A x \in Users : LiveOf(x)' \subseteq LiveOf(x) \ {req[w].row}
          /\ req[w].row \in LiveOf(req[w].user)
      BY <2>1, <2>3, <3>1 DEF LiveOf
    <3>4. ASSUME NEW x \in Users PROVE Sum(x)' <= logins'[x]
      <4>1. CASE x # req[w].user
        BY <1>4, <2>1, <3>2, <3>3, <4>1
      <4>2. CASE x = req[w].user
        BY <1>5, <2>1, <3>2, <3>3, <4>2
      <4> QED BY <4>1, <4>2
    <3> QED BY <1>2, <3>4
  <2> QED BY <1>16, <2>2, <2>3 DEF GetDelToken, Popped
<1>17. ASSUME NEW w \in Workers, RemoveFromSet(w) PROVE SessionsNeverMultiply'
  <2>1. /\ UNCHANGED <<tokens, logins>> /\ req[w].at = "srem" /\ refresh' \subseteq refresh
        /\ Answer(w) \/ Goto(w, "find")
    BY <1>17 DEF RemoveFromSet, history, At
  <2>2. \A x \in Users : Busy(x)' \subseteq Busy(x) /\ LiveOf(x)' \subseteq LiveOf(x)
    BY <1>9, <1>10, <1>11, <2>1
  <2> QED BY <1>2, <1>4, <2>1, <2>2
<1>18. ASSUME NEW w \in Workers, consumeRefreshToken(w) PROVE SessionsNeverMultiply'
  <2>1. /\ UNCHANGED <<tokens, refresh, logins>> /\ req[w].at = "find"
        /\ Answer(w) \/ Goto(w, "mint")
    BY <1>18 DEF consumeRefreshToken, redis, history, At
  <2>2. \A x \in Users : Busy(x)' \subseteq Busy(x) /\ LiveOf(x)' \subseteq LiveOf(x)
    BY <1>9, <1>10, <1>11, <2>1
  <2> QED BY <1>2, <1>4, <2>1, <2>2
<1>19. ASSUME NEW w \in Workers, issueTokenPair(w) PROVE SessionsNeverMultiply'
  <2> DEFINE u == req[w].user
             n == Len(tokens) + 1
  <2>1. /\ u \in Users /\ req[w].at = "mint" /\ req[w].op \in {"login", "refresh"}
        /\ tokens'[n].owner = u /\ refresh' = refresh \cup {n}
        /\ \A t \in DOMAIN tokens : tokens'[t] = tokens[t]
    BY <1>19, MintFacts
  <2>2. Answer(w) /\ logins' = logins
    BY <1>19 DEF issueTokenPair, history
  <2>3. w \in Busy(u)
    BY <2>1 DEF Busy, Op
  <2> HIDE DEF u, n
  <2>4. \A x \in Users : Busy(x)' \subseteq Busy(x) \ {w}
    BY <1>9, <2>2
  <2>5. /\ \A x \in Users \ {u} : LiveOf(x)' \subseteq LiveOf(x)
        /\ \A x \in Users : LiveOf(x)' \subseteq LiveOf(x) \cup {n}
    BY <1>0, <2>1 DEF LiveOf
  <2>6. ASSUME NEW x \in Users PROVE Sum(x)' <= logins'[x]
    <3>1. CASE x # u
      BY <1>4, <2>2, <2>4, <2>5, <3>1
    <3>2. CASE x = u
      BY <1>6, <2>2, <2>3, <2>4, <2>5, <3>2
    <3> QED BY <3>1, <3>2
  <2> QED BY <1>2, <2>6
<1>20. ASSUME NEW t \in DOMAIN tokens, ExpireToken(t) PROVE SessionsNeverMultiply'
  <2>1. UNCHANGED <<tokens, logins, req>> /\ refresh' \subseteq refresh
    BY <1>20 DEF ExpireToken, history
  <2>2. \A x \in Users : Busy(x)' \subseteq Busy(x) /\ LiveOf(x)' \subseteq LiveOf(x)
    BY <1>11, <2>1 DEF Busy, Op
  <2> QED BY <1>2, <1>4, <2>1, <2>2
<1> QED BY <1>12, <1>13, <1>14, <1>15, <1>16, <1>17, <1>18, <1>19, <1>20, TokenSteps

\* Rotation never leaves more sessions than were opened with a password:
\* GETDEL hands a token to one request only.
THEOREM SessionsAreBounded == Spec => []SessionsNeverMultiply
<1>1. Init => SessionsNeverMultiply
  <2> SUFFICES ASSUME Init, NEW u \in Users
               PROVE  Cardinality(LiveOf(u)) + Cardinality(Busy(u)) <= logins[u]
    BY DEF SessionsNeverMultiply, Busy
  <2>1. Idle.at = None /\ None \notin {"srem", "find", "mint"}
    BY NoneFacts DEF Idle, Steps
  <2>2. LiveOf(u) = {} /\ Busy(u) = {} /\ logins[u] = 0
    BY <2>1 DEF Init, LiveOf, Busy
  <2> QED BY <2>2, FS_EmptySet
<1>2. Base /\ SessionsNeverMultiply /\ [Next]_vars => SessionsNeverMultiply'
  BY SessionStep
<1> QED BY <1>1, <1>2, SpecBase, PTL DEF Spec
=============================================================================
