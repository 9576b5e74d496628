------------------------------- MODULE MCAuth -------------------------------
(***************************************************************************)
(* Auth on one address, two concurrent requests and two passwords, from an *)
(* empty database and from one where the user is active, has one session   *)
(* and has asked for a password reset: what a first registration,          *)
(* verification, login and /forgot-password leave behind.                  *)
(***************************************************************************)
EXTENDS Auth, SequencesExt

symmetry == Permutations(Workers) \cup Permutations(Passwords)

Used(pw) == [attempts |-> Attempts, guesses |-> 0, used |-> TRUE,
             expired |-> FALSE, for |-> pw]

Established ==
    \E pw \in Passwords :
        /\ users = [u \in Users |-> [status |-> "active", password |-> pw, name |-> None]]
        /\ codes = [u \in Users |->
              [p \in Purposes |-> << IF p = "email_verify" THEN Used(pw)
                                     ELSE [Used(pw) EXCEPT !.used = FALSE] >>]]
        /\ outbox = SetToSeq({[type |-> "UserActivated", user |-> u, name |-> None] :
                               u \in Users})
        /\ userLock = [u \in Users |-> None]
        /\ codeLock = [u \in Users |-> [p \in Purposes |-> None]]
        /\ cooldown = {}
        /\ tokens = SetToSeq({[owner |-> u, session |-> 1] : u \in Users})
        /\ refresh = DOMAIN tokens
        /\ userRefresh = [u \in Users |-> {t \in DOMAIN tokens : tokens[t].owner = u}]
        /\ req = [w \in Workers |-> Idle]
        /\ requests = 0
        /\ logins = [u \in Users |-> 1]
        /\ proof = [u \in Users |-> {pw}]
        /\ revoked = [u \in Users |-> 0]
        /\ escaped = {}

MCSpec == (Init \/ Established) /\ [][Next]_vars
=============================================================================
