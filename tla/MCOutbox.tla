------------------------------ MODULE MCOutbox ------------------------------
(* Small instances of Outbox for TLC. *)
EXTENDS Outbox

\* Events 1 and 3 are about one user, event 2 about another.
MCKey == [e \in Events |-> IF e = 2 THEN "b" ELSE "a"]
=============================================================================
