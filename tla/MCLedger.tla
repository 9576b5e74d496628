------------------------------ MODULE MCLedger ------------------------------
(* Small instances of Ledger for TLC. *)
EXTENDS Ledger

\* Genesis sorts first, as the all-zero UUID does.
MCAccounts == {1, 2, 3}
MCGenesis == 1

\* Two references that share one advisory key.
MCHashText == [r \in Refs |-> CHOOSE k \in Keys : TRUE]

Call(op, from, to, amount, ref) ==
    [op |-> op, from |-> from, to |-> to, amount |-> amount, ref |-> ref]

\* Opposite transfers between the user accounts, a deposit retried and
\* reversed, a rebuild, a self-transfer and a refused amount.
MCRequests ==
    {Call("transfer", 2, 3, 2, NoRef), Call("transfer", 3, 2, 1, NoRef),
     Call("transfer", 2, 2, 1, NoRef), Call("transfer", 2, 3, 0, NoRef),
     Call("rebuild", 2, 2, 1, NoRef)}
    \cup {Call("deposit", 1, 2, 2, r) : r \in Refs}
    \cup {Call("reverse", 2, 1, 2, r) : r \in Refs}
=============================================================================
