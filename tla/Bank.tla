-------------------------------- MODULE Bank --------------------------------
(***************************************************************************)
(* What ledger-svc promises its callers, as an atomic machine: a posting   *)
(* moves an amount between two open accounts in one step, a transfer only  *)
(* when the source covers it, a deposit or a reversal at most once per     *)
(* reference.  Ledger.tla is the Postgres-level implementation and is      *)
(* shown to implement BankSpec; Transfers.tla and Deposits.tla call the    *)
(* ledger through the actions of this module.                              *)
(***************************************************************************)
EXTENDS Integers

CONSTANTS
    Accounts,   \* account_id values that may have a ledger_accounts row
    Genesis,    \* genesisAccountID, provisioned by migration 000005
    Refs,       \* references a caller may tag a posting with
    NoRef,      \* the NULL reference
    Amounts,    \* amounts in minor units a caller may send, signed
    Ids         \* transaction_id values

VARIABLES
    rows,       \* accounts with a ledger_accounts row
    sum,        \* sum[a]: SELECT SUM(amount) FROM entries of account a
    journal     \* the committed debit/credit pairs

bankVars == <<rows, sum, journal>>

Ops == {"transfer", "deposit", "reverse"}

Posting == [op : Ops, from : Accounts, to : Accounts,
            amount : Amounts, ref : Refs \cup {NoRef}]

JournalRecord == [id : Ids, op : Ops, from : Accounts, to : Accounts,
                  amount : Amounts, ref : Refs \cup {NoRef}]

\* The two entries rows of one posting share transaction_id and reference.
Record(id, p) == [id |-> id, op |-> p.op, from |-> p.from, to |-> p.to,
                  amount |-> p.amount, ref |-> p.ref]

\* The effect of the balanced pair (-amount, +amount) on every SUM(amount).
Moved(s, p) ==
    [a \in Accounts |-> s[a] - (IF a = p.from THEN p.amount ELSE 0)
                             + (IF a = p.to THEN p.amount ELSE 0)]

Tagged(r) == {j \in journal : r # NoRef /\ j.ref = r}

TagsOf(r) == {j \in Tagged(r) : j.op # "transfer"}

BankInit ==
    /\ rows = {Genesis}
    /\ sum = [a \in Accounts |-> 0]
    /\ journal = {}

OpenAccount(a) ==
    /\ rows' = rows \cup {a}
    /\ UNCHANGED <<sum, journal>>

Accepts(p) ==
    /\ p.amount > 0
    /\ {p.from, p.to} \subseteq rows
    /\ p.op = "transfer" => sum[p.from] >= p.amount
    /\ p.op # "transfer" => TagsOf(p.ref) = {}

Post(id, p) ==
    /\ Accepts(p)
    /\ \A j \in journal : j.id # id
    /\ sum' = Moved(sum, p)
    /\ journal' = journal \cup {Record(id, p)}
    /\ UNCHANGED rows

BankNext ==
    \/ \E a \in Accounts : OpenAccount(a)
    \/ \E id \in Ids, p \in Posting : Post(id, p)

BankSpec == BankInit /\ [][BankNext]_bankVars
=============================================================================
