----------------------------- MODULE MCAccounts -----------------------------
(***************************************************************************)
(* Two new users and one account without an IBAN.  The numbers differ by   *)
(* one digit or by two neighbours, and one of them is taken.               *)
(***************************************************************************)
EXTENDS Accounts

CONSTANTS ann, ben, old

MCNumbers == {<<4, 1, 0, 0, 0, 0, 0, 0, 1, 2>>, <<4, 1, 0, 0, 0, 0, 0, 0, 2, 1>>,
              <<4, 1, 0, 0, 0, 0, 0, 0, 2, 2>>}

MCLegacy == [u \in {old} |-> <<4, 1, 0, 0, 0, 0, 0, 0, 2, 2>>]

\* ZZZZ
MCBankCode == <<35, 35, 35, 35>>
=============================================================================
