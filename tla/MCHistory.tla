----------------------------- MODULE MCHistory ------------------------------
(***************************************************************************)
(* Pages of one row over three earlier rows, two of them transfers of the  *)
(* same time, and two rows that commit later and sort before or between    *)
(* the transfers.                                                          *)
(***************************************************************************)
EXTENDS History

CONSTANTS me, other

Row(source, created, id, from, to) ==
    [source |-> source, created |-> created, id |-> id, from |-> from, to |-> to]

MCEarlier == <<Row("withdrawal", 1, 4, me, me), Row("transfer", 2, 2, other, me),
               Row("transfer", 2, 6, me, other)>>
=============================================================================
