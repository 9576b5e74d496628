---------------------------- MODULE MCOperations ----------------------------
(***************************************************************************)
(* Two handlers of one customer, and limits low enough to be reached: one  *)
(* transfer in a window, or two units of money.                            *)
(***************************************************************************)
EXTENDS Operations

MCThresholds == [amount_threshold |-> 2, velocity_count |-> 1, velocity_sum |-> 2]
=============================================================================
