----------------------------- MODULE MCProvider -----------------------------
(* Two leases that do not fit together, and two goroutines. *)
EXTENDS Provider

TwoLeases == {"small", "large"}
Sizes  == [l \in TwoLeases |-> IF l = "small" THEN 1 ELSE 2]

(* Everything that may befall one lease; goroutines that start late; and   *)
(* two leases at once.                                                     *)
Cases == {{"tunnel", "cancel", "renew", "undo", "restart"},
          {"slow", "cancel"},
          {"several", "cancel"}}
=============================================================================
