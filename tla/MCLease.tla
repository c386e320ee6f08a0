------------------------------ MODULE MCLease ------------------------------
(***************************************************************************)
(* Lease for TLC: an emission rate that changes once, between the lease's  *)
(* first acceptance and its renewal, so that segments lock different rates.*)
(***************************************************************************)
EXTENDS Lease

MCRateAt(t) == IF t < 4 THEN 1500 ELSE 2500

(* Renewals and forks each on their own, and in one behaviour. *)
Apart    == {{"renew"}, {"fork"}}
Together == {{"renew", "fork"}}
=============================================================================
