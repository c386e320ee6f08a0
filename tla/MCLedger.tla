------------------------------ MODULE MCLedger ------------------------------
(***************************************************************************)
(* Three accounts.  Account 1 has the genesis balance and forks: 1 sends   *)
(* to account 2, and 2 on top of it to account 3; 3 and 4 are burns in     *)
(* place of 1, of which 4 fails full validation.  Account 3 is a multisig  *)
(* account: it mints XUSD, sends some to account 2, receives 2, and sends  *)
(* some of that on or changes its keys.  Account 2 receives 1 and then     *)
(* both sends of account 3.                                                *)
(***************************************************************************)
EXTENDS Ledger

CONSTANTS r1, r2, k1, k2

MCBlock == 0..12

TwoKeys == [keys |-> {k1, k2}, threshold |-> 2]

Plain(type, account, prev, amount, balance, rep) ==
    [type |-> type, account |-> account, prev |-> prev, amount |-> amount,
     balance |-> balance, rep |-> rep, asset |-> "XE", source |-> None,
     dest |-> None, keyset |-> NoKeyset, signers |-> {}]

Signed(keys, body) == [body EXCEPT !.signers = keys]

MCBody == [b \in MCBlock |->
    CASE b = 0 -> Plain("genesis", 1, Root, 10, 10, r1)
      [] b = 1 -> [Plain("send", 1, 0, 4, 6, None) EXCEPT !.dest = 2]
      [] b = 2 -> [Plain("send", 1, 1, 3, 3, r2) EXCEPT !.dest = 3]
      [] b = 3 -> Plain("burn", 1, 0, 2, 8, r2)
      [] b = 4 -> [Plain("burn", 1, 0, 1, 9, None) EXCEPT !.dest = 2]
      [] b = 5 -> Signed({k1, k2}, [Plain("multisig_open", 3, Root, 0, 0, None)
                                      EXCEPT !.keyset = TwoKeys])
      [] b = 6 -> Signed({k1, k2}, [Plain("mint", 3, 5, 5, 5, None)
                                      EXCEPT !.asset = "XUSD"])
      [] b = 7 -> Signed({k1, k2}, [Plain("send", 3, 6, 2, 3, None)
                                      EXCEPT !.asset = "XUSD", !.dest = 2])
      [] b = 8 -> Signed({k1}, [Plain("receive", 3, 7, 3, 3, r2)
                                  EXCEPT !.source = 2])
      [] b = 9 -> Signed({k1, k2}, [Plain("multisig_update", 3, 8, 0, 3, None)
                                      EXCEPT !.keyset.keys = {k1},
                                             !.keyset.threshold = 1])
      [] b = 10 -> Signed({k1, k2}, [Plain("send", 3, 8, 1, 2, None)
                                       EXCEPT !.dest = 2])
      [] b = 11 -> [Plain("receive", 2, Root, 4, 4, r1) EXCEPT !.source = 1]
      [] b = 12 -> [Plain("receive", 2, 11, 2, 2, None)
                      EXCEPT !.source = 7, !.asset = "XUSD"]]

MCBelow == [b \in MCBlock |->
    CASE b \in {0, 5} -> {}
      [] b \in {1, 3, 4} -> {0}
      [] b \in {2, 11} -> {0, 1}
      [] b = 6 -> {5}
      [] b = 7 -> {5, 6}
      [] b = 8 -> {0, 1, 2, 5, 6, 7}
      [] b \in {9, 10} -> {0, 1, 2, 5, 6, 7, 8}
      [] b = 12 -> {0, 1, 5, 6, 7, 11}]
=============================================================================
