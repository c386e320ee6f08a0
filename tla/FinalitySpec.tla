---------------------------- MODULE FinalitySpec ----------------------------
(***************************************************************************)
(* What finality promises to a user of the ledger: the network chooses one *)
(* block per position of an account chain, once, and only over a chosen    *)
(* block before it and a chosen send that it receives; a node's final      *)
(* blocks are chosen ones, they stay, and a block is final only together   *)
(* with those before it on its chain.  (The send it receives may become    *)
(* final later on that node: the voters checked it, the tally does not.)   *)
(* How votes, locks and conflict records bring this about is the business  *)
(* of Finality.                                                            *)
(***************************************************************************)
CONSTANTS Node, Block, Position, None, PosOf(_), ParentsOf(_), AncestorsOf(_)

VARIABLES
    chosen,  \* per position: the block the network chose, or None
    final    \* per node: the blocks it reports as final

Init ==
    /\ chosen = [p \in Position |-> None]
    /\ final = [n \in Node |-> {}]

(* A choice is made once, and what the block rests on is chosen. *)
Choose(p) ==
    \/ chosen'[p] = chosen[p]
    \/ /\ chosen[p] = None
       /\ \E b \in Block :
             /\ PosOf(b) = p /\ chosen'[p] = b
             /\ \A d \in ParentsOf(b) : chosen'[PosOf(d)] = d

Learn(n) ==
    /\ final[n] \subseteq final'[n]
    /\ \A b \in final'[n] :
          chosen'[PosOf(b)] = b /\ AncestorsOf(b) \subseteq final'[n]

(* The vote that makes a choice may also be the one that lets nodes learn  *)
(* it, and a node may learn several blocks at a time.                      *)
Next ==
    /\ \A p \in Position : Choose(p)
    /\ \A n \in Node : Learn(n)

Spec == Init /\ [][Next]_<<chosen, final>>
=============================================================================
