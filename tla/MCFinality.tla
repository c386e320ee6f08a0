----------------------------- MODULE MCFinality -----------------------------
(* Lattices and weights for model checking Finality. *)
EXTENDS Finality, TLC

CONSTANTS A, B, C

(* Delegated weight: A and one other node reach 67%, B and C do not. *)
Share(n, w, S) == IF n \in S THEN w ELSE 0

TrioWeightOf ==
    [S \in SUBSET Node |-> Share(A, 40, S) + Share(B, 30, S) + Share(C, 30, S)]

(* Two nodes: A votes alone and B watches; both are needed, with equal or  *)
(* different weight.                                                       *)
SoloWeightOf == [S \in SUBSET Node |-> Share(A, 100, S)]

EvenWeightOf == [S \in SUBSET Node |-> Share(A, 50, S) + Share(B, 50, S)]

PairWeightOf == [S \in SUBSET Node |-> Share(A, 60, S) + Share(B, 40, S)]

(* Fork: two siblings open one account. *)
ForkBlock  == {1, 2}
ForkAcct   == [b \in ForkBlock |-> "a"]
ForkPrev   == [b \in ForkBlock |-> Root]
ForkSrc    == [b \in ForkBlock |-> None]
ForkHeight == [b \in ForkBlock |-> 1]
ForkBelow  == [b \in ForkBlock |-> {}]

(* Three siblings open one account. *)
TripleBlock  == {1, 2, 3}
TripleAcct   == [b \in TripleBlock |-> "a"]
TriplePrev   == [b \in TripleBlock |-> Root]
TripleSrc    == [b \in TripleBlock |-> None]
TripleHeight == [b \in TripleBlock |-> 1]
TripleBelow  == [b \in TripleBlock |-> {}]

(* Spent: 1 and 2 open account a, 3 opens account b by receiving 2. *)
SpentBlock  == {1, 2, 3}
SpentAcct   == [b \in SpentBlock |-> IF b = 3 THEN "b" ELSE "a"]
SpentPrev   == [b \in SpentBlock |-> Root]
SpentSrc    == [b \in SpentBlock |-> IF b = 3 THEN 2 ELSE None]
SpentHeight == [b \in SpentBlock |-> 1]
SpentAnc    == [b \in SpentBlock |-> {}]
SpentBelow  == [b \in SpentBlock |-> IF b = 3 THEN {2} ELSE {}]

(* Tower: 1 and 2 open account a, 3 and 4 compete to extend 2. *)
TowerBlock  == {1, 2, 3, 4}
TowerAcct   == [b \in TowerBlock |-> "a"]
TowerPrev   == [b \in TowerBlock |-> IF b \in {3, 4} THEN 2 ELSE Root]
TowerSrc    == [b \in TowerBlock |-> None]
TowerHeight == [b \in TowerBlock |-> IF b \in {3, 4} THEN 2 ELSE 1]
TowerAnc    == [b \in TowerBlock |-> IF b \in {3, 4} THEN {2} ELSE {}]

Symmetry == Permutations(Node \ {A})

FullSymmetry == Permutations(Node)
=============================================================================
