--------------------------- MODULE LedgerTheorems ---------------------------
(***************************************************************************)
(* Theorems about the ledger: the types of its state, memory that matches  *)
(* the store, the conservation of each asset, and what an account may      *)
(* spend.                                                                  *)
(*                                                                         *)
(* All follow from LedgerInv.  Its core is that memory is always that of   *)
(* some chains, the store's except where a thread is between its           *)
(* transaction and its return; the locks say which accounts those are.     *)
(* Its other parts are what makes an undo the inverse of an addition: each *)
(* block of a chain fits the chain below it, a plan takes the last block   *)
(* of a chain at each step and no final one, and undoes a receive before   *)
(* the send it took.                                                       *)
(***************************************************************************)
EXTENDS Ledger, FiniteInduction

(* The constants' types, from the assumption. *)
LEMMA Constants ==
    /\ IsFiniteSet(Account) /\ IsFiniteSet(Block) /\ IsFiniteSet(Rep)
    /\ Account \subseteq Nat /\ Block \subseteq Nat
    /\ None \notin Block /\ Root \notin Block /\ None \notin Account /\ None \notin Rep
    /\ None \notin Adder /\ Promoter \notin Adder /\ None # Promoter
    /\ GenesisBlock \in Block /\ Body[GenesisBlock].type = "genesis"
    /\ MaxUint \in Nat /\ MaxRestarts \in Nat
    /\ \A b \in Block :
         /\ Body[b].type \in BlockType
         /\ Body[b].account \in Account
         /\ Body[b].prev \in Block \cup {Root}
         /\ Body[b].source \in Block \cup {None}
         /\ Body[b].asset \in Asset
         /\ Body[b].amount \in 0..MaxUint /\ Body[b].amount \in Nat
         /\ Body[b].balance \in 0..MaxUint /\ Body[b].balance \in Nat
         /\ Body[b].rep \in Rep \cup {None}
BY LedgerAssumption

-----------------------------------------------------------------------------
(* The last block of a kind on a chain *)

(* The maximum of a set of indices is its greatest member. *)
LEMMA MaxIs ==
    ASSUME NEW n \in Nat, NEW I \in SUBSET (1..n), I # {}
    PROVE  Max(I) \in I /\ \A k \in I : k <= Max(I)
<1>1. I \in SUBSET (0..n)
  OBVIOUS
<1>2. PICK m \in I : \A k \in I : k <= m
  BY <1>1, Greatest
<1>3. \A k \in I : m >= k
  BY <1>2
<1>4. Max(I) \in I /\ \A k \in I : Max(I) >= k
  BY <1>3 DEF Max
<1> QED BY <1>4

(* A member above all others is the maximum. *)
LEMMA MaxAbove ==
    ASSUME NEW n \in Nat, NEW I \in SUBSET (1..n)
    PROVE  Max(I \cup {n + 1}) = n + 1
<1>1. I \cup {n + 1} \in SUBSET (1..(n + 1)) /\ n + 1 \in Nat /\ I \cup {n + 1} # {}
  OBVIOUS
<1>2. PICK J : J = I \cup {n + 1}
  OBVIOUS
<1>3. Max(J) \in J /\ \A k \in J : k <= Max(J)
  BY <1>1, <1>2, MaxIs
<1>4. PICK m : m = Max(J)
  OBVIOUS
<1>5. m \in J /\ n + 1 \in J /\ \A k \in J : k <= m
  BY <1>2, <1>3, <1>4
<1>6. m = n + 1
  BY <1>2, <1>5
<1> QED BY <1>2, <1>4, <1>6

(* The indices of an extended chain. *)
LEMMA AppendIndices ==
    ASSUME NEW chain \in Seq(Block), NEW b \in Block
    PROVE  /\ Append(chain, b) \in Seq(Block)
           /\ Len(Append(chain, b)) = Len(chain) + 1
           /\ Append(chain, b)[Len(chain) + 1] = b
           /\ \A i \in 1..Len(chain) : Append(chain, b)[i] = chain[i]
           /\ Len(chain) \in Nat
           /\ 1..Len(Append(chain, b)) = (1..Len(chain)) \cup {Len(chain) + 1}
OBVIOUS

(* An appended block sets the balance of its own asset only. *)
LEMMA BalanceAppend ==
    ASSUME NEW chain \in Seq(Block), NEW b \in Block, NEW x \in Asset
    PROVE  AssetBalanceOnChain(Append(chain, b), x) =
             IF Body[b].asset = x THEN Body[b].balance ELSE AssetBalanceOnChain(chain, x)
<1>1. PICK c : c = Append(chain, b)
  OBVIOUS
<1>2. PICK n \in Nat : n = Len(chain)
  OBVIOUS
<1>3. Len(c) = n + 1 /\ c[n + 1] = b /\ \A i \in 1..n : c[i] = chain[i]
  BY <1>1, <1>2
<1>4. PICK I : I = {i \in 1..Len(chain) : Body[chain[i]].asset = x}
  OBVIOUS
<1>5. PICK J : J = {i \in 1..Len(c) : Body[c[i]].asset = x}
  OBVIOUS
<1>6. I \in SUBSET (1..n) /\ J = I \cup IF Body[b].asset = x THEN {n + 1} ELSE {}
  BY <1>2, <1>3, <1>4, <1>5
<1>7. AssetBalanceOnChain(c, x) = IF J = {} THEN 0 ELSE IF Max(J) = 0 THEN 0 ELSE Body[c[Max(J)]].balance
  BY <1>5 DEF AssetBalanceOnChain, SelectLastInSeq
<1>8. AssetBalanceOnChain(chain, x) = IF I = {} THEN 0 ELSE IF Max(I) = 0 THEN 0 ELSE Body[chain[Max(I)]].balance
  BY <1>4 DEF AssetBalanceOnChain, SelectLastInSeq
<1>9. CASE Body[b].asset = x
  <2>1. J = I \cup {n + 1} /\ Max(J) = n + 1 /\ J # {}
    BY <1>6, <1>9, MaxAbove
  <2> QED BY <1>1, <1>3, <1>7, <1>9, <2>1
<1>10. CASE Body[b].asset # x /\ I = {}
  BY <1>1, <1>6, <1>7, <1>8, <1>10
<1>11. CASE Body[b].asset # x /\ I # {}
  <2>1. Max(I) \in I
    BY <1>6, <1>11, MaxIs
  <2>2. Max(I) \in 1..n /\ J = I /\ c[Max(I)] = chain[Max(I)]
    BY <1>3, <1>6, <1>11, <2>1
  <2> QED BY <1>1, <1>7, <1>8, <1>11, <2>2
<1> QED BY <1>9, <1>10, <1>11

(* An appended block that names a representative sets it. *)
LEMMA RepAppend ==
    ASSUME NEW chain \in Seq(Block), NEW b \in Block
    PROVE  RepOnChain(Append(chain, b)) =
             IF Body[b].rep # None THEN Body[b].rep ELSE RepOnChain(chain)
<1>1. PICK c : c = Append(chain, b)
  OBVIOUS
<1>2. PICK n \in Nat : n = Len(chain)
  OBVIOUS
<1>3. Len(c) = n + 1 /\ c[n + 1] = b /\ \A i \in 1..n : c[i] = chain[i]
  BY <1>1, <1>2
<1>4. PICK I : I = {i \in 1..Len(chain) : Body[chain[i]].rep # None}
  OBVIOUS
<1>5. PICK J : J = {i \in 1..Len(c) : Body[c[i]].rep # None}
  OBVIOUS
<1>6. I \in SUBSET (1..n) /\ J = I \cup IF Body[b].rep # None THEN {n + 1} ELSE {}
  BY <1>2, <1>3, <1>4, <1>5
<1>7. RepOnChain(c) = IF J = {} THEN None ELSE IF Max(J) = 0 THEN None ELSE Body[c[Max(J)]].rep
  BY <1>5 DEF RepOnChain, SelectLastInSeq
<1>8. RepOnChain(chain) = IF I = {} THEN None ELSE IF Max(I) = 0 THEN None ELSE Body[chain[Max(I)]].rep
  BY <1>4 DEF RepOnChain, SelectLastInSeq
<1>9. CASE Body[b].rep # None
  <2>1. J = I \cup {n + 1} /\ Max(J) = n + 1 /\ J # {}
    BY <1>6, <1>9, MaxAbove
  <2> QED BY <1>1, <1>3, <1>7, <1>9, <2>1
<1>10. CASE ~(Body[b].rep # None) /\ I = {}
  BY <1>1, <1>6, <1>7, <1>8, <1>10
<1>11. CASE ~(Body[b].rep # None) /\ I # {}
  <2>1. Max(I) \in I
    BY <1>6, <1>11, MaxIs
  <2>2. Max(I) \in 1..n /\ J = I /\ c[Max(I)] = chain[Max(I)]
    BY <1>3, <1>6, <1>11, <2>1
  <2> QED BY <1>1, <1>7, <1>8, <1>11, <2>2
<1> QED BY <1>9, <1>10, <1>11

(* An appended block of a multisig account sets the keyset. *)
LEMMA KeysetAppend ==
    ASSUME NEW chain \in Seq(Block), NEW b \in Block
    PROVE  KeysetOnChain(Append(chain, b)) =
             IF SetsKeyset(b) THEN Body[b].keyset ELSE KeysetOnChain(chain)
<1>1. PICK c : c = Append(chain, b)
  OBVIOUS
<1>2. PICK n \in Nat : n = Len(chain)
  OBVIOUS
<1>3. Len(c) = n + 1 /\ c[n + 1] = b /\ \A i \in 1..n : c[i] = chain[i]
  BY <1>1, <1>2
<1>4. PICK I : I = {i \in 1..Len(chain) : SetsKeyset(chain[i])}
  OBVIOUS
<1>5. PICK J : J = {i \in 1..Len(c) : SetsKeyset(c[i])}
  OBVIOUS
<1>6. I \in SUBSET (1..n) /\ J = I \cup IF SetsKeyset(b) THEN {n + 1} ELSE {}
  BY <1>2, <1>3, <1>4, <1>5
<1>7. KeysetOnChain(c) = IF J = {} THEN NoKeyset ELSE IF Max(J) = 0 THEN NoKeyset ELSE Body[c[Max(J)]].keyset
  BY <1>5 DEF KeysetOnChain, SelectLastInSeq
<1>8. KeysetOnChain(chain) = IF I = {} THEN NoKeyset ELSE IF Max(I) = 0 THEN NoKeyset ELSE Body[chain[Max(I)]].keyset
  BY <1>4 DEF KeysetOnChain, SelectLastInSeq
<1>9. CASE SetsKeyset(b)
  <2>1. J = I \cup {n + 1} /\ Max(J) = n + 1 /\ J # {}
    BY <1>6, <1>9, MaxAbove
  <2> QED BY <1>1, <1>3, <1>7, <1>9, <2>1
<1>10. CASE ~(SetsKeyset(b)) /\ I = {}
  BY <1>1, <1>6, <1>7, <1>8, <1>10
<1>11. CASE ~(SetsKeyset(b)) /\ I # {}
  <2>1. Max(I) \in I
    BY <1>6, <1>11, MaxIs
  <2>2. Max(I) \in 1..n /\ J = I /\ c[Max(I)] = chain[Max(I)]
    BY <1>3, <1>6, <1>11, <2>1
  <2> QED BY <1>1, <1>7, <1>8, <1>11, <2>2
<1> QED BY <1>9, <1>10, <1>11

(* Nothing is on an empty chain. *)
LEMMA EmptyChain ==
    /\ \A x \in Asset : AssetBalanceOnChain(<<>>, x) = 0
    /\ RepOnChain(<<>>) = None
    /\ KeysetOnChain(<<>>) = NoKeyset
BY DEF AssetBalanceOnChain, RepOnChain, KeysetOnChain, SelectLastInSeq

(* What is read off a chain has its type. *)
LEMMA ReadTypes ==
    ASSUME NEW chain \in Seq(Block)
    PROVE  /\ \A x \in Asset : AssetBalanceOnChain(chain, x) \in 0..MaxUint
           /\ RepOnChain(chain) \in Rep \cup {None}
<1>1. PICK n \in Nat : n = Len(chain)
  OBVIOUS
<1>2. \A i \in 1..n : chain[i] \in Block
  BY <1>1
<1>3. ASSUME NEW x \in Asset PROVE AssetBalanceOnChain(chain, x) \in 0..MaxUint
  <2>1. PICK I : I = {i \in 1..Len(chain) : Body[chain[i]].asset = x}
    OBVIOUS
  <2>2. AssetBalanceOnChain(chain, x) = IF I = {} THEN 0 ELSE IF Max(I) = 0 THEN 0 ELSE Body[chain[Max(I)]].balance
    BY <2>1 DEF AssetBalanceOnChain, SelectLastInSeq
  <2>3. I \in SUBSET (1..n)
    BY <1>1, <2>1
  <2>4. I # {} => Max(I) \in 1..n
    BY <2>3, MaxIs
  <2>5. I # {} => chain[Max(I)] \in Block
    BY <1>2, <2>4
  <2>6. 0 \in 0..MaxUint /\ \A b \in Block : Body[b].balance \in 0..MaxUint
    BY Constants
  <2>7. I # {} => Body[chain[Max(I)]].balance \in 0..MaxUint
    BY <2>5, <2>6
  <2> QED BY <2>2, <2>6, <2>7
<1>4. RepOnChain(chain) \in Rep \cup {None}
  <2>1. PICK I : I = {i \in 1..Len(chain) : Body[chain[i]].rep # None}
    OBVIOUS
  <2>2. RepOnChain(chain) = IF I = {} THEN None ELSE IF Max(I) = 0 THEN None ELSE Body[chain[Max(I)]].rep
    BY <2>1 DEF RepOnChain, SelectLastInSeq
  <2>3. I \in SUBSET (1..n)
    BY <1>1, <2>1
  <2>4. I # {} => Max(I) \in 1..n
    BY <2>3, MaxIs
  <2>5. I # {} => chain[Max(I)] \in Block
    BY <1>2, <2>4
  <2>6. \A b \in Block : Body[b].rep \in Rep \cup {None}
    BY Constants
  <2>7. I # {} => Body[chain[Max(I)]].rep \in Rep \cup {None}
    BY <2>5, <2>6
  <2> QED BY <2>2, <2>7
<1> QED BY <1>3, <1>4

(* A chain is its front with its last block. *)
LEMMA FrontLast ==
    ASSUME NEW chain \in Seq(Block), chain # <<>>
    PROVE  /\ Front(chain) \in Seq(Block) /\ Last(chain) \in Block
           /\ Len(Front(chain)) = Len(chain) - 1 /\ Len(chain) > 0
           /\ \A i \in 1..(Len(chain) - 1) : Front(chain)[i] = chain[i]
           /\ Append(Front(chain), Last(chain)) = chain
<1>0. PICK n \in Nat : n = Len(chain)
  OBVIOUS
<1>1. n > 0 /\ \A i \in 1..n : chain[i] \in Block
  BY <1>0
<1>2. PICK f : f = Front(chain)
  OBVIOUS
<1>3. f \in Seq(Block) /\ Len(f) = n - 1 /\ \A i \in 1..(n - 1) : f[i] = chain[i]
  BY <1>0, <1>1, <1>2 DEF Front
<1>4. PICK l \in Block : l = Last(chain)
  BY <1>0, <1>1 DEF Last
<1>5. l = chain[n]
  BY <1>0, <1>4 DEF Last
<1>6. Append(f, l) = chain
  <2>1. Len(Append(f, l)) = n /\ Append(f, l) \in Seq(Block)
    BY <1>1, <1>3
  <2>2. \A i \in 1..n : Append(f, l)[i] = chain[i]
    BY <1>1, <1>3, <1>5
  <2> QED BY <1>0, <2>1, <2>2
<1> QED BY <1>0, <1>1, <1>2, <1>3, <1>4, <1>6

(* The front of an extended chain is the chain. *)
LEMMA FrontAppend ==
    ASSUME NEW chain \in Seq(Block), NEW b \in Block
    PROVE  /\ Front(Append(chain, b)) = chain /\ Last(Append(chain, b)) = b
           /\ Append(chain, b) # <<>> /\ Frontier(Append(chain, b)) = b
<1>1. PICK c : c = Append(chain, b)
  OBVIOUS
<1>2. /\ c \in Seq(Block) /\ Len(c) = Len(chain) + 1 /\ c[Len(c)] = b /\ Len(chain) \in Nat
      /\ \A i \in 1..Len(chain) : c[i] = chain[i]
  BY <1>1
<1>3. c # <<>>
  BY <1>2
<1>4. PICK f : f = Front(c) /\ f \in Seq(Block) /\ Len(f) = Len(c) - 1
               /\ \A i \in 1..(Len(c) - 1) : f[i] = c[i]
  BY <1>2, <1>3, FrontLast
<1>5. f = chain
  BY <1>2, <1>4
<1> QED BY <1>1, <1>2, <1>3, <1>4, <1>5 DEF Frontier, Last

-----------------------------------------------------------------------------
(* Sums *)

(* Both are the same sum. *)
LEMMA SumOfIs == ASSUME NEW f, NEW S PROVE SumOf(f, S) = SumOver(f, S)
BY DEF SumOf, SumOver

(* Functions that agree on a set have the same sum over it. *)
LEMMA SumSame ==
    ASSUME NEW f, NEW g, NEW S, IsFiniteSet(S),
           \A x \in S : f[x] = g[x] /\ f[x] \in Int
    PROVE  SumOver(f, S) = SumOver(g, S)
<1> DEFINE T == {s \in SUBSET S : SumOver(f, s) # SumOver(g, s)}
<1> SUFFICES ASSUME T # {} PROVE FALSE
  OBVIOUS
<1>1. PICK s \in T : \A t \in T : t \subseteq s => t = s
  <2>1. T \in SUBSET (SUBSET S)
    OBVIOUS
  <2> HIDE DEF T
  <2> QED BY <2>1, SmallestSubset
<1>2. s \in SUBSET S /\ IsFiniteSet(s) /\ SumOver(f, s) # SumOver(g, s)
  BY <1>1, FS_Subset
<1>3. CASE s = {}
  BY <1>2, <1>3, SumEmpty
<1>4. CASE s # {}
  <2>1. PICK x \in s : TRUE
    BY <1>4
  <2>2. PICK u : u = s \ {x}
    OBVIOUS
  <2>3. u \in SUBSET S /\ u \subseteq s /\ u # s
    BY <1>2, <2>1, <2>2
  <2>4. SumOver(f, u) = SumOver(g, u)
    BY <1>1, <2>3
  <2>5. SumOver(f, s) = f[x] + SumOver(f, u)
    BY <1>2, <2>1, <2>2, SumMember
  <2>6. SumOver(g, s) = g[x] + SumOver(g, u)
    BY <1>2, <2>1, <2>2, SumMember
  <2>7. f[x] = g[x]
    BY <1>2, <2>1
  <2> QED BY <1>2, <2>4, <2>5, <2>6, <2>7
<1> QED BY <1>3, <1>4

-----------------------------------------------------------------------------
(* Sorted(S, R) lists S in the order of R. *)
LEMMA SortedIs ==
    ASSUME NEW S, IsFiniteSet(S), NEW R,
           \A x \in S : <<x, x>> \notin R,
           \A x, y \in S : x # y => <<x, y>> \in R \/ <<y, x>> \in R,
           \A x, y, z \in S : <<x, y>> \in R /\ <<y, z>> \in R => <<x, z>> \in R
    PROVE  /\ Sorted(S, R) \in Seq(S)
           /\ \A x \in S : \E i \in 1..Len(Sorted(S, R)) : Sorted(S, R)[i] = x
           /\ \A i, j \in 1..Len(Sorted(S, R)) :
                Sorted(S, R)[i] = Sorted(S, R)[j] => i = j
           /\ \A i, j \in 1..Len(Sorted(S, R)) :
                <<Sorted(S, R)[i], Sorted(S, R)[j]>> \in R => i < j
<1> DEFINE Under(x) == {y \in S : <<y, x>> \in R}
           rank == [x \in S |-> Cardinality(Under(x))]
           n == Cardinality(S)
<1>1. n \in Nat
  BY FS_CardinalityType
<1>2. ASSUME NEW x \in S PROVE IsFiniteSet(Under(x)) /\ rank[x] \in 0..(n - 1)
  <2>1. Under(x) \in SUBSET S /\ Under(x) # S
    OBVIOUS
  <2>2. IsFiniteSet(Under(x)) /\ Cardinality(Under(x)) <= n /\ Cardinality(Under(x)) # n
    <3> HIDE DEF Under
    <3> QED BY <2>1, FS_Subset
  <2>3. Cardinality(Under(x)) \in Nat
    <3> HIDE DEF Under
    <3> QED BY <2>2, FS_CardinalityType
  <2> QED
    <3>1. rank[x] = Cardinality(Under(x))
      OBVIOUS
    <3> HIDE DEF rank, Under, n
    <3> QED BY <1>1, <2>2, <2>3, <3>1
<1>3. ASSUME NEW x \in S, NEW y \in S, <<x, y>> \in R PROVE rank[x] < rank[y]
  <2>1. Under(x) \in SUBSET Under(y) /\ Under(x) # Under(y)
    <3>1. x \notin Under(x) /\ x \in Under(y)
      BY <1>3
    <3>2. ASSUME NEW z \in Under(x) PROVE z \in Under(y)
      BY <1>3, <3>2
    <3> HIDE DEF Under
    <3> QED BY <3>1, <3>2
  <2>2. IsFiniteSet(Under(y))
    BY <1>2
  <2>3. Cardinality(Under(x)) <= Cardinality(Under(y)) /\ Cardinality(Under(x)) # Cardinality(Under(y))
    <3> HIDE DEF Under
    <3> QED BY <2>1, <2>2, FS_Subset
  <2>4. rank[x] = Cardinality(Under(x)) /\ rank[y] = Cardinality(Under(y))
    OBVIOUS
  <2>5. rank[x] \in 0..(n - 1) /\ rank[y] \in 0..(n - 1)
    BY <1>2
  <2> HIDE DEF rank, Under, n
  <2> QED BY <1>1, <2>3, <2>4, <2>5
<1>4. rank \in Injection(S, 0..(n - 1))
  <2>1. rank \in [S -> 0..(n - 1)]
    BY <1>2
  <2>2. ASSUME NEW x \in S, NEW y \in S, rank[x] = rank[y] PROVE x = y
    <3>1. rank[x] \in 0..(n - 1) /\ rank[y] \in 0..(n - 1)
      BY <1>2
    <3>2. ~(rank[x] < rank[y]) /\ ~(rank[y] < rank[x])
      <4> HIDE DEF rank, n
      <4> QED BY <1>1, <2>2, <3>1
    <3>3. <<x, y>> \notin R /\ <<y, x>> \notin R
      <4> HIDE DEF rank
      <4> QED BY <1>3, <3>2
    <3> QED BY <3>3
  <2> HIDE DEF rank
  <2> QED BY <2>1, <2>2 DEF Injection, IsInjective
<1>5. rank \in Surjection(S, 0..(n - 1))
  <2>1. IsFiniteSet(0..(n - 1)) /\ Cardinality(0..(n - 1)) = n
    <3>1. 0 \in Int /\ n - 1 \in Int
      BY <1>1
    <3> HIDE DEF n
    <3> QED BY <1>1, <3>1, FS_Interval
  <2> HIDE DEF rank
  <2> QED BY <1>4, <2>1, FS_Injection
<1>6. PICK s : s = Sorted(S, R)
  OBVIOUS
<1>7. ASSUME NEW i \in 1..n PROVE s[i] \in S /\ rank[s[i]] = i - 1
  <2>1. i - 1 \in 0..(n - 1)
    <3> HIDE DEF n
    <3> QED BY <1>1
  <2>2. \E x \in S : rank[x] = i - 1
    <3> HIDE DEF rank, n
    <3> QED BY <1>5, <2>1 DEF Surjection
  <2>3. \E x \in S : Cardinality(Under(x)) = i - 1
    BY <2>2
  <2>4. s[i] = CHOOSE x \in S : Cardinality(Under(x)) = i - 1
    BY <1>6 DEF Sorted
  <2>5. s[i] \in S /\ Cardinality(Under(s[i])) = i - 1
    <3> HIDE DEF Under
    <3> QED BY <2>3, <2>4
  <2> QED BY <2>5
<1>8. s \in Seq(S) /\ Len(s) = n
  <2> DEFINE e(i) == CHOOSE x \in S : Cardinality(Under(x)) = i - 1
  <2>1. s = [i \in 1..n |-> e(i)]
    BY <1>6 DEF Sorted
  <2> HIDE DEF n, rank, e
  <2>2. s \in [1..n -> S]
    BY <2>1, <1>7
  <2> QED BY <1>1, <2>2
<1> HIDE DEF rank, n
<1>9. ASSUME NEW x \in S PROVE \E i \in 1..n : s[i] = x
  <2>1. rank[x] \in 0..(n - 1)
    BY <1>2
  <2>2. PICK i \in 1..n : i - 1 = rank[x]
    <3>1. rank[x] + 1 \in 1..n /\ (rank[x] + 1) - 1 = rank[x]
      BY <1>1, <2>1
    <3> QED BY <3>1
  <2>3. s[i] \in S /\ rank[s[i]] = rank[x]
    BY <1>7, <2>2
  <2>4. s[i] = x
    BY <1>4, <2>3 DEF Injection, IsInjective
  <2> QED BY <2>4
<1>10. ASSUME NEW i \in 1..n, NEW j \in 1..n
       PROVE  (s[i] = s[j] => i = j) /\ (<<s[i], s[j]>> \in R => i < j)
  <2>1. rank[s[i]] = i - 1 /\ rank[s[j]] = j - 1 /\ s[i] \in S /\ s[j] \in S
    BY <1>7
  <2>2. <<s[i], s[j]>> \in R => rank[s[i]] < rank[s[j]]
    BY <1>3, <2>1
  <2> QED BY <1>1, <2>1, <2>2
<1> QED BY <1>6, <1>8, <1>9, <1>10

-----------------------------------------------------------------------------
(* Recursion along a plan *)

(* A function of the chains after each step of a plan. *)
Unwinds(f, chains, plan, n) ==
    f = [i \in 0..n |-> IF i = 0 THEN chains ELSE Pop(f[i - 1], plan[i])]

(* There is one for every plan. *)
LEMMA UnwindsExists ==
    ASSUME NEW chains, NEW plan, NEW n \in Nat
    PROVE  \E f : Unwinds(f, chains, plan, n)
<1> DEFINE T == {i \in Nat : ~ \E f : Unwinds(f, chains, plan, i)}
<1> SUFFICES ASSUME T # {} PROVE FALSE
  OBVIOUS
<1>1. PICK k \in T : \A j \in T : k <= j
  <2>1. T \in SUBSET Nat
    OBVIOUS
  <2> HIDE DEF T
  <2> QED BY <2>1, Least
<1>2. CASE k = 0
  <2> DEFINE f == [i \in 0..0 |-> chains]
  <2>1. Unwinds(f, chains, plan, 0)
    BY DEF Unwinds
  <2> QED BY <2>1, <1>2
<1>3. CASE k # 0
  <2>1. k - 1 \in Nat /\ k - 1 \notin T
    BY <1>1, <1>3
  <2>2. PICK f : Unwinds(f, chains, plan, k - 1)
    BY <2>1
  <2> DEFINE g == [i \in 0..k |-> IF i = k THEN Pop(f[k - 1], plan[k]) ELSE f[i]]
  <2>3. ASSUME NEW i \in 0..k
        PROVE  g[i] = IF i = 0 THEN chains ELSE Pop(g[i - 1], plan[i])
    <3>1. CASE i = k
      BY <3>1, <1>3
    <3>2. CASE i # k
      <4>1. i \in 0..(k - 1) /\ g[i] = f[i]
        BY <3>2
      <4>2. f[i] = IF i = 0 THEN chains ELSE Pop(f[i - 1], plan[i])
        BY <4>1, <2>2 DEF Unwinds
      <4>3. i # 0 => g[i - 1] = f[i - 1]
        BY <4>1
      <4> QED BY <4>1, <4>2, <4>3
    <3> QED BY <3>1, <3>2
  <2>4. Unwinds(g, chains, plan, k)
    BY <2>3 DEF Unwinds
  <2> QED BY <2>4
<1> QED BY <1>2, <1>3

(* The chains after each step, from those before it. *)
LEMMA SnapshotsUnfold ==
    ASSUME NEW chains, NEW plan, Len(plan) \in Nat
    PROVE  /\ Snapshots(chains, plan)[0] = chains
           /\ \A i \in 1..Len(plan) :
                Snapshots(chains, plan)[i] = Pop(Snapshots(chains, plan)[i - 1], plan[i])
<1>1. \E f : Unwinds(f, chains, plan, Len(plan))
  BY UnwindsExists
<1>2. PICK r : r = Snapshots(chains, plan)
  OBVIOUS
<1>3. Unwinds(r, chains, plan, Len(plan))
  BY <1>1, <1>2 DEF Snapshots, Unwinds
<1>4. r = [i \in 0..Len(plan) |-> IF i = 0 THEN chains ELSE Pop(r[i - 1], plan[i])]
  BY <1>3 DEF Unwinds
<1>5. r[0] = chains
  BY <1>4
<1>6. ASSUME NEW i \in 1..Len(plan) PROVE r[i] = Pop(r[i - 1], plan[i])
  BY <1>4
<1> QED BY <1>2, <1>5, <1>6

(* A function of the store after each undo. *)
Undoes(f, s, undos, n) ==
    f = [i \in 0..n |-> IF i = 0 THEN s ELSE CommitUndo(f[i - 1], undos[i])]

(* There is one for all undos. *)
LEMMA UndoesExists ==
    ASSUME NEW s, NEW undos, NEW n \in Nat
    PROVE  \E f : Undoes(f, s, undos, n)
<1> DEFINE T == {i \in Nat : ~ \E f : Undoes(f, s, undos, i)}
<1> SUFFICES ASSUME T # {} PROVE FALSE
  OBVIOUS
<1>1. PICK k \in T : \A j \in T : k <= j
  <2>1. T \in SUBSET Nat
    OBVIOUS
  <2> HIDE DEF T
  <2> QED BY <2>1, Least
<1>2. CASE k = 0
  <2> DEFINE f == [i \in 0..0 |-> s]
  <2>1. Undoes(f, s, undos, 0)
    BY DEF Undoes
  <2> QED BY <2>1, <1>2
<1>3. CASE k # 0
  <2>1. k - 1 \in Nat /\ k - 1 \notin T
    BY <1>1, <1>3
  <2>2. PICK f : Undoes(f, s, undos, k - 1)
    BY <2>1
  <2> DEFINE g == [i \in 0..k |-> IF i = k THEN CommitUndo(f[k - 1], undos[k]) ELSE f[i]]
  <2>3. ASSUME NEW i \in 0..k
        PROVE  g[i] = IF i = 0 THEN s ELSE CommitUndo(g[i - 1], undos[i])
    <3>1. CASE i = k
      BY <3>1, <1>3
    <3>2. CASE i # k
      <4>1. i \in 0..(k - 1) /\ g[i] = f[i]
        BY <3>2
      <4>2. f[i] = IF i = 0 THEN s ELSE CommitUndo(f[i - 1], undos[i])
        BY <4>1, <2>2 DEF Undoes
      <4>3. i # 0 => g[i - 1] = f[i - 1]
        BY <4>1
      <4> QED BY <4>1, <4>2, <4>3
    <3> QED BY <3>1, <3>2
  <2>4. Undoes(g, s, undos, k)
    BY <2>3 DEF Undoes
  <2> QED BY <2>4
<1> QED BY <1>2, <1>3

(* The store after each undo, from the one before it. *)
LEMMA CommitUndosUnfold ==
    ASSUME NEW s, NEW undos, Len(undos) \in Nat
    PROVE  /\ CommitUndos(s, undos)[0] = s
           /\ \A i \in 1..Len(undos) :
                CommitUndos(s, undos)[i] = CommitUndo(CommitUndos(s, undos)[i - 1], undos[i])
<1>1. \E f : Undoes(f, s, undos, Len(undos))
  BY UndoesExists
<1>2. PICK r : r = CommitUndos(s, undos)
  OBVIOUS
<1>3. Undoes(r, s, undos, Len(undos))
  BY <1>1, <1>2 DEF CommitUndos, Undoes
<1>4. r = [i \in 0..Len(undos) |-> IF i = 0 THEN s ELSE CommitUndo(r[i - 1], undos[i])]
  BY <1>3 DEF Undoes
<1>5. r[0] = s
  BY <1>4
<1>6. ASSUME NEW i \in 1..Len(undos) PROVE r[i] = CommitUndo(r[i - 1], undos[i])
  BY <1>4
<1> QED BY <1>2, <1>5, <1>6

(* A function of the memory after each undo. *)
Forgets(f, m, undos, n) ==
    f = [i \in 0..n |-> IF i = 0 THEN m ELSE ApplyUndo(f[i - 1], undos[i])]

(* There is one for all undos. *)
LEMMA ForgetsExists ==
    ASSUME NEW m, NEW undos, NEW n \in Nat
    PROVE  \E f : Forgets(f, m, undos, n)
<1> DEFINE T == {i \in Nat : ~ \E f : Forgets(f, m, undos, i)}
<1> SUFFICES ASSUME T # {} PROVE FALSE
  OBVIOUS
<1>1. PICK k \in T : \A j \in T : k <= j
  <2>1. T \in SUBSET Nat
    OBVIOUS
  <2> HIDE DEF T
  <2> QED BY <2>1, Least
<1>2. CASE k = 0
  <2> DEFINE f == [i \in 0..0 |-> m]
  <2>1. Forgets(f, m, undos, 0)
    BY DEF Forgets
  <2> QED BY <2>1, <1>2
<1>3. CASE k # 0
  <2>1. k - 1 \in Nat /\ k - 1 \notin T
    BY <1>1, <1>3
  <2>2. PICK f : Forgets(f, m, undos, k - 1)
    BY <2>1
  <2> DEFINE g == [i \in 0..k |-> IF i = k THEN ApplyUndo(f[k - 1], undos[k]) ELSE f[i]]
  <2>3. ASSUME NEW i \in 0..k
        PROVE  g[i] = IF i = 0 THEN m ELSE ApplyUndo(g[i - 1], undos[i])
    <3>1. CASE i = k
      BY <3>1, <1>3
    <3>2. CASE i # k
      <4>1. i \in 0..(k - 1) /\ g[i] = f[i]
        BY <3>2
      <4>2. f[i] = IF i = 0 THEN m ELSE ApplyUndo(f[i - 1], undos[i])
        BY <4>1, <2>2 DEF Forgets
      <4>3. i # 0 => g[i - 1] = f[i - 1]
        BY <4>1
      <4> QED BY <4>1, <4>2, <4>3
    <3> QED BY <3>1, <3>2
  <2>4. Forgets(g, m, undos, k)
    BY <2>3 DEF Forgets
  <2> QED BY <2>4
<1> QED BY <1>2, <1>3

(* The memory after each undo, from the one before it. *)
LEMMA ApplyUndosUnfold ==
    ASSUME NEW m, NEW undos, Len(undos) \in Nat
    PROVE  /\ ApplyUndos(m, undos)[0] = m
           /\ \A i \in 1..Len(undos) :
                ApplyUndos(m, undos)[i] = ApplyUndo(ApplyUndos(m, undos)[i - 1], undos[i])
<1>1. \E f : Forgets(f, m, undos, Len(undos))
  BY ForgetsExists
<1>2. PICK r : r = ApplyUndos(m, undos)
  OBVIOUS
<1>3. Forgets(r, m, undos, Len(undos))
  BY <1>1, <1>2 DEF ApplyUndos, Forgets
<1>4. r = [i \in 0..Len(undos) |-> IF i = 0 THEN m ELSE ApplyUndo(r[i - 1], undos[i])]
  BY <1>3 DEF Forgets
<1>5. r[0] = m
  BY <1>4
<1>6. ASSUME NEW i \in 1..Len(undos) PROVE r[i] = ApplyUndo(r[i - 1], undos[i])
  BY <1>4
<1> QED BY <1>2, <1>5, <1>6

-----------------------------------------------------------------------------
(* Memory as a function of the chains *)

XEBalances(g) == [a \in Account |-> AssetBalanceOnChain(g[a], "XE")]

DelegatingTo(g, r) == {a \in Account : RepOnChain(g[a]) = r}

WeightsOf(g) == [r \in Rep |-> SumOf(XEBalances(g), DelegatingTo(g, r))]

(* What NewLedger computes when the chains are g. *)
MemoryOf(g) ==
    [balance |-> [a \in Account |-> [x \in Asset |-> AssetBalanceOnChain(g[a], x)]],
     rep     |-> [a \in Account |-> RepOnChain(g[a])],
     weight  |-> WeightsOf(g),
     keyset  |-> [a \in Account |-> KeysetOnChain(g[a])]]

Chains == [Account -> Seq(Block)]

(* The sums behind the weights are natural numbers. *)
LEMMA WeightTypes ==
    ASSUME NEW g \in Chains, NEW S \in SUBSET Account
    PROVE  /\ IsFiniteSet(S) /\ \A a \in S : XEBalances(g)[a] \in Nat
           /\ SumOver(XEBalances(g), S) \in Nat
<1>1. IsFiniteSet(S)
  BY Constants, FS_Subset
<1>2. ASSUME NEW a \in S PROVE XEBalances(g)[a] \in Nat
  <2>1. g[a] \in Seq(Block) /\ "XE" \in Asset
    BY DEF Chains, Asset
  <2>2. AssetBalanceOnChain(g[a], "XE") \in 0..MaxUint
    BY <2>1, ReadTypes
  <2> QED BY <2>2, Constants DEF XEBalances
<1>3. \A a \in S : XEBalances(g)[a] \in Int
  BY <1>2
<1> QED BY <1>1, <1>2, <1>3, SumType

(* updateDelegation, and its reverse: weights stay those of the chains     *)
(* when one chain changes, and no weight is cut off at zero.               *)
LEMMA WeightsMove ==
    ASSUME NEW g \in Chains, NEW a \in Account, NEW c \in Seq(Block)
    PROVE  MoveWeight(WeightsOf(g), RepOnChain(g[a]), AssetBalanceOnChain(g[a], "XE"),
                      RepOnChain(c), AssetBalanceOnChain(c, "XE"))
             = WeightsOf([g EXCEPT ![a] = c])
<1>1. PICK h : h = [g EXCEPT ![a] = c]
  OBVIOUS
<1>2. h \in Chains /\ h[a] = c /\ \A k \in Account \ {a} : h[k] = g[k]
  BY <1>1 DEF Chains
<1>3. PICK f : f = XEBalances(g)
  OBVIOUS
<1>4. PICK e : e = XEBalances(h)
  OBVIOUS
<1>5. /\ f[a] = AssetBalanceOnChain(g[a], "XE") /\ e[a] = AssetBalanceOnChain(c, "XE")
      /\ \A k \in Account \ {a} : e[k] = f[k]
  BY <1>2, <1>3, <1>4 DEF XEBalances
<1>6. PICK v : v = MoveWeight(WeightsOf(g), RepOnChain(g[a]), f[a], RepOnChain(c), e[a])
  OBVIOUS
<1>7. ASSUME NEW r \in Rep PROVE v[r] = WeightsOf(h)[r]
  <2>1. PICK S : S = DelegatingTo(g, r)
    OBVIOUS
  <2>2. PICK D : D = DelegatingTo(h, r)
    OBVIOUS
  <2>3. PICK O : O = S \ {a}
    OBVIOUS
  <2>4. /\ S \in SUBSET Account /\ D \in SUBSET Account /\ O \in SUBSET Account
        /\ D \ {a} = O
        /\ a \in S <=> RepOnChain(g[a]) = r
        /\ a \in D <=> RepOnChain(c) = r
    BY <1>2, <2>1, <2>2, <2>3 DEF DelegatingTo
  <2>5. /\ IsFiniteSet(S) /\ IsFiniteSet(D) /\ IsFiniteSet(O)
        /\ \A k \in S : f[k] \in Int
        /\ \A k \in D : e[k] \in Int
        /\ \A k \in O : f[k] \in Int
        /\ SumOver(f, S) \in Nat /\ SumOver(e, D) \in Nat /\ SumOver(f, O) \in Nat
    BY <1>2, <1>3, <1>4, <2>4, WeightTypes
  <2>6. f[a] \in Nat /\ e[a] \in Nat
    <3>1. {a} \in SUBSET Account
      OBVIOUS
    <3> QED BY <1>2, <1>3, <1>4, <3>1, WeightTypes
  <2>7. SumOver(f, O) = SumOver(e, O)
    BY <1>5, <2>3, <2>4, <2>5, SumSame
  <2>8. SumOver(f, S) = IF a \in S THEN f[a] + SumOver(f, O) ELSE SumOver(f, O)
    <3>1. CASE a \in S
      BY <2>3, <2>5, <3>1, SumMember
    <3>2. CASE a \notin S
      <4>1. S = O
        BY <2>3, <3>2
      <4> QED BY <3>2, <4>1
    <3> QED BY <3>1, <3>2
  <2>9. SumOver(e, D) = IF a \in D THEN e[a] + SumOver(e, O) ELSE SumOver(e, O)
    <3>1. CASE a \in D
      BY <2>4, <2>5, <3>1, SumMember
    <3>2. CASE a \notin D
      <4>1. D = O
        BY <2>4, <3>2
      <4> QED BY <3>2, <4>1
    <3> QED BY <3>1, <3>2
  <2>10. WeightsOf(g)[r] = SumOver(f, S) /\ WeightsOf(h)[r] = SumOver(e, D)
    BY <1>3, <1>4, <2>1, <2>2, SumOfIs DEF WeightsOf
  <2>11. PICK w : w = IF a \in S THEN Less(WeightsOf(g)[r], f[a]) ELSE WeightsOf(g)[r]
    OBVIOUS
  <2>12. w = SumOver(f, O)
    BY <2>5, <2>6, <2>8, <2>10, <2>11 DEF Less
  <2>13. v[r] = IF a \in D THEN w + e[a] ELSE w
    BY <1>6, <2>4, <2>11 DEF MoveWeight
  <2> QED BY <2>5, <2>6, <2>7, <2>9, <2>10, <2>12, <2>13
<1>8. v = [r \in Rep |-> v[r]]
  BY <1>6 DEF MoveWeight
<1>9. WeightsOf(h) = [r \in Rep |-> WeightsOf(h)[r]]
  BY DEF WeightsOf
<1>10. v = WeightsOf(h)
  BY <1>7, <1>8, <1>9
<1> QED BY <1>1, <1>5, <1>6, <1>10

(* What a block needs of the chain below it. *)
Fits(b, below) ==
    LET old == AssetBalanceOnChain(below, Body[b].asset)
    IN /\ b \in Block /\ b \notin ToSet(below)
       /\ Body[b].type \in {"genesis", "multisig_open"} => below = <<>>
       /\ Body[b].type \in {"send", "burn"} => Body[b].balance + Body[b].amount = old
       /\ Body[b].type = "receive" =>
            /\ Body[b].source \in Block
            /\ Body[Body[b].source].type = "send"
            /\ Body[Body[b].source].asset = Body[b].asset
            /\ Body[b].balance = old + Body[Body[b].source].amount
       /\ Body[b].type = "mint" => Body[b].balance = old + Body[b].amount
       /\ Body[b].type = "multisig_open" => Body[b].balance = 0
       /\ Body[b].type = "multisig_update" => Body[b].balance = old

(* Every block of the chain is of its account and fits. *)
SoundChain(c, a) ==
    \A i \in 1..Len(c) : Owner(c[i]) = a /\ Fits(c[i], SubSeq(c, 1, i - 1))

(* A sound chain may be extended by a block that fits, and shortened. *)
LEMMA SoundAppend ==
    ASSUME NEW c \in Seq(Block), NEW b \in Block
    PROVE  SoundChain(Append(c, b), Owner(b)) <=> SoundChain(c, Owner(b)) /\ Fits(b, c)
<1>1. PICK d : d = Append(c, b)
  OBVIOUS
<1>2. PICK n \in Nat : n = Len(c)
  OBVIOUS
<1>3. /\ d \in Seq(Block) /\ Len(d) = n + 1 /\ d[n + 1] = b
      /\ \A i \in 1..n : d[i] = c[i]
      /\ 1..(n + 1) = (1..n) \cup {n + 1}
  BY <1>1, <1>2
<1>4. ASSUME NEW k \in 0..n PROVE SubSeq(d, 1, k) = SubSeq(c, 1, k)
  <2>1. \A j \in 1..k : d[j] = c[j]
    BY <1>3
  <2>2. /\ SubSeq(d, 1, k) \in Seq(Block) /\ Len(SubSeq(d, 1, k)) = k
        /\ SubSeq(c, 1, k) \in Seq(Block) /\ Len(SubSeq(c, 1, k)) = k
    BY <1>2, <1>3
  <2>3. \A j \in 1..k : SubSeq(d, 1, k)[j] = d[j] /\ SubSeq(c, 1, k)[j] = c[j]
    BY <1>2, <1>3
  <2> QED BY <2>1, <2>2, <2>3
<1>5. SubSeq(d, 1, n) = c
  <2>1. SubSeq(c, 1, n) = c
    BY <1>2
  <2>2. SubSeq(d, 1, n) = SubSeq(c, 1, n)
    BY <1>4
  <2> QED BY <2>1, <2>2
<1>6. ASSUME NEW i \in 1..n PROVE d[i] = c[i] /\ SubSeq(d, 1, i - 1) = SubSeq(c, 1, i - 1)
  <2>1. i - 1 \in 0..n
    OBVIOUS
  <2> QED BY <1>3, <1>4, <2>1
<1>7. (\A i \in 1..n : Owner(d[i]) = Owner(b) /\ Fits(d[i], SubSeq(d, 1, i - 1)))
        <=> (\A i \in 1..n : Owner(c[i]) = Owner(b) /\ Fits(c[i], SubSeq(c, 1, i - 1)))
  <2>1. ASSUME NEW i \in 1..n
        PROVE  (Owner(d[i]) = Owner(b) /\ Fits(d[i], SubSeq(d, 1, i - 1)))
                 <=> (Owner(c[i]) = Owner(b) /\ Fits(c[i], SubSeq(c, 1, i - 1)))
    <3>1. d[i] = c[i] /\ SubSeq(d, 1, i - 1) = SubSeq(c, 1, i - 1)
      BY <1>6
    <3> QED BY <3>1
  <2> QED BY <2>1
<1>8. SoundChain(d, Owner(b)) <=>
        /\ \A i \in 1..n : Owner(d[i]) = Owner(b) /\ Fits(d[i], SubSeq(d, 1, i - 1))
        /\ Fits(b, c)
  <2>1. (n + 1) - 1 = n
    OBVIOUS
  <2> QED BY <1>3, <1>5, <2>1 DEF SoundChain
<1>9. SoundChain(c, Owner(b)) <=>
        \A i \in 1..n : Owner(c[i]) = Owner(b) /\ Fits(c[i], SubSeq(c, 1, i - 1))
  BY <1>2 DEF SoundChain
<1> QED BY <1>1, <1>7, <1>8, <1>9

(* commitBlockWrite in memory. *)
LEMMA MemoryAppend ==
    ASSUME NEW g \in Chains, NEW b \in Block
    PROVE  ApplyBlock(MemoryOf(g), b) =
             MemoryOf([g EXCEPT ![Owner(b)] = Append(@, b)])
<1>1. PICK a \in Account : a = Owner(b) /\ a = Body[b].account
  BY Constants DEF Owner
<1>0. g[a] \in Seq(Block)
  BY DEF Chains
<1>2. PICK c \in Seq(Block) : c = Append(g[a], b)
  <2>1. PICK d \in Seq(Block) : d = g[a]
    BY <1>0
  <2>2. Append(d, b) \in Seq(Block)
    OBVIOUS
  <2> QED BY <2>1, <2>2
<1>3. PICK h : h = [g EXCEPT ![a] = c]
  OBVIOUS
<1>4. h \in Chains /\ h[a] = c /\ \A k \in Account \ {a} : h[k] = g[k]
  BY <1>3 DEF Chains
<1>5. g[a] \in Seq(Block) /\ "XE" \in Asset
  BY DEF Chains, Asset
<1>6. /\ \A x \in Asset : AssetBalanceOnChain(c, x) =
           IF Body[b].asset = x THEN Body[b].balance ELSE AssetBalanceOnChain(g[a], x)
      /\ RepOnChain(c) = IF Body[b].rep # None THEN Body[b].rep ELSE RepOnChain(g[a])
      /\ KeysetOnChain(c) = IF SetsKeyset(b) THEN Body[b].keyset ELSE KeysetOnChain(g[a])
  BY <1>2, <1>5, BalanceAppend, RepAppend, KeysetAppend
<1>7. PICK m : m = MemoryOf(g)
  OBVIOUS
<1>8. /\ m.balance = [k \in Account |-> [x \in Asset |-> AssetBalanceOnChain(g[k], x)]]
      /\ m.rep = [k \in Account |-> RepOnChain(g[k])]
      /\ m.weight = WeightsOf(g)
      /\ m.keyset = [k \in Account |-> KeysetOnChain(g[k])]
  BY <1>7 DEF MemoryOf
<1>9. [m.balance[a] EXCEPT ![Body[b].asset] = Body[b].balance] =
        [x \in Asset |-> AssetBalanceOnChain(c, x)]
  BY <1>6, <1>8
<1>10. [m.balance EXCEPT ![a] = [x \in Asset |-> AssetBalanceOnChain(c, x)]] =
         [k \in Account |-> [x \in Asset |-> AssetBalanceOnChain(h[k], x)]]
  BY <1>4, <1>8
<1>11. [m.rep EXCEPT ![a] = RepOnChain(c)] = [k \in Account |-> RepOnChain(h[k])]
  BY <1>4, <1>8
<1>12. [m.keyset EXCEPT ![a] = KeysetOnChain(c)] = [k \in Account |-> KeysetOnChain(h[k])]
  BY <1>4, <1>8
<1>13. MoveWeight(m.weight, m.rep[a], m.balance[a]["XE"], RepOnChain(c),
                  AssetBalanceOnChain(c, "XE")) = WeightsOf(h)
  <2>1. m.rep[a] = RepOnChain(g[a]) /\ m.balance[a]["XE"] = AssetBalanceOnChain(g[a], "XE")
    BY <1>5, <1>8
  <2>2. MoveWeight(WeightsOf(g), RepOnChain(g[a]), AssetBalanceOnChain(g[a], "XE"),
                   RepOnChain(c), AssetBalanceOnChain(c, "XE")) = WeightsOf([g EXCEPT ![a] = c])
    BY WeightsMove
  <2> QED BY <1>3, <1>8, <2>1, <2>2
<1>14. RepOnChain(c) = IF Body[b].rep # None THEN Body[b].rep ELSE m.rep[a]
  BY <1>6, <1>8
<1>15. KeysetOnChain(c) = IF SetsKeyset(b) THEN Body[b].keyset ELSE m.keyset[a]
  BY <1>6, <1>8
<1>16. ApplyBlock(m, b) =
         [balance |-> [m.balance EXCEPT ![a] = [m.balance[a] EXCEPT ![Body[b].asset] = Body[b].balance]],
          rep     |-> [m.rep EXCEPT ![a] = RepOnChain(c)],
          weight  |-> MoveWeight(m.weight, m.rep[a], m.balance[a]["XE"], RepOnChain(c),
                        [m.balance[a] EXCEPT ![Body[b].asset] = Body[b].balance]["XE"]),
          keyset  |-> [m.keyset EXCEPT ![a] = KeysetOnChain(c)]]
  BY <1>1, <1>14, <1>15 DEF ApplyBlock
<1>17. [m.balance[a] EXCEPT ![Body[b].asset] = Body[b].balance]["XE"] = AssetBalanceOnChain(c, "XE")
  BY <1>5, <1>9
<1>18. ApplyBlock(m, b) = MemoryOf(h)
  BY <1>9, <1>10, <1>11, <1>12, <1>13, <1>16, <1>17 DEF MemoryOf
<1> QED BY <1>1, <1>2, <1>3, <1>7, <1>18

(* buildBlockUndo's closure. *)
LEMMA MemoryUndo ==
    ASSUME NEW g \in Chains, NEW u, u.block \in Block, u.chain \in Seq(Block),
           g[Owner(u.block)] = Append(u.chain, u.block),
           Fits(u.block, u.chain), Body[u.block].type # "multisig_update"
    PROVE  ApplyUndo(MemoryOf(g), u) = MemoryOf([g EXCEPT ![Owner(u.block)] = u.chain])
<1>0. PICK b \in Block : b = u.block
  OBVIOUS
<1>1. PICK a \in Account : a = Owner(b) /\ a = Body[b].account
  BY Constants DEF Owner
<1>2. PICK c \in Seq(Block) : c = u.chain
  OBVIOUS
<1>3. PICK h : h = [g EXCEPT ![a] = c]
  OBVIOUS
<1>4. h \in Chains /\ h[a] = c /\ \A k \in Account \ {a} : h[k] = g[k]
  BY <1>3 DEF Chains
<1>5. g[a] = Append(c, b) /\ "XE" \in Asset
  BY <1>0, <1>1, <1>2 DEF Asset
<1>6. /\ \A x \in Asset : AssetBalanceOnChain(g[a], x) =
           IF Body[b].asset = x THEN Body[b].balance ELSE AssetBalanceOnChain(c, x)
      /\ KeysetOnChain(g[a]) = IF SetsKeyset(b) THEN Body[b].keyset ELSE KeysetOnChain(c)
  BY <1>5, BalanceAppend, KeysetAppend
<1>7. PICK m : m = MemoryOf(g)
  OBVIOUS
<1>8. /\ m.balance = [k \in Account |-> [x \in Asset |-> AssetBalanceOnChain(g[k], x)]]
      /\ m.rep = [k \in Account |-> RepOnChain(g[k])]
      /\ m.weight = WeightsOf(g)
      /\ m.keyset = [k \in Account |-> KeysetOnChain(g[k])]
  BY <1>7 DEF MemoryOf
<1>9. BalancesWithout(m.balance[a], u) = [x \in Asset |-> AssetBalanceOnChain(c, x)]
  <2>1. CASE c = <<>>
    <3>1. \A x \in Asset : AssetBalanceOnChain(c, x) = 0
      BY <2>1, EmptyChain
    <3> QED BY <1>2, <2>1, <3>1 DEF BalancesWithout, Zero
  <2>2. CASE c # <<>>
    <3>1. BalancesWithout(m.balance[a], u) =
            [m.balance[a] EXCEPT ![Body[b].asset] = AssetBalanceOnChain(c, Body[b].asset)]
      BY <1>0, <1>2, <2>2 DEF BalancesWithout
    <3>2. m.balance[a] = [x \in Asset |-> AssetBalanceOnChain(g[a], x)]
      BY <1>8
    <3> QED BY <1>6, <3>1, <3>2
  <2> QED BY <2>1, <2>2
<1>10. [m.balance EXCEPT ![a] = [x \in Asset |-> AssetBalanceOnChain(c, x)]] =
         [k \in Account |-> [x \in Asset |-> AssetBalanceOnChain(h[k], x)]]
  BY <1>4, <1>8
<1>11. [m.rep EXCEPT ![a] = RepOnChain(c)] = [k \in Account |-> RepOnChain(h[k])]
  BY <1>4, <1>8
<1>12. [m.keyset EXCEPT ![a] = KeysetOnChain(c)] = [k \in Account |-> KeysetOnChain(h[k])]
  BY <1>4, <1>8
<1>13. MoveWeight(m.weight, m.rep[a], AssetBalanceOnChain(Append(c, b), "XE"), RepOnChain(c),
                  AssetBalanceOnChain(c, "XE")) = WeightsOf(h)
  <2>1. m.rep[a] = RepOnChain(g[a]) /\ AssetBalanceOnChain(Append(c, b), "XE") = AssetBalanceOnChain(g[a], "XE")
    BY <1>5, <1>8
  <2>2. MoveWeight(WeightsOf(g), RepOnChain(g[a]), AssetBalanceOnChain(g[a], "XE"),
                   RepOnChain(c), AssetBalanceOnChain(c, "XE")) = WeightsOf([g EXCEPT ![a] = c])
    BY WeightsMove
  <2> QED BY <1>3, <1>8, <2>1, <2>2
<1>14. KeysetOnChain(c) = IF Body[b].type = "multisig_open" THEN NoKeyset ELSE m.keyset[a]
  <2>1. CASE Body[b].type = "multisig_open"
    <3>1. c = <<>>
      BY <1>0, <1>2, <2>1 DEF Fits
    <3> QED BY <2>1, <3>1, EmptyChain
  <2>2. CASE Body[b].type # "multisig_open"
    <3>1. ~SetsKeyset(b)
      BY <1>0, <2>2 DEF SetsKeyset
    <3> QED BY <1>6, <1>8, <2>2, <3>1
  <2> QED BY <2>1, <2>2
<1>15. ApplyUndo(m, u) =
         [balance |-> [m.balance EXCEPT ![a] = BalancesWithout(m.balance[a], u)],
          rep     |-> [m.rep EXCEPT ![a] = RepOnChain(c)],
          weight  |-> MoveWeight(m.weight, m.rep[a], AssetBalanceOnChain(Append(c, b), "XE"),
                                 RepOnChain(c), AssetBalanceOnChain(c, "XE")),
          keyset  |-> [m.keyset EXCEPT ![a] = KeysetOnChain(c)]]
  BY <1>0, <1>1, <1>2, <1>14 DEF ApplyUndo
<1>16. ApplyUndo(m, u) = MemoryOf(h)
  BY <1>9, <1>10, <1>11, <1>12, <1>13, <1>15 DEF MemoryOf
<1> QED BY <1>0, <1>1, <1>2, <1>3, <1>7, <1>16
-----------------------------------------------------------------------------
(* Unwinding the chains of a plan *)

(* A plan, and the chains of its accounts, of which each step takes the    *)
(* last block.                                                             *)
Unwinding(f, plan) ==
    /\ plan \in Seq(Block)
    /\ f \in [Owners(plan) -> Seq(Block)]
    /\ CanBuild(f, plan)

(* The plan's accounts. *)
LEMMA OwnersAre ==
    ASSUME NEW plan \in Seq(Block)
    PROVE  /\ Owners(plan) \subseteq Account
           /\ Len(plan) \in Nat
           /\ \A i \in 1..Len(plan) : plan[i] \in Block /\ Owner(plan[i]) \in Owners(plan)
           /\ \A a \in Owners(plan) : \E i \in 1..Len(plan) : a = Owner(plan[i])
<1>1. Len(plan) \in Nat /\ \A i \in 1..Len(plan) : plan[i] \in Block
  OBVIOUS
<1>2. ToSet(plan) = {plan[i] : i \in 1..Len(plan)}
  BY DEF ToSet
<1>3. ASSUME NEW i \in 1..Len(plan)
      PROVE  plan[i] \in Block /\ Owner(plan[i]) \in Owners(plan)
  <2>1. plan[i] \in ToSet(plan)
    BY <1>2
  <2> QED BY <1>1, <2>1 DEF Owners
<1>4. ASSUME NEW a \in Owners(plan)
      PROVE  a \in Account /\ \E i \in 1..Len(plan) : a = Owner(plan[i])
  <2>1. PICK b \in ToSet(plan) : a = Owner(b)
    BY DEF Owners
  <2>2. PICK i \in 1..Len(plan) : b = plan[i]
    BY <1>2
  <2>3. b \in Block
    BY <1>1, <2>2
  <2>4. Owner(b) \in Account
    BY <2>3, Constants DEF Owner
  <2> QED BY <2>1, <2>2, <2>4
<1> QED BY <1>1, <1>3, <1>4

(* One step takes the last block of one chain. *)
LEMMA SnapshotStep ==
    ASSUME NEW f, NEW plan, Unwinding(f, plan), NEW i \in 1..Len(plan),
           Snapshots(f, plan)[i - 1] \in [Owners(plan) -> Seq(Block)]
    PROVE  LET a == Owner(plan[i])
               s == Snapshots(f, plan)
           IN /\ s[i] \in [Owners(plan) -> Seq(Block)]
              /\ s[i] = [s[i - 1] EXCEPT ![a] = s[i][a]]
              /\ s[i - 1][a] = Append(s[i][a], plan[i])
<1>1. plan \in Seq(Block) /\ Len(plan) \in Nat /\ plan[i] \in Block /\ Owner(plan[i]) \in Owners(plan)
  BY OwnersAre DEF Unwinding
<1>2. PICK a \in Owners(plan) : a = Owner(plan[i])
  BY <1>1
<1>3. PICK h \in [Owners(plan) -> Seq(Block)] : h = Snapshots(f, plan)[i - 1]
  OBVIOUS
<1>4. PICK k : k = Snapshots(f, plan)[i]
  OBVIOUS
<1>5. k = [h EXCEPT ![a] = Front(h[a])]
  <2>1. k = Pop(h, plan[i])
    BY <1>1, <1>3, <1>4, SnapshotsUnfold
  <2> QED BY <1>2, <2>1 DEF Pop
<1>6. Frontier(h[a]) = plan[i]
  BY <1>2, <1>3 DEF Unwinding, CanBuild
<1>7. h[a] \in Seq(Block) /\ h[a] # <<>> /\ Last(h[a]) = plan[i]
  BY <1>1, <1>6, Constants DEF Frontier
<1>8. Front(h[a]) \in Seq(Block) /\ Append(Front(h[a]), plan[i]) = h[a]
  BY <1>7, FrontLast
<1>9. k \in [Owners(plan) -> Seq(Block)] /\ k[a] = Front(h[a]) /\ k = [h EXCEPT ![a] = k[a]]
  BY <1>5, <1>8
<1> QED BY <1>2, <1>3, <1>4, <1>8, <1>9

(* All the snapshots are chains. *)
LEMMA SnapshotTypes ==
    ASSUME NEW f, NEW plan, Unwinding(f, plan), NEW n \in 0..Len(plan)
    PROVE  Snapshots(f, plan)[n] \in [Owners(plan) -> Seq(Block)]
<1> DEFINE T == {i \in 0..Len(plan) : Snapshots(f, plan)[i] \notin [Owners(plan) -> Seq(Block)]}
<1>0. Len(plan) \in Nat
  BY OwnersAre DEF Unwinding
<1> SUFFICES ASSUME T # {} PROVE FALSE
  OBVIOUS
<1>1. PICK m \in T : \A j \in T : m <= j
  <2>1. T \in SUBSET Nat
    OBVIOUS
  <2> HIDE DEF T
  <2> QED BY <2>1, Least
<1>2. CASE m = 0
  BY <1>0, <1>1, <1>2, SnapshotsUnfold DEF Unwinding
<1>3. CASE m # 0
  <2>1. m \in 1..Len(plan) /\ m - 1 \in 0..Len(plan) /\ m - 1 \notin T
    BY <1>0, <1>1, <1>3
  <2>2. Snapshots(f, plan)[m - 1] \in [Owners(plan) -> Seq(Block)]
    BY <2>1
  <2> QED BY <1>1, <2>1, <2>2, SnapshotStep
<1> QED BY <1>2, <1>3

(* Each step, without the induction. *)
LEMMA SnapshotSteps ==
    ASSUME NEW f, NEW plan, Unwinding(f, plan), NEW i \in 1..Len(plan)
    PROVE  LET a == Owner(plan[i])
               s == Snapshots(f, plan)
           IN /\ a \in Owners(plan) /\ a \in Account /\ plan[i] \in Block
              /\ s[i] \in [Owners(plan) -> Seq(Block)]
              /\ s[i - 1] \in [Owners(plan) -> Seq(Block)]
              /\ s[i] = [s[i - 1] EXCEPT ![a] = s[i][a]]
              /\ s[i - 1][a] = Append(s[i][a], plan[i])
<1>1. Len(plan) \in Nat /\ plan \in Seq(Block)
  BY OwnersAre DEF Unwinding
<1>2. i - 1 \in 0..Len(plan)
  BY <1>1
<1>3. Snapshots(f, plan)[i - 1] \in [Owners(plan) -> Seq(Block)]
  BY <1>2, SnapshotTypes
<1>4. plan[i] \in Block /\ Owner(plan[i]) \in Owners(plan) /\ Owner(plan[i]) \in Account
  <2>1. Owners(plan) \subseteq Account /\ plan[i] \in Block /\ Owner(plan[i]) \in Owners(plan)
    BY <1>1, OwnersAre
  <2> QED BY <2>1
<1>5. PICK s : s = Snapshots(f, plan)
  OBVIOUS
<1>6. PICK a : a = Owner(plan[i])
  OBVIOUS
<1>7. /\ s[i] \in [Owners(plan) -> Seq(Block)]
      /\ s[i] = [s[i - 1] EXCEPT ![a] = s[i][a]]
      /\ s[i - 1][a] = Append(s[i][a], plan[i])
  BY <1>3, <1>5, <1>6, SnapshotStep
<1> QED BY <1>3, <1>4, <1>5, <1>6, <1>7

(* What is left of a sound chain is sound. *)
LEMMA SnapshotsSound ==
    ASSUME NEW f, NEW plan, Unwinding(f, plan), NEW n \in 0..Len(plan),
           \A a \in Owners(plan) : SoundChain(f[a], a)
    PROVE  \A a \in Owners(plan) : SoundChain(Snapshots(f, plan)[n][a], a)
<1> DEFINE Sound(i) == \A a \in Owners(plan) : SoundChain(Snapshots(f, plan)[i][a], a)
           T == {i \in 0..Len(plan) : ~Sound(i)}
<1>0. Len(plan) \in Nat
  BY OwnersAre DEF Unwinding
<1> SUFFICES ASSUME T # {} PROVE FALSE
  OBVIOUS
<1>1. PICK m \in T : \A j \in T : m <= j
  <2>1. T \in SUBSET Nat
    OBVIOUS
  <2> HIDE DEF T
  <2> QED BY <2>1, Least
<1>2. CASE m = 0
  <2>1. Snapshots(f, plan)[0] = f
    BY <1>0, SnapshotsUnfold
  <2> QED BY <1>1, <1>2, <2>1
<1>3. CASE m # 0
  <2>1. m \in 1..Len(plan) /\ m - 1 \in 0..Len(plan) /\ m - 1 \notin T
    BY <1>0, <1>1, <1>3
  <2>2. Sound(m - 1) /\ ~Sound(m)
    BY <1>1, <2>1
  <2>3. PICK h : h = Snapshots(f, plan)[m - 1]
    OBVIOUS
  <2>4. PICK k : k = Snapshots(f, plan)[m]
    OBVIOUS
  <2>5. PICK a : a = Owner(plan[m])
    OBVIOUS
  <2>6. /\ a \in Owners(plan) /\ plan[m] \in Block
        /\ k \in [Owners(plan) -> Seq(Block)] /\ h \in [Owners(plan) -> Seq(Block)]
        /\ k = [h EXCEPT ![a] = k[a]] /\ h[a] = Append(k[a], plan[m])
    BY <2>1, <2>3, <2>4, <2>5, SnapshotSteps
  <2>7. SoundChain(h[a], a)
    BY <2>2, <2>3, <2>6
  <2>8. SoundChain(k[a], a)
    <3>1. k[a] \in Seq(Block)
      BY <2>6
    <3> QED BY <2>5, <2>6, <2>7, <3>1, SoundAppend
  <2>9. ASSUME NEW e \in Owners(plan) PROVE SoundChain(k[e], e)
    <3>1. CASE e = a
      BY <2>8, <3>1
    <3>2. CASE e # a
      <4>1. k[e] = h[e]
        BY <2>6, <3>2
      <4> QED BY <2>2, <2>3, <4>1
    <3> QED BY <3>1, <3>2
  <2> QED BY <2>2, <2>4, <2>9
<1> QED BY <1>2, <1>3

(* The block of each step fits the chain that is left. *)
LEMMA SnapshotsFit ==
    ASSUME NEW f, NEW plan, Unwinding(f, plan), NEW i \in 1..Len(plan),
           \A a \in Owners(plan) : SoundChain(f[a], a)
    PROVE  Fits(plan[i], Snapshots(f, plan)[i][Owner(plan[i])])
<1>0. Len(plan) \in Nat
  BY OwnersAre DEF Unwinding
<1>1. i - 1 \in 0..Len(plan)
  BY <1>0
<1>2. PICK h : h = Snapshots(f, plan)[i - 1]
  OBVIOUS
<1>3. PICK k : k = Snapshots(f, plan)[i]
  OBVIOUS
<1>4. PICK a : a = Owner(plan[i])
  OBVIOUS
<1>5. /\ a \in Owners(plan) /\ plan[i] \in Block
      /\ k \in [Owners(plan) -> Seq(Block)] /\ h[a] = Append(k[a], plan[i])
  BY <1>2, <1>3, <1>4, SnapshotSteps
<1>6. SoundChain(h[a], a)
  BY <1>1, <1>2, <1>5, SnapshotsSound
<1>7. k[a] \in Seq(Block)
  BY <1>5
<1> QED BY <1>3, <1>4, <1>5, <1>6, <1>7, SoundAppend

(* The chains g, with those of h in their place. *)
Overlay(g, h) == [a \in Account |-> IF a \in DOMAIN h THEN h[a] ELSE g[a]]

UndosOf(f, plan) ==
    [i \in 1..Len(plan) |->
        [block |-> plan[i], chain |-> Snapshots(f, plan)[i][Owner(plan[i])]]]

(* The chains after a step. *)
LEMMA OverlayStep ==
    ASSUME NEW f, NEW plan, Unwinding(f, plan), NEW i \in 1..Len(plan), NEW g \in Chains
    PROVE  LET a == Owner(plan[i])
               s == Snapshots(f, plan)
           IN /\ Overlay(g, s[i - 1]) \in Chains
              /\ Overlay(g, s[i - 1])[a] = Append(s[i][a], plan[i])
              /\ s[i][a] \in Seq(Block)
              /\ Overlay(g, s[i]) = [Overlay(g, s[i - 1]) EXCEPT ![a] = s[i][a]]
<1>1. PICK h : h = Snapshots(f, plan)[i - 1]
  OBVIOUS
<1>2. PICK k : k = Snapshots(f, plan)[i]
  OBVIOUS
<1>3. PICK a : a = Owner(plan[i])
  OBVIOUS
<1>4. /\ a \in Owners(plan) /\ plan[i] \in Block /\ a \in Account
      /\ k \in [Owners(plan) -> Seq(Block)] /\ h \in [Owners(plan) -> Seq(Block)]
      /\ k = [h EXCEPT ![a] = k[a]] /\ h[a] = Append(k[a], plan[i])
  BY <1>1, <1>2, <1>3, SnapshotSteps
<1>5. DOMAIN h = Owners(plan) /\ DOMAIN k = Owners(plan) /\ k[a] \in Seq(Block)
  BY <1>4
<1>6. Overlay(g, h) \in Chains
  BY <1>4, <1>5 DEF Overlay, Chains
<1>7. Overlay(g, h)[a] = Append(k[a], plan[i])
  BY <1>4, <1>5 DEF Overlay
<1>8. Overlay(g, k) = [Overlay(g, h) EXCEPT ![a] = k[a]]
  <2>1. \A e \in Owners(plan) \ {a} : k[e] = h[e]
    BY <1>4
  <2> QED BY <1>4, <1>5, <2>1 DEF Overlay
<1> QED BY <1>1, <1>2, <1>3, <1>5, <1>6, <1>7, <1>8

(* The memory after each undo is that of the chains that are left. *)
LEMMA MemoryUnwinds ==
    ASSUME NEW g \in Chains, NEW plan, Unwinding([a \in Owners(plan) |-> g[a]], plan),
           \A a \in Account : SoundChain(g[a], a), NEW n \in 0..Len(plan)
    PROVE  LET f == [a \in Owners(plan) |-> g[a]]
           IN ApplyUndos(MemoryOf(g), UndosOf(f, plan))[n] =
                MemoryOf(Overlay(g, Snapshots(f, plan)[n]))
<1>1. PICK f : f = [a \in Owners(plan) |-> g[a]]
  OBVIOUS
<1>2. Unwinding(f, plan) /\ Len(plan) \in Nat /\ Owners(plan) \subseteq Account
  BY <1>1, OwnersAre DEF Unwinding
<1>3. \A a \in Owners(plan) : SoundChain(f[a], a)
  BY <1>1, <1>2
<1>4. PICK us : us = UndosOf(f, plan)
  OBVIOUS
<1>5. Len(us) = Len(plan) /\ \A i \in 1..Len(plan) :
        us[i] = [block |-> plan[i], chain |-> Snapshots(f, plan)[i][Owner(plan[i])]]
  BY <1>2, <1>4 DEF UndosOf
<1> DEFINE Right(i) == ApplyUndos(MemoryOf(g), us)[i] = MemoryOf(Overlay(g, Snapshots(f, plan)[i]))
           T == {i \in 0..Len(plan) : ~Right(i)}
<1> SUFFICES ASSUME T # {} PROVE FALSE
  BY <1>1, <1>4
<1>6. PICK m \in T : \A j \in T : m <= j
  <2>1. T \in SUBSET Nat
    OBVIOUS
  <2> HIDE DEF T
  <2> QED BY <2>1, Least
<1>7. CASE m = 0
  <2>1. Snapshots(f, plan)[0] = f
    BY <1>2, SnapshotsUnfold
  <2>2. ApplyUndos(MemoryOf(g), us)[0] = MemoryOf(g)
    BY <1>2, <1>5, ApplyUndosUnfold
  <2>3. Overlay(g, f) = g
    BY <1>1, <1>2 DEF Overlay, Chains
  <2> QED BY <1>6, <1>7, <2>1, <2>2, <2>3
<1>8. CASE m # 0
  <2>1. m \in 1..Len(plan) /\ m - 1 \in 0..Len(plan) /\ m - 1 \notin T
    BY <1>2, <1>6, <1>8
  <2>2. Right(m - 1) /\ ~Right(m)
    BY <1>6, <2>1
  <2>3. PICK h : h = Overlay(g, Snapshots(f, plan)[m - 1])
    OBVIOUS
  <2>4. PICK u : u = us[m]
    OBVIOUS
  <2>5. u.block = plan[m] /\ u.chain = Snapshots(f, plan)[m][Owner(plan[m])]
    <3>1. u = [block |-> plan[m], chain |-> Snapshots(f, plan)[m][Owner(plan[m])]]
      BY <1>5, <2>1, <2>4
    <3> QED BY <3>1
  <2>6. /\ h \in Chains /\ h[Owner(u.block)] = Append(u.chain, u.block)
        /\ u.chain \in Seq(Block)
        /\ Overlay(g, Snapshots(f, plan)[m]) = [h EXCEPT ![Owner(u.block)] = u.chain]
    BY <1>2, <2>1, <2>3, <2>5, OverlayStep
  <2>7. Fits(u.block, u.chain) /\ u.block \in Block
    BY <1>2, <1>3, <2>1, <2>5, SnapshotsFit DEF Fits
  <2>8. Body[u.block].type # "multisig_update"
    BY <1>2, <2>1, <2>5 DEF Unwinding, CanBuild
  <2>9. ApplyUndos(MemoryOf(g), us)[m] = ApplyUndo(MemoryOf(h), u)
    <3>1. ApplyUndos(MemoryOf(g), us)[m] = ApplyUndo(ApplyUndos(MemoryOf(g), us)[m - 1], us[m])
      BY <1>2, <1>5, <2>1, ApplyUndosUnfold
    <3> QED BY <2>2, <2>3, <2>4, <3>1
  <2>10. ApplyUndo(MemoryOf(h), u) = MemoryOf([h EXCEPT ![Owner(u.block)] = u.chain])
    BY <2>6, <2>7, <2>8, MemoryUndo
  <2> QED BY <2>2, <2>6, <2>9, <2>10
<1> QED BY <1>7, <1>8
-----------------------------------------------------------------------------
(* Supply *)

On(g) == UNION {ToSet(g[a]) : a \in Account}

BalancesIn(g, x) == [a \in Account |-> AssetBalanceOnChain(g[a], x)]

Kind(S, type, x) == {b \in S : Body[b].type = type /\ Body[b].asset = x}

OfAsset(S, x) == {b \in S : Body[b].asset = x}

(* What the chains g and the pending sends P hold is what was put in, less *)
(* what was burned.                                                        *)
Balanced(g, P, x) ==
    SumOver(BalancesIn(g, x), Account) + SumOver(Term, OfAsset(P, x))
      + SumOver(Term, Kind(On(g), "burn", x))
    = SumOver(Term, Kind(On(g), "genesis", x)) + SumOver(Term, Kind(On(g), "mint", x))

(* The blocks on the chains. *)
LEMMA OnAre ==
    ASSUME NEW g \in Chains
    PROVE  /\ On(g) \subseteq Block
           /\ \A b \in On(g) : \E a \in Account : b \in ToSet(g[a])
           /\ \A a \in Account : ToSet(g[a]) \subseteq On(g)
<1>1. ASSUME NEW a \in Account PROVE ToSet(g[a]) \subseteq Block
  <2>1. PICK c \in Seq(Block) : c = g[a]
    BY DEF Chains
  <2>2. ToSet(c) \subseteq Block
    BY DEF ToSet
  <2> QED BY <2>1, <2>2
<1> QED BY <1>1 DEF On

(* A block of sound chains is on the chain of its account. *)
LEMMA SoundOwner ==
    ASSUME NEW g \in Chains, \A a \in Account : SoundChain(g[a], a), NEW b \in On(g)
    PROVE  b \in ToSet(g[Owner(b)]) /\ Owner(b) \in Account
<1>1. PICK a \in Account : b \in ToSet(g[a])
  BY OnAre
<1>2. PICK c \in Seq(Block) : c = g[a]
  BY DEF Chains
<1>3. PICK i \in 1..Len(c) : b = c[i]
  BY <1>1, <1>2 DEF ToSet
<1>4. Owner(b) = a
  BY <1>2, <1>3 DEF SoundChain
<1> QED BY <1>1, <1>4

(* The members of an extended chain. *)
LEMMA ToSetAppend ==
    ASSUME NEW c \in Seq(Block), NEW b \in Block
    PROVE  ToSet(Append(c, b)) = ToSet(c) \cup {b}
<1>1. PICK d : d = Append(c, b)
  OBVIOUS
<1>2. PICK n \in Nat : n = Len(c)
  OBVIOUS
<1>3. /\ d \in Seq(Block) /\ Len(d) = n + 1 /\ d[n + 1] = b
      /\ \A i \in 1..n : d[i] = c[i]
      /\ 1..(n + 1) = (1..n) \cup {n + 1}
  BY <1>1, <1>2
<1>4. ToSet(d) = {d[i] : i \in 1..(n + 1)} /\ ToSet(c) = {c[i] : i \in 1..n}
  BY <1>2, <1>3 DEF ToSet
<1>5. {d[i] : i \in 1..(n + 1)} = {c[i] : i \in 1..n} \cup {b}
  BY <1>3
<1> QED BY <1>1, <1>4, <1>5

(* Chains g, and h with one block more. *)
Grows(g, h, b) ==
    /\ g \in Chains /\ b \in Block
    /\ h = [g EXCEPT ![Owner(b)] = Append(@, b)]
    /\ Fits(b, g[Owner(b)])
    /\ \A a \in Account : SoundChain(g[a], a)

(* The block was on no chain. *)
LEMMA GrowsBlocks ==
    ASSUME NEW g, NEW h, NEW b, Grows(g, h, b)
    PROVE  /\ Owner(b) \in Account
           /\ h \in Chains /\ h[Owner(b)] = Append(g[Owner(b)], b)
           /\ \A a \in Account \ {Owner(b)} : h[a] = g[a]
           /\ g[Owner(b)] \in Seq(Block)
           /\ b \notin On(g) /\ On(h) = On(g) \cup {b}
           /\ \A a \in Account : SoundChain(h[a], a)
<1>1. PICK a \in Account : a = Owner(b)
  BY Constants DEF Owner, Grows
<1>2. PICK c \in Seq(Block) : c = g[a]
  BY DEF Grows, Chains
<1>3. PICK d \in Seq(Block) : d = Append(c, b)
  <2>1. b \in Block
    BY DEF Grows
  <2>2. Append(c, b) \in Seq(Block)
    BY <2>1
  <2> QED BY <2>2
<1>4. h \in Chains /\ h[a] = d /\ \A k \in Account \ {a} : h[k] = g[k]
  BY <1>1, <1>2, <1>3 DEF Grows, Chains
<1>5. b \notin ToSet(c)
  BY <1>1, <1>2 DEF Grows, Fits
<1>6. b \notin On(g)
  BY <1>1, <1>2, <1>5, SoundOwner DEF Grows
<1>7. ToSet(d) = ToSet(c) \cup {b}
  BY <1>3, ToSetAppend DEF Grows
<1>8. On(h) = On(g) \cup {b}
  <2>1. ASSUME NEW x \in On(h) PROVE x \in On(g) \cup {b}
    <3>1. PICK k \in Account : x \in ToSet(h[k])
      BY <1>4, <2>1, OnAre
    <3>2. CASE k = a
      BY <1>2, <1>4, <1>7, <3>1, <3>2 DEF On
    <3>3. CASE k # a
      <4>1. x \in ToSet(g[k])
        BY <1>4, <3>1, <3>3
      <4> QED BY <4>1 DEF On
    <3> QED BY <3>2, <3>3
  <2>2. ASSUME NEW x \in On(g) PROVE x \in On(h)
    <3>1. PICK k \in Account : x \in ToSet(g[k])
      BY OnAre DEF Grows
    <3>2. x \in ToSet(h[k])
      BY <1>2, <1>4, <1>7, <3>1
    <3> QED BY <3>2 DEF On
  <2>3. b \in On(h)
    BY <1>4, <1>7 DEF On
  <2> QED BY <2>1, <2>2, <2>3
<1>9. ASSUME NEW k \in Account PROVE SoundChain(h[k], k)
  <2>1. CASE k = a
    <3>1. SoundChain(c, a) /\ Fits(b, c) /\ b \in Block
      BY <1>1, <1>2 DEF Grows
    <3>2. SoundChain(Append(c, b), Owner(b))
      BY <1>1, <3>1, SoundAppend
    <3> QED BY <1>1, <1>3, <1>4, <2>1, <3>2
  <2>2. CASE k # a
    BY <1>4, <2>2 DEF Grows
  <2> QED BY <2>1, <2>2
<1> QED BY <1>1, <1>2, <1>3, <1>4, <1>6, <1>8, <1>9

(* Sums of terms over blocks. *)
LEMMA TermTypes ==
    /\ \A b \in Block : Term[b] \in Nat /\ Term[b] \in Int
    /\ \A b \in Block : Term[b] = IF Body[b].type = "genesis" THEN Body[b].balance
                                  ELSE Body[b].amount
    /\ \A S \in SUBSET Block : IsFiniteSet(S) /\ SumOver(Term, S) \in Int
<1>1. \A b \in Block : Term[b] = IF Body[b].type = "genesis" THEN Body[b].balance
                                 ELSE Body[b].amount
  BY DEF Term
<1>2. \A b \in Block : Body[b].balance \in Nat /\ Body[b].amount \in Nat
  BY Constants
<1>3. \A b \in Block : Term[b] \in Nat /\ Term[b] \in Int
  BY <1>1, <1>2
<1>4. ASSUME NEW S \in SUBSET Block PROVE IsFiniteSet(S) /\ SumOver(Term, S) \in Int
  <2>1. IsFiniteSet(S)
    BY Constants, FS_Subset
  <2>2. \A b \in S : Term[b] \in Int
    BY <1>3
  <2> QED BY <2>1, <2>2, SumType
<1> QED BY <1>1, <1>3, <1>4

(* One block more in a sum. *)
LEMMA TermAdd ==
    ASSUME NEW S \in SUBSET Block, NEW b \in Block, b \notin S
    PROVE  SumOver(Term, S \cup {b}) = SumOver(Term, S) + Term[b]
<1>1. IsFiniteSet(S) /\ (\A c \in S : Term[c] \in Int) /\ Term[b] \in Int
  BY TermTypes
<1>2. SumOver(Term, S \cup {b}) = SumOver(Term, S) + IF b \in S THEN 0 ELSE Term[b]
  BY <1>1, SumAdd
<1> QED BY <1>2

(* One block more of a kind. *)
LEMMA KindAdd ==
    ASSUME NEW S \in SUBSET Block, NEW b \in Block, b \notin S, NEW type \in BlockType,
           NEW x \in Asset
    PROVE  SumOver(Term, Kind(S \cup {b}, type, x)) =
             SumOver(Term, Kind(S, type, x))
               + IF Body[b].type = type /\ Body[b].asset = x THEN Term[b] ELSE 0
<1>1. PICK K : K = Kind(S, type, x)
  OBVIOUS
<1>2. K \in SUBSET Block /\ b \notin K
  BY <1>1 DEF Kind
<1>3. SumOver(Term, K) \in Int
  BY <1>2, TermTypes
<1>4. CASE Body[b].type = type /\ Body[b].asset = x
  <2>1. Kind(S \cup {b}, type, x) = K \cup {b}
    BY <1>1, <1>4 DEF Kind
  <2> QED BY <1>1, <1>2, <1>4, <2>1, TermAdd
<1>5. CASE ~(Body[b].type = type /\ Body[b].asset = x)
  <2>1. Kind(S \cup {b}, type, x) = K
    BY <1>1, <1>5 DEF Kind
  <2> QED BY <1>1, <1>3, <1>5, <2>1
<1> QED BY <1>4, <1>5

(* One pending send more. *)
LEMMA AssetAdd ==
    ASSUME NEW S \in SUBSET Block, NEW b \in Block, b \notin S, NEW x
    PROVE  SumOver(Term, OfAsset(S \cup {b}, x)) =
             SumOver(Term, OfAsset(S, x)) + IF Body[b].asset = x THEN Term[b] ELSE 0
<1>1. PICK K : K = OfAsset(S, x)
  OBVIOUS
<1>2. K \in SUBSET Block /\ b \notin K
  BY <1>1 DEF OfAsset
<1>3. SumOver(Term, K) \in Int
  BY <1>2, TermTypes
<1>4. CASE Body[b].asset = x
  <2>1. OfAsset(S \cup {b}, x) = K \cup {b}
    BY <1>1, <1>4 DEF OfAsset
  <2> QED BY <1>1, <1>2, <1>4, <2>1, TermAdd
<1>5. CASE Body[b].asset # x
  <2>1. OfAsset(S \cup {b}, x) = K
    BY <1>1, <1>5 DEF OfAsset
  <2> QED BY <1>1, <1>3, <1>5, <2>1
<1> QED BY <1>4, <1>5

(* The balances when one chain changes. *)
LEMMA HeldStep ==
    ASSUME NEW g \in Chains, NEW h \in Chains, NEW a \in Account, NEW x \in Asset,
           \A k \in Account \ {a} : h[k] = g[k]
    PROVE  /\ SumOver(BalancesIn(g, x), Account) \in Int
           /\ SumOver(BalancesIn(h, x), Account) =
                SumOver(BalancesIn(g, x), Account)
                  + AssetBalanceOnChain(h[a], x) - AssetBalanceOnChain(g[a], x)
<1>1. PICK f : f = BalancesIn(g, x)
  OBVIOUS
<1>2. PICK e : e = BalancesIn(h, x)
  OBVIOUS
<1>3. ASSUME NEW k \in Account PROVE f[k] \in Int /\ e[k] \in Int
  <2>1. g[k] \in Seq(Block) /\ h[k] \in Seq(Block)
    BY DEF Chains
  <2>2. AssetBalanceOnChain(g[k], x) \in 0..MaxUint /\ AssetBalanceOnChain(h[k], x) \in 0..MaxUint
    BY <2>1, ReadTypes
  <2>3. f[k] = AssetBalanceOnChain(g[k], x) /\ e[k] = AssetBalanceOnChain(h[k], x)
    BY <1>1, <1>2 DEF BalancesIn
  <2> QED BY <2>2, <2>3, Constants
<1>4. IsFiniteSet(Account) /\ IsFiniteSet(Account \ {a})
  BY Constants, FS_RemoveElement
<1>5. /\ SumOver(f, Account) = f[a] + SumOver(f, Account \ {a})
      /\ SumOver(e, Account) = e[a] + SumOver(e, Account \ {a})
  BY <1>3, <1>4, SumMember
<1>6. SumOver(f, Account \ {a}) \in Int /\ SumOver(f, Account) \in Int
  BY <1>3, <1>4, SumType
<1>7. SumOver(f, Account \ {a}) = SumOver(e, Account \ {a})
  <2>1. \A k \in Account \ {a} : f[k] = e[k] /\ f[k] \in Int
    BY <1>1, <1>2, <1>3 DEF BalancesIn
  <2> QED BY <1>4, <2>1, SumSame
<1>8. f[a] = AssetBalanceOnChain(g[a], x) /\ e[a] = AssetBalanceOnChain(h[a], x)
  BY <1>1, <1>2 DEF BalancesIn
<1> QED BY <1>1, <1>2, <1>3, <1>5, <1>6, <1>7, <1>8

(* What a block of chain growth does to the pending sends. *)
PendingMove(P, Q, b) ==
    /\ P \subseteq Block /\ Q \subseteq Block
    /\ Body[b].type = "send" => b \notin P /\ Q = P \cup {b}
    /\ Body[b].type = "receive" =>
         /\ Body[b].source \in Block /\ Body[b].source \notin Q
         /\ P = Q \cup {Body[b].source}
    /\ Body[b].type \notin {"send", "receive"} => P = Q

(* A block conserves each asset, in either direction. *)
LEMMA BlockConserves ==
    ASSUME NEW g, NEW h, NEW b, Grows(g, h, b), NEW P, NEW Q, PendingMove(P, Q, b),
           NEW x \in Asset
    PROVE  Balanced(g, P, x) <=> Balanced(h, Q, x)
<1>1. PICK a \in Account : a = Owner(b)
  BY GrowsBlocks
<1>2. /\ b \in Block /\ g \in Chains /\ h \in Chains /\ g[a] \in Seq(Block)
      /\ h[a] = Append(g[a], b) /\ \A k \in Account \ {a} : h[k] = g[k]
      /\ b \notin On(g) /\ On(h) = On(g) \cup {b}
      /\ Fits(b, g[a])
  <2>1. b \in Block /\ g \in Chains /\ Fits(b, g[a])
    BY <1>1 DEF Grows
  <2> QED BY <1>1, <2>1, GrowsBlocks
<1>3. On(g) \in SUBSET Block
  BY <1>2, OnAre
<1>4. PICK old : old = AssetBalanceOnChain(g[a], x)
  OBVIOUS
<1>5. PICK new : new = AssetBalanceOnChain(h[a], x)
  OBVIOUS
<1>6. new = IF Body[b].asset = x THEN Body[b].balance ELSE old
  BY <1>2, <1>4, <1>5, BalanceAppend
<1>7. old \in Int /\ Body[b].balance \in Int /\ Body[b].amount \in Int /\ Term[b] \in Int
  <2>1. old \in 0..MaxUint
    BY <1>2, <1>4, ReadTypes
  <2> QED BY <1>2, <2>1, Constants, TermTypes
<1>8. PICK held \in Int : held = SumOver(BalancesIn(g, x), Account)
  BY <1>2, HeldStep
<1>9. SumOver(BalancesIn(h, x), Account) = held + new - old
  BY <1>2, <1>4, <1>5, <1>8, HeldStep
<1>10. ASSUME NEW type \in BlockType
       PROVE  /\ SumOver(Term, Kind(On(g), type, x)) \in Int
              /\ SumOver(Term, Kind(On(h), type, x)) =
                   SumOver(Term, Kind(On(g), type, x))
                     + IF Body[b].type = type /\ Body[b].asset = x THEN Term[b] ELSE 0
  <2>1. Kind(On(g), type, x) \in SUBSET Block
    BY <1>3 DEF Kind
  <2>2. SumOver(Term, Kind(On(g) \cup {b}, type, x)) =
          SumOver(Term, Kind(On(g), type, x))
            + IF Body[b].type = type /\ Body[b].asset = x THEN Term[b] ELSE 0
    <3>1. PICK S \in SUBSET Block : S = On(g)
      BY <1>3
    <3>2. b \in Block /\ b \notin S
      BY <1>2, <3>1
    <3>3. SumOver(Term, Kind(S \cup {b}, type, x)) =
            SumOver(Term, Kind(S, type, x))
              + IF Body[b].type = type /\ Body[b].asset = x THEN Term[b] ELSE 0
      BY <3>2, KindAdd
    <3> QED BY <3>1, <3>3
  <2> QED BY <1>2, <2>1, <2>2, TermTypes
<1>0. {"burn", "genesis", "mint"} \subseteq BlockType
  BY DEF BlockType
<1>11. PICK burn \in Int : burn = SumOver(Term, Kind(On(g), "burn", x))
  BY <1>0, <1>10
<1>12. PICK gen \in Int : gen = SumOver(Term, Kind(On(g), "genesis", x))
  BY <1>0, <1>10
<1>13. PICK mint \in Int : mint = SumOver(Term, Kind(On(g), "mint", x))
  BY <1>0, <1>10
<1>14. /\ SumOver(Term, Kind(On(h), "burn", x)) =
            burn + IF Body[b].type = "burn" /\ Body[b].asset = x THEN Term[b] ELSE 0
       /\ SumOver(Term, Kind(On(h), "genesis", x)) =
            gen + IF Body[b].type = "genesis" /\ Body[b].asset = x THEN Term[b] ELSE 0
       /\ SumOver(Term, Kind(On(h), "mint", x)) =
            mint + IF Body[b].type = "mint" /\ Body[b].asset = x THEN Term[b] ELSE 0
  BY <1>0, <1>10, <1>11, <1>12, <1>13
<1>15. PICK p \in Int : p = SumOver(Term, OfAsset(P, x))
  <2>1. OfAsset(P, x) \in SUBSET Block
    BY DEF OfAsset, PendingMove
  <2> QED BY <2>1, TermTypes
<1>16. PICK q \in Int : q = SumOver(Term, OfAsset(Q, x))
  <2>1. OfAsset(Q, x) \in SUBSET Block
    BY DEF OfAsset, PendingMove
  <2> QED BY <2>1, TermTypes
<1>17. /\ Body[b].type = "send" => q = p + IF Body[b].asset = x THEN Body[b].amount ELSE 0
       /\ Body[b].type = "receive" =>
            p = q + IF Body[b].asset = x THEN Body[Body[b].source].amount ELSE 0
       /\ Body[b].type \notin {"send", "receive"} => p = q
  <2>1. CASE Body[b].type = "send"
    <3>1. P \in SUBSET Block /\ b \notin P /\ Q = P \cup {b}
      BY <2>1 DEF PendingMove
    <3>2. q = p + IF Body[b].asset = x THEN Term[b] ELSE 0
      BY <1>2, <1>15, <1>16, <3>1, AssetAdd
    <3>3. Term[b] = Body[b].amount
      BY <1>2, <2>1, TermTypes
    <3> QED BY <2>1, <3>2, <3>3
  <2>2. CASE Body[b].type = "receive"
    <3>1. PICK c \in Block : c = Body[b].source
      BY <2>2 DEF PendingMove
    <3>2. Q \in SUBSET Block /\ c \notin Q /\ P = Q \cup {c}
      BY <2>2, <3>1 DEF PendingMove
    <3>3. p = q + IF Body[c].asset = x THEN Term[c] ELSE 0
      BY <1>15, <1>16, <3>2, AssetAdd
    <3>4. Body[c].type = "send" /\ Body[c].asset = Body[b].asset
      BY <1>2, <2>2, <3>1 DEF Fits
    <3>5. Term[c] = Body[c].amount
      BY <3>4, TermTypes
    <3> QED BY <2>2, <3>1, <3>3, <3>4, <3>5
  <2>3. CASE Body[b].type \notin {"send", "receive"}
    BY <1>15, <1>16, <2>3 DEF PendingMove
  <2> QED BY <2>1, <2>2, <2>3
<1>18. /\ Balanced(g, P, x) <=> held + p + burn = gen + mint
       /\ Balanced(h, Q, x) <=>
            (held + new - old) + q
              + (burn + IF Body[b].type = "burn" /\ Body[b].asset = x THEN Term[b] ELSE 0)
            = (gen + IF Body[b].type = "genesis" /\ Body[b].asset = x THEN Term[b] ELSE 0)
              + (mint + IF Body[b].type = "mint" /\ Body[b].asset = x THEN Term[b] ELSE 0)
  BY <1>8, <1>9, <1>11, <1>12, <1>13, <1>14, <1>15, <1>16 DEF Balanced
<1>19. CASE Body[b].asset # x
  <2>1. p = q /\ new = old
    BY <1>6, <1>17, <1>19
  <2> QED BY <1>7, <1>18, <1>19, <2>1
<1>20. CASE Body[b].asset = x
  <2>0. new = Body[b].balance /\ old = AssetBalanceOnChain(g[a], Body[b].asset)
    BY <1>4, <1>6, <1>20
  <2>1. Term[b] = IF Body[b].type = "genesis" THEN Body[b].balance ELSE Body[b].amount
    BY <1>2, TermTypes
  <2>2. Body[b].type \in BlockType
    BY <1>2, Constants
  <2>3. CASE Body[b].type = "send"
    <3>1. Body[b].balance + Body[b].amount = old /\ q = p + Body[b].amount
      BY <1>2, <1>17, <1>20, <2>0, <2>3 DEF Fits
    <3>2. Balanced(h, Q, x) <=> (held + new - old) + q + (burn + 0) = (gen + 0) + (mint + 0)
      BY <1>18, <2>3
    <3> QED BY <1>7, <1>18, <2>0, <3>1, <3>2
  <2>4. CASE Body[b].type = "burn"
    <3>1. Body[b].balance + Body[b].amount = old /\ q = p
      BY <1>2, <1>17, <2>0, <2>4 DEF Fits
    <3> QED BY <1>7, <1>18, <1>20, <2>0, <2>1, <2>4, <3>1
  <2>5. CASE Body[b].type = "receive"
    <3>1. PICK c \in Block : c = Body[b].source
      BY <2>5 DEF PendingMove
    <3>2. Body[b].balance = old + Body[c].amount /\ p = q + Body[c].amount /\ Body[c].amount \in Int
      BY <1>2, <1>17, <1>20, <2>0, <2>5, <3>1, Constants DEF Fits
    <3> QED BY <1>7, <1>18, <2>0, <2>5, <3>2
  <2>6. CASE Body[b].type = "mint"
    <3>1. Body[b].balance = old + Body[b].amount /\ q = p
      BY <1>2, <1>17, <2>0, <2>6 DEF Fits
    <3> QED BY <1>7, <1>18, <1>20, <2>0, <2>1, <2>6, <3>1
  <2>7. CASE Body[b].type \in {"genesis", "multisig_open"}
    <3>1. q = p /\ g[a] = <<>>
      BY <1>2, <1>17, <2>7 DEF Fits
    <3>2. old = 0
      BY <1>4, <3>1, EmptyChain
    <3>3. CASE Body[b].type = "genesis"
      <4>1. Balanced(h, Q, x) <=> (held + new - old) + q + (burn + 0) = (gen + Term[b]) + (mint + 0)
        BY <1>18, <1>20, <3>3
      <4>2. PICK t \in Int : t = Term[b] /\ t = new
        BY <1>7, <2>0, <2>1, <3>3
      <4>3. Balanced(h, Q, x) <=> (held + t - 0) + p + (burn + 0) = (gen + t) + (mint + 0)
        BY <3>1, <3>2, <4>1, <4>2
      <4>4. ((held + t - 0) + p + (burn + 0) = (gen + t) + (mint + 0)) <=> (held + p + burn = gen + mint)
        OBVIOUS
      <4> QED BY <1>18, <4>3, <4>4
    <3>4. CASE Body[b].type = "multisig_open"
      <4>1. Balanced(h, Q, x) <=> (held + new - old) + q + (burn + 0) = (gen + 0) + (mint + 0)
        BY <1>18, <3>4
      <4>2. new = 0
        BY <1>2, <2>0, <3>4 DEF Fits
      <4> QED BY <1>18, <3>1, <3>2, <4>1, <4>2
    <3> QED BY <2>7, <3>3, <3>4
  <2>8. CASE Body[b].type = "multisig_update"
    <3>1. Body[b].balance = old /\ q = p
      BY <1>2, <1>17, <2>0, <2>8 DEF Fits
    <3> QED BY <1>7, <1>18, <2>0, <2>8, <3>1
  <2> QED BY <2>2, <2>3, <2>4, <2>5, <2>6, <2>7, <2>8 DEF BlockType
<1> QED BY <1>19, <1>20

(* The chains g and the pending sends P account for each other: a send is  *)
(* pending or received, not both, and nothing is received twice.           *)
Supplied(g, P) ==
    /\ \A x \in Asset : Balanced(g, P, x)
    /\ P \subseteq On(g) /\ \A c \in P : Body[c].type = "send"
    /\ \A r \in On(g) : Body[r].type = "receive" =>
         /\ Body[r].source \in On(g) /\ Body[r].source \notin P
         /\ Body[Body[r].source].type = "send"
    /\ \A r, q \in On(g) :
         Body[r].type = "receive" /\ Body[q].type = "receive"
           /\ Body[r].source = Body[q].source => r = q

(* A block that is added keeps that, if the send it receives is pending. *)
LEMMA CommitSupplies ==
    ASSUME NEW g, NEW h, NEW b, Grows(g, h, b), NEW P, NEW Q,
           Supplied(g, P),
           Body[b].type = "receive" => Body[b].source \in P,
           Q = (P \cup IF Body[b].type = "send" THEN {b} ELSE {})
                 \ IF Body[b].type = "receive" THEN {Body[b].source} ELSE {}
    PROVE  Supplied(h, Q)
<1>1. b \in Block /\ b \notin On(g) /\ On(h) = On(g) \cup {b} /\ On(g) \subseteq Block
  <2>1. b \in Block /\ g \in Chains
    BY DEF Grows
  <2> QED BY <2>1, GrowsBlocks, OnAre
<1>2. P \subseteq On(g)
  BY DEF Supplied
<1>3. PendingMove(P, Q, b)
  BY <1>1, <1>2 DEF PendingMove
<1>4. \A x \in Asset : Balanced(h, Q, x)
  BY <1>3, BlockConserves DEF Supplied
<1>5. Q \subseteq On(h) /\ \A c \in Q : Body[c].type = "send"
  <2>1. \A c \in P : Body[c].type = "send"
    BY DEF Supplied
  <2> QED BY <1>1, <1>2, <2>1
<1>6. ASSUME NEW r \in On(h), Body[r].type = "receive"
      PROVE  /\ Body[r].source \in On(h) /\ Body[r].source \notin Q
             /\ Body[Body[r].source].type = "send"
  <2>1. CASE r = b
    <3>1. Body[Body[r].source].type = "send"
      BY <1>6, <2>1 DEF Grows, Fits
    <3> QED BY <1>1, <1>2, <1>6, <2>1, <3>1
  <2>2. CASE r # b
    <3>1. /\ Body[r].source \in On(g) /\ Body[r].source \notin P
          /\ Body[Body[r].source].type = "send"
      BY <1>1, <1>6, <2>2 DEF Supplied
    <3> QED BY <1>1, <3>1
  <2> QED BY <2>1, <2>2
<1>7. ASSUME NEW r \in On(h), NEW q \in On(h), Body[r].type = "receive",
             Body[q].type = "receive", Body[r].source = Body[q].source
      PROVE  r = q
  <2>1. CASE r # b /\ q # b
    BY <1>1, <1>7, <2>1 DEF Supplied
  <2>2. \A e \in On(g) : Body[e].type = "receive" => Body[e].source \notin P
    BY DEF Supplied
  <2> QED BY <1>1, <1>7, <2>1, <2>2
<1> QED BY <1>4, <1>5, <1>6, <1>7 DEF Supplied

(* So does an undo, if the send it takes back is pending. *)
LEMMA UndoSupplies ==
    ASSUME NEW g, NEW h, NEW b, Grows(g, h, b), NEW P, NEW Q,
           Supplied(h, Q),
           Body[b].type = "send" => b \in Q,
           P = (Q \ IF Body[b].type = "send" THEN {b} ELSE {})
                 \cup IF Body[b].type = "receive" THEN {Body[b].source} ELSE {}
    PROVE  Supplied(g, P)
<1>1. b \in Block /\ b \notin On(g) /\ On(h) = On(g) \cup {b} /\ On(g) \subseteq Block
  <2>1. b \in Block /\ g \in Chains
    BY DEF Grows
  <2> QED BY <2>1, GrowsBlocks, OnAre
<1>2. Q \subseteq On(h)
  BY DEF Supplied
<1>3. Body[b].type = "receive" =>
        /\ Body[b].source \in On(h) /\ Body[b].source \notin Q /\ Body[b].source # b
  <2>1. Body[b].type = "receive" => Body[b].source \in On(h) /\ Body[b].source \notin Q
    BY <1>1 DEF Supplied
  <2>2. Body[b].type = "receive" => Body[Body[b].source].type = "send"
    BY DEF Grows, Fits
  <2> QED BY <2>1, <2>2
<1>4. PendingMove(P, Q, b)
  BY <1>1, <1>2, <1>3 DEF PendingMove
<1>5. \A x \in Asset : Balanced(g, P, x)
  BY <1>4, BlockConserves DEF Supplied
<1>6. \A c \in Q : Body[c].type = "send"
  BY DEF Supplied
<1>7. P \subseteq On(g) /\ \A c \in P : Body[c].type = "send"
  <2>1. Body[b].type = "receive" => Body[Body[b].source].type = "send"
    BY DEF Grows, Fits
  <2> QED BY <1>1, <1>2, <1>3, <1>6, <2>1
<1>8. ASSUME NEW r \in On(g), Body[r].type = "receive"
      PROVE  /\ Body[r].source \in On(g) /\ Body[r].source \notin P
             /\ Body[Body[r].source].type = "send"
  <2>1. /\ Body[r].source \in On(h) /\ Body[r].source \notin Q
        /\ Body[Body[r].source].type = "send"
    BY <1>1, <1>8 DEF Supplied
  <2>2. Body[b].type = "receive" => Body[r].source # Body[b].source
    BY <1>1, <1>8 DEF Supplied
  <2>3. Body[r].source # b
    BY <2>1
  <2> QED BY <1>1, <2>1, <2>2, <2>3
<1>9. \A r, q \in On(g) :
        Body[r].type = "receive" /\ Body[q].type = "receive"
          /\ Body[r].source = Body[q].source => r = q
  BY <1>1 DEF Supplied
<1> QED BY <1>5, <1>7, <1>8, <1>9 DEF Supplied
-----------------------------------------------------------------------------
(* The inductive invariant *)

Stores ==
    [chain : Chains, known : SUBSET Block, pending : SUBSET Block,
     rep : [Account -> Rep \cup {None}], staged : SUBSET Block,
     conflict : [Position -> SUBSET Block], finalHeight : [Account -> Nat]]

(* The types of everything but the cascade and memory. *)
Types ==
    /\ store \in Stores
    /\ lock \in [Account -> Adder \cup {Promoter, None}]
    /\ call \in [Adder -> [phase : {"idle", "validated", "committed"},
                           block : Block \cup {None}]]
    /\ swap \in [phase : {"idle", "locking", "active", "committed"},
                 winner : Block \cup {None}, plan : Seq(Block), need : Seq(Account)]
    /\ missed \in SUBSET Block
    /\ restarts \in 0..MaxRestarts

(* A store whose chains are sound and whose records are those of its       *)
(* chains.                                                                 *)
GoodStore(s) ==
    /\ \A a \in Account :
         /\ SoundChain(s.chain[a], a)
         /\ s.rep[a] = RepOnChain(s.chain[a])
         /\ s.finalHeight[a] <= Len(s.chain[a])
    /\ \A c \in s.pending : Body[c].type = "send"

(* An adder that is under way holds the lock of its account, and what it   *)
(* validated still fits.                                                   *)
CallsHold ==
    \A t \in Adder :
        call[t].phase # "idle" =>
            /\ call[t].block \in Block
            /\ lock[Owner(call[t].block)] = t
            /\ call[t].phase = "validated" =>
                 Fits(call[t].block, store.chain[Owner(call[t].block)])

(* A plan names each block once, a receive before the send it takes. *)
GoodPlan(plan) ==
    \A i, j \in 1..Len(plan) :
        /\ plan[i] = plan[j] => i = j
        /\ Body[plan[i]].type = "receive" /\ Body[plan[i]].source = plan[j] => i < j

(* The promoter holds the locks it has asked for, and nothing final is in  *)
(* its plan.                                                               *)
SwapHolds ==
    /\ swap.phase \in {"idle", "locking"} => cascade = NoCascade
    /\ swap.phase = "idle" => swap = IdleSwap
    /\ swap.phase # "idle" =>
         /\ swap.winner \in Block /\ GoodPlan(swap.plan)
         /\ Owner(swap.winner) \in Owners(swap.plan)
         /\ lock[Owner(swap.winner)] = Promoter
         /\ \A a \in Owners(swap.plan) : lock[a] = Promoter \/ a \in ToSet(swap.need)
    /\ swap.phase \in {"active", "committed"} => swap.need = <<>>
    /\ swap.phase \in {"locking", "active"} =>
         /\ swap.winner \notin ToSet(store.chain[Owner(swap.winner)])
         /\ \A a \in Account : \A i \in 1..store.finalHeight[a] :
              store.chain[a][i] \notin ToSet(swap.plan)
    /\ swap.phase = "active" =>
         /\ CanBuild(ChainsOf(swap.plan), swap.plan)
         /\ cascade = BuildCascade(swap.winner, ChainsOf(swap.plan), swap.plan)

(* An account whose chain the store has changed and memory has not. *)
InProgress(a) ==
    \/ \E t \in Adder : call[t].phase = "committed" /\ Owner(call[t].block) = a
    \/ swap.phase = "committed" /\ a \in Owners(swap.plan)

(* Memory is that of chains g, which are the store's but where a thread is *)
(* between its transaction and its return.                                 *)
MemoryIs(g) ==
    /\ g \in Chains /\ mem = MemoryOf(g)
    /\ \A a \in Account :
         /\ SoundChain(g[a], a)
         /\ ~InProgress(a) => g[a] = store.chain[a]
    /\ \A t \in Adder : call[t].phase = "committed" =>
         LET a == Owner(call[t].block) IN store.chain[a] = Append(g[a], call[t].block)
    /\ swap.phase = "committed" =>
         LET f == [a \in Owners(swap.plan) |-> g[a]]
             c == Snapshots(f, swap.plan)[Len(swap.plan)]
         IN /\ CanBuild(f, swap.plan)
            /\ cascade = BuildCascade(swap.winner, f, swap.plan)
            /\ \A a \in Owners(swap.plan) :
                 store.chain[a] = IF a = Owner(swap.winner) THEN Append(c[a], swap.winner)
                                  ELSE c[a]

(* As long as no receive raced with the undo of its send. *)
SupplyHolds == missed = {} => Supplied(store.chain, store.pending)

LedgerInv ==
    /\ Types /\ GoodStore(store) /\ CallsHold /\ SwapHolds
    /\ \E g \in Chains : MemoryIs(g)
    /\ SupplyHolds

-----------------------------------------------------------------------------
(* Plans, locks and heights *)

(* The height of a block is at most any place it has on the chain. *)
LEMMA HeightIs ==
    ASSUME NEW chain \in Seq(Block), NEW b
    PROVE  /\ HeightOf(chain, b) \in 0..Len(chain)
           /\ \A i \in 1..Len(chain) : chain[i] = b => HeightOf(chain, b) <= i
<1>1. PICK n \in Nat : n = Len(chain)
  OBVIOUS
<1>2. PICK I : I = {i \in 1..n : chain[i] = b}
  OBVIOUS
<1>3. HeightOf(chain, b) = IF I # {} THEN Min(I) ELSE 0
  BY <1>1, <1>2 DEF HeightOf, SelectInSeq
<1>4. CASE I = {}
  BY <1>1, <1>2, <1>3, <1>4
<1>5. CASE I # {}
  <2>1. I \in SUBSET Nat
    BY <1>2
  <2>2. PICK m \in I : \A k \in I : m <= k
    BY <1>5, <2>1, Least
  <2>3. Min(I) \in I /\ \A k \in I : Min(I) =< k
    BY <2>2 DEF Min
  <2>4. HeightOf(chain, b) = Min(I)
    BY <1>3, <1>5
  <2> QED BY <1>1, <1>2, <2>3, <2>4
<1> QED BY <1>4, <1>5

(* Each step as one account sees it. *)
LEMMA SnapshotMoves ==
    ASSUME NEW f, NEW plan, Unwinding(f, plan), NEW i \in 1..Len(plan), NEW a \in Owners(plan)
    PROVE  LET c == Snapshots(f, plan)[i][a]
               d == Snapshots(f, plan)[i - 1][a]
           IN /\ c \in Seq(Block) /\ d \in Seq(Block)
              /\ d = IF a = Owner(plan[i]) THEN Append(c, plan[i]) ELSE c
<1>1. PICK h : h = Snapshots(f, plan)[i - 1]
  OBVIOUS
<1>2. PICK k : k = Snapshots(f, plan)[i]
  OBVIOUS
<1>3. PICK o : o = Owner(plan[i])
  OBVIOUS
<1>4. /\ k \in [Owners(plan) -> Seq(Block)] /\ h \in [Owners(plan) -> Seq(Block)]
      /\ k = [h EXCEPT ![o] = k[o]] /\ h[o] = Append(k[o], plan[i])
  BY <1>1, <1>2, <1>3, SnapshotSteps
<1>5. k[a] \in Seq(Block) /\ h[a] \in Seq(Block)
  BY <1>4
<1>6. a # o => h[a] = k[a]
  BY <1>4
<1> QED BY <1>1, <1>2, <1>3, <1>4, <1>5, <1>6

(* What is left after each step is the beginning of the chain; nothing     *)
(* that the plan does not name is gone.                                    *)
LEMMA SnapshotsPrefix ==
    ASSUME NEW f, NEW plan, Unwinding(f, plan), NEW n \in 0..Len(plan),
           NEW a \in Owners(plan), NEW top \in 0..Len(f[a]),
           \A i \in 1..top : f[a][i] \notin ToSet(plan)
    PROVE  LET c == Snapshots(f, plan)[n][a]
           IN /\ c \in Seq(Block) /\ Len(c) \in top..Len(f[a])
              /\ \A i \in 1..Len(c) : c[i] = f[a][i]
              /\ ToSet(c) \subseteq ToSet(f[a])
<1>0. Len(plan) \in Nat /\ f[a] \in Seq(Block) /\ plan \in Seq(Block)
  BY OwnersAre DEF Unwinding
<1> DEFINE C(i) == Snapshots(f, plan)[i][a]
           Right(i) == /\ C(i) \in Seq(Block) /\ Len(C(i)) \in top..Len(f[a])
                       /\ \A k \in 1..Len(C(i)) : C(i)[k] = f[a][k]
           T == {i \in 0..Len(plan) : ~Right(i)}
<1>1. T = {}
  <2> SUFFICES ASSUME T # {} PROVE FALSE
    OBVIOUS
  <2>1. PICK m \in T : \A j \in T : m <= j
    <3>1. T \in SUBSET Nat
      OBVIOUS
    <3> HIDE DEF T
    <3> QED BY <3>1, Least
  <2>2. CASE m = 0
    <3>1. C(0) = f[a]
      BY <1>0, SnapshotsUnfold
    <3>2. Right(0)
      BY <1>0, <3>1
    <3> QED BY <2>1, <2>2, <3>2
  <2>3. CASE m # 0
    <3>1. m \in 1..Len(plan) /\ m - 1 \in 0..Len(plan) /\ m - 1 \notin T
      BY <1>0, <2>1, <2>3
    <3>2. Right(m - 1) /\ ~Right(m)
      BY <2>1, <3>1
    <3>3. PICK p \in Block : p = plan[m]
      BY <1>0, <3>1
    <3>4. PICK d \in Seq(Block) : d = Snapshots(f, plan)[m][a]
      BY <3>1, SnapshotMoves
    <3>5. PICK e \in Seq(Block) : e = Snapshots(f, plan)[m - 1][a]
      BY <3>1, SnapshotMoves
    <3>6. e = IF a = Owner(p) THEN Append(d, p) ELSE d
      BY <3>1, <3>3, <3>4, <3>5, SnapshotMoves
    <3>7. CASE Owner(p) # a
      <4>1. C(m) = C(m - 1)
        BY <3>4, <3>5, <3>6, <3>7
      <4> QED BY <3>2, <4>1
    <3>8. CASE Owner(p) = a
      <4>4. e = Append(d, p) /\ C(m) = d /\ C(m - 1) = e
        BY <3>4, <3>5, <3>6, <3>8
      <4>5. Len(e) = Len(d) + 1 /\ e[Len(d) + 1] = p /\ \A i \in 1..Len(d) : e[i] = d[i]
        BY <4>4
      <4>6. Len(e) \in top..Len(f[a]) /\ \A i \in 1..Len(e) : e[i] = f[a][i]
        BY <3>2, <4>4
      <4>7. p \in ToSet(plan)
        BY <1>0, <3>1, <3>3 DEF ToSet
      <4>8. Len(e) # top
        BY <4>5, <4>6, <4>7
      <4>9. Len(d) \in top..Len(f[a]) /\ \A i \in 1..Len(d) : d[i] = f[a][i]
        BY <1>0, <4>5, <4>6, <4>8
      <4>10. Right(m)
        BY <4>4, <4>9
      <4> QED BY <3>2, <4>10
    <3> QED BY <3>7, <3>8
  <2> QED BY <2>2, <2>3
<1>2. Right(n)
  BY <1>1
<1>3. PICK c \in Seq(Block) : c = C(n)
  BY <1>2
<1>4. Len(c) \in top..Len(f[a]) /\ \A i \in 1..Len(c) : c[i] = f[a][i]
  BY <1>2, <1>3
<1>5. ToSet(c) \subseteq ToSet(f[a])
  BY <1>0, <1>4 DEF ToSet
<1> QED BY <1>3, <1>4, <1>5

(* The members of a sequence, the first apart. *)
LEMMA HeadTail ==
    ASSUME NEW S, NEW s \in Seq(S), s # <<>>
    PROVE  /\ Head(s) \in S /\ Tail(s) \in Seq(S)
           /\ ToSet(s) \subseteq ToSet(Tail(s)) \cup {Head(s)}
<1>1. PICK n \in Nat : n = Len(s) /\ n > 0
  OBVIOUS
<1>2. PICK t : t = Tail(s)
  OBVIOUS
<1>3. t \in Seq(S) /\ Len(t) = n - 1 /\ \A i \in 1..(n - 1) : t[i] = s[i + 1]
  BY <1>1, <1>2
<1>4. ASSUME NEW i \in 1..n PROVE s[i] \in ToSet(t) \cup {Head(s)}
  <2>1. CASE i = 1
    BY <2>1
  <2>2. CASE i # 1
    <3>1. i - 1 \in 1..(n - 1) /\ s[i] = t[i - 1]
      BY <1>3, <2>2
    <3> QED BY <1>3, <3>1 DEF ToSet
  <2> QED BY <2>1, <2>2
<1>5. Head(s) \in S
  BY <1>1
<1> QED BY <1>1, <1>2, <1>3, <1>4, <1>5 DEF ToSet

(* The other accounts of a plan, in the order of their addresses. *)
LEMMA ForeignIs ==
    ASSUME NEW plan \in Seq(Block), NEW own
    PROVE  /\ Foreign(plan, own) \in Seq(Account)
           /\ Owners(plan) \subseteq ToSet(Foreign(plan, own)) \cup {own}
<1>1. PICK S : S = Owners(plan) \ {own}
  OBVIOUS
<1>2. S \in SUBSET Account /\ S \in SUBSET Nat
  BY <1>1, OwnersAre, Constants
<1>3. IsFiniteSet(S)
  BY <1>2, Constants, FS_Subset
<1>4. \A x, y \in S : <<x, y>> \in Lower <=> x < y
  BY <1>2 DEF Lower
<1>5. PICK s : s = Sorted(S, Lower)
  OBVIOUS
<1>6. s \in Seq(S) /\ \A x \in S : \E i \in 1..Len(s) : s[i] = x
  <2>1. \A x \in S : <<x, x>> \notin Lower
    BY <1>2, <1>4
  <2>2. \A x, y \in S : x # y => <<x, y>> \in Lower \/ <<y, x>> \in Lower
    BY <1>2, <1>4
  <2>3. \A x, y, z \in S : <<x, y>> \in Lower /\ <<y, z>> \in Lower => <<x, z>> \in Lower
    BY <1>2, <1>4
  <2> QED BY <1>3, <1>5, <2>1, <2>2, <2>3, SortedIs
<1>7. s \in Seq(Account)
  <2>1. PICK n \in Nat : n = Len(s)
    BY <1>6
  <2>2. s \in [1..n -> S]
    BY <1>6, <2>1
  <2>3. s \in [1..n -> Account]
    BY <1>2, <2>2
  <2> QED BY <2>1, <2>3
<1>8. S \subseteq ToSet(s)
  <2>1. DOMAIN s = 1..Len(s)
    BY <1>7
  <2>2. ASSUME NEW x \in S PROVE x \in ToSet(s)
    <3>1. PICK i \in 1..Len(s) : s[i] = x
      BY <1>6
    <3> QED BY <2>1, <3>1 DEF ToSet
  <2> QED BY <2>2
<1> QED BY <1>1, <1>5, <1>7, <1>8 DEF Foreign

(* Blocks that rest on more come first. *)
LEMMA RestsOrder ==
    /\ \A x \in Block : <<x, x>> \notin RestsOnMore
    /\ \A x, y \in Block : x # y => <<x, y>> \in RestsOnMore \/ <<y, x>> \in RestsOnMore
    /\ \A x, y, z \in Block :
         <<x, y>> \in RestsOnMore /\ <<y, z>> \in RestsOnMore => <<x, z>> \in RestsOnMore
    /\ \A x, y \in Block :
         Body[x].type = "receive" /\ Body[x].source = y => <<x, y>> \in RestsOnMore
<1>1. \A b \in Block : Below[b] \in SUBSET Block /\ b \notin Below[b]
  BY LedgerAssumption
<1>2. PICK n : n = [b \in Block |-> Cardinality(Below[b])]
  OBVIOUS
<1>3. ASSUME NEW b \in Block PROVE IsFiniteSet(Below[b]) /\ n[b] \in Nat
  <2>1. IsFiniteSet(Below[b])
    BY <1>1, Constants, FS_Subset
  <2> QED BY <1>2, <2>1, FS_CardinalityType
<1>4. \A x, y \in Block : <<x, y>> \in RestsOnMore <=> n[x] > n[y] \/ (n[x] = n[y] /\ x < y)
  BY <1>2 DEF RestsOnMore
<1>5. \A x \in Block : x \in Nat
  BY Constants
<1>6. ASSUME NEW x \in Block, NEW y \in Block, Body[x].type = "receive", Body[x].source = y
      PROVE  <<x, y>> \in RestsOnMore
  <2>1. y \in Parents(x)
    BY <1>6, Constants DEF Parents
  <2>2. Below[x] = Parents(x) \cup UNION {Below[c] : c \in Parents(x)}
    BY LedgerAssumption
  <2>3. Below[y] \subseteq Below[x] /\ y \in Below[x]
    BY <2>1, <2>2
  <2>4. Below[y] # Below[x]
    BY <1>1, <2>3
  <2>5. Cardinality(Below[y]) <= Cardinality(Below[x])
          /\ Cardinality(Below[y]) # Cardinality(Below[x])
    BY <1>3, <2>3, <2>4, FS_Subset
  <2>6. n[x] > n[y]
    BY <1>2, <1>3, <2>5
  <2> QED BY <1>4, <2>6
<1>7. \A x \in Block : <<x, x>> \notin RestsOnMore
  BY <1>3, <1>4, <1>5
<1>8. \A x, y \in Block : x # y => <<x, y>> \in RestsOnMore \/ <<y, x>> \in RestsOnMore
  BY <1>3, <1>4, <1>5
<1>9. \A x, y, z \in Block :
        <<x, y>> \in RestsOnMore /\ <<y, z>> \in RestsOnMore => <<x, z>> \in RestsOnMore
  BY <1>3, <1>4, <1>5
<1> QED BY <1>6, <1>7, <1>8, <1>9

(* planCascade: the loser and what rests on it, in a good order. *)
LEMMA PlanIs ==
    ASSUME NEW s, s.chain \in Chains, NEW loser \in On(s.chain)
    PROVE  /\ PlanCascade(s, loser) \in Seq(Block)
           /\ ToSet(PlanCascade(s, loser)) \subseteq On(s.chain)
           /\ loser \in ToSet(PlanCascade(s, loser))
           /\ GoodPlan(PlanCascade(s, loser))
<1>1. PICK S : S = {b \in On(s.chain) : b = loser \/ loser \in Below[b]}
  OBVIOUS
<1>2. S \in SUBSET Block /\ S \subseteq On(s.chain) /\ loser \in S
  BY <1>1, OnAre
<1>3. IsFiniteSet(S)
  BY <1>2, Constants, FS_Subset
<1>4. PICK p : p = Sorted(S, RestsOnMore)
  OBVIOUS
<1>5. PlanCascade(s, loser) = p
  BY <1>1, <1>4 DEF PlanCascade, OnChains, On
<1>6. /\ p \in Seq(S)
      /\ \A x \in S : \E i \in 1..Len(p) : p[i] = x
      /\ \A i, j \in 1..Len(p) : p[i] = p[j] => i = j
      /\ \A i, j \in 1..Len(p) : <<p[i], p[j]>> \in RestsOnMore => i < j
  <2>1. \A x \in S : <<x, x>> \notin RestsOnMore
    BY <1>2, RestsOrder
  <2>2. \A x, y \in S : x # y => <<x, y>> \in RestsOnMore \/ <<y, x>> \in RestsOnMore
    BY <1>2, RestsOrder
  <2>3. \A x, y, z \in S :
          <<x, y>> \in RestsOnMore /\ <<y, z>> \in RestsOnMore => <<x, z>> \in RestsOnMore
    BY <1>2, RestsOrder
  <2> QED BY <1>3, <1>4, <2>1, <2>2, <2>3, SortedIs
<1>7. PICK n \in Nat : n = Len(p) /\ p \in [1..n -> S]
  BY <1>6
<1>8. p \in Seq(Block)
  <2>1. p \in [1..n -> Block]
    BY <1>2, <1>7
  <2> QED BY <1>7, <2>1
<1>9. ToSet(p) \subseteq S /\ S \subseteq ToSet(p)
  BY <1>6, <1>7 DEF ToSet
<1>10. GoodPlan(p)
  <2>1. ASSUME NEW i \in 1..Len(p), NEW j \in 1..Len(p), Body[p[i]].type = "receive",
               Body[p[i]].source = p[j]
        PROVE  i < j
    <3>1. p[i] \in Block /\ p[j] \in Block
      BY <1>8
    <3>2. <<p[i], p[j]>> \in RestsOnMore
      BY <2>1, <3>1, RestsOrder
    <3> QED BY <1>6, <3>2
  <2> QED BY <1>6, <2>1 DEF GoodPlan
<1> QED BY <1>2, <1>5, <1>8, <1>9, <1>10

-----------------------------------------------------------------------------
(* The store after the undos of a cascade *)

(* One undo. *)
LEMMA CommitUndoIs ==
    ASSUME NEW s \in Stores, NEW u, u.block \in Block, u.chain \in Seq(Block),
           Fits(u.block, u.chain)
    PROVE  LET a == Owner(u.block)
               v == CommitUndo(s, u)
           IN /\ v \in Stores
              /\ v.chain = [s.chain EXCEPT ![a] = u.chain]
              /\ v.rep = [s.rep EXCEPT ![a] = RepOnChain(u.chain)]
              /\ v.pending = (s.pending \ IF Body[u.block].type = "send" THEN {u.block} ELSE {})
                   \cup IF Body[u.block].type = "receive" THEN {Body[u.block].source} ELSE {}
              /\ v.finalHeight = s.finalHeight
<1>1. PICK a \in Account : a = Owner(u.block) /\ a = Body[u.block].account
  BY Constants DEF Owner
<1>2. PICK r \in Rep \cup {None} : r = RepOnChain(u.chain)
  BY ReadTypes
<1>3. PICK P : P = (s.pending \ IF Body[u.block].type = "send" THEN {u.block} ELSE {})
                   \cup IF Body[u.block].type = "receive" THEN {Body[u.block].source} ELSE {}
  OBVIOUS
<1>4. P \in SUBSET Block
  <2>1. Body[u.block].type = "receive" => Body[u.block].source \in Block
    BY DEF Fits
  <2> QED BY <1>3, <2>1 DEF Stores
<1>5. CommitUndo(s, u) = [s EXCEPT !.chain[a] = u.chain, !.rep[a] = r, !.pending = P]
  BY <1>1, <1>2, <1>3 DEF CommitUndo
<1>6. PICK v : v = CommitUndo(s, u)
  OBVIOUS
<1>7. /\ v.chain = [s.chain EXCEPT ![a] = u.chain] /\ v.rep = [s.rep EXCEPT ![a] = r]
      /\ v.pending = P /\ v.finalHeight = s.finalHeight
  BY <1>5, <1>6 DEF Stores
<1>8. v.chain \in Chains /\ v.rep \in [Account -> Rep \cup {None}]
  <2>1. s.chain \in Chains /\ s.rep \in [Account -> Rep \cup {None}]
    BY DEF Stores
  <2> QED BY <1>7, <2>1 DEF Chains
<1>9. v \in Stores
  BY <1>4, <1>5, <1>6, <1>7, <1>8 DEF Stores
<1> QED BY <1>1, <1>2, <1>3, <1>6, <1>7, <1>9

(* The chains that are left are sound, and each step added to them. *)
LEMMA OverlayGrows ==
    ASSUME NEW g \in Chains, NEW plan, Unwinding([a \in Owners(plan) |-> g[a]], plan),
           \A a \in Account : SoundChain(g[a], a), NEW i \in 1..Len(plan)
    PROVE  LET s == Snapshots([a \in Owners(plan) |-> g[a]], plan)
           IN Grows(Overlay(g, s[i]), Overlay(g, s[i - 1]), plan[i])
<1>1. PICK f : f = [a \in Owners(plan) |-> g[a]]
  OBVIOUS
<1>2. Unwinding(f, plan) /\ Len(plan) \in Nat /\ Owners(plan) \subseteq Account
  BY <1>1, OwnersAre DEF Unwinding
<1>3. \A a \in Owners(plan) : SoundChain(f[a], a)
  BY <1>1, <1>2
<1>4. PICK h : h = Overlay(g, Snapshots(f, plan)[i - 1])
  OBVIOUS
<1>5. PICK k : k = Overlay(g, Snapshots(f, plan)[i])
  OBVIOUS
<1>6. PICK a : a = Owner(plan[i])
  OBVIOUS
<1>7. PICK c : c = Snapshots(f, plan)[i][a]
  OBVIOUS
<1>8. h \in Chains /\ h[a] = Append(c, plan[i]) /\ c \in Seq(Block) /\ k = [h EXCEPT ![a] = c]
  BY <1>2, <1>4, <1>5, <1>6, <1>7, OverlayStep
<1>9. a \in Account /\ plan[i] \in Block
  BY <1>2, <1>6, SnapshotSteps
<1>10. k \in Chains /\ k[a] = c /\ h = [k EXCEPT ![a] = Append(@, plan[i])]
  BY <1>8, <1>9 DEF Chains
<1>11. Fits(plan[i], c)
  BY <1>2, <1>3, <1>6, <1>7, SnapshotsFit
<1>12. ASSUME NEW e \in Account PROVE SoundChain(k[e], e)
  <2>1. i \in 0..Len(plan)
    BY <1>2
  <2>2. \A o \in Owners(plan) : SoundChain(Snapshots(f, plan)[i][o], o)
    BY <1>2, <1>3, <2>1, SnapshotsSound
  <2>3. DOMAIN Snapshots(f, plan)[i] = Owners(plan)
    BY <1>2, SnapshotSteps
  <2> QED BY <1>5, <2>2, <2>3 DEF Overlay
<1>13. Grows(k, h, plan[i])
  BY <1>6, <1>8, <1>9, <1>10, <1>11, <1>12 DEF Grows
<1> QED BY <1>1, <1>4, <1>5, <1>13

(* The store after a number of undos of a plan. *)
UndoneStore(s, plan) == CommitUndos(s, UndosOf([a \in Owners(plan) |-> s.chain[a]], plan))

(* Its chains, and the records kept beside them. *)
Undone(s, plan, i) ==
    LET f == [a \in Owners(plan) |-> s.chain[a]]
        u == UndoneStore(s, plan)[i]
    IN /\ u \in Stores
       /\ u.chain = Overlay(s.chain, Snapshots(f, plan)[i])
       /\ u.finalHeight = s.finalHeight
       /\ \A a \in Account : u.rep[a] = RepOnChain(u.chain[a])
       /\ \A c \in u.pending : Body[c].type = "send"

(* Each undo of a plan keeps them. *)
LEMMA UndoneStep ==
    ASSUME NEW s \in Stores, GoodStore(s), NEW plan,
           Unwinding([a \in Owners(plan) |-> s.chain[a]], plan),
           NEW i \in 1..Len(plan), Undone(s, plan, i - 1)
    PROVE  LET u == UndoneStore(s, plan)
               b == plan[i]
           IN /\ Undone(s, plan, i)
              /\ Grows(u[i].chain, u[i - 1].chain, b)
              /\ u[i].pending = (u[i - 1].pending \ IF Body[b].type = "send" THEN {b} ELSE {})
                   \cup IF Body[b].type = "receive" THEN {Body[b].source} ELSE {}
<1>1. PICK f : f = [a \in Owners(plan) |-> s.chain[a]]
  OBVIOUS
<1>2. Unwinding(f, plan) /\ Len(plan) \in Nat
  BY <1>1, OwnersAre DEF Unwinding
<1>3. PICK us : us = UndosOf(f, plan)
  OBVIOUS
<1>4. Len(us) = Len(plan)
        /\ us[i] = [block |-> plan[i], chain |-> Snapshots(f, plan)[i][Owner(plan[i])]]
  BY <1>2, <1>3 DEF UndosOf
<1>5. PICK u : u = us[i]
  OBVIOUS
<1>6. u.block = plan[i] /\ u.chain = Snapshots(f, plan)[i][Owner(plan[i])]
  BY <1>4, <1>5
<1>7. PICK b : b = plan[i]
  OBVIOUS
<1>8. PICK a : a = Owner(b)
  OBVIOUS
<1>9. PICK v : v = UndoneStore(s, plan)[i - 1]
  OBVIOUS
<1>10. PICK w : w = UndoneStore(s, plan)[i]
  OBVIOUS
<1>11. w = CommitUndo(v, u)
  <2>1. CommitUndos(s, us)[i] = CommitUndo(CommitUndos(s, us)[i - 1], us[i])
    BY <1>2, <1>4, CommitUndosUnfold
  <2> QED BY <1>1, <1>3, <1>5, <1>9, <1>10, <2>1 DEF UndoneStore
<1>12. /\ v \in Stores /\ v.chain = Overlay(s.chain, Snapshots(f, plan)[i - 1])
       /\ v.finalHeight = s.finalHeight
       /\ \A e \in Account : v.rep[e] = RepOnChain(v.chain[e])
       /\ \A c \in v.pending : Body[c].type = "send"
  BY <1>1, <1>9 DEF Undone
<1>13. s.chain \in Chains /\ \A e \in Account : SoundChain(s.chain[e], e)
  BY DEF Stores, GoodStore
<1>14. PICK g : g = Overlay(s.chain, Snapshots(f, plan)[i])
  OBVIOUS
<1>15. Grows(g, v.chain, b)
  BY <1>1, <1>7, <1>12, <1>13, <1>14, OverlayGrows
<1>16. u.chain \in Seq(Block) /\ g = [v.chain EXCEPT ![a] = u.chain] /\ u.block = b
  BY <1>2, <1>6, <1>7, <1>8, <1>12, <1>13, <1>14, OverlayStep
<1>17. b \in Block /\ Fits(b, u.chain) /\ a \in Account
  <2>1. b \in Block /\ Fits(b, g[a]) /\ a \in Account
    BY <1>8, <1>15, GrowsBlocks DEF Grows
  <2>2. v.chain \in Chains
    BY <1>12 DEF Stores
  <2>3. g[a] = u.chain
    BY <1>16, <2>1, <2>2 DEF Chains
  <2> QED BY <2>1, <2>3
<1>18. /\ w \in Stores /\ w.chain = [v.chain EXCEPT ![a] = u.chain]
       /\ w.rep = [v.rep EXCEPT ![a] = RepOnChain(u.chain)]
       /\ w.pending = (v.pending \ IF Body[b].type = "send" THEN {b} ELSE {})
            \cup IF Body[b].type = "receive" THEN {Body[b].source} ELSE {}
       /\ w.finalHeight = v.finalHeight
  BY <1>8, <1>11, <1>12, <1>16, <1>17, CommitUndoIs
<1>19. w.chain = g
  BY <1>16, <1>18
<1>20. \A e \in Account : w.rep[e] = RepOnChain(w.chain[e])
  <2>1. v.chain \in Chains /\ v.rep \in [Account -> Rep \cup {None}]
    BY <1>12 DEF Stores
  <2> QED BY <1>12, <1>17, <1>18, <2>1 DEF Chains
<1>21. \A c \in w.pending : Body[c].type = "send"
  <2>1. Body[b].type = "receive" => Body[Body[b].source].type = "send"
    BY <1>17 DEF Fits
  <2> QED BY <1>12, <1>18, <2>1
<1>22. Undone(s, plan, i)
  BY <1>1, <1>10, <1>12, <1>14, <1>18, <1>19, <1>20, <1>21 DEF Undone
<1> QED BY <1>7, <1>9, <1>10, <1>15, <1>18, <1>19, <1>22

(* The store before the first undo. *)
LEMMA UndoneStart ==
    ASSUME NEW s \in Stores, GoodStore(s), NEW plan,
           Unwinding([a \in Owners(plan) |-> s.chain[a]], plan)
    PROVE  Undone(s, plan, 0) /\ UndoneStore(s, plan)[0] = s /\ Len(plan) \in Nat
<1>1. PICK f : f = [a \in Owners(plan) |-> s.chain[a]]
  OBVIOUS
<1>2. Unwinding(f, plan) /\ Len(plan) \in Nat /\ Owners(plan) \subseteq Account
  BY <1>1, OwnersAre DEF Unwinding
<1>3. PICK us : us = UndosOf(f, plan)
  OBVIOUS
<1>4. Len(us) = Len(plan)
  BY <1>2, <1>3 DEF UndosOf
<1>5. UndoneStore(s, plan)[0] = s
  BY <1>1, <1>2, <1>3, <1>4, CommitUndosUnfold DEF UndoneStore
<1>6. Snapshots(f, plan)[0] = f
  BY <1>2, SnapshotsUnfold
<1>7. Overlay(s.chain, f) = s.chain
  <2>1. s.chain \in Chains
    BY DEF Stores
  <2> QED BY <1>1, <1>2, <2>1 DEF Overlay, Chains
<1> QED BY <1>1, <1>2, <1>5, <1>6, <1>7 DEF Undone, GoodStore

(* The store after any number of undos. *)
LEMMA UndoneAll ==
    ASSUME NEW s \in Stores, GoodStore(s), NEW plan,
           Unwinding([a \in Owners(plan) |-> s.chain[a]], plan), NEW n \in 0..Len(plan)
    PROVE  Undone(s, plan, n)
<1> DEFINE T == {i \in 0..Len(plan) : ~Undone(s, plan, i)}
<1>0. Len(plan) \in Nat /\ Undone(s, plan, 0)
  BY UndoneStart
<1> SUFFICES ASSUME T # {} PROVE FALSE
  OBVIOUS
<1>1. PICK m \in T : \A j \in T : m <= j
  <2>1. T \in SUBSET Nat
    BY <1>0
  <2> HIDE DEF T
  <2> QED BY <2>1, Least
<1>2. m # 0
  BY <1>0, <1>1
<1>3. m \in 1..Len(plan) /\ m - 1 \in 0..Len(plan) /\ m - 1 \notin T
  BY <1>0, <1>1, <1>2
<1>4. Undone(s, plan, m - 1)
  BY <1>3
<1>5. Undone(s, plan, m)
  BY <1>3, <1>4, UndoneStep
<1> QED BY <1>1, <1>5

(* The supply after any number of undos: a receive is undone before its    *)
(* send, which is pending again when its turn comes.                       *)
LEMMA UndoneSupplies ==
    ASSUME NEW s \in Stores, GoodStore(s), NEW plan, GoodPlan(plan),
           Unwinding([a \in Owners(plan) |-> s.chain[a]], plan), NEW n \in 0..Len(plan),
           Supplied(s.chain, s.pending), MissedByUndos(s, plan) = {}
    PROVE  Supplied(UndoneStore(s, plan)[n].chain, UndoneStore(s, plan)[n].pending)
<1>1. PICK u : u = UndoneStore(s, plan)
  OBVIOUS
<1>2. PICK l \in Nat : l = Len(plan)
  BY UndoneStart
<1>3. plan \in Seq(Block)
  BY DEF Unwinding
<1> DEFINE Awaits(i, k) ==
             \E j \in (i + 1)..l : Body[plan[j]].type = "receive" /\ Body[plan[j]].source = plan[k]
           Ready(i) ==
             \A k \in (i + 1)..l :
               Body[plan[k]].type = "send" => plan[k] \in u[i].pending \/ Awaits(i, k)
           Right(i) == Supplied(u[i].chain, u[i].pending) /\ Ready(i)
           T == {i \in 0..l : ~Right(i)}
<1>4. Right(0)
  <2>1. u[0] = s
    BY <1>1, UndoneStart
  <2>2. ASSUME NEW k \in 1..l, Body[plan[k]].type = "send", plan[k] \notin s.pending
        PROVE  Awaits(0, k)
    <3>1. ToSet(plan) = {plan[j] : j \in 1..l}
      BY <1>2, <1>3 DEF ToSet
    <3>2. PICK c \in ToSet(plan) : Body[c].type = "receive" /\ Body[c].source = plan[k]
      BY <2>2, <3>1 DEF MissedByUndos
    <3>3. PICK j \in 1..l : c = plan[j]
      BY <3>1, <3>2
    <3> QED BY <3>2, <3>3
  <2> QED BY <2>1, <2>2
<1>5. T = {}
  <2> SUFFICES ASSUME T # {} PROVE FALSE
    OBVIOUS
  <2>1. PICK m \in T : \A j \in T : m <= j
    <3>1. T \in SUBSET Nat
      OBVIOUS
    <3> HIDE DEF T
    <3> QED BY <3>1, Least
  <2>2. m \in 0..l /\ ~Right(m)
    BY <2>1
  <2>3. m # 0
    BY <1>4, <2>2
  <2>4. m \in 1..l /\ m - 1 \in 0..l /\ m - 1 \notin T
    BY <2>1, <2>2, <2>3
  <2>5. Right(m - 1)
    BY <2>4
  <2>6. PICK b : b = plan[m]
    OBVIOUS
  <2>7. PICK P : P = u[m].pending
    OBVIOUS
  <2>8. PICK Q : Q = u[m - 1].pending
    OBVIOUS
  <2>9. /\ Grows(u[m].chain, u[m - 1].chain, b)
        /\ P = (Q \ IF Body[b].type = "send" THEN {b} ELSE {})
             \cup IF Body[b].type = "receive" THEN {Body[b].source} ELSE {}
    <3>1. Undone(s, plan, m - 1)
      BY <1>2, <2>4, UndoneAll
    <3> HIDE DEF T, Right
    <3> QED BY <1>1, <1>2, <2>4, <2>6, <2>7, <2>8, <3>1, UndoneStep
  <2>10. \A j \in m..l : Body[b].type = "send" =>
           ~(Body[plan[j]].type = "receive" /\ Body[plan[j]].source = b)
    BY <1>2, <2>4, <2>6 DEF GoodPlan
  <2>11. Body[b].type = "send" => b \in Q
    <3>1. Body[b].type = "send" => b \in Q \/ Awaits(m - 1, m)
      BY <2>4, <2>5, <2>6, <2>8
    <3> QED BY <2>4, <2>6, <2>10, <3>1
  <2>12. Supplied(u[m].chain, P)
    <3>1. Supplied(u[m - 1].chain, Q)
      BY <2>5, <2>8
    <3> HIDE DEF T, Right
    <3> QED BY <2>9, <2>11, <3>1, UndoSupplies
  <2>13. Ready(m)
    <3>1. SUFFICES ASSUME NEW k \in (m + 1)..l, Body[plan[k]].type = "send", plan[k] \notin P
                   PROVE  Awaits(m, k)
      BY <2>7
    <3>2. plan[k] # b
      BY <1>2, <2>4, <2>6, <3>1 DEF GoodPlan
    <3>3. plan[k] \notin Q
      BY <2>9, <3>1, <3>2
    <3>4. PICK j \in m..l : Body[plan[j]].type = "receive" /\ Body[plan[j]].source = plan[k]
      BY <2>4, <2>5, <2>8, <3>1, <3>3
    <3>5. j # m
      BY <2>6, <2>9, <3>1, <3>4
    <3> QED BY <2>4, <3>4, <3>5
  <2> QED BY <2>2, <2>7, <2>12, <2>13
<1>6. Right(n)
  BY <1>2, <1>5
<1> QED BY <1>1, <1>6

(* A sum of uint64 that is not below its first term did not wrap around. *)
LEMMA CreditsAre ==
    ASSUME NEW b, NEW old \in 0..MaxUint, NEW amount \in 0..MaxUint, Credits(b, amount, old)
    PROVE  Body[b].balance = old + amount
<1>1. PICK m \in Nat : m = MaxUint
  BY Constants
<1>2. old \in 0..m /\ amount \in 0..m
  BY <1>1
<1>3. CASE old + amount <= m
  <2>1. (old + amount) % (m + 1) = old + amount
    BY <1>2, <1>3
  <2> QED BY <1>1, <2>1 DEF Credits, Plus
<1>4. CASE old + amount > m
  <2>1. (old + amount) % (m + 1) = old + amount - (m + 1)
    BY <1>2, <1>4
  <2> QED BY <1>1, <1>2, <2>1 DEF Credits, Plus
<1> QED BY <1>2, <1>3, <1>4

(* What passes full validation fits the chain that validation sees. *)
LEMMA ValidFits ==
    ASSUME NEW b \in Block, NEW c \in Seq(Block), c = ViewChain(Owner(b)), b \notin ToSet(c),
           OldBalance(b) = AssetBalanceOnChain(c, Body[b].asset),
           \A send : ViewPending(send) => send \in Block /\ Body[send].type = "send",
           Valid(b)
    PROVE  Fits(b, c)
<1>1. PICK old \in 0..MaxUint : old = OldBalance(b) /\ old = AssetBalanceOnChain(c, Body[b].asset)
  <2>1. Body[b].asset \in Asset
    BY Constants
  <2> QED BY <2>1, ReadTypes
<1>2. /\ Body[b].type \in BlockType /\ Body[b].amount \in 0..MaxUint /\ Body[b].balance \in Nat
      /\ MaxUint \in Nat /\ Body[b].amount \in Nat
  BY Constants
<1>3. ViewChain(Body[b].account) = c
  BY DEF Owner
<1>4. CASE Body[b].type = "send"
  <2>1. Debits(b, old)
    BY <1>1, <1>4 DEF Valid, ValidSend
  <2>2. Body[b].balance + Body[b].amount = old
    BY <1>1, <1>2, <2>1 DEF Debits
  <2> QED BY <1>1, <1>4, <2>2 DEF Fits
<1>5. CASE Body[b].type = "burn"
  <2>1. Debits(b, old)
    BY <1>1, <1>5 DEF Valid, ValidBurn
  <2>2. Body[b].balance + Body[b].amount = old
    BY <1>1, <1>2, <2>1 DEF Debits
  <2> QED BY <1>1, <1>5, <2>2 DEF Fits
<1>6. CASE Body[b].type = "receive"
  <2>1. PICK send : send = Body[b].source
    OBVIOUS
  <2>2. ViewPending(send) /\ Body[b].asset = Body[send].asset /\ Credits(b, Body[send].amount, old)
    BY <1>1, <1>6, <2>1 DEF Valid, ValidReceive
  <2>3. send \in Block /\ Body[send].type = "send"
    BY <2>2
  <2>4. Body[send].amount \in 0..MaxUint
    BY <2>3, Constants
  <2>5. Body[b].balance = old + Body[send].amount
    BY <2>2, <2>4, CreditsAre
  <2> QED BY <1>1, <1>6, <2>1, <2>2, <2>3, <2>5 DEF Fits
<1>7. CASE Body[b].type = "mint"
  <2>1. Credits(b, Body[b].amount, old)
    BY <1>1, <1>7 DEF Valid, ValidMint
  <2>2. Body[b].balance = old + Body[b].amount
    BY <1>2, <2>1, CreditsAre
  <2> QED BY <1>1, <1>7, <2>2 DEF Fits
<1>8. CASE Body[b].type = "multisig_open"
  <2>1. c = <<>> /\ Body[b].balance = 0
    BY <1>3, <1>8 DEF Valid, ValidMultisigOpen, Opened
  <2> QED BY <1>8, <2>1 DEF Fits
<1>9. CASE Body[b].type = "multisig_update"
  <2>1. Body[b].balance = old
    BY <1>1, <1>9 DEF Valid, ValidMultisigUpdate
  <2> QED BY <1>1, <1>9, <2>1 DEF Fits
<1>10. Body[b].type # "genesis"
  BY DEF Valid
<1> QED BY <1>2, <1>4, <1>5, <1>6, <1>7, <1>8, <1>9, <1>10 DEF BlockType

(* addUndo: the cascade of a plan. *)
LEMMA BuildIs ==
    ASSUME NEW f, NEW plan, Unwinding(f, plan), NEW w,
           \A a \in Owners(plan) : SoundChain(f[a], a)
    PROVE  LET k == BuildCascade(w, f, plan)
           IN /\ k.undos = UndosOf(f, plan)
              /\ k.chains = Snapshots(f, plan)[Len(plan)]
              /\ k.chains \in [Owners(plan) -> Seq(Block)]
              /\ DOMAIN k.chains = Owners(plan) /\ Owners(plan) \subseteq Account
              /\ \A send \in k.added : send \in Block /\ Body[send].type = "send"
<1>1. Len(plan) \in Nat /\ Owners(plan) \subseteq Account /\ plan \in Seq(Block)
  BY OwnersAre DEF Unwinding
<1>2. PICK k : k = BuildCascade(w, f, plan)
  OBVIOUS
<1>3. k.undos = UndosOf(f, plan) /\ k.chains = Snapshots(f, plan)[Len(plan)]
  BY <1>2 DEF BuildCascade, UndosOf
<1>4. k.chains \in [Owners(plan) -> Seq(Block)]
  BY <1>1, <1>3, SnapshotTypes
<1>5. ASSUME NEW send \in k.added PROVE send \in Block /\ Body[send].type = "send"
  <2>1. PICK c \in ToSet(plan) : Body[c].type = "receive" /\ send = Body[c].source
    BY <1>2, <1>5 DEF BuildCascade
  <2>2. PICK i \in 1..Len(plan) : c = plan[i]
    BY <1>1, <2>1 DEF ToSet
  <2>3. Fits(c, Snapshots(f, plan)[i][Owner(plan[i])])
    BY <2>2, SnapshotsFit
  <2> QED BY <2>1, <2>3 DEF Fits
<1>6. DOMAIN k.chains = Owners(plan)
  BY <1>4
<1> QED BY <1>1, <1>2, <1>3, <1>4, <1>5, <1>6

(* The chains the promotion under way unwinds. *)
LEMMA CascadeOf ==
    ASSUME Types, GoodStore(store), SwapHolds, NEW g, MemoryIs(g),
           swap.phase \in {"active", "committed"}
    PROVE  \E e \in Chains :
             /\ \A a \in Account : SoundChain(e[a], a)
             /\ Unwinding([a \in Owners(swap.plan) |-> e[a]], swap.plan)
             /\ cascade = BuildCascade(swap.winner, [a \in Owners(swap.plan) |-> e[a]], swap.plan)
<1>1. store.chain \in Chains /\ swap.plan \in Seq(Block)
  BY DEF Types, Stores
<1>2. Owners(swap.plan) \subseteq Account
  BY <1>1, OwnersAre
<1>3. CASE swap.phase = "active"
  <2>1. ChainsOf(swap.plan) = [a \in Owners(swap.plan) |-> store.chain[a]]
    BY DEF ChainsOf
  <2>2. /\ CanBuild(ChainsOf(swap.plan), swap.plan)
        /\ cascade = BuildCascade(swap.winner, ChainsOf(swap.plan), swap.plan)
    BY <1>3 DEF SwapHolds
  <2>3. [a \in Owners(swap.plan) |-> store.chain[a]] \in [Owners(swap.plan) -> Seq(Block)]
    BY <1>1, <1>2 DEF Chains
  <2>4. \A a \in Account : SoundChain(store.chain[a], a)
    BY DEF GoodStore
  <2> QED BY <1>1, <2>1, <2>2, <2>3, <2>4 DEF Unwinding
<1>4. CASE swap.phase = "committed"
  <2>1. g \in Chains /\ \A a \in Account : SoundChain(g[a], a)
    BY DEF MemoryIs
  <2>2. PICK f : f = [a \in Owners(swap.plan) |-> g[a]]
    OBVIOUS
  <2>3. CanBuild(f, swap.plan) /\ cascade = BuildCascade(swap.winner, f, swap.plan)
    BY <1>4, <2>2 DEF MemoryIs
  <2>4. f \in [Owners(swap.plan) -> Seq(Block)]
    BY <1>2, <2>1, <2>2 DEF Chains
  <2>5. Unwinding(f, swap.plan)
    BY <1>1, <2>3, <2>4 DEF Unwinding
  <2> QED BY <2>1, <2>2, <2>3, <2>5
<1> QED BY <1>3, <1>4

(* What reads go through: chains whose accounts the promoter has locked,   *)
(* and sends.                                                              *)
LEMMA CascadeIs ==
    ASSUME Types, GoodStore(store), SwapHolds, NEW g, MemoryIs(g)
    PROVE  /\ \A a \in DOMAIN cascade.chains :
                /\ a \in Account /\ lock[a] = Promoter
                /\ a \in Owners(swap.plan) /\ swap.phase \in {"active", "committed"}
           /\ \A send : ViewPending(send) => send \in Block /\ Body[send].type = "send"
<1>1. \A send \in store.pending : send \in Block /\ Body[send].type = "send"
  BY DEF Types, Stores, GoodStore
<1>2. CASE swap.phase \in {"idle", "locking"}
  <2>1. cascade = NoCascade
    BY <1>2 DEF SwapHolds
  <2>2. cascade.chains = <<>> /\ cascade.added = {}
    BY <2>1 DEF NoCascade
  <2>3. DOMAIN cascade.chains = {}
    BY <2>2
  <2> QED BY <1>1, <2>2, <2>3 DEF ViewPending
<1>3. CASE swap.phase \in {"active", "committed"}
  <2>1. PICK e \in Chains :
          /\ \A a \in Account : SoundChain(e[a], a)
          /\ Unwinding([a \in Owners(swap.plan) |-> e[a]], swap.plan)
          /\ cascade = BuildCascade(swap.winner, [a \in Owners(swap.plan) |-> e[a]], swap.plan)
    BY <1>3, CascadeOf
  <2>2. PICK f : f = [a \in Owners(swap.plan) |-> e[a]]
    OBVIOUS
  <2>3. Owners(swap.plan) \subseteq Account
    BY <2>1, OwnersAre DEF Unwinding
  <2>4. \A a \in Owners(swap.plan) : SoundChain(f[a], a)
    BY <2>1, <2>2, <2>3
  <2>5. /\ DOMAIN cascade.chains = Owners(swap.plan)
        /\ \A send \in cascade.added : send \in Block /\ Body[send].type = "send"
    BY <2>1, <2>2, <2>4, BuildIs
  <2>6. \A a \in Owners(swap.plan) : lock[a] = Promoter
    <3>1. swap.need = <<>> /\ \A a \in Owners(swap.plan) : lock[a] = Promoter \/ a \in ToSet(swap.need)
      BY <1>3 DEF SwapHolds
    <3>2. ToSet(swap.need) = {}
      BY <3>1 DEF ToSet
    <3> QED BY <3>1, <3>2
  <2> QED BY <1>1, <1>3, <2>3, <2>5, <2>6 DEF ViewPending
<1>4. swap.phase \in {"idle", "locking", "active", "committed"}
  BY DEF Types
<1> QED BY <1>2, <1>3, <1>4

(* Reads of an account that nothing is in progress on. *)
LEMMA Reads ==
    ASSUME Types, GoodStore(store), SwapHolds, NEW g, MemoryIs(g),
           NEW a \in Account, lock[a] # Promoter, ~InProgress(a)
    PROVE  /\ ViewChain(a) = store.chain[a]
           /\ \A x \in Asset : ViewBalance(a, x) = AssetBalanceOnChain(store.chain[a], x)
           /\ ViewRep(a) = RepOnChain(store.chain[a])
<1>1. a \notin DOMAIN cascade.chains
  BY CascadeIs
<1>2. g[a] = store.chain[a] /\ mem = MemoryOf(g)
  BY DEF MemoryIs
<1>3. mem.rep[a] = RepOnChain(g[a]) /\ \A x \in Asset : mem.balance[a][x] = AssetBalanceOnChain(g[a], x)
  BY <1>2 DEF MemoryOf
<1> QED BY <1>1, <1>2, <1>3 DEF ViewChain, ViewBalance, ViewRep

-----------------------------------------------------------------------------
(* Each step keeps the invariant *)

(* A sum of zeros. *)
LEMMA SumZero ==
    ASSUME NEW f, NEW S, IsFiniteSet(S), \A x \in S : f[x] = 0
    PROVE  SumOver(f, S) = 0
<1> DEFINE T == {s \in SUBSET S : SumOver(f, s) # 0}
<1> SUFFICES ASSUME T # {} PROVE FALSE
  OBVIOUS
<1>1. PICK s \in T : \A y \in T : y \subseteq s => y = s
  <2>1. T \in SUBSET (SUBSET S)
    OBVIOUS
  <2> HIDE DEF T
  <2> QED BY <2>1, SmallestSubset
<1>2. s \in SUBSET S /\ IsFiniteSet(s) /\ SumOver(f, s) # 0
  BY <1>1, FS_Subset
<1>3. s # {}
  BY <1>2, SumEmpty
<1>4. PICK x \in s : TRUE
  BY <1>3
<1>5. SumOver(f, s) = f[x] + SumOver(f, s \ {x})
  <2>1. \A y \in s : f[y] \in Int
    BY <1>2
  <2> QED BY <1>2, <2>1, SumMember
<1>6. s \ {x} \in SUBSET S /\ s \ {x} \notin T
  BY <1>1, <1>2
<1>7. SumOver(f, s \ {x}) = 0
  BY <1>6
<1> QED BY <1>2, <1>4, <1>5, <1>7

(* NewLedger computes the memory of the chains. *)
LEMMA RebuildIs ==
    ASSUME NEW s \in Stores, \A a \in Account : s.rep[a] = RepOnChain(s.chain[a])
    PROVE  Rebuild(s) = MemoryOf(s.chain)
<1>1. s.rep = [a \in Account |-> RepOnChain(s.chain[a])]
  BY DEF Stores
<1>2. Weights(s) = WeightsOf(s.chain)
  <2>1. BalancesOf(s, "XE") = XEBalances(s.chain)
    BY DEF BalancesOf, XEBalances
  <2>2. \A r \in Rep : {a \in Account : s.rep[a] = r} = DelegatingTo(s.chain, r)
    BY DEF DelegatingTo
  <2> QED BY <2>1, <2>2 DEF Weights, WeightsOf
<1> QED BY <1>1, <1>2 DEF Rebuild, MemoryOf

(* The supply of the genesis block alone. *)
LEMMA GenesisSupplies ==
    ASSUME NEW g, g = [a \in Account |-> IF a = Owner(GenesisBlock) THEN <<GenesisBlock>>
                                         ELSE <<>>]
    PROVE  /\ g \in Chains /\ \A a \in Account : SoundChain(g[a], a)
           /\ Supplied(g, {})
<1>1. PICK e : e = [a \in Account |-> <<>>]
  OBVIOUS
<1>2. GenesisBlock \in Block /\ Body[GenesisBlock].type = "genesis" /\ Owner(GenesisBlock) \in Account
  BY Constants DEF Owner
<1>3. e \in Chains /\ \A a \in Account : e[a] = <<>> /\ SoundChain(e[a], a)
  BY <1>1 DEF Chains, SoundChain
<1>4. g = [e EXCEPT ![Owner(GenesisBlock)] = Append(@, GenesisBlock)]
  <2>1. Append(<<>>, GenesisBlock) = <<GenesisBlock>>
    OBVIOUS
  <2> QED BY <1>1, <1>2, <2>1
<1>5. ToSet(<<>>) = {}
  BY DEF ToSet
<1>6. Fits(GenesisBlock, e[Owner(GenesisBlock)])
  BY <1>2, <1>3, <1>5 DEF Fits
<1>7. Grows(e, g, GenesisBlock)
  BY <1>2, <1>3, <1>4, <1>6 DEF Grows
<1>8. On(e) = {}
  BY <1>3, <1>5 DEF On
<1>9. ASSUME NEW x \in Asset PROVE Balanced(e, {}, x)
  <2>1. \A a \in Account : BalancesIn(e, x)[a] = 0
    BY <1>3, EmptyChain DEF BalancesIn
  <2>2. SumOver(BalancesIn(e, x), Account) = 0
    BY <2>1, Constants, SumZero
  <2>3. /\ OfAsset({}, x) = {} /\ Kind(On(e), "burn", x) = {}
        /\ Kind(On(e), "genesis", x) = {} /\ Kind(On(e), "mint", x) = {}
    BY <1>8 DEF OfAsset, Kind
  <2>4. SumOver(Term, {}) = 0
    BY SumEmpty
  <2>5. /\ SumOver(Term, OfAsset({}, x)) = 0 /\ SumOver(Term, Kind(On(e), "burn", x)) = 0
        /\ SumOver(Term, Kind(On(e), "genesis", x)) = 0
        /\ SumOver(Term, Kind(On(e), "mint", x)) = 0
    BY <2>3, <2>4
  <2>6. 0 + 0 + 0 = 0 + 0
    OBVIOUS
  <2> QED BY <2>2, <2>5, <2>6 DEF Balanced
<1>10. Supplied(e, {})
  BY <1>8, <1>9 DEF Supplied
<1>11. Supplied(g, {})
  BY <1>2, <1>7, <1>10, CommitSupplies
<1> QED BY <1>7, <1>11, GrowsBlocks

(* The start. *)
LEMMA InitHolds == Init => LedgerInv
<1> SUFFICES ASSUME Init PROVE LedgerInv
  OBVIOUS
<1>1. PICK o \in Account : o = Owner(GenesisBlock) /\ o = Body[GenesisBlock].account
  BY Constants DEF Owner
<1>2. PICK g : g = [a \in Account |-> IF a = Owner(GenesisBlock) THEN <<GenesisBlock>> ELSE <<>>]
  OBVIOUS
<1>3. g \in Chains /\ (\A a \in Account : SoundChain(g[a], a)) /\ Supplied(g, {})
  BY <1>2, GenesisSupplies
<1>4. /\ store.chain = g /\ store.pending = {} /\ store.known = {GenesisBlock}
      /\ store.rep = [x \in Account |-> IF x = o THEN Body[GenesisBlock].rep ELSE None]
      /\ store.finalHeight = [x \in Account |-> IF x = o THEN 1 ELSE 0]
      /\ store.staged = {} /\ store.conflict = [p \in Position |-> {}]
  BY <1>1, <1>2 DEF Init, InitStore
<1>5. GenesisBlock \in Block /\ Body[GenesisBlock].rep \in Rep \cup {None}
  BY Constants
<1>6. store \in Stores
  BY <1>1, <1>3, <1>4, <1>5 DEF Init, InitStore, Stores
<1>7. RepOnChain(<<>>) = None
  BY EmptyChain
<1>8. RepOnChain(<<GenesisBlock>>) = Body[GenesisBlock].rep
  <2>1. Append(<<>>, GenesisBlock) = <<GenesisBlock>> /\ <<>> \in Seq(Block)
    OBVIOUS
  <2>2. RepOnChain(Append(<<>>, GenesisBlock)) =
          IF Body[GenesisBlock].rep # None THEN Body[GenesisBlock].rep ELSE RepOnChain(<<>>)
    BY <1>5, <2>1, RepAppend
  <2> QED BY <1>7, <2>1, <2>2
<1>9. ASSUME NEW a \in Account
      PROVE  store.rep[a] = RepOnChain(store.chain[a]) /\ store.finalHeight[a] <= Len(store.chain[a])
  <2>1. Len(<<GenesisBlock>>) = 1 /\ Len(<<>>) = 0
    OBVIOUS
  <2>2. CASE a = o
    <3>1. store.chain[a] = <<GenesisBlock>>
      <4>1. a = Owner(GenesisBlock)
        BY <1>1, <2>2
      <4>2. g[a] = <<GenesisBlock>>
        BY <1>2, <4>1
      <4> QED BY <1>4, <4>2
    <3>2. store.rep[a] = Body[GenesisBlock].rep /\ store.finalHeight[a] = 1
      BY <1>4, <2>2
    <3> QED BY <1>8, <2>1, <3>1, <3>2
  <2>3. CASE a # o
    <3>1. store.chain[a] = <<>>
      <4>1. a # Owner(GenesisBlock)
        BY <1>1, <2>3
      <4>2. g[a] = <<>>
        BY <1>2, <4>1
      <4> QED BY <1>4, <4>2
    <3>2. store.rep[a] = None /\ store.finalHeight[a] = 0
      BY <1>4, <2>3
    <3> QED BY <1>7, <2>1, <3>1, <3>2
  <2> QED BY <2>2, <2>3
<1>10. GoodStore(store)
  BY <1>3, <1>4, <1>9 DEF GoodStore
<1>11. Types
  BY <1>6, Constants DEF Types, Init, Unlocked, IdleCall, IdleSwap
<1>12. CallsHold /\ SwapHolds
  BY DEF CallsHold, SwapHolds, Init, IdleCall, IdleSwap
<1>13. MemoryIs(g)
  <2>1. mem = MemoryOf(g)
    BY <1>4, <1>6, <1>9, RebuildIs DEF Init
  <2>2. swap.phase = "idle" /\ \A t \in Adder : call[t].phase = "idle"
    BY DEF Init, IdleCall, IdleSwap
  <2> QED BY <1>3, <1>4, <2>1, <2>2 DEF MemoryIs
<1>14. SupplyHolds
  BY <1>3, <1>4 DEF SupplyHolds
<1> QED BY <1>3, <1>10, <1>11, <1>12, <1>13, <1>14 DEF LedgerInv

(* Nothing is in progress on an account that the promoter has not locked   *)
(* and no adder that has committed.                                        *)
LEMMA NotInProgress ==
    ASSUME Types, CallsHold, SwapHolds, NEW a \in Account, lock[a] # Promoter,
           \A t \in Adder : call[t].phase = "committed" => lock[a] # t
    PROVE  ~InProgress(a)
<1>1. ASSUME NEW t \in Adder, call[t].phase = "committed" PROVE Owner(call[t].block) # a
  BY <1>1 DEF CallsHold
<1>2. swap.phase = "committed" => a \notin Owners(swap.plan)
  <2>1. ToSet(<<>>) = {}
    BY DEF ToSet
  <2> QED BY <2>1 DEF SwapHolds
<1> QED BY <1>1, <1>2 DEF InProgress

(* Steps that change no chain. *)
LEMMA SameChains ==
    ASSUME LedgerInv, store' \in Stores, store'.chain = store.chain,
           store'.pending = store.pending, store'.rep = store.rep,
           \A a \in Account : store'.finalHeight[a] <= Len(store.chain[a]),
           store'.finalHeight = store.finalHeight \/ swap.phase = "idle",
           UNCHANGED <<mem, lock, call, swap, cascade, missed, restarts>>
    PROVE  LedgerInv'
<1>1. Types'
  BY DEF LedgerInv, Types
<1>2. GoodStore(store')
  BY DEF LedgerInv, GoodStore
<1>3. CallsHold'
  BY DEF LedgerInv, CallsHold
<1>4. SwapHolds'
  <2>1. ChainsOf(swap.plan)' = ChainsOf(swap.plan)
    BY DEF ChainsOf
  <2> QED BY <2>1 DEF LedgerInv, SwapHolds
<1>5. \A g : MemoryIs(g) => MemoryIs(g)'
  BY DEF MemoryIs, InProgress
<1>6. SupplyHolds'
  BY DEF LedgerInv, SupplyHolds
<1>7. (\E g \in Chains : MemoryIs(g))'
  BY <1>5 DEF LedgerInv
<1> QED BY <1>1, <1>2, <1>3, <1>4, <1>6, <1>7 DEF LedgerInv

(* A sibling is on the chain of the block's account. *)
LEMMA SiblingIs ==
    ASSUME NEW s \in Stores, NEW b \in Block
    PROVE  /\ Sibling(s, b) # None =>
                Sibling(s, b) \in ToSet(s.chain[Owner(b)]) /\ Sibling(s, b) \in Block
           /\ Sibling(s, b) = None => b \notin ToSet(s.chain[Owner(b)])
<1>1. PICK a \in Account : a = Owner(b) /\ a = Body[b].account
  BY Constants DEF Owner
<1>2. s.chain \in Chains
  BY DEF Stores
<1>3. ToSet(s.chain[a]) \subseteq Block
  BY <1>2, OnAre
<1>4. PICK found : found = {c \in ToSet(s.chain[a]) : Body[c].prev = Body[b].prev}
  OBVIOUS
<1>5. Sibling(s, b) = IF found = {} THEN None ELSE CHOOSE c \in found : TRUE
  BY <1>1, <1>4 DEF Sibling
<1>6. CASE found = {}
  BY <1>1, <1>4, <1>5, <1>6
<1>7. CASE found # {}
  <2>1. Sibling(s, b) \in found
    BY <1>5, <1>7
  <2> QED BY <1>1, <1>3, <1>4, <2>1, Constants
<1> QED BY <1>6, <1>7

(* AddBlock of a sibling. *)
LEMMA StageHolds ==
    ASSUME LedgerInv, NEW b \in Block, Stage(b)
    PROVE  LedgerInv'
<1>1. store \in Stores
  BY DEF LedgerInv, Types
<1>2. Sibling(store, b) \in Block
  BY <1>1, SiblingIs DEF Stage
<1>3. Pos(b) \in Position
  BY DEF Pos, Position
<1>4. PICK e : e = store.conflict[Pos(b)] \cup {Sibling(store, b), b}
  OBVIOUS
<1>5. store' = [store EXCEPT !.conflict[Pos(b)] = e, !.staged = @ \cup {b}]
  BY <1>4 DEF Stage
<1>6. e \in SUBSET Block
  BY <1>1, <1>2, <1>3, <1>4 DEF Stores
<1>7. /\ store'.chain = store.chain /\ store'.pending = store.pending /\ store'.rep = store.rep
      /\ store'.finalHeight = store.finalHeight
  BY <1>1, <1>5 DEF Stores
<1>8. store' \in Stores
  BY <1>1, <1>3, <1>5, <1>6 DEF Stores
<1>9. \A a \in Account : store'.finalHeight[a] <= Len(store.chain[a])
  BY <1>7 DEF LedgerInv, GoodStore
<1> QED BY <1>7, <1>8, <1>9, SameChains DEF Stage

(* confirmConflict when a rollback is refused. *)
LEMMA RefusedHolds ==
    ASSUME LedgerInv, NEW w \in Block, SwapRefused(w)
    PROVE  LedgerInv'
<1>1. store \in Stores
  BY DEF LedgerInv, Types
<1>2. Sibling(store, w) \in Block
  BY <1>1, SiblingIs DEF SwapRefused, Promotes
<1>3. store' = [store EXCEPT !.staged = @ \cup {Sibling(store, w)}]
  BY DEF SwapRefused, Demote
<1>4. /\ store'.chain = store.chain /\ store'.pending = store.pending /\ store'.rep = store.rep
      /\ store'.finalHeight = store.finalHeight
  BY <1>1, <1>3 DEF Stores
<1>5. store' \in Stores
  BY <1>1, <1>2, <1>3 DEF Stores
<1>6. \A a \in Account : store'.finalHeight[a] <= Len(store.chain[a])
  BY <1>4 DEF LedgerInv, GoodStore
<1> QED BY <1>4, <1>5, <1>6, SameChains DEF SwapRefused

(* cleanupResolvedConflict. *)
LEMMA ResolveIs ==
    ASSUME NEW s \in Stores, NEW b \in Block, \A a \in Account : s.finalHeight[a] <= Len(s.chain[a])
    PROVE  LET v == Resolve(s, b)
           IN /\ v \in Stores
              /\ v.chain = s.chain /\ v.pending = s.pending /\ v.rep = s.rep
              /\ \A a \in Account : v.finalHeight[a] <= Len(v.chain[a])
<1>1. PICK a \in Account : a = Owner(b)
  BY Constants DEF Owner
<1>2. PICK c \in Seq(Block) : c = s.chain[a]
  BY DEF Stores, Chains
<1>3. PICK h \in 0..Len(c) : h = HeightOf(c, b)
  BY HeightIs
<1>4. PICK p \in Position : p = Pos(b)
  BY DEF Pos, Position
<1>5. PICK v : v = Resolve(s, b)
  OBVIOUS
<1>6. v = [s EXCEPT !.finalHeight[a] = h, !.staged = @ \ s.conflict[p], !.conflict[p] = {}]
  BY <1>1, <1>2, <1>3, <1>4, <1>5 DEF Resolve
<1>7. /\ v.chain = s.chain /\ v.pending = s.pending /\ v.rep = s.rep
      /\ v.finalHeight = [s.finalHeight EXCEPT ![a] = h]
  BY <1>6 DEF Stores
<1>8. h \in Nat /\ h <= Len(s.chain[a])
  BY <1>2, <1>3
<1>9. v \in Stores
  BY <1>6, <1>8 DEF Stores
<1>10. ASSUME NEW e \in Account PROVE v.finalHeight[e] <= Len(v.chain[e])
  <2>1. s.finalHeight \in [Account -> Nat]
    BY DEF Stores
  <2> QED BY <1>7, <1>8, <2>1
<1> QED BY <1>5, <1>7, <1>9, <1>10

(* Votes finalize a block. *)
LEMMA FinalizeHolds ==
    ASSUME LedgerInv, NEW b \in Block, Finalize(b)
    PROVE  LedgerInv'
<1>1. store \in Stores /\ \A a \in Account : store.finalHeight[a] <= Len(store.chain[a])
  BY DEF LedgerInv, Types, GoodStore
<1>2. store' = Resolve(store, b)
  BY DEF Finalize
<1>3. /\ store' \in Stores
      /\ store'.chain = store.chain /\ store'.pending = store.pending /\ store'.rep = store.rep
      /\ \A a \in Account : store'.finalHeight[a] <= Len(store'.chain[a])
  BY <1>1, <1>2, ResolveIs
<1>4. swap.phase = "idle"
  BY DEF Finalize, IdleSwap
<1> QED BY <1>3, <1>4, SameChains DEF Finalize

(* AddBlock up to its transaction. *)
LEMMA ValidateHolds ==
    ASSUME LedgerInv, NEW t \in Adder, NEW b \in Block, Validate(t, b)
    PROVE  LedgerInv'
<1>1. PICK a \in Account : a = Owner(b) /\ a = Body[b].account
  BY Constants DEF Owner
<1>2. Types /\ GoodStore(store) /\ CallsHold /\ SwapHolds /\ SupplyHolds
  BY DEF LedgerInv
<1>3. PICK g \in Chains : MemoryIs(g)
  BY DEF LedgerInv
<1>4. /\ lock[a] = None /\ lock' = [lock EXCEPT ![a] = t]
      /\ call[t].phase = "idle" /\ call' = [call EXCEPT ![t] = [phase |-> "validated", block |-> b]]
      /\ UNCHANGED <<store, mem, swap, cascade, missed, restarts>>
  BY <1>1 DEF Validate, Acquire
<1>5. /\ lock \in [Account -> Adder \cup {Promoter, None}]
      /\ call \in [Adder -> [phase : {"idle", "validated", "committed"}, block : Block \cup {None}]]
      /\ store \in Stores
  BY <1>2 DEF Types
<1>6. None # Promoter /\ None \notin Adder /\ Promoter \notin Adder
  BY Constants
<1>7. Fits(b, store.chain[a])
  <2>1. ~InProgress(a)
    BY <1>2, <1>4, <1>6, NotInProgress
  <2>2. /\ ViewChain(a) = store.chain[a]
        /\ \A x \in Asset : ViewBalance(a, x) = AssetBalanceOnChain(store.chain[a], x)
    BY <1>2, <1>3, <1>4, <1>6, <2>1, Reads
  <2>3. \A send : ViewPending(send) => send \in Block /\ Body[send].type = "send"
    BY <1>2, <1>3, CascadeIs
  <2>4. OldBalance(b) = AssetBalanceOnChain(store.chain[a], Body[b].asset)
    BY <1>1, <2>2, Constants DEF OldBalance
  <2>5. b \notin ToSet(store.chain[a]) /\ Valid(b)
    BY <1>1, <1>5, SiblingIs DEF Validate
  <2>6. store.chain[a] \in Seq(Block)
    BY <1>5 DEF Stores, Chains
  <2> QED BY <1>1, <2>2, <2>3, <2>4, <2>5, <2>6, ValidFits
<1>8. Types'
  BY <1>2, <1>4, <1>5 DEF Types
<1>9. GoodStore(store')
  BY <1>2, <1>4
<1>10. CallsHold'
  <2>1. SUFFICES ASSUME NEW u \in Adder, call'[u].phase # "idle"
                 PROVE  /\ call'[u].block \in Block
                        /\ lock'[Owner(call'[u].block)] = u
                        /\ call'[u].phase = "validated" =>
                             Fits(call'[u].block, store'.chain[Owner(call'[u].block)])
    BY DEF CallsHold
  <2>2. CASE u = t
    BY <1>1, <1>4, <1>5, <1>7, <2>2
  <2>3. CASE u # t
    <3>1. call'[u] = call[u]
      BY <1>4, <1>5, <2>3
    <3>2. /\ call[u].block \in Block /\ lock[Owner(call[u].block)] = u
          /\ call[u].phase = "validated" =>
               Fits(call[u].block, store.chain[Owner(call[u].block)])
      BY <1>2, <2>1, <3>1 DEF CallsHold
    <3>3. Owner(call[u].block) # a
      BY <1>4, <1>6, <3>2
    <3> QED BY <1>4, <1>5, <3>1, <3>2, <3>3
  <2> QED BY <2>2, <2>3
<1>11. SwapHolds'
  <2>1. ChainsOf(swap.plan)' = ChainsOf(swap.plan)
    BY <1>4 DEF ChainsOf
  <2>2. \A e : lock[e] = Promoter => lock'[e] = Promoter
    BY <1>4, <1>5, <1>6
  <2> QED BY <1>2, <1>4, <2>1, <2>2 DEF SwapHolds
<1>12. MemoryIs(g)'
  <2>1. \A u \in Adder : call'[u].phase = "committed" <=> call[u].phase = "committed"
    BY <1>4, <1>5
  <2>2. \A u \in Adder : call'[u].phase = "committed" => call'[u] = call[u]
    BY <1>4, <1>5
  <2>3. ASSUME NEW e \in Account PROVE InProgress(e)' <=> InProgress(e)
    BY <1>4, <2>1, <2>2 DEF InProgress
  <2>4. \A e \in Account : SoundChain(g[e], e) /\ (~InProgress(e)' => g[e] = store'.chain[e])
    BY <1>3, <1>4, <2>3 DEF MemoryIs
  <2>5. \A u \in Adder : call'[u].phase = "committed" =>
          store'.chain[Owner(call'[u].block)] = Append(g[Owner(call'[u].block)], call'[u].block)
    BY <1>3, <1>4, <2>2 DEF MemoryIs
  <2> QED BY <1>3, <1>4, <2>4, <2>5 DEF MemoryIs
<1>13. SupplyHolds'
  BY <1>2, <1>4 DEF SupplyHolds
<1> QED BY <1>3, <1>8, <1>9, <1>10, <1>11, <1>12, <1>13 DEF LedgerInv

(* commitBlockWrite in the store. *)
LEMMA CommitBlockIs ==
    ASSUME NEW s \in Stores, NEW b \in Block, Fits(b, s.chain[Owner(b)]),
           ViewRep(Owner(b)) = RepOnChain(s.chain[Owner(b)]),
           \A a \in Account : SoundChain(s.chain[a], a)
    PROVE  LET a == Owner(b)
               v == CommitBlock(s, b)
           IN /\ v \in Stores /\ a \in Account
              /\ Grows(s.chain, v.chain, b)
              /\ v.chain = [s.chain EXCEPT ![a] = Append(@, b)]
              /\ v.pending = (s.pending \cup IF Body[b].type = "send" THEN {b} ELSE {})
                   \ IF Body[b].type = "receive" THEN {Body[b].source} ELSE {}
              /\ v.finalHeight = s.finalHeight
              /\ v.rep = [s.rep EXCEPT ![a] = RepOnChain(v.chain[a])]
<1>1. PICK a \in Account : a = Owner(b) /\ a = Body[b].account
  BY Constants DEF Owner
<1>2. s.chain \in Chains /\ s.rep \in [Account -> Rep \cup {None}] /\ s.pending \in SUBSET Block
  BY DEF Stores
<1>3. PICK c \in Seq(Block) : c = s.chain[a]
  BY <1>2 DEF Chains
<1>4. PICK d \in Seq(Block) : d = Append(c, b)
  <2>1. Append(c, b) \in Seq(Block)
    OBVIOUS
  <2> QED BY <2>1
<1>5. PICK r \in Rep \cup {None} : r = IF Body[b].rep # None THEN Body[b].rep ELSE ViewRep(a)
  <2>1. RepOnChain(c) \in Rep \cup {None} /\ Body[b].rep \in Rep \cup {None}
    BY ReadTypes, Constants
  <2> QED BY <1>1, <1>3, <2>1
<1>6. r = RepOnChain(d)
  BY <1>1, <1>3, <1>4, <1>5, RepAppend
<1>7. PICK P : P = (s.pending \cup IF Body[b].type = "send" THEN {b} ELSE {})
                     \ IF Body[b].type = "receive" THEN {Body[b].source} ELSE {}
  OBVIOUS
<1>8. P \in SUBSET Block
  BY <1>2, <1>7
<1>9. PICK v : v = CommitBlock(s, b)
  OBVIOUS
<1>10. v = [s EXCEPT !.chain[a] = d, !.known = @ \cup {b}, !.pending = P, !.rep[a] = r]
  BY <1>1, <1>3, <1>4, <1>5, <1>7, <1>9 DEF CommitBlock
<1>11. /\ v.chain = [s.chain EXCEPT ![a] = d] /\ v.pending = P
       /\ v.finalHeight = s.finalHeight /\ v.rep = [s.rep EXCEPT ![a] = r]
  BY <1>10 DEF Stores
<1>12. v.chain \in Chains /\ v.rep \in [Account -> Rep \cup {None}] /\ v.chain[a] = d
  BY <1>2, <1>11 DEF Chains
<1>13. v \in Stores
  BY <1>8, <1>10, <1>11, <1>12 DEF Stores
<1>14. v.chain = [s.chain EXCEPT ![a] = Append(@, b)]
  BY <1>3, <1>4, <1>11
<1>15. Grows(s.chain, v.chain, b)
  BY <1>1, <1>2, <1>14 DEF Grows
<1> QED BY <1>1, <1>6, <1>7, <1>9, <1>11, <1>12, <1>13, <1>14, <1>15

(* It keeps a good store good. *)
LEMMA CommitKeeps ==
    ASSUME NEW s \in Stores, NEW b \in Block, Fits(b, s.chain[Owner(b)]),
           ViewRep(Owner(b)) = RepOnChain(s.chain[Owner(b)]), GoodStore(s)
    PROVE  GoodStore(CommitBlock(s, b))
<1>1. PICK a : a = Owner(b)
  OBVIOUS
<1>2. PICK v : v = CommitBlock(s, b)
  OBVIOUS
<1>3. /\ v \in Stores /\ a \in Account
      /\ Grows(s.chain, v.chain, b)
      /\ v.chain = [s.chain EXCEPT ![a] = Append(@, b)]
      /\ v.pending = (s.pending \cup IF Body[b].type = "send" THEN {b} ELSE {})
           \ IF Body[b].type = "receive" THEN {Body[b].source} ELSE {}
      /\ v.finalHeight = s.finalHeight
      /\ v.rep = [s.rep EXCEPT ![a] = RepOnChain(v.chain[a])]
  BY <1>1, <1>2, CommitBlockIs DEF GoodStore
<1>4. s.chain \in Chains /\ s.rep \in [Account -> Rep \cup {None}] /\ s.finalHeight \in [Account -> Nat]
  BY DEF Stores
<1>5. \A e \in Account : SoundChain(v.chain[e], e)
  BY <1>3, GrowsBlocks
<1>6. \A c \in v.pending : Body[c].type = "send"
  BY <1>3 DEF GoodStore
<1>7. ASSUME NEW e \in Account
      PROVE  v.rep[e] = RepOnChain(v.chain[e]) /\ v.finalHeight[e] <= Len(v.chain[e])
  <2>1. CASE e = a
    <3>1. PICK c \in Seq(Block) : c = s.chain[a]
      BY <1>3, <1>4 DEF Chains
    <3>2. v.chain[a] = Append(c, b)
      BY <1>3, <1>4, <3>1 DEF Chains
    <3>3. Len(Append(c, b)) = Len(c) + 1
      OBVIOUS
    <3>4. s.finalHeight[a] <= Len(c) /\ s.finalHeight[a] \in Nat
      BY <1>3, <1>4, <3>1 DEF GoodStore
    <3>5. v.finalHeight[a] <= Len(v.chain[a])
      BY <1>3, <3>2, <3>3, <3>4
    <3> QED BY <1>3, <1>4, <2>1, <3>5
  <2>2. CASE e # a
    <3>1. v.chain[e] = s.chain[e] /\ v.rep[e] = s.rep[e] /\ v.finalHeight[e] = s.finalHeight[e]
      BY <1>3, <1>4, <2>2 DEF Chains
    <3> QED BY <3>1 DEF GoodStore
  <2> QED BY <2>1, <2>2
<1> QED BY <1>2, <1>5, <1>6, <1>7 DEF GoodStore

(* The transaction of AddBlock. *)
LEMMA CommitHolds ==
    ASSUME LedgerInv, NEW t \in Adder, Commit(t)
    PROVE  LedgerInv'
<1>1. Types /\ GoodStore(store) /\ CallsHold /\ SwapHolds /\ SupplyHolds
  BY DEF LedgerInv
<1>2. PICK g \in Chains : MemoryIs(g)
  BY DEF LedgerInv
<1>3. PICK b \in Block : b = call[t].block
  BY <1>1 DEF Commit, CallsHold
<1>4. PICK a \in Account : a = Owner(b)
  BY Constants DEF Owner
<1>5. /\ lock[a] = t /\ Fits(b, store.chain[a]) /\ call[t].phase = "validated"
  BY <1>1, <1>3, <1>4 DEF Commit, CallsHold
<1>6. /\ store' = CommitBlock(store, b) /\ missed' = missed \cup MissedBy(store, b)
      /\ call' = [call EXCEPT ![t].phase = "committed"]
      /\ UNCHANGED <<mem, lock, swap, cascade, restarts>>
  BY <1>3 DEF Commit
<1>7. /\ call \in [Adder -> [phase : {"idle", "validated", "committed"}, block : Block \cup {None}]]
      /\ store \in Stores /\ store.chain \in Chains /\ missed \in SUBSET Block
  BY <1>1 DEF Types, Stores
<1>8. lock[a] # Promoter /\ \A u \in Adder : call[u].phase = "committed" => lock[a] # u
  BY <1>5, Constants
<1>9. ~InProgress(a)
  BY <1>1, <1>8, NotInProgress
<1>10. ViewRep(a) = RepOnChain(store.chain[a])
  BY <1>1, <1>2, <1>8, <1>9, Reads
<1>11. /\ store' \in Stores
       /\ Grows(store.chain, store'.chain, b)
       /\ store'.chain = [store.chain EXCEPT ![a] = Append(@, b)]
       /\ store'.pending = (store.pending \cup IF Body[b].type = "send" THEN {b} ELSE {})
            \ IF Body[b].type = "receive" THEN {Body[b].source} ELSE {}
       /\ store'.finalHeight = store.finalHeight
  BY <1>1, <1>4, <1>5, <1>6, <1>7, <1>10, CommitBlockIs DEF GoodStore
<1>12. store'.chain[a] = Append(store.chain[a], b) /\ \A e \in Account \ {a} : store'.chain[e] = store.chain[e]
  BY <1>7, <1>11 DEF Chains
<1>13. \A e \in Account : lock[e] = Promoter => store'.chain[e] = store.chain[e]
  BY <1>8, <1>12
<1>14. /\ call'[t].phase = "committed" /\ call'[t].block = b
       /\ \A u \in Adder \ {t} : call'[u] = call[u]
       /\ call' \in [Adder -> [phase : {"idle", "validated", "committed"}, block : Block \cup {None}]]
  BY <1>3, <1>6, <1>7
<1>15. MissedBy(store, b) \in SUBSET Block
  BY <1>5 DEF MissedBy, Fits
<1>16. Types'
  BY <1>1, <1>6, <1>7, <1>11, <1>14, <1>15 DEF Types
<1>17. GoodStore(store')
  BY <1>1, <1>4, <1>5, <1>6, <1>7, <1>10, CommitKeeps
<1>18. CallsHold'
  <2>1. SUFFICES ASSUME NEW u \in Adder, call'[u].phase # "idle"
                 PROVE  /\ call'[u].block \in Block
                        /\ lock'[Owner(call'[u].block)] = u
                        /\ call'[u].phase = "validated" =>
                             Fits(call'[u].block, store'.chain[Owner(call'[u].block)])
    BY DEF CallsHold
  <2>2. CASE u = t
    BY <1>4, <1>5, <1>6, <1>14, <2>2
  <2>3. CASE u # t
    <3>1. call'[u] = call[u]
      BY <1>14, <2>3
    <3>2. /\ call[u].block \in Block /\ lock[Owner(call[u].block)] = u
          /\ call[u].phase = "validated" =>
               Fits(call[u].block, store.chain[Owner(call[u].block)])
      BY <1>1, <2>1, <3>1 DEF CallsHold
    <3>3. Owner(call[u].block) # a /\ Owner(call[u].block) \in Account
      BY <1>5, <2>3, <3>2, Constants DEF Owner
    <3> QED BY <1>6, <1>12, <3>1, <3>2, <3>3
  <2> QED BY <2>2, <2>3
<1>19. SwapHolds'
  <2>1. swap.plan \in Seq(Block) /\ Owners(swap.plan) \subseteq Account
    BY <1>1, OwnersAre DEF Types
  <2>2. swap.phase = "active" => ChainsOf(swap.plan)' = ChainsOf(swap.plan)
    <3>1. ToSet(<<>>) = {}
      BY DEF ToSet
    <3>2. swap.phase = "active" => \A e \in Owners(swap.plan) : lock[e] = Promoter
      BY <1>1, <3>1 DEF SwapHolds
    <3> QED BY <1>6, <1>13, <2>1, <3>2 DEF ChainsOf
  <2>3. swap.phase \in {"locking", "active"} =>
          swap.winner \notin ToSet(store'.chain[Owner(swap.winner)])
    <3>1. swap.phase \in {"locking", "active"} =>
            /\ swap.winner \in Block /\ lock[Owner(swap.winner)] = Promoter
            /\ swap.winner \notin ToSet(store.chain[Owner(swap.winner)])
      BY <1>1 DEF SwapHolds
    <3> QED BY <1>13, <3>1, Constants DEF Owner
  <2>4. ASSUME swap.phase \in {"locking", "active"}, NEW e \in Account,
               NEW i \in 1..store.finalHeight[e]
        PROVE  store'.chain[e][i] \notin ToSet(swap.plan)
    <3>1. store.chain[e][i] \notin ToSet(swap.plan)
      BY <1>1, <2>4 DEF SwapHolds
    <3>2. PICK c \in Seq(Block) : c = store.chain[e]
      BY <1>7 DEF Chains
    <3>3. store.finalHeight[e] \in Nat /\ store.finalHeight[e] <= Len(c)
      BY <1>1, <1>7, <3>2 DEF GoodStore, Stores
    <3>4. i \in 1..Len(c)
      BY <3>3
    <3>5. Append(c, b)[i] = c[i]
      BY <3>4
    <3> QED BY <1>12, <3>1, <3>2, <3>5
  <2> QED BY <1>1, <1>6, <1>11, <2>2, <2>3, <2>4 DEF SwapHolds
<1>20. MemoryIs(g)'
  <2>1. g[a] = store.chain[a]
    BY <1>2, <1>9 DEF MemoryIs
  <2>2. ASSUME NEW e \in Account, ~InProgress(e)' PROVE g[e] = store'.chain[e]
    <3>1. e # a
      BY <1>4, <1>14, <2>2 DEF InProgress
    <3>2. ~InProgress(e)
      BY <1>5, <1>6, <1>14, <2>2 DEF InProgress
    <3> QED BY <1>2, <1>12, <3>1, <3>2 DEF MemoryIs
  <2>3. ASSUME NEW u \in Adder, call'[u].phase = "committed"
        PROVE  store'.chain[Owner(call'[u].block)] = Append(g[Owner(call'[u].block)], call'[u].block)
    <3>1. CASE u = t
      BY <1>4, <1>12, <1>14, <2>1, <3>1
    <3>2. CASE u # t
      <4>1. call'[u] = call[u]
        BY <1>14, <3>2
      <4>2. call[u].block \in Block /\ lock[Owner(call[u].block)] = u
        BY <1>1, <2>3, <4>1 DEF CallsHold
      <4>3. Owner(call[u].block) # a /\ Owner(call[u].block) \in Account
        BY <1>5, <3>2, <4>2, Constants DEF Owner
      <4> QED BY <1>2, <1>12, <2>3, <4>1, <4>3 DEF MemoryIs
    <3> QED BY <3>1, <3>2
  <2>4. swap.phase = "committed" => \A e \in Owners(swap.plan) : store'.chain[e] = store.chain[e]
    <3>1. ToSet(<<>>) = {}
      BY DEF ToSet
    <3>2. Owners(swap.plan) \subseteq Account
      BY <1>1, OwnersAre DEF Types
    <3> QED BY <1>1, <1>13, <3>1, <3>2 DEF SwapHolds
  <2>5. \A e \in Account : SoundChain(g[e], e)
    BY <1>2 DEF MemoryIs
  <2> QED BY <1>2, <1>6, <2>2, <2>3, <2>4, <2>5 DEF MemoryIs
<1>21. SupplyHolds'
  <2>1. SUFFICES ASSUME missed' = {} PROVE Supplied(store'.chain, store'.pending)
    BY DEF SupplyHolds
  <2>2. missed = {} /\ MissedBy(store, b) = {}
    BY <1>6, <2>1
  <2>3. Supplied(store.chain, store.pending)
    BY <1>1, <2>2 DEF SupplyHolds
  <2>4. Body[b].type = "receive" => Body[b].source \in store.pending
    BY <2>2 DEF MissedBy
  <2> QED BY <1>11, <2>3, <2>4, CommitSupplies
<1> QED BY <1>2, <1>16, <1>17, <1>18, <1>19, <1>20, <1>21 DEF LedgerInv

(* AddBlock after its transaction. *)
LEMMA ReturnHolds ==
    ASSUME LedgerInv, NEW t \in Adder, Return(t)
    PROVE  LedgerInv'
<1>1. Types /\ GoodStore(store) /\ CallsHold /\ SwapHolds /\ SupplyHolds
  BY DEF LedgerInv
<1>2. PICK g \in Chains : MemoryIs(g)
  BY DEF LedgerInv
<1>3. PICK b \in Block : b = call[t].block
  BY <1>1 DEF Return, CallsHold
<1>4. PICK a \in Account : a = Owner(b) /\ a = Body[b].account
  BY Constants DEF Owner
<1>5. call[t].phase = "committed" /\ lock[a] = t
  BY <1>1, <1>3, <1>4 DEF Return, CallsHold
<1>6. /\ mem' = ApplyBlock(mem, b) /\ lock' = [lock EXCEPT ![a] = None]
      /\ call' = [call EXCEPT ![t] = IdleCall]
      /\ UNCHANGED <<store, swap, cascade, missed, restarts>>
  BY <1>3, <1>4 DEF Return
<1>7. /\ lock \in [Account -> Adder \cup {Promoter, None}]
      /\ call \in [Adder -> [phase : {"idle", "validated", "committed"}, block : Block \cup {None}]]
      /\ store \in Stores /\ store.chain \in Chains
  BY <1>1 DEF Types, Stores
<1>8. t # Promoter
  BY Constants
<1>9. call'[t].phase = "idle" /\ \A u \in Adder \ {t} : call'[u] = call[u]
  BY <1>6, <1>7 DEF IdleCall
<1>10. Types'
  BY <1>1, <1>6, <1>7 DEF Types, IdleCall
<1>11. GoodStore(store')
  BY <1>1, <1>6
<1>12. CallsHold'
  <2>1. SUFFICES ASSUME NEW u \in Adder, call'[u].phase # "idle"
                 PROVE  /\ call'[u].block \in Block
                        /\ lock'[Owner(call'[u].block)] = u
                        /\ call'[u].phase = "validated" =>
                             Fits(call'[u].block, store'.chain[Owner(call'[u].block)])
    BY DEF CallsHold
  <2>2. u # t /\ call'[u] = call[u]
    BY <1>9, <2>1
  <2>3. /\ call[u].block \in Block /\ lock[Owner(call[u].block)] = u
        /\ call[u].phase = "validated" =>
             Fits(call[u].block, store.chain[Owner(call[u].block)])
    BY <1>1, <2>1, <2>2 DEF CallsHold
  <2>4. Owner(call[u].block) # a
    BY <1>5, <2>2, <2>3
  <2> QED BY <1>6, <1>7, <2>2, <2>3, <2>4
<1>13. SwapHolds'
  <2>1. ChainsOf(swap.plan)' = ChainsOf(swap.plan)
    BY <1>6 DEF ChainsOf
  <2>2. \A e : lock[e] = Promoter => lock'[e] = Promoter
    BY <1>5, <1>6, <1>7, <1>8
  <2> QED BY <1>1, <1>6, <2>1, <2>2 DEF SwapHolds
<1>14. PICK h : h = [g EXCEPT ![a] = Append(@, b)]
  OBVIOUS
<1>15. store.chain[a] = Append(g[a], b)
  BY <1>2, <1>3, <1>4, <1>5 DEF MemoryIs
<1>16. h \in Chains /\ h[a] = store.chain[a] /\ \A e \in Account \ {a} : h[e] = g[e]
  BY <1>7, <1>14, <1>15 DEF Chains
<1>17. MemoryIs(h)'
  <2>1. mem' = MemoryOf(h)
    BY <1>2, <1>4, <1>6, <1>14, MemoryAppend DEF MemoryIs
  <2>2. ASSUME NEW e \in Account
        PROVE  SoundChain(h[e], e) /\ (~InProgress(e)' => h[e] = store'.chain[e])
    <3>1. CASE e = a
      BY <1>1, <1>6, <1>16, <3>1 DEF GoodStore
    <3>2. CASE e # a
      <4>1. h[e] = g[e]
        BY <1>16, <3>2
      <4>2. InProgress(e) => InProgress(e)'
        BY <1>3, <1>4, <1>6, <1>9, <3>2 DEF InProgress
      <4> QED BY <1>2, <1>6, <4>1, <4>2 DEF MemoryIs
    <3> QED BY <3>1, <3>2
  <2>3. ASSUME NEW u \in Adder, call'[u].phase = "committed"
        PROVE  store'.chain[Owner(call'[u].block)] = Append(h[Owner(call'[u].block)], call'[u].block)
    <3>1. u # t /\ call'[u] = call[u]
      BY <1>9, <2>3
    <3>2. call[u].block \in Block /\ lock[Owner(call[u].block)] = u
      BY <1>1, <2>3, <3>1 DEF CallsHold
    <3>3. Owner(call[u].block) # a /\ Owner(call[u].block) \in Account
      BY <1>5, <3>1, <3>2, Constants DEF Owner
    <3> QED BY <1>2, <1>6, <1>16, <2>3, <3>1, <3>3 DEF MemoryIs
  <2>4. swap.phase = "committed" =>
          [e \in Owners(swap.plan) |-> h[e]] = [e \in Owners(swap.plan) |-> g[e]]
    <3>1. ToSet(<<>>) = {}
      BY DEF ToSet
    <3>2. Owners(swap.plan) \subseteq Account
      BY <1>1, OwnersAre DEF Types
    <3>3. swap.phase = "committed" => a \notin Owners(swap.plan)
      BY <1>1, <1>5, <1>8, <3>1 DEF SwapHolds
    <3> QED BY <1>16, <3>2, <3>3
  <2> QED BY <1>2, <1>6, <1>16, <2>1, <2>2, <2>3, <2>4 DEF MemoryIs
<1>18. SupplyHolds'
  BY <1>1, <1>6 DEF SupplyHolds
<1> QED BY <1>10, <1>11, <1>12, <1>13, <1>16, <1>17, <1>18 DEF LedgerInv

(* A restart keeps the store. *)
LEMMA RestartHolds ==
    ASSUME LedgerInv, Restart
    PROVE  LedgerInv'
<1>1. Types /\ GoodStore(store) /\ SupplyHolds
  BY DEF LedgerInv
<1>2. /\ restarts < MaxRestarts /\ restarts' = restarts + 1
      /\ mem' = Rebuild(store) /\ lock' = [a \in Account |-> None]
      /\ call' = [t \in Adder |-> IdleCall] /\ swap' = IdleSwap /\ cascade' = NoCascade
      /\ UNCHANGED <<store, missed>>
  BY DEF Restart, Unlocked
<1>3. Types'
  <2>1. restarts' \in 0..MaxRestarts
    BY <1>1, <1>2, Constants DEF Types
  <2> QED BY <1>1, <1>2, <2>1 DEF Types, IdleCall, IdleSwap
<1>4. CallsHold' /\ SwapHolds'
  BY <1>2 DEF CallsHold, SwapHolds, IdleCall, IdleSwap
<1>5. store \in Stores /\ store.chain \in Chains
  BY <1>1 DEF Types, Stores
<1>6. MemoryIs(store.chain)'
  <2>1. mem' = MemoryOf(store.chain)
    BY <1>1, <1>2, <1>5, RebuildIs DEF GoodStore
  <2>2. swap'.phase = "idle" /\ \A t \in Adder : call'[t].phase = "idle"
    BY <1>2 DEF IdleCall, IdleSwap
  <2>3. \A a \in Account : SoundChain(store.chain[a], a)
    BY <1>1 DEF GoodStore
  <2> QED BY <1>2, <1>5, <2>1, <2>2, <2>3 DEF MemoryIs
<1>7. GoodStore(store') /\ SupplyHolds'
  BY <1>1, <1>2 DEF SupplyHolds
<1>8. store'.chain \in Chains
  BY <1>2, <1>5
<1> QED BY <1>3, <1>4, <1>6, <1>7, <1>8 DEF LedgerInv

(* The promotion moves on and changes no chain, nothing in memory and      *)
(* nothing for the adders.                                                 *)
LEMMA PromoterMoves ==
    ASSUME LedgerInv, UNCHANGED <<mem, call, missed, restarts>>,
           store'.chain = store.chain, store'.pending = store.pending,
           store'.rep = store.rep, store'.finalHeight = store.finalHeight,
           swap.phase # "committed", swap'.phase # "committed",
           \A a \in Account : lock[a] \in Adder => lock'[a] = lock[a],
           Types', SwapHolds'
    PROVE  LedgerInv'
<1>1. Types /\ GoodStore(store) /\ CallsHold /\ SupplyHolds
  BY DEF LedgerInv
<1>2. PICK g \in Chains : MemoryIs(g)
  BY DEF LedgerInv
<1>3. CallsHold'
  <2>1. ASSUME NEW t \in Adder, call[t].phase # "idle"
        PROVE  lock'[Owner(call[t].block)] = t
    <3>1. call[t].block \in Block /\ lock[Owner(call[t].block)] = t
      BY <1>1, <2>1 DEF CallsHold
    <3>2. Owner(call[t].block) \in Account
      BY <3>1, Constants DEF Owner
    <3> QED BY <3>1, <3>2
  <2> QED BY <1>1, <2>1 DEF CallsHold
<1>4. MemoryIs(g)'
  <2>1. \A a : InProgress(a)' <=> InProgress(a)
    BY DEF InProgress
  <2> QED BY <1>2, <2>1 DEF MemoryIs
<1>5. GoodStore(store') /\ SupplyHolds'
  BY <1>1 DEF SupplyHolds, GoodStore
<1> QED BY <1>2, <1>3, <1>4, <1>5 DEF LedgerInv

(* The promotion gives up. *)
LEMMA GiveUpHolds ==
    ASSUME LedgerInv, UNCHANGED <<store, mem, call, missed, restarts>>,
           swap.phase # "committed", lock' = Release, swap' = IdleSwap, cascade' = NoCascade
    PROVE  LedgerInv'
<1>1. Types
  BY DEF LedgerInv
<1>2. lock' = [a \in Account |-> IF lock[a] = Promoter THEN None ELSE lock[a]]
  BY DEF Release
<1>3. Types'
  BY <1>1, <1>2 DEF Types, IdleSwap
<1>4. SwapHolds'
  BY DEF SwapHolds, IdleSwap
<1>5. \A a \in Account : lock[a] \in Adder => lock'[a] = lock[a]
  BY <1>2, Constants
<1>6. swap'.phase # "committed"
  BY DEF IdleSwap
<1> QED BY <1>3, <1>4, <1>5, <1>6, PromoterMoves

(* It takes the locks it needs. *)
LEMMA LockForeignHolds ==
    ASSUME LedgerInv, LockForeign
    PROVE  LedgerInv'
<1>1. Types /\ SwapHolds
  BY DEF LedgerInv
<1>2. /\ swap \in [phase : {"idle", "locking", "active", "committed"},
                   winner : Block \cup {None}, plan : Seq(Block), need : Seq(Account)]
      /\ lock \in [Account -> Adder \cup {Promoter, None}]
  BY <1>1 DEF Types
<1>3. PICK need \in Seq(Account) : need = swap.need /\ need # <<>>
  BY <1>2 DEF LockForeign
<1>4. /\ Head(need) \in Account /\ Tail(need) \in Seq(Account)
      /\ ToSet(need) \subseteq ToSet(Tail(need)) \cup {Head(need)}
  BY <1>3, HeadTail
<1>5. /\ swap.phase = "locking" /\ lock[Head(need)] = None
      /\ lock' = [lock EXCEPT ![Head(need)] = Promoter]
      /\ swap' = [swap EXCEPT !.need = Tail(need)]
      /\ UNCHANGED <<store, mem, call, cascade, missed, restarts>>
  BY <1>3 DEF LockForeign, Acquire
<1>6. /\ swap'.phase = "locking" /\ swap'.winner = swap.winner /\ swap'.plan = swap.plan
      /\ swap'.need = Tail(need)
  BY <1>2, <1>5
<1>7. Types'
  BY <1>1, <1>2, <1>4, <1>5 DEF Types
<1>8. \A a \in Account : lock[a] = Promoter => lock'[a] = Promoter
  BY <1>2, <1>5
<1>9. \A a \in Account : lock[a] \in Adder => lock'[a] = lock[a]
  BY <1>2, <1>5, Constants
<1>10. Owners(swap.plan) \subseteq Account
  BY <1>2, OwnersAre
<1>11. \A a \in Owners(swap.plan) : lock'[a] = Promoter \/ a \in ToSet(Tail(need))
  <2>1. ASSUME NEW a \in Owners(swap.plan) PROVE lock'[a] = Promoter \/ a \in ToSet(Tail(need))
    <3>1. lock[a] = Promoter \/ a \in ToSet(need)
      BY <1>1, <1>3, <1>5 DEF SwapHolds
    <3>2. lock'[Head(need)] = Promoter
      BY <1>2, <1>4, <1>5
    <3> QED BY <1>4, <1>8, <1>10, <3>1, <3>2
  <2> QED BY <2>1
<1>12. lock'[Owner(swap.winner)] = Promoter
  <2>1. Owner(swap.winner) \in Owners(swap.plan) /\ lock[Owner(swap.winner)] = Promoter
    BY <1>1, <1>5 DEF SwapHolds
  <2> QED BY <1>8, <1>10, <2>1
<1>13. SwapHolds'
  BY <1>1, <1>5, <1>6, <1>11, <1>12 DEF SwapHolds
<1> QED BY <1>5, <1>6, <1>7, <1>9, <1>13, PromoterMoves

(* The undos are built. *)
LEMMA ActivateHolds ==
    ASSUME LedgerInv, ActivateCascade
    PROVE  LedgerInv'
<1>1. Types /\ SwapHolds
  BY DEF LedgerInv
<1>2. swap \in [phase : {"idle", "locking", "active", "committed"},
                winner : Block \cup {None}, plan : Seq(Block), need : Seq(Account)]
  BY <1>1 DEF Types
<1>3. /\ swap.phase = "locking" /\ swap.need = <<>>
      /\ CanBuild(ChainsOf(swap.plan), swap.plan)
      /\ cascade' = BuildCascade(swap.winner, ChainsOf(swap.plan), swap.plan)
      /\ swap' = [swap EXCEPT !.phase = "active"]
      /\ UNCHANGED <<store, mem, lock, call, missed, restarts>>
  BY DEF ActivateCascade
<1>4. /\ swap'.phase = "active" /\ swap'.winner = swap.winner /\ swap'.plan = swap.plan
      /\ swap'.need = swap.need
  BY <1>2, <1>3
<1>5. Types'
  BY <1>1, <1>2, <1>3 DEF Types
<1>6. ChainsOf(swap.plan)' = ChainsOf(swap.plan)
  BY <1>3, <1>4 DEF ChainsOf
<1>7. SwapHolds'
  BY <1>1, <1>3, <1>4, <1>6 DEF SwapHolds
<1> QED BY <1>3, <1>4, <1>5, <1>7, PromoterMoves

(* confirmConflict: nothing final is in the plan. *)
LEMMA SwapBlockHolds ==
    ASSUME LedgerInv, NEW w \in Block, SwapBlock(w)
    PROVE  LedgerInv'
<1>1. Types /\ GoodStore(store) /\ SwapHolds
  BY DEF LedgerInv
<1>2. store \in Stores /\ store.chain \in Chains /\ lock \in [Account -> Adder \cup {Promoter, None}]
  BY <1>1 DEF Types, Stores
<1>3. PICK loser : loser = Sibling(store, w)
  OBVIOUS
<1>4. PICK a \in Account : a = Owner(w) /\ a = Body[w].account
  BY Constants DEF Owner
<1>5. PICK plan : plan = PlanCascade(store, loser)
  OBVIOUS
<1>6. /\ Promotes(w) /\ CanPlan(store, loser)
      /\ store' = [store EXCEPT !.staged = @ \cup {loser}]
      /\ lock' = [lock EXCEPT ![a] = Promoter]
      /\ swap' = [phase |-> "locking", winner |-> w, plan |-> plan, need |-> Foreign(plan, a)]
      /\ UNCHANGED <<mem, call, cascade, missed, restarts>>
  BY <1>3, <1>4, <1>5 DEF SwapBlock, Demote
<1>7. /\ loser \in ToSet(store.chain[a]) /\ loser \in Block
      /\ ~IsFinalized(store, loser) /\ lock[a] = None /\ swap = IdleSwap
      /\ w \notin ToSet(store.chain[a])
  <2>1. loser # None
    BY <1>3, <1>6 DEF Promotes
  <2> QED BY <1>2, <1>3, <1>4, <1>6, <2>1, SiblingIs DEF Promotes, OnChain
<1>8. loser \in On(store.chain) /\ Owner(loser) = a
  <2>1. loser \in On(store.chain)
    BY <1>2, <1>7, OnAre
  <2>2. PICK c \in Seq(Block) : c = store.chain[a]
    BY <1>2 DEF Chains
  <2>3. PICK i \in 1..Len(c) : loser = c[i]
    BY <1>7, <2>2 DEF ToSet
  <2>4. SoundChain(c, a)
    BY <1>1, <2>2 DEF GoodStore
  <2> QED BY <2>1, <2>3, <2>4 DEF SoundChain
<1>9. /\ plan \in Seq(Block) /\ ToSet(plan) \subseteq On(store.chain)
      /\ loser \in ToSet(plan) /\ GoodPlan(plan)
  BY <1>2, <1>5, <1>8, PlanIs
<1>10. /\ Foreign(plan, a) \in Seq(Account)
       /\ Owners(plan) \subseteq ToSet(Foreign(plan, a)) \cup {a}
  BY <1>9, ForeignIs
<1>11. a \in Owners(plan)
  BY <1>8, <1>9 DEF Owners
<1>12. ASSUME NEW e \in Account, NEW i \in 1..store.finalHeight[e]
       PROVE  store.chain[e][i] \notin ToSet(plan)
  <2>1. PICK c \in Seq(Block) : c = store.chain[e]
    BY <1>2 DEF Chains
  <2>2. store.finalHeight[e] \in Nat /\ store.finalHeight[e] <= Len(c)
    BY <1>1, <1>2, <2>1 DEF GoodStore, Stores
  <2>3. i \in 1..Len(c)
    BY <2>2
  <2>4. SUFFICES ASSUME c[i] \in ToSet(plan) PROVE FALSE
    BY <2>1
  <2>5. PICK b \in Block : b = c[i]
    BY <2>3
  <2>6. Owner(b) = e /\ Body[b].account = e
    BY <1>1, <2>1, <2>3, <2>5 DEF GoodStore, SoundChain, Owner
  <2>7. HeightOf(c, b) <= i /\ HeightOf(c, b) \in 0..Len(c)
    BY <2>3, <2>5, HeightIs
  <2>8. b \in ToSet(c)
    BY <2>3, <2>5 DEF ToSet
  <2>9. HeightOf(c, b) <= store.finalHeight[e]
    BY <2>2, <2>7
  <2>10. IsFinalized(store, b)
    BY <2>1, <2>6, <2>8, <2>9 DEF IsFinalized, OnChain
  <2>11. b # loser => ~IsFinalized(store, b)
    BY <1>5, <1>6, <2>4, <2>5 DEF CanPlan
  <2> QED BY <1>7, <2>10, <2>11
<1>13. /\ store'.chain = store.chain /\ store'.pending = store.pending
       /\ store'.rep = store.rep /\ store'.finalHeight = store.finalHeight
  BY <1>2, <1>6 DEF Stores
<1>14. store' \in Stores
  BY <1>2, <1>6, <1>7 DEF Stores
<1>15. Types'
  BY <1>1, <1>2, <1>6, <1>9, <1>10, <1>14 DEF Types
<1>16. lock'[a] = Promoter /\ \A e \in Account : lock[e] \in Adder => lock'[e] = lock[e]
  BY <1>2, <1>6, <1>7, Constants
<1>17. cascade = NoCascade
  BY <1>1, <1>7 DEF SwapHolds, IdleSwap
<1>18. /\ swap'.phase = "locking" /\ swap'.winner = w /\ swap'.plan = plan
       /\ swap'.need = Foreign(plan, a)
  BY <1>6
<1>19. SwapHolds'
  BY <1>4, <1>6, <1>7, <1>9, <1>10, <1>11, <1>12, <1>13, <1>16, <1>17, <1>18 DEF SwapHolds
<1>20. swap.phase # "committed"
  BY <1>7 DEF IdleSwap
<1> QED BY <1>6, <1>13, <1>15, <1>16, <1>18, <1>19, <1>20, PromoterMoves

(* The store without the blocks of the plan is good. *)
LEMMA UndoneGood ==
    ASSUME NEW s \in Stores, GoodStore(s), NEW plan,
           Unwinding([a \in Owners(plan) |-> s.chain[a]], plan),
           \A a \in Account : \A i \in 1..s.finalHeight[a] : s.chain[a][i] \notin ToSet(plan)
    PROVE  GoodStore(UndoneStore(s, plan)[Len(plan)])
<1>1. PICK f : f = [a \in Owners(plan) |-> s.chain[a]]
  OBVIOUS
<1>2. Unwinding(f, plan) /\ Len(plan) \in Nat /\ Owners(plan) \subseteq Account
  BY <1>1, OwnersAre DEF Unwinding
<1>3. PICK u : u = UndoneStore(s, plan)[Len(plan)]
  OBVIOUS
<1>4. Len(plan) \in 0..Len(plan)
  BY <1>2
<1>5. Undone(s, plan, Len(plan))
  BY <1>4, UndoneAll
<1>6. /\ u.chain = Overlay(s.chain, Snapshots(f, plan)[Len(plan)])
      /\ u.finalHeight = s.finalHeight
      /\ \A a \in Account : u.rep[a] = RepOnChain(u.chain[a])
      /\ \A c \in u.pending : Body[c].type = "send"
  BY <1>1, <1>3, <1>5 DEF Undone
<1>7. PICK k : k = Snapshots(f, plan)[Len(plan)]
  OBVIOUS
<1>8. k \in [Owners(plan) -> Seq(Block)]
  BY <1>2, <1>4, <1>7, SnapshotTypes
<1>9. \A a \in Owners(plan) : SoundChain(f[a], a)
  BY <1>1, <1>2 DEF GoodStore
<1>10. \A a \in Owners(plan) : SoundChain(k[a], a)
  BY <1>2, <1>4, <1>7, <1>9, SnapshotsSound
<1>11. ASSUME NEW a \in Account
       PROVE  SoundChain(u.chain[a], a) /\ u.finalHeight[a] <= Len(u.chain[a])
  <2>1. CASE a \in Owners(plan)
    <3>1. u.chain[a] = k[a]
      BY <1>6, <1>7, <1>8, <2>1 DEF Overlay
    <3>2. PICK top \in 0..Len(f[a]) : top = s.finalHeight[a]
      <4>1. s.finalHeight[a] \in Nat /\ s.finalHeight[a] <= Len(s.chain[a]) /\ f[a] = s.chain[a]
        BY <1>1, <2>1 DEF GoodStore, Stores
      <4>2. s.chain[a] \in Seq(Block)
        BY DEF Stores, Chains
      <4>3. Len(s.chain[a]) \in Nat
        BY <4>2
      <4> QED BY <4>1, <4>3
    <3>3. \A i \in 1..top : f[a][i] \notin ToSet(plan)
      BY <1>1, <2>1, <3>2
    <3>4. Len(k[a]) \in top..Len(f[a])
      BY <1>2, <1>4, <1>7, <2>1, <3>3, SnapshotsPrefix
    <3>5. top <= Len(k[a])
      BY <3>4
    <3> QED BY <1>6, <1>10, <2>1, <3>1, <3>2, <3>5
  <2>2. CASE a \notin Owners(plan)
    <3>1. u.chain[a] = s.chain[a]
      BY <1>6, <1>7, <1>8, <2>2 DEF Overlay
    <3> QED BY <1>6, <3>1 DEF GoodStore
  <2> QED BY <2>1, <2>2
<1> QED BY <1>3, <1>6, <1>11 DEF GoodStore

(* What the transaction of a cascade starts from: the store without the    *)
(* blocks of the plan, which the winner fits.                              *)
LEMMA WinnerFits ==
    ASSUME LedgerInv, swap.phase = "active", Valid(swap.winner)
    PROVE  LET u == UndoneStore(store, swap.plan)[Len(swap.plan)]
               w == swap.winner
               k == Snapshots(ChainsOf(swap.plan), swap.plan)[Len(swap.plan)]
           IN /\ Unwinding(ChainsOf(swap.plan), swap.plan)
              /\ CommitUndos(store, cascade.undos)[Len(cascade.undos)] = u
              /\ u \in Stores /\ GoodStore(u) /\ u.finalHeight = store.finalHeight
              /\ w \in Block /\ Owner(w) \in Owners(swap.plan)
              /\ Fits(w, u.chain[Owner(w)])
              /\ ViewRep(Owner(w)) = RepOnChain(u.chain[Owner(w)])
              /\ u.chain \in Chains
              /\ \A a \in Account : u.chain[a] = IF a \in Owners(swap.plan) THEN k[a]
                                                 ELSE store.chain[a]
<1>1. Types /\ GoodStore(store) /\ CallsHold /\ SwapHolds
  BY DEF LedgerInv
<1>2. PICK g \in Chains : MemoryIs(g)
  BY DEF LedgerInv
<1>3. store \in Stores /\ store.chain \in Chains /\ swap.plan \in Seq(Block)
  BY <1>1 DEF Types, Stores
<1>4. PICK plan \in Seq(Block) : plan = swap.plan
  BY <1>3
<1>5. PICK f : f = ChainsOf(plan)
  OBVIOUS
<1>6. f = [a \in Owners(plan) |-> store.chain[a]]
  BY <1>5 DEF ChainsOf
<1>7. Len(plan) \in Nat /\ Owners(plan) \subseteq Account
  BY OwnersAre
<1>8. PICK w \in Block : w = swap.winner
  BY <1>1 DEF SwapHolds
<1>9. /\ CanBuild(f, plan) /\ cascade = BuildCascade(w, f, plan)
      /\ Owner(w) \in Owners(plan)
      /\ w \notin ToSet(store.chain[Owner(w)])
      /\ \A a \in Account : \A i \in 1..store.finalHeight[a] : store.chain[a][i] \notin ToSet(plan)
  BY <1>1, <1>4, <1>5, <1>8 DEF SwapHolds
<1>10. f \in [Owners(plan) -> Seq(Block)]
  BY <1>3, <1>6, <1>7 DEF Chains
<1>11. Unwinding(f, plan)
  BY <1>9, <1>10 DEF Unwinding
<1>12. \A a \in Owners(plan) : SoundChain(f[a], a)
  BY <1>1, <1>6, <1>7 DEF GoodStore
<1>13. PICK k : k = Snapshots(f, plan)[Len(plan)]
  OBVIOUS
<1>14. /\ cascade.undos = UndosOf(f, plan) /\ cascade.chains = k
       /\ k \in [Owners(plan) -> Seq(Block)] /\ DOMAIN cascade.chains = Owners(plan)
  BY <1>9, <1>11, <1>12, <1>13, BuildIs
<1>15. Len(cascade.undos) = Len(plan)
  BY <1>7, <1>14 DEF UndosOf
<1>16. PICK u : u = UndoneStore(store, plan)[Len(plan)]
  OBVIOUS
<1>17. CommitUndos(store, cascade.undos)[Len(cascade.undos)] = u
  BY <1>6, <1>14, <1>15, <1>16 DEF UndoneStore
<1>18. Len(plan) \in 0..Len(plan)
  BY <1>7
<1>19. Undone(store, plan, Len(plan))
  BY <1>1, <1>3, <1>6, <1>11, <1>18, UndoneAll
<1>20. u \in Stores /\ u.chain = Overlay(store.chain, k) /\ u.finalHeight = store.finalHeight
  BY <1>6, <1>13, <1>16, <1>19 DEF Undone
<1>21. GoodStore(u)
  BY <1>1, <1>3, <1>6, <1>9, <1>11, <1>16, UndoneGood
<1>22. ASSUME NEW a \in Account
       PROVE  u.chain[a] = IF a \in Owners(plan) THEN k[a] ELSE store.chain[a]
  BY <1>14, <1>20 DEF Overlay
<1>23. PICK o \in Owners(plan) : o = Owner(w)
  BY <1>9
<1>24. PICK c \in Seq(Block) : c = k[o]
  BY <1>14
<1>25. u.chain[o] = c /\ ViewChain(o) = c /\ ViewRep(o) = RepOnChain(c)
       /\ \A x \in Asset : ViewBalance(o, x) = AssetBalanceOnChain(c, x)
  BY <1>7, <1>14, <1>22, <1>24 DEF ViewChain, ViewRep, ViewBalance
<1>26. w \notin ToSet(c)
  <2>1. PICK top \in 0..Len(f[o]) : top = 0
    <3>1. f[o] \in Seq(Block)
      BY <1>10
    <3>2. Len(f[o]) \in Nat
      BY <3>1
    <3> QED BY <3>2
  <2>2. \A i \in 1..top : f[o][i] \notin ToSet(plan)
    BY <2>1
  <2>3. ToSet(c) \subseteq ToSet(f[o])
    BY <1>11, <1>13, <1>18, <1>24, <2>2, SnapshotsPrefix
  <2>4. f[o] = store.chain[Owner(w)]
    BY <1>6, <1>23
  <2> QED BY <1>9, <2>3, <2>4
<1>27. Fits(w, c)
  <2>1. \A send : ViewPending(send) => send \in Block /\ Body[send].type = "send"
    BY <1>1, <1>2, CascadeIs
  <2>2. OldBalance(w) = AssetBalanceOnChain(c, Body[w].asset)
    BY <1>23, <1>25, Constants DEF OldBalance, Owner
  <2> QED BY <1>8, <1>23, <1>25, <1>26, <2>1, <2>2, ValidFits
<1>28. u.chain \in Chains
  BY <1>20 DEF Stores
<1> QED BY <1>4, <1>5, <1>8, <1>11, <1>13, <1>16, <1>17, <1>20, <1>21, <1>22, <1>23, <1>25, <1>27, <1>28

(* The transaction of a cascade. *)
LEMMA CommitCascadeHolds ==
    ASSUME LedgerInv, CommitCascade
    PROVE  LedgerInv'
<1>1. Types /\ GoodStore(store) /\ CallsHold /\ SwapHolds /\ SupplyHolds
  BY DEF LedgerInv
<1>2. PICK g \in Chains : MemoryIs(g)
  BY DEF LedgerInv
<1>3. swap.phase = "active" /\ Valid(swap.winner)
  BY DEF CommitCascade
<1>4. PICK plan : plan = swap.plan
  OBVIOUS
<1>5. PICK w : w = swap.winner
  OBVIOUS
<1>6. PICK u : u = UndoneStore(store, plan)[Len(plan)]
  OBVIOUS
<1>7. PICK f : f = ChainsOf(plan)
  OBVIOUS
<1>8. PICK k : k = Snapshots(f, plan)[Len(plan)]
  OBVIOUS
<1>9. PICK o : o = Owner(w)
  OBVIOUS
<1>10. /\ Unwinding(f, plan)
       /\ CommitUndos(store, cascade.undos)[Len(cascade.undos)] = u
       /\ u \in Stores /\ GoodStore(u) /\ u.finalHeight = store.finalHeight
       /\ w \in Block /\ o \in Owners(plan)
       /\ Fits(w, u.chain[o])
       /\ ViewRep(o) = RepOnChain(u.chain[o])
       /\ u.chain \in Chains
       /\ \A a \in Account : u.chain[a] = IF a \in Owners(plan) THEN k[a] ELSE store.chain[a]
  BY <1>3, <1>4, <1>5, <1>6, <1>7, <1>8, <1>9, WinnerFits
<1>11. /\ store' = CommitBlock(u, w)
       /\ missed' = missed \cup MissedByUndos(store, plan) \cup MissedBy(u, w)
       /\ swap' = [swap EXCEPT !.phase = "committed"]
       /\ UNCHANGED <<mem, lock, call, cascade, restarts>>
  BY <1>4, <1>5, <1>10 DEF CommitCascade
<1>12. /\ store' \in Stores /\ o \in Account
       /\ Grows(u.chain, store'.chain, w)
       /\ store'.chain = [u.chain EXCEPT ![o] = Append(@, w)]
       /\ store'.pending = (u.pending \cup IF Body[w].type = "send" THEN {w} ELSE {})
            \ IF Body[w].type = "receive" THEN {Body[w].source} ELSE {}
       /\ store'.finalHeight = u.finalHeight
  BY <1>9, <1>10, <1>11, CommitBlockIs DEF GoodStore
<1>13. GoodStore(store')
  BY <1>9, <1>10, <1>11, CommitKeeps
<1>14. /\ swap \in [phase : {"idle", "locking", "active", "committed"},
                    winner : Block \cup {None}, plan : Seq(Block), need : Seq(Account)]
       /\ store \in Stores /\ missed \in SUBSET Block
       /\ lock \in [Account -> Adder \cup {Promoter, None}]
  BY <1>1 DEF Types
<1>15. /\ swap'.phase = "committed" /\ swap'.winner = w /\ swap'.plan = plan
       /\ swap'.need = swap.need
  BY <1>4, <1>5, <1>11, <1>14
<1>16. plan \in Seq(Block) /\ Owners(plan) \subseteq Account /\ ToSet(plan) \subseteq Block
  <2>1. plan \in Seq(Block)
    BY <1>4, <1>14
  <2> QED BY <2>1, OwnersAre DEF ToSet
<1>17. \A a \in Owners(plan) : lock[a] = Promoter
  <2>1. ToSet(<<>>) = {}
    BY DEF ToSet
  <2> QED BY <1>1, <1>3, <1>4, <2>1 DEF SwapHolds
<1>18. /\ store'.chain[o] = Append(k[o], w)
       /\ \A a \in Owners(plan) \ {o} : store'.chain[a] = k[a]
       /\ \A a \in Account \ Owners(plan) : store'.chain[a] = store.chain[a]
  BY <1>10, <1>12, <1>16 DEF Chains
<1>19. Types'
  <2>1. MissedByUndos(store, plan) \in SUBSET Block
    BY <1>16 DEF MissedByUndos
  <2>2. MissedBy(u, w) \in SUBSET Block
    BY <1>10 DEF MissedBy, Fits
  <2> QED BY <1>1, <1>11, <1>12, <1>14, <2>1, <2>2 DEF Types
<1>20. ASSUME NEW t \in Adder, call[t].phase # "idle"
       PROVE  /\ call[t].block \in Block /\ lock[Owner(call[t].block)] = t
              /\ Owner(call[t].block) \in Account \ Owners(plan)
              /\ store'.chain[Owner(call[t].block)] = store.chain[Owner(call[t].block)]
  <2>1. call[t].block \in Block /\ lock[Owner(call[t].block)] = t
    BY <1>1, <1>20 DEF CallsHold
  <2>2. Owner(call[t].block) \in Account \ Owners(plan)
    BY <1>17, <2>1, Constants DEF Owner
  <2> QED BY <1>18, <2>1, <2>2
<1>21. CallsHold'
  BY <1>1, <1>11, <1>20 DEF CallsHold
<1>22. SwapHolds'
  BY <1>1, <1>3, <1>4, <1>5, <1>11, <1>15 DEF SwapHolds
<1>23. ASSUME NEW a \in Owners(plan) PROVE g[a] = store.chain[a]
  <2>1. ASSUME NEW t \in Adder, call[t].phase = "committed" PROVE Owner(call[t].block) # a
    BY <1>20, <2>1
  <2>2. ~InProgress(a)
    BY <1>3, <2>1 DEF InProgress
  <2> QED BY <1>2, <1>16, <2>2 DEF MemoryIs
<1>24. [a \in Owners(plan) |-> g[a]] = f
  BY <1>7, <1>23 DEF ChainsOf
<1>25. CanBuild(f, plan) /\ cascade = BuildCascade(w, f, plan)
  BY <1>1, <1>3, <1>4, <1>5, <1>7 DEF SwapHolds
<1>26. MemoryIs(g)'
  <2>1. ASSUME NEW a \in Account
        PROVE  SoundChain(g[a], a) /\ (~InProgress(a)' => g[a] = store'.chain[a])
    <3>1. SoundChain(g[a], a)
      BY <1>2 DEF MemoryIs
    <3>2. ASSUME ~InProgress(a)' PROVE g[a] = store'.chain[a]
      <4>1. a \notin Owners(plan) /\ ~InProgress(a)
        BY <1>3, <1>11, <1>15, <3>2 DEF InProgress
      <4> QED BY <1>2, <1>18, <4>1 DEF MemoryIs
    <3> QED BY <3>1, <3>2
  <2>2. ASSUME NEW t \in Adder, call'[t].phase = "committed"
        PROVE  store'.chain[Owner(call'[t].block)] = Append(g[Owner(call'[t].block)], call'[t].block)
    <3>1. call' = call
      BY <1>11
    <3>2. store'.chain[Owner(call[t].block)] = store.chain[Owner(call[t].block)]
      BY <1>20, <2>2, <3>1
    <3> QED BY <1>2, <2>2, <3>1, <3>2 DEF MemoryIs
  <2>3. \A a \in Owners(plan) :
          store'.chain[a] = IF a = Owner(w) THEN Append(k[a], w) ELSE k[a]
    BY <1>9, <1>18
  <2>4. g \in Chains /\ mem' = MemoryOf(g)
    BY <1>2, <1>11 DEF MemoryIs
  <2> QED BY <1>8, <1>11, <1>15, <1>24, <1>25, <2>1, <2>2, <2>3, <2>4 DEF MemoryIs
<1>27. SupplyHolds'
  <2>1. SUFFICES ASSUME missed' = {} PROVE Supplied(store'.chain, store'.pending)
    BY DEF SupplyHolds
  <2>2. missed = {} /\ MissedByUndos(store, plan) = {} /\ MissedBy(u, w) = {}
    BY <1>11, <2>1
  <2>3. Supplied(store.chain, store.pending)
    BY <1>1, <2>2 DEF SupplyHolds
  <2>4. GoodPlan(plan)
    BY <1>1, <1>3, <1>4 DEF SwapHolds
  <2>5. f = [a \in Owners(plan) |-> store.chain[a]]
    BY <1>7 DEF ChainsOf
  <2>6. Len(plan) \in 0..Len(plan)
    BY <1>16
  <2>7. Supplied(u.chain, u.pending)
    <3>1. Unwinding([a \in Owners(plan) |-> store.chain[a]], plan)
      BY <1>10, <2>5
    <3>2. store \in Stores /\ GoodStore(store)
      BY <1>1, <1>14
    <3>3. Supplied(UndoneStore(store, plan)[Len(plan)].chain,
                   UndoneStore(store, plan)[Len(plan)].pending)
      BY <2>2, <2>3, <2>4, <2>6, <3>1, <3>2, UndoneSupplies
    <3> QED BY <1>6, <3>3
  <2>8. Body[w].type = "receive" => Body[w].source \in u.pending
    BY <2>2 DEF MissedBy
  <2> QED BY <1>12, <2>7, <2>8, CommitSupplies
<1> QED BY <1>2, <1>13, <1>19, <1>21, <1>22, <1>26, <1>27 DEF LedgerInv

(* The memory after a cascade, and the end of the conflict. *)
LEMMA FinishSwapHolds ==
    ASSUME LedgerInv, FinishSwap
    PROVE  LedgerInv'
<1>1. Types /\ GoodStore(store) /\ CallsHold /\ SwapHolds /\ SupplyHolds
  BY DEF LedgerInv
<1>2. PICK g \in Chains : MemoryIs(g)
  BY DEF LedgerInv
<1>3. PICK plan : plan = swap.plan
  OBVIOUS
<1>4. PICK w \in Block : w = swap.winner
  BY <1>1 DEF SwapHolds, FinishSwap
<1>5. /\ swap.phase = "committed"
      /\ mem' = ApplyBlock(ApplyUndos(mem, cascade.undos)[Len(cascade.undos)], w)
      /\ store' = Resolve(store, w) /\ cascade' = NoCascade
      /\ lock' = [a \in Account |-> IF lock[a] = Promoter THEN None ELSE lock[a]]
      /\ swap' = IdleSwap /\ UNCHANGED <<call, missed, restarts>>
  BY <1>4 DEF FinishSwap, Release
<1>6. store \in Stores /\ store.chain \in Chains /\ plan \in Seq(Block)
      /\ lock \in [Account -> Adder \cup {Promoter, None}]
  BY <1>1, <1>3 DEF Types, Stores
<1>7. Len(plan) \in Nat /\ Owners(plan) \subseteq Account
  BY <1>6, OwnersAre
<1>8. PICK f : f = [a \in Owners(plan) |-> g[a]]
  OBVIOUS
<1>9. PICK k : k = Snapshots(f, plan)[Len(plan)]
  OBVIOUS
<1>10. /\ CanBuild(f, plan) /\ cascade = BuildCascade(w, f, plan)
       /\ \A a \in Owners(plan) :
            store.chain[a] = IF a = Owner(w) THEN Append(k[a], w) ELSE k[a]
       /\ mem = MemoryOf(g) /\ \A a \in Account : SoundChain(g[a], a)
  BY <1>2, <1>3, <1>4, <1>5, <1>8, <1>9 DEF MemoryIs
<1>11. f \in [Owners(plan) -> Seq(Block)]
  BY <1>7, <1>8 DEF Chains
<1>12. Unwinding(f, plan)
  BY <1>6, <1>10, <1>11 DEF Unwinding
<1>13. \A a \in Owners(plan) : SoundChain(f[a], a)
  BY <1>7, <1>8, <1>10
<1>14. /\ cascade.undos = UndosOf(f, plan) /\ cascade.chains = k
       /\ k \in [Owners(plan) -> Seq(Block)]
  BY <1>9, <1>10, <1>12, <1>13, BuildIs
<1>15. Len(cascade.undos) = Len(plan)
  BY <1>7, <1>14 DEF UndosOf
<1>16. PICK e : e = Overlay(g, k)
  OBVIOUS
<1>17. ApplyUndos(mem, cascade.undos)[Len(cascade.undos)] = MemoryOf(e)
  <2>1. Len(plan) \in 0..Len(plan)
    BY <1>7
  <2>2. ApplyUndos(MemoryOf(g), UndosOf(f, plan))[Len(plan)] =
          MemoryOf(Overlay(g, Snapshots(f, plan)[Len(plan)]))
    BY <1>8, <1>10, <1>12, <2>1, MemoryUnwinds
  <2> QED BY <1>9, <1>10, <1>14, <1>15, <1>16, <2>2
<1>18. e \in Chains /\ DOMAIN k = Owners(plan)
  BY <1>7, <1>14, <1>16 DEF Overlay, Chains
<1>19. PICK h : h = [e EXCEPT ![Owner(w)] = Append(@, w)]
  OBVIOUS
<1>20. mem' = MemoryOf(h)
  BY <1>5, <1>17, <1>18, <1>19, MemoryAppend
<1>21. Owner(w) \in Owners(plan)
  BY <1>1, <1>3, <1>4, <1>5 DEF SwapHolds
<1>22. /\ \A a \in Owners(plan) : h[a] = store.chain[a]
       /\ \A a \in Account \ Owners(plan) : h[a] = g[a]
  BY <1>7, <1>10, <1>16, <1>18, <1>19, <1>21 DEF Overlay, Chains
<1>23. h \in Chains
  <2>1. \A a \in Account : h[a] \in Seq(Block)
    BY <1>6, <1>22 DEF Chains
  <2>2. h = [a \in Account |-> h[a]]
    BY <1>18, <1>19 DEF Chains
  <2> QED BY <2>1, <2>2 DEF Chains
<1>24. /\ store' \in Stores
       /\ store'.chain = store.chain /\ store'.pending = store.pending /\ store'.rep = store.rep
       /\ \A a \in Account : store'.finalHeight[a] <= Len(store'.chain[a])
  BY <1>1, <1>5, <1>6, ResolveIs DEF GoodStore
<1>25. Types'
  BY <1>1, <1>5, <1>6, <1>24 DEF Types, IdleSwap
<1>26. GoodStore(store')
  BY <1>1, <1>24 DEF GoodStore
<1>27. \A a \in Owners(plan) : lock[a] = Promoter
  <2>1. ToSet(<<>>) = {}
    BY DEF ToSet
  <2> QED BY <1>1, <1>3, <1>5, <2>1 DEF SwapHolds
<1>28. ASSUME NEW t \in Adder, call[t].phase # "idle"
       PROVE  /\ call[t].block \in Block /\ lock'[Owner(call[t].block)] = t
              /\ Owner(call[t].block) \in Account \ Owners(plan)
  <2>1. call[t].block \in Block /\ lock[Owner(call[t].block)] = t
    BY <1>1, <1>28 DEF CallsHold
  <2>2. Owner(call[t].block) \in Account \ Owners(plan) /\ t # Promoter
    BY <1>27, <2>1, Constants DEF Owner
  <2> QED BY <1>5, <2>1, <2>2
<1>29. CallsHold'
  BY <1>1, <1>5, <1>24, <1>28 DEF CallsHold
<1>30. SwapHolds'
  BY <1>5 DEF SwapHolds, IdleSwap
<1>31. MemoryIs(h)'
  <2>1. swap'.phase = "idle"
    BY <1>5 DEF IdleSwap
  <2>2. ASSUME NEW a \in Account
        PROVE  SoundChain(h[a], a) /\ (~InProgress(a)' => h[a] = store'.chain[a])
    <3>1. CASE a \in Owners(plan)
      BY <1>1, <1>22, <1>24, <3>1 DEF GoodStore
    <3>2. CASE a \notin Owners(plan)
      <4>1. InProgress(a) => InProgress(a)'
        BY <1>3, <1>5, <3>2 DEF InProgress
      <4>2. ~InProgress(a) => g[a] = store.chain[a]
        BY <1>2 DEF MemoryIs
      <4> QED BY <1>10, <1>22, <1>24, <3>2, <4>1, <4>2
    <3> QED BY <3>1, <3>2
  <2>3. ASSUME NEW t \in Adder, call'[t].phase = "committed"
        PROVE  store'.chain[Owner(call'[t].block)] = Append(h[Owner(call'[t].block)], call'[t].block)
    <3>1. call' = call
      BY <1>5
    <3>2. h[Owner(call[t].block)] = g[Owner(call[t].block)]
      BY <1>22, <1>28, <2>3, <3>1
    <3> QED BY <1>2, <1>24, <2>3, <3>1, <3>2 DEF MemoryIs
  <2> QED BY <1>20, <1>23, <2>1, <2>2, <2>3 DEF MemoryIs
<1>32. SupplyHolds'
  BY <1>1, <1>5, <1>24 DEF SupplyHolds
<1> QED BY <1>23, <1>25, <1>26, <1>29, <1>30, <1>31, <1>32 DEF LedgerInv

(* Every step keeps the invariant. *)
LEMMA NextHolds == LedgerInv /\ [Next]_vars => LedgerInv'
<1> SUFFICES ASSUME LedgerInv, [Next]_vars PROVE LedgerInv'
  OBVIOUS
<1>1. CASE \E b \in Block : Stage(b) \/ SwapBlock(b) \/ SwapRefused(b) \/ Finalize(b)
  BY <1>1, StageHolds, SwapBlockHolds, RefusedHolds, FinalizeHolds
<1>2. CASE \E t \in Adder : (\E b \in Block : Validate(t, b)) \/ Commit(t) \/ Return(t)
  BY <1>2, ValidateHolds, CommitHolds, ReturnHolds
<1>3. CASE LockForeign \/ ActivateCascade
  BY <1>3, LockForeignHolds, ActivateHolds
<1>4. CASE CascadeFails \/ WinnerRejected
  <2>1. swap.phase # "committed" /\ lock' = Release /\ swap' = IdleSwap
        /\ UNCHANGED <<store, mem, call, missed, restarts>>
    BY <1>4 DEF CascadeFails, WinnerRejected
  <2>2. cascade' = NoCascade
    BY <1>4 DEF CascadeFails, WinnerRejected, LedgerInv, SwapHolds
  <2> QED BY <2>1, <2>2, GiveUpHolds
<1>5. CASE CommitCascade \/ FinishSwap
  BY <1>5, CommitCascadeHolds, FinishSwapHolds
<1>6. CASE Restart
  BY <1>6, RestartHolds
<1>7. CASE UNCHANGED vars
  <2>1. /\ UNCHANGED <<mem, lock, call, swap, cascade, missed, restarts>> /\ store' = store
    BY <1>7 DEF vars
  <2>2. store \in Stores /\ \A a \in Account : store.finalHeight[a] <= Len(store.chain[a])
    BY DEF LedgerInv, Types, GoodStore
  <2> QED BY <2>1, <2>2, SameChains
<1> QED BY <1>1, <1>2, <1>3, <1>4, <1>5, <1>6, <1>7 DEF Next

(* The invariant holds in every state. *)
LEMMA Invariance == Spec => []LedgerInv
<1>1. Init => LedgerInv
  BY InitHolds
<1>2. LedgerInv /\ [Next]_vars => LedgerInv'
  BY NextHolds
<1> QED BY <1>1, <1>2, PTL DEF Spec

-----------------------------------------------------------------------------
(* What can be spent *)

(* What out becomes with the i-th block of a chain. *)
SpendableStep(chain, limit, x, i, out) ==
    IF Body[chain[i]].asset # x THEN out
    ELSE IF i <= limit THEN Body[chain[i]].balance
    ELSE Less(out, Less(AssetBalanceOnChain(SubSeq(chain, 1, i - 1), x), Body[chain[i]].balance))

(* A function of out after each block. *)
Spends(f, chain, limit, x, n) ==
    f = [i \in 0..n |-> IF i = 0 THEN 0 ELSE SpendableStep(chain, limit, x, i, f[i - 1])]

(* There is one for every chain. *)
LEMMA SpendsExists ==
    ASSUME NEW chain, NEW limit, NEW x, NEW n \in Nat
    PROVE  \E f : Spends(f, chain, limit, x, n)
<1> DEFINE T == {i \in Nat : ~ \E f : Spends(f, chain, limit, x, i)}
<1> SUFFICES ASSUME T # {} PROVE FALSE
  OBVIOUS
<1>1. PICK k \in T : \A j \in T : k <= j
  <2>1. T \in SUBSET Nat
    OBVIOUS
  <2> HIDE DEF T
  <2> QED BY <2>1, Least
<1>2. CASE k = 0
  <2> DEFINE f == [i \in 0..0 |-> 0]
  <2>1. Spends(f, chain, limit, x, 0)
    BY DEF Spends
  <2> QED BY <2>1, <1>2
<1>3. CASE k # 0
  <2>1. k - 1 \in Nat /\ k - 1 \notin T
    BY <1>1, <1>3
  <2>2. PICK f : Spends(f, chain, limit, x, k - 1)
    BY <2>1
  <2> DEFINE g == [i \in 0..k |-> IF i = k THEN SpendableStep(chain, limit, x, k, f[k - 1])
                                  ELSE f[i]]
  <2>3. ASSUME NEW i \in 0..k
        PROVE  g[i] = IF i = 0 THEN 0 ELSE SpendableStep(chain, limit, x, i, g[i - 1])
    <3>1. CASE i = k
      BY <3>1, <1>3
    <3>2. CASE i # k
      <4>1. i \in 0..(k - 1) /\ g[i] = f[i]
        BY <3>2
      <4>2. f[i] = IF i = 0 THEN 0 ELSE SpendableStep(chain, limit, x, i, f[i - 1])
        BY <4>1, <2>2 DEF Spends
      <4>3. i # 0 => g[i - 1] = f[i - 1]
        BY <4>1
      <4> QED BY <4>1, <4>2, <4>3
    <3> QED BY <3>1, <3>2
  <2>4. Spends(g, chain, limit, x, k)
    BY <2>3 DEF Spends
  <2> QED BY <2>4
<1> QED BY <1>2, <1>3

(* What can be spent after a block, from what could before it. *)
LEMMA SpendableUnfold ==
    ASSUME NEW chain, NEW limit, NEW x, Len(chain) \in Nat
    PROVE  /\ SpendableUpTo(chain, limit, x)[0] = 0
           /\ \A i \in 1..Len(chain) :
                SpendableUpTo(chain, limit, x)[i] =
                  SpendableStep(chain, limit, x, i, SpendableUpTo(chain, limit, x)[i - 1])
<1>1. \E f : Spends(f, chain, limit, x, Len(chain))
  BY SpendsExists
<1>2. PICK r : r = SpendableUpTo(chain, limit, x)
  OBVIOUS
<1>3. Spends(r, chain, limit, x, Len(chain))
  BY <1>1, <1>2 DEF SpendableUpTo, Spends, SpendableStep
<1>4. r = [i \in 0..Len(chain) |-> IF i = 0 THEN 0 ELSE SpendableStep(chain, limit, x, i, r[i - 1])]
  BY <1>3 DEF Spends
<1>5. r[0] = 0
  BY <1>4
<1>6. ASSUME NEW i \in 1..Len(chain) PROVE r[i] = SpendableStep(chain, limit, x, i, r[i - 1])
  BY <1>4
<1> QED BY <1>2, <1>5, <1>6

(* The balance after a block, from the one before it. *)
LEMMA BalanceMoves ==
    ASSUME NEW chain \in Seq(Block), NEW x \in Asset, NEW i \in 1..Len(chain)
    PROVE  LET old == AssetBalanceOnChain(SubSeq(chain, 1, i - 1), x)
           IN /\ old \in Nat /\ Body[chain[i]].balance \in Nat
              /\ AssetBalanceOnChain(SubSeq(chain, 1, i), x) =
                   IF Body[chain[i]].asset = x THEN Body[chain[i]].balance ELSE old
<1>1. PICK c : c = SubSeq(chain, 1, i - 1)
  OBVIOUS
<1>2. PICK b \in Block : b = chain[i]
  OBVIOUS
<1>3. c \in Seq(Block) /\ Len(c) = i - 1 /\ \A j \in 1..(i - 1) : c[j] = chain[j]
  BY <1>1
<1>4. SubSeq(chain, 1, i) = Append(c, b)
  <2>1. PICK d : d = SubSeq(chain, 1, i)
    OBVIOUS
  <2>2. d \in Seq(Block) /\ Len(d) = i /\ \A j \in 1..i : d[j] = chain[j]
    BY <2>1
  <2>3. PICK e : e = Append(c, b)
    OBVIOUS
  <2>4. e \in Seq(Block) /\ Len(e) = i /\ \A j \in 1..i : e[j] = chain[j]
    BY <1>2, <1>3, <2>3
  <2>5. d = e
    BY <2>2, <2>4
  <2> QED BY <2>1, <2>3, <2>5
<1>5. AssetBalanceOnChain(Append(c, b), x) =
        IF Body[b].asset = x THEN Body[b].balance ELSE AssetBalanceOnChain(c, x)
  BY <1>3, BalanceAppend
<1>6. AssetBalanceOnChain(c, x) \in 0..MaxUint
  BY <1>3, ReadTypes
<1>7. Body[b].balance \in Nat /\ MaxUint \in Nat
  BY Constants
<1>8. AssetBalanceOnChain(c, x) \in Nat
  BY <1>6, <1>7
<1> QED BY <1>1, <1>2, <1>4, <1>5, <1>7, <1>8

(* No more can be spent than is there. *)
LEMMA SpendableWithin ==
    ASSUME NEW chain \in Seq(Block), NEW limit \in Nat, NEW x \in Asset, NEW n \in 0..Len(chain)
    PROVE  SpendableUpTo(chain, limit, x)[n] \in 0..AssetBalanceOnChain(SubSeq(chain, 1, n), x)
<1>0. Len(chain) \in Nat
  OBVIOUS
<1>1. PICK out : out = SpendableUpTo(chain, limit, x)
  OBVIOUS
<1> DEFINE bal(i) == AssetBalanceOnChain(SubSeq(chain, 1, i), x)
<1> DEFINE T == {i \in 0..Len(chain) : out[i] \notin 0..bal(i)}
<1> SUFFICES ASSUME T # {} PROVE FALSE
  BY <1>1
<1>2. PICK k \in T : \A j \in T : k <= j
  <2>1. T \in SUBSET Nat
    OBVIOUS
  <2> HIDE DEF T
  <2> QED BY <2>1, Least
<1>3. out[0] = 0 /\ \A i \in 1..Len(chain) : out[i] = SpendableStep(chain, limit, x, i, out[i - 1])
  BY <1>0, <1>1, SpendableUnfold
<1>4. CASE k = 0
  <2>1. SubSeq(chain, 1, 0) = <<>>
    BY <1>0
  <2>2. bal(0) = 0
    BY <2>1, EmptyChain
  <2> QED BY <1>2, <1>3, <1>4, <2>2
<1>5. CASE k # 0
  <2>1. k \in 1..Len(chain) /\ k - 1 \in 0..Len(chain) /\ k - 1 \notin T
    BY <1>0, <1>2, <1>5
  <2>2. out[k - 1] \in 0..bal(k - 1)
    BY <2>1
  <2>3. /\ bal(k - 1) \in Nat /\ Body[chain[k]].balance \in Nat
        /\ bal(k) = IF Body[chain[k]].asset = x THEN Body[chain[k]].balance ELSE bal(k - 1)
    BY <2>1, BalanceMoves
  <2>4. out[k] = IF Body[chain[k]].asset # x THEN out[k - 1]
                 ELSE IF k <= limit THEN Body[chain[k]].balance
                 ELSE Less(out[k - 1], Less(bal(k - 1), Body[chain[k]].balance))
    BY <1>3, <2>1 DEF SpendableStep
  <2>5. out[k] \notin 0..bal(k)
    BY <1>2
  <2> HIDE DEF bal
  <2> QED BY <2>2, <2>3, <2>4, <2>5 DEF Less
<1> QED BY <1>4, <1>5

(* What becomes final can be spent: a higher final height takes nothing    *)
(* away.                                                                   *)
LEMMA SpendableFinal ==
    ASSUME NEW chain \in Seq(Block), NEW limit \in Nat, NEW top \in Nat, limit <= top,
           NEW x \in Asset, NEW n \in 0..Len(chain)
    PROVE  SpendableUpTo(chain, limit, x)[n] <= SpendableUpTo(chain, top, x)[n]
<1>0. Len(chain) \in Nat
  OBVIOUS
<1>1. PICK low : low = SpendableUpTo(chain, limit, x)
  OBVIOUS
<1>2. PICK high : high = SpendableUpTo(chain, top, x)
  OBVIOUS
<1> DEFINE bal(i) == AssetBalanceOnChain(SubSeq(chain, 1, i), x)
<1> DEFINE T == {i \in 0..Len(chain) : ~(low[i] <= high[i])}
<1> SUFFICES ASSUME T # {} PROVE FALSE
  BY <1>1, <1>2
<1>3. PICK k \in T : \A j \in T : k <= j
  <2>1. T \in SUBSET Nat
    OBVIOUS
  <2> HIDE DEF T
  <2> QED BY <2>1, Least
<1>4. low[0] = 0 /\ \A i \in 1..Len(chain) : low[i] = SpendableStep(chain, limit, x, i, low[i - 1])
  BY <1>0, <1>1, SpendableUnfold
<1>5. high[0] = 0 /\ \A i \in 1..Len(chain) : high[i] = SpendableStep(chain, top, x, i, high[i - 1])
  BY <1>0, <1>2, SpendableUnfold
<1>6. \A i \in 0..Len(chain) : low[i] \in 0..bal(i) /\ high[i] \in 0..bal(i)
  BY <1>1, <1>2, SpendableWithin
<1>7. CASE k = 0
  BY <1>3, <1>4, <1>5, <1>7
<1>8. CASE k # 0
  <2>1. k \in 1..Len(chain) /\ k - 1 \in 0..Len(chain) /\ k - 1 \notin T
    BY <1>0, <1>3, <1>8
  <2>2. low[k - 1] <= high[k - 1]
    BY <2>1
  <2>3. /\ bal(k - 1) \in Nat /\ Body[chain[k]].balance \in Nat
        /\ bal(k) = IF Body[chain[k]].asset = x THEN Body[chain[k]].balance ELSE bal(k - 1)
    BY <2>1, BalanceMoves
  <2>4. low[k] = IF Body[chain[k]].asset # x THEN low[k - 1]
                 ELSE IF k <= limit THEN Body[chain[k]].balance
                 ELSE Less(low[k - 1], Less(bal(k - 1), Body[chain[k]].balance))
    BY <1>4, <2>1 DEF SpendableStep
  <2>5. high[k] = IF Body[chain[k]].asset # x THEN high[k - 1]
                  ELSE IF k <= top THEN Body[chain[k]].balance
                  ELSE Less(high[k - 1], Less(bal(k - 1), Body[chain[k]].balance))
    BY <1>5, <2>1 DEF SpendableStep
  <2>6. ~(low[k] <= high[k])
    BY <1>3
  <2>7. low[k - 1] \in Nat /\ high[k - 1] \in Nat /\ low[k - 1] <= bal(k - 1)
        /\ low[k] \in 0..bal(k) /\ k \in Nat
    <3>1. low[k - 1] \in 0..bal(k - 1) /\ high[k - 1] \in 0..bal(k - 1) /\ low[k] \in 0..bal(k)
      BY <1>6, <2>1
    <3> HIDE DEF bal
    <3> QED BY <2>1, <2>3, <3>1
  <2> HIDE DEF bal
  <2>8. CASE Body[chain[k]].asset # x
    BY <2>2, <2>4, <2>5, <2>6, <2>8
  <2>9. CASE Body[chain[k]].asset = x /\ k <= top
    BY <2>3, <2>5, <2>6, <2>7, <2>9
  <2>10. CASE Body[chain[k]].asset = x /\ ~(k <= top)
    BY <2>2, <2>3, <2>4, <2>5, <2>6, <2>7, <2>10 DEF Less
  <2> QED BY <2>8, <2>9, <2>10
<1> QED BY <1>7, <1>8

(* A chain that loses blocks above the final height gives back what they   *)
(* sent, and no more can be spent for a block it keeps.                    *)
LEMMA SpendableUnwound ==
    ASSUME NEW chain \in Seq(Block), NEW c \in Seq(Block), NEW limit \in Nat,
           limit <= Len(c), Len(c) <= Len(chain), \A i \in 1..Len(c) : c[i] = chain[i],
           NEW x \in Asset
    PROVE  SpendableUpTo(chain, limit, x)[Len(chain)] <= SpendableUpTo(c, limit, x)[Len(c)]
<1>0. PICK m \in Nat : m = Len(c)
  OBVIOUS
<1>1. PICK n \in Nat : n = Len(chain) /\ m <= n
  BY <1>0
<1>2. PICK f : f = SpendableUpTo(c, limit, x)
  OBVIOUS
<1>3. PICK g : g = SpendableUpTo(chain, limit, x)
  OBVIOUS
<1>4. f[0] = 0 /\ \A i \in 1..m : f[i] = SpendableStep(c, limit, x, i, f[i - 1])
  BY <1>0, <1>2, SpendableUnfold
<1>5. g[0] = 0 /\ \A i \in 1..n : g[i] = SpendableStep(chain, limit, x, i, g[i - 1])
  BY <1>1, <1>3, SpendableUnfold
<1>6. ASSUME NEW i \in 1..m, NEW o PROVE SpendableStep(c, limit, x, i, o) = SpendableStep(chain, limit, x, i, o)
  <2>1. PICK d : d = SubSeq(c, 1, i - 1)
    OBVIOUS
  <2>2. PICK e : e = SubSeq(chain, 1, i - 1)
    OBVIOUS
  <2>3. d \in Seq(Block) /\ Len(d) = i - 1 /\ \A j \in 1..(i - 1) : d[j] = c[j]
    BY <1>0, <2>1
  <2>4. e \in Seq(Block) /\ Len(e) = i - 1 /\ \A j \in 1..(i - 1) : e[j] = chain[j]
    BY <1>0, <1>1, <2>2
  <2>5. \A j \in 1..(i - 1) : c[j] = chain[j]
    BY <1>0
  <2>6. d = e
    BY <2>3, <2>4, <2>5
  <2>7. c[i] = chain[i]
    BY <1>0
  <2> QED BY <2>1, <2>2, <2>6, <2>7 DEF SpendableStep
<1>7. f[m] = g[m]
  <2> DEFINE T == {i \in 0..m : f[i] # g[i]}
  <2> SUFFICES ASSUME T # {} PROVE FALSE
    OBVIOUS
  <2>1. PICK k \in T : \A j \in T : k <= j
    <3>1. T \in SUBSET Nat
      OBVIOUS
    <3> HIDE DEF T
    <3> QED BY <3>1, Least
  <2>2. k # 0
    BY <1>4, <1>5, <2>1
  <2>3. k \in 1..m /\ k \in 1..n /\ k - 1 \in 0..m /\ k - 1 \notin T
    BY <1>1, <2>1, <2>2
  <2>4. f[k - 1] = g[k - 1]
    BY <2>3
  <2> QED BY <1>4, <1>5, <1>6, <2>1, <2>3, <2>4
<1>8. g[n] <= g[m]
  <2> DEFINE T == {i \in m..n : ~(g[i] <= g[m])}
  <2> SUFFICES ASSUME T # {} PROVE FALSE
    BY <1>1
  <2>0. ASSUME NEW i \in 0..n PROVE g[i] \in Nat
    <3>1. PICK b : b = AssetBalanceOnChain(SubSeq(chain, 1, i), x)
      OBVIOUS
    <3>2. g[i] \in 0..b
      BY <1>1, <1>3, <3>1, SpendableWithin
    <3> QED BY <3>2
  <2>1. PICK k \in T : \A j \in T : k <= j
    <3>1. T \in SUBSET Nat
      OBVIOUS
    <3> HIDE DEF T
    <3> QED BY <3>1, Least
  <2>2. k # m
    BY <1>1, <2>0, <2>1
  <2>3. k \in 1..n /\ k - 1 \in m..n /\ k - 1 \notin T /\ ~(k <= limit)
    BY <1>0, <1>1, <2>1, <2>2
  <2>4. g[k - 1] <= g[m]
    BY <2>3
  <2>5. PICK old \in Nat : old = AssetBalanceOnChain(SubSeq(chain, 1, k - 1), x)
    BY <1>1, <2>3, BalanceMoves
  <2>6. Body[chain[k]].balance \in Nat
    BY <1>1, <2>3, BalanceMoves
  <2>7. g[k] = IF Body[chain[k]].asset # x THEN g[k - 1]
               ELSE Less(g[k - 1], Less(old, Body[chain[k]].balance))
    BY <1>5, <2>3, <2>5 DEF SpendableStep
  <2>8. g[k] \in Nat /\ g[k - 1] \in Nat /\ g[m] \in Nat /\ ~(g[k] <= g[m])
    BY <1>1, <2>0, <2>1, <2>3
  <2>9. g[k] <= g[k - 1]
    BY <2>5, <2>6, <2>7, <2>8 DEF Less
  <2> QED BY <2>4, <2>8, <2>9
<1> QED BY <1>0, <1>1, <1>2, <1>3, <1>7, <1>8

(* An account whose chain loses only blocks above its final height, and    *)
(* whose final height does not fall, can spend what it could.              *)
LEMMA SpendableKept ==
    ASSUME NEW s \in Stores, NEW v \in Stores, GoodStore(s), GoodStore(v),
           NEW a \in Account, NEW x \in Asset,
           s.finalHeight[a] <= v.finalHeight[a], Len(v.chain[a]) <= Len(s.chain[a]),
           \A i \in 1..Len(v.chain[a]) : v.chain[a][i] = s.chain[a][i]
    PROVE  ~(Spendable(v, a, x) < Spendable(s, a, x))
<1>1. PICK d \in Seq(Block) : d = s.chain[a]
  BY DEF Stores, Chains
<1>2. PICK c \in Seq(Block) : c = v.chain[a]
  BY DEF Stores, Chains
<1>3. PICK h \in Nat : h = s.finalHeight[a]
  BY DEF Stores
<1>4. PICK k \in Nat : k = v.finalHeight[a]
  BY DEF Stores
<1>5. h <= k /\ k <= Len(c) /\ Len(c) <= Len(d) /\ \A i \in 1..Len(c) : c[i] = d[i]
  BY <1>1, <1>2, <1>3, <1>4 DEF GoodStore
<1>6. Len(c) \in Nat /\ Len(d) \in Nat /\ h <= Len(c) /\ Len(c) \in 0..Len(c)
  BY <1>5
<1>7. SpendableUpTo(d, h, x)[Len(d)] <= SpendableUpTo(c, h, x)[Len(c)]
  BY <1>5, <1>6, SpendableUnwound
<1>8. SpendableUpTo(c, h, x)[Len(c)] <= SpendableUpTo(c, k, x)[Len(c)]
  BY <1>5, <1>6, SpendableFinal
<1>9. ASSUME NEW e \in Seq(Block), NEW l \in Nat PROVE SpendableUpTo(e, l, x)[Len(e)] \in Nat
  <2>1. PICK b : b = AssetBalanceOnChain(SubSeq(e, 1, Len(e)), x)
    OBVIOUS
  <2>2. SpendableUpTo(e, l, x)[Len(e)] \in 0..b
    BY <2>1, SpendableWithin
  <2> QED BY <2>2
<1>10. PICK y \in Nat : y = SpendableUpTo(d, h, x)[Len(d)]
  BY <1>9
<1>11. PICK z \in Nat : z = SpendableUpTo(c, h, x)[Len(c)]
  BY <1>9
<1>12. PICK w \in Nat : w = SpendableUpTo(c, k, x)[Len(c)]
  BY <1>9
<1>13. Spendable(s, a, x) = IF h = 0 THEN 0 ELSE y
  BY <1>1, <1>3, <1>10 DEF Spendable
<1>14. Spendable(v, a, x) = IF k = 0 THEN 0 ELSE w
  BY <1>2, <1>4, <1>12 DEF Spendable
<1>15. y <= w
  BY <1>7, <1>8, <1>10, <1>11, <1>12
<1> QED BY <1>5, <1>13, <1>14, <1>15

(* The height of a block is a place where it is. *)
LEMMA HeightAt ==
    ASSUME NEW chain \in Seq(Block), NEW b \in ToSet(chain)
    PROVE  HeightOf(chain, b) \in 1..Len(chain) /\ chain[HeightOf(chain, b)] = b
<1>1. PICK n \in Nat : n = Len(chain)
  OBVIOUS
<1>2. PICK I : I = {i \in 1..Len(chain) : chain[i] = b}
  OBVIOUS
<1>3. I \in SUBSET Nat /\ I # {}
  BY <1>1, <1>2 DEF ToSet
<1>4. PICK m \in I : \A k \in I : m <= k
  BY <1>3, Least
<1>5. HeightOf(chain, b) = Min(I)
  BY <1>2, <1>3 DEF HeightOf, SelectInSeq
<1>6. Min(I) \in I
  BY <1>4 DEF Min
<1> QED BY <1>2, <1>5, <1>6

(* A block above the final height becomes final. *)
LEMMA ResolveKeeps ==
    ASSUME NEW s \in Stores, GoodStore(s), NEW b \in Block,
           HeightOf(s.chain[Owner(b)], b) >= s.finalHeight[Owner(b)],
           NEW a \in Account, NEW x \in Asset
    PROVE  ~(Spendable(Resolve(s, b), a, x) < Spendable(s, a, x))
<1>1. PICK v : v = Resolve(s, b)
  OBVIOUS
<1>2. /\ v \in Stores /\ v.chain = s.chain /\ v.pending = s.pending /\ v.rep = s.rep
      /\ \A k \in Account : v.finalHeight[k] <= Len(v.chain[k])
  BY <1>1, ResolveIs DEF GoodStore
<1>3. GoodStore(v)
  BY <1>2 DEF GoodStore
<1>4. s.finalHeight \in [Account -> Nat] /\ s.chain[a] \in Seq(Block)
  BY DEF Stores, Chains
<1>5. v.finalHeight = [s.finalHeight EXCEPT ![Owner(b)] = HeightOf(s.chain[Owner(b)], b)]
  BY <1>1 DEF Resolve, Stores
<1>6. s.finalHeight[a] <= v.finalHeight[a]
  <2>1. CASE a = Owner(b)
    BY <1>4, <1>5, <2>1
  <2>2. CASE a # Owner(b)
    BY <1>4, <1>5, <2>2
  <2> QED BY <2>1, <2>2
<1>7. Len(v.chain[a]) <= Len(s.chain[a]) /\ \A i \in 1..Len(v.chain[a]) : v.chain[a][i] = s.chain[a][i]
  BY <1>2, <1>4
<1> QED BY <1>1, <1>2, <1>3, <1>6, <1>7, SpendableKept

(* What falls when a block joins a chain is that account's. *)
LEMMA SpendableCommit ==
    ASSUME NEW s \in Stores, NEW u \in Stores, GoodStore(s), GoodStore(u), NEW b \in Block,
           b \notin ToSet(s.chain[Owner(b)]), Fits(b, u.chain[Owner(b)]),
           ViewRep(Owner(b)) = RepOnChain(u.chain[Owner(b)]),
           u.finalHeight = s.finalHeight,
           \A k \in Account : /\ Len(u.chain[k]) <= Len(s.chain[k])
                              /\ \A i \in 1..Len(u.chain[k]) : u.chain[k][i] = s.chain[k][i],
           NEW a \in Account, NEW x \in Asset,
           Spendable(CommitBlock(u, b), a, x) < Spendable(s, a, x)
    PROVE  ToSet(CommitBlock(u, b).chain[a]) \ ToSet(s.chain[a]) # {}
<1>1. PICK v : v = CommitBlock(u, b)
  OBVIOUS
<1>2. /\ v \in Stores /\ Owner(b) \in Account
      /\ v.chain = [u.chain EXCEPT ![Owner(b)] = Append(@, b)]
      /\ v.finalHeight = u.finalHeight
  BY <1>1, CommitBlockIs DEF GoodStore
<1>3. GoodStore(v)
  BY <1>1, CommitKeeps
<1>4. u.chain \in Chains
  BY DEF Stores
<1>5. CASE a = Owner(b)
  <2>1. v.chain[a] = Append(u.chain[a], b) /\ u.chain[a] \in Seq(Block)
    BY <1>2, <1>4, <1>5 DEF Chains
  <2>2. b \in ToSet(v.chain[a])
    BY <2>1, ToSetAppend
  <2> QED BY <1>1, <1>5, <2>2
<1>6. CASE a # Owner(b)
  <2>1. v.chain[a] = u.chain[a]
    BY <1>2, <1>4, <1>6 DEF Chains
  <2>2. s.finalHeight[a] <= v.finalHeight[a]
    BY <1>2 DEF Stores
  <2>3. ~(Spendable(v, a, x) < Spendable(s, a, x))
    BY <1>2, <1>3, <2>1, <2>2, SpendableKept
  <2> QED BY <1>1, <2>3
<1> QED BY <1>5, <1>6

(* Every step. *)
LEMMA SpendableSteps ==
    ASSUME LedgerInv, [Next]_vars, NEW a \in Account, NEW x \in Asset,
           Spendable(store', a, x) < Spendable(store, a, x)
    PROVE  ToSet(store'.chain[a]) \ ToSet(store.chain[a]) # {}
<1>1. Types /\ GoodStore(store) /\ CallsHold /\ SwapHolds /\ store \in Stores
  BY DEF LedgerInv, Types
<1>2. PICK g \in Chains : MemoryIs(g)
  BY DEF LedgerInv
<1>3. \A k \in Account : store.chain[k] \in Seq(Block) /\ store.finalHeight[k] \in Nat
  BY <1>1 DEF Stores, Chains
<1>4. ASSUME store'.chain = store.chain, store'.finalHeight = store.finalHeight PROVE FALSE
  <2>1. Spendable(store', a, x) = Spendable(store, a, x)
    BY <1>4 DEF Spendable
  <2>2. ~(Spendable(store, a, x) < Spendable(store, a, x))
    BY <1>1, <1>3, SpendableKept
  <2> QED BY <2>1, <2>2
<1>5. CASE \E b \in Block : Stage(b) \/ SwapBlock(b) \/ SwapRefused(b)
  <2>1. store'.chain = store.chain /\ store'.finalHeight = store.finalHeight
    BY <1>1, <1>5 DEF Stage, SwapBlock, SwapRefused, Demote, Stores
  <2> QED BY <1>4, <2>1
<1>6. ASSUME NEW b \in Block, Finalize(b) PROVE FALSE
  <2>1. OnChain(store, b) /\ ~IsFinalized(store, b) /\ store' = Resolve(store, b)
    BY <1>6 DEF Finalize
  <2>2. Owner(b) \in Account
    BY Constants DEF Owner
  <2>3. b \in ToSet(store.chain[Owner(b)])
    BY <2>1 DEF OnChain, Owner
  <2>4. HeightOf(store.chain[Owner(b)], b) \in Nat
    BY <1>3, <2>2, <2>3, HeightAt
  <2>5. ~(HeightOf(store.chain[Owner(b)], b) <= store.finalHeight[Owner(b)])
    BY <2>1 DEF IsFinalized, Owner
  <2>6. HeightOf(store.chain[Owner(b)], b) >= store.finalHeight[Owner(b)]
    BY <1>3, <2>2, <2>4, <2>5
  <2> QED BY <1>1, <2>1, <2>6, ResolveKeeps
<1>7. CASE \E t \in Adder : (\E b \in Block : Validate(t, b)) \/ Return(t)
  BY <1>4, <1>7 DEF Validate, Return
<1>8. ASSUME NEW t \in Adder, Commit(t) PROVE ToSet(store'.chain[a]) \ ToSet(store.chain[a]) # {}
  <2>1. PICK b \in Block : b = call[t].block
    BY <1>1, <1>8 DEF Commit, CallsHold
  <2>2. store' = CommitBlock(store, b) /\ call[t].phase = "validated"
    BY <1>8, <2>1 DEF Commit
  <2>3. lock[Owner(b)] = t /\ Fits(b, store.chain[Owner(b)])
    BY <1>1, <2>1, <2>2 DEF CallsHold
  <2>4. Owner(b) \in Account /\ t # Promoter
    BY Constants DEF Owner
  <2>5. ~InProgress(Owner(b))
    <3>1. \A k \in Adder : call[k].phase = "committed" => lock[Owner(b)] # k
      BY <2>2, <2>3
    <3> QED BY <1>1, <2>3, <2>4, <3>1, NotInProgress
  <2>6. ViewRep(Owner(b)) = RepOnChain(store.chain[Owner(b)])
    BY <1>1, <1>2, <2>3, <2>4, <2>5, Reads
  <2>7. b \notin ToSet(store.chain[Owner(b)])
    BY <2>3 DEF Fits
  <2>8. \A k \in Account : /\ Len(store.chain[k]) <= Len(store.chain[k])
                           /\ \A i \in 1..Len(store.chain[k]) : store.chain[k][i] = store.chain[k][i]
    BY <1>3
  <2> QED BY <1>1, <2>2, <2>3, <2>6, <2>7, <2>8, SpendableCommit
<1>9. CASE LockForeign \/ ActivateCascade \/ CascadeFails \/ WinnerRejected \/ Restart \/ UNCHANGED vars
  BY <1>4, <1>9 DEF LockForeign, ActivateCascade, CascadeFails, WinnerRejected, Restart, vars
<1>10. CASE CommitCascade
  <2>1. PICK u : u = UndoneStore(store, swap.plan)[Len(swap.plan)]
    OBVIOUS
  <2>2. PICK w : w = swap.winner
    OBVIOUS
  <2>3. PICK f : f = ChainsOf(swap.plan)
    OBVIOUS
  <2>4. PICK n : n = Len(swap.plan)
    OBVIOUS
  <2>5. swap.phase = "active" /\ Valid(w)
        /\ store' = CommitBlock(CommitUndos(store, cascade.undos)[Len(cascade.undos)], w)
    BY <1>10, <2>2 DEF CommitCascade
  <2>6. /\ Unwinding(f, swap.plan)
        /\ CommitUndos(store, cascade.undos)[Len(cascade.undos)] = u
        /\ u \in Stores /\ GoodStore(u) /\ u.finalHeight = store.finalHeight
        /\ w \in Block /\ Fits(w, u.chain[Owner(w)])
        /\ ViewRep(Owner(w)) = RepOnChain(u.chain[Owner(w)])
        /\ \A k \in Account : u.chain[k] = IF k \in Owners(swap.plan) THEN Snapshots(f, swap.plan)[n][k]
                                           ELSE store.chain[k]
    BY <2>1, <2>2, <2>3, <2>4, <2>5, WinnerFits
  <2>7. /\ w \notin ToSet(store.chain[Owner(w)])
        /\ \A k \in Account : \A i \in 1..store.finalHeight[k] :
             store.chain[k][i] \notin ToSet(swap.plan)
    BY <1>1, <2>2, <2>5 DEF SwapHolds
  <2>8. n \in 0..Len(swap.plan)
    BY <1>1, <2>4 DEF Types
  <2>9. ASSUME NEW k \in Account
        PROVE  /\ Len(u.chain[k]) <= Len(store.chain[k])
               /\ \A i \in 1..Len(u.chain[k]) : u.chain[k][i] = store.chain[k][i]
    <3>1. CASE k \notin Owners(swap.plan)
      <4>1. u.chain[k] = store.chain[k] /\ Len(store.chain[k]) \in Nat
        BY <1>3, <2>6, <3>1
      <4> QED BY <4>1
    <3>2. CASE k \in Owners(swap.plan)
      <4>1. f[k] = store.chain[k]
        BY <2>3, <3>2 DEF ChainsOf
      <4>2. PICK top : top = store.finalHeight[k]
        OBVIOUS
      <4>3. top \in Nat /\ top <= Len(store.chain[k]) /\ Len(store.chain[k]) \in Nat
        BY <1>1, <1>3, <4>2 DEF GoodStore
      <4>4. top \in 0..Len(f[k]) /\ \A i \in 1..top : f[k][i] \notin ToSet(swap.plan)
        BY <2>7, <4>1, <4>2, <4>3
      <4>5. PICK c : c = Snapshots(f, swap.plan)[n][k]
        OBVIOUS
      <4>6. Len(c) \in top..Len(f[k]) /\ \A i \in 1..Len(c) : c[i] = f[k][i]
        BY <2>6, <2>8, <3>2, <4>4, <4>5, SnapshotsPrefix
      <4>7. u.chain[k] = c
        BY <2>6, <3>2, <4>5
      <4> QED BY <4>1, <4>3, <4>6, <4>7
    <3> QED BY <3>1, <3>2
  <2> QED BY <1>1, <2>5, <2>6, <2>7, <2>9, SpendableCommit
<1>11. CASE FinishSwap
  <2>1. PICK w \in Block : w = swap.winner
    BY <1>1, <1>11 DEF FinishSwap, SwapHolds
  <2>2. swap.phase = "committed" /\ store' = Resolve(store, w)
    BY <1>11, <2>1 DEF FinishSwap
  <2>3. Owner(w) \in Owners(swap.plan) /\ Owner(w) \in Account
    BY <1>1, <2>1, <2>2, Constants DEF SwapHolds, Owner
  <2>4. PICK f : f = [k \in Owners(swap.plan) |-> g[k]]
    OBVIOUS
  <2>5. PICK c : c = Snapshots(f, swap.plan)[Len(swap.plan)][Owner(w)]
    OBVIOUS
  <2>6. CanBuild(f, swap.plan) /\ store.chain[Owner(w)] = Append(c, w)
    BY <1>2, <2>1, <2>2, <2>3, <2>4, <2>5 DEF MemoryIs
  <2>7. c \in Seq(Block)
    <3>1. swap.plan \in Seq(Block)
      BY <1>1 DEF Types
    <3>2. Owners(swap.plan) \subseteq Account /\ Len(swap.plan) \in Nat
      BY <3>1, OwnersAre
    <3>3. f \in [Owners(swap.plan) -> Seq(Block)]
      BY <2>4, <3>2 DEF Chains
    <3>4. Unwinding(f, swap.plan)
      BY <2>6, <3>1, <3>3 DEF Unwinding
    <3>5. Len(swap.plan) \in 0..Len(swap.plan)
      BY <3>2
    <3> QED BY <2>3, <2>5, <3>4, <3>5, SnapshotTypes
  <2>8. PICK d \in Seq(Block) : d = store.chain[Owner(w)]
    BY <1>3, <2>3
  <2>9. SoundChain(c, Owner(w)) /\ Fits(w, c)
    <3>1. SoundChain(store.chain[Owner(w)], Owner(w))
      BY <1>1, <2>3 DEF GoodStore
    <3>2. SoundChain(Append(c, w), Owner(w))
      BY <2>6, <3>1
    <3> QED BY <2>7, <3>2, SoundAppend
  <2>10. w \notin ToSet(c) /\ w \in ToSet(d)
    BY <2>6, <2>7, <2>8, <2>9, ToSetAppend DEF Fits
  <2>11. PICK h : h = HeightOf(d, w)
    OBVIOUS
  <2>12. h \in 1..Len(d) /\ d[h] = w
    BY <2>10, <2>11, HeightAt
  <2>13. Len(d) = Len(c) + 1 /\ \A i \in 1..Len(c) : d[i] = c[i]
    BY <2>6, <2>7, <2>8
  <2>14. h = Len(d)
    <3>1. ASSUME h # Len(d) PROVE FALSE
      <4>1. h \in 1..Len(c) /\ c[h] = w
        BY <2>7, <2>12, <2>13, <3>1
      <4> QED BY <2>10, <4>1 DEF ToSet
    <3> QED BY <3>1
  <2>15. store.finalHeight[Owner(w)] <= Len(d) /\ store.finalHeight[Owner(w)] \in Nat
    BY <1>1, <1>3, <2>3, <2>8 DEF GoodStore
  <2>16. HeightOf(store.chain[Owner(w)], w) >= store.finalHeight[Owner(w)]
    BY <2>8, <2>11, <2>14, <2>15
  <2> QED BY <1>1, <2>2, <2>16, ResolveKeeps
<1> QED BY <1>5, <1>6, <1>7, <1>8, <1>9, <1>10, <1>11 DEF Next

-----------------------------------------------------------------------------
(* The theorems *)

(* Chains, balances, weights, final heights and locks stay in their        *)
(* ranges: no balance exceeds a uint64, no weight falls below zero and no  *)
(* final height exceeds its chain, through every rollback and restart.     *)
THEOREM LedgerTypes == Spec => []LedgerTypeOK
<1>1. LedgerInv => LedgerTypeOK
  <2> SUFFICES ASSUME LedgerInv PROVE LedgerTypeOK
    OBVIOUS
  <2>1. Types /\ GoodStore(store)
    BY DEF LedgerInv
  <2>2. PICK g \in Chains : mem = MemoryOf(g)
    BY DEF LedgerInv, MemoryIs
  <2>3. store \in Stores
    BY <2>1 DEF Types
  <2>4. /\ store.chain \in Chains /\ store.finalHeight \in [Account -> Nat]
        /\ store.rep \in [Account -> Rep \cup {None}]
        /\ store.pending \in SUBSET Block /\ store.staged \in SUBSET Block
    BY <2>3 DEF Stores
  <2>5. ASSUME NEW a \in Account
        PROVE  /\ store.chain[a] \in Seq(Block)
               /\ store.finalHeight[a] \in 0..Len(store.chain[a])
               /\ store.rep[a] \in Rep \cup {None} /\ mem.rep[a] \in Rep \cup {None}
               /\ \A x \in Asset : mem.balance[a][x] \in 0..MaxUint
    <3>1. PICK c \in Seq(Block) : c = store.chain[a]
      BY <2>4 DEF Chains
    <3>2. g[a] \in Seq(Block)
      BY DEF Chains
    <3>3. store.finalHeight[a] \in Nat /\ store.finalHeight[a] <= Len(c)
      BY <2>1, <2>4, <3>1 DEF GoodStore
    <3>4. store.finalHeight[a] \in 0..Len(c)
      BY <3>3
    <3>5. mem.rep[a] = RepOnChain(g[a]) /\ \A x \in Asset : mem.balance[a][x] = AssetBalanceOnChain(g[a], x)
      BY <2>2 DEF MemoryOf
    <3>6. RepOnChain(g[a]) \in Rep \cup {None} /\ \A x \in Asset : AssetBalanceOnChain(g[a], x) \in 0..MaxUint
      BY <3>2, ReadTypes
    <3> QED BY <2>4, <3>1, <3>4, <3>5, <3>6
  <2>6. ASSUME NEW r \in Rep PROVE mem.weight[r] \in Nat
    <3>1. mem.weight[r] = SumOver(XEBalances(g), DelegatingTo(g, r))
      BY <2>2, SumOfIs DEF MemoryOf, WeightsOf
    <3>2. DelegatingTo(g, r) \in SUBSET Account
      BY DEF DelegatingTo
    <3> QED BY <3>1, <3>2, WeightTypes
  <2> QED BY <2>1, <2>4, <2>5, <2>6 DEF LedgerTypeOK, Types
<1> QED BY <1>1, Invariance, PTL

(* When no thread is between its transaction and its return, memory is     *)
(* what NewLedger would rebuild from the store: AddBlock's updates and the *)
(* closures of buildBlockUndo lose nothing, in any interleaving.           *)
THEOREM MemoryMatches == Spec => []MemoryMatchesStore
<1>1. LedgerInv => MemoryMatchesStore
  <2> SUFFICES ASSUME LedgerInv, swap.phase # "committed",
                      \A t \in Adder : call[t].phase # "committed"
               PROVE  mem = Rebuild(store)
    BY DEF MemoryMatchesStore
  <2>1. PICK g \in Chains : MemoryIs(g)
    BY DEF LedgerInv
  <2>2. \A a \in Account : ~InProgress(a)
    BY DEF InProgress
  <2>3. store \in Stores /\ store.chain \in Chains
    BY DEF LedgerInv, Types, Stores
  <2>4. g = store.chain
    <3>1. \A a \in Account : g[a] = store.chain[a]
      BY <2>1, <2>2 DEF MemoryIs
    <3> QED BY <2>3, <3>1 DEF Chains
  <2>5. Rebuild(store) = MemoryOf(store.chain)
    BY <2>3, RebuildIs DEF LedgerInv, GoodStore
  <2> QED BY <2>1, <2>4, <2>5 DEF MemoryIs
<1> QED BY <1>1, Invariance, PTL

(* Transfers, burns, mints and cascades of undos conserve each asset, as   *)
(* long as no receive commits against a send that is being undone.         *)
THEOREM SupplyStays == Spec => []SupplyConserved
<1>1. LedgerInv => SupplyConserved
  <2> SUFFICES ASSUME LedgerInv, missed = {}, NEW x \in Asset
               PROVE  Circulating(store, x) + Total(store, "burn", x)
                        = Total(store, "genesis", x) + Total(store, "mint", x)
    BY DEF SupplyConserved
  <2>1. Balanced(store.chain, store.pending, x)
    BY DEF LedgerInv, SupplyHolds, Supplied
  <2>2. Circulating(store, x) = SumOver(BalancesIn(store.chain, x), Account)
                                  + SumOver(Term, OfAsset(store.pending, x))
    BY SumOfIs DEF Circulating, BalancesOf, BalancesIn, OfAsset
  <2>3. ASSUME NEW type PROVE Total(store, type, x) = SumOver(Term, Kind(On(store.chain), type, x))
    BY SumOfIs DEF Total, Kind, OnChains, On
  <2> QED BY <2>1, <2>2, <2>3 DEF Balanced
<1> QED BY <1>1, Invariance, PTL

(* What SpendableBalances reports for an account falls only in a step that *)
(* adds a block to its chain: no rollback of another account's send, no    *)
(* block that becomes final and no restart takes from it.                  *)
THEOREM SpendableNeverTaken == Spec => SpendableStays
<1>1. LedgerInv /\ [Next]_vars =>
        [\A a \in Account, x \in Asset :
           Spendable(store', a, x) < Spendable(store, a, x)
             => ToSet(store'.chain[a]) \ ToSet(store.chain[a]) # {}]_vars
  BY SpendableSteps
<1> QED BY <1>1, Invariance, PTL DEF Spec, SpendableStays
=============================================================================
