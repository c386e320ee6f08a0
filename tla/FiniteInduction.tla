-------------------------- MODULE FiniteInduction --------------------------
(***************************************************************************)
(* Induction in first-order form, for the proofs of the other modules: a   *)
(* proof by induction takes a least counterexample, a number or a finite   *)
(* set.  With it, sums over finite sets (MapThenSumSet of FiniteSetsExt):  *)
(* what one member adds, that the order does not matter, and how the sums  *)
(* of two sets compare.                                                    *)
(***************************************************************************)
EXTENDS Integers, FiniteSetTheorems, WellFoundedInduction, FiniteSetsExt, TLAPS

(* Among some subsets of a finite set there is one that contains no other. *)
LEMMA SmallestSubset ==
    \A S : IsFiniteSet(S) => \A T \in SUBSET (SUBSET S) : T # {} =>
        \E x \in T : \A y \in T : y \subseteq x => y = x
<1> SUFFICES ASSUME NEW S, IsFiniteSet(S), NEW T \in SUBSET (SUBSET S), T # {}
             PROVE  \E x \in T : \A y \in T : y \subseteq x => y = x
  OBVIOUS
<1>1. IsWellFoundedOn(StrictSubsetOrdering(S), FiniteSubsetsOf(S))
  BY FS_StrictSubsetOrderingWellFounded
<1>2. T \subseteq FiniteSubsetsOf(S)
  BY FS_FiniteSubsetsOfFinite
<1>3. PICK x \in T : \A y \in T : ~ (<<y, x>> \in StrictSubsetOrdering(S))
  BY <1>1, <1>2, WFMin
<1> QED BY <1>3 DEF StrictSubsetOrdering

(* Natural numbers are well ordered. *)
LEMMA Least ==
    ASSUME NEW T \in SUBSET Nat, T # {}
    PROVE  \E m \in T : \A k \in T : m <= k
<1>1. PICK t \in T : TRUE
  OBVIOUS
<1> DEFINE U == {0..k : k \in {j \in T : j <= t}}
<1>2. IsFiniteSet(0..t)
  BY FS_Interval
<1>3. U \in SUBSET (SUBSET (0..t)) /\ U # {}
  OBVIOUS
<1>4. PICK x \in U : \A y \in U : y \subseteq x => y = x
  <2> DEFINE I == 0..t
  <2>1. IsFiniteSet(I) /\ U \in SUBSET (SUBSET I) /\ U # {}
    BY <1>2, <1>3
  <2> HIDE DEF U, I
  <2> QED BY <2>1, SmallestSubset
<1>5. PICK m \in T : m <= t /\ x = 0..m
  OBVIOUS
<1>6. ASSUME NEW k \in T PROVE m <= k
  <2> SUFFICES ASSUME k < m PROVE FALSE
    OBVIOUS
  <2>1. 0..k \in U /\ 0..k \subseteq x
    BY <1>5
  <2>2. 0..k = 0..m
    BY <2>1, <1>4, <1>5
  <2> QED BY <2>2
<1> QED BY <1>6

(* A bounded set of natural numbers has a greatest member. *)
LEMMA Greatest ==
    ASSUME NEW n \in Nat, NEW T \in SUBSET (0..n), T # {}
    PROVE  \E m \in T : \A k \in T : k <= m
<1> DEFINE U == {u \in Nat : \A k \in T : k <= u}
<1>1. U \in SUBSET Nat /\ U # {}
  <2>1. n \in U
    OBVIOUS
  <2> QED BY <2>1
<1>2. PICK m \in U : \A u \in U : m <= u
  <2> HIDE DEF U
  <2> QED BY <1>1, Least
<1>3. m \in T
  <2> SUFFICES ASSUME m \notin T PROVE FALSE
    OBVIOUS
  <2>1. PICK t \in T : TRUE
    OBVIOUS
  <2>2. m - 1 \in Nat /\ \A k \in T : k <= m - 1
    BY <2>1
  <2> QED BY <2>2, <1>2
<1> QED BY <1>3

(* A finite set of natural numbers has a greatest member. *)
LEMMA FiniteGreatest ==
    ASSUME NEW S \in SUBSET Nat, IsFiniteSet(S), S # {}
    PROVE  \E m \in S : \A k \in S : k <= m
<1> DEFINE From(k) == {x \in S : x >= k}
           U == {From(k) : k \in S}
<1>1. U \in SUBSET (SUBSET S) /\ U # {}
  OBVIOUS
<1>2. PICK x \in U : \A y \in U : y \subseteq x => y = x
  <2> DEFINE R == S
  <2>1. IsFiniteSet(R) /\ U \in SUBSET (SUBSET R) /\ U # {}
    BY <1>1
  <2> HIDE DEF U, R
  <2> QED BY <2>1, SmallestSubset
<1>3. PICK m \in S : x = From(m)
  OBVIOUS
<1>4. ASSUME NEW k \in S PROVE k <= m
  <2> SUFFICES ASSUME k > m PROVE FALSE
    OBVIOUS
  <2>1. From(k) \in U
    OBVIOUS
  <2>2. From(k) \subseteq From(m)
    <3> SUFFICES ASSUME NEW j \in S, j >= k PROVE j >= m
      OBVIOUS
    <3> QED OBVIOUS
  <2>3. From(k) = From(m)
    <3> HIDE DEF From, U
    <3> QED BY <1>2, <1>3, <2>1, <2>2
  <2>4. m \in From(m)
    OBVIOUS
  <2>5. m \in From(k)
    <3> HIDE DEF From
    <3> QED BY <2>3, <2>4
  <2> QED BY <2>5
<1> QED BY <1>4

-----------------------------------------------------------------------------
(* The sum of f[x] over the members of S. *)
SumOver(f, S) == MapThenSumSet(LAMBDA x : f[x], S)

Pick(s) == CHOOSE x \in s : TRUE

(* g is the function that the fold over S builds. *)
IsFold(g, f, S) ==
    g = [s \in SUBSET S |-> IF s = {} THEN 0 ELSE f[Pick(s)] + g[s \ {Pick(s)}]]

(* Two of them agree wherever both are defined. *)
LEMMA FoldsAgree ==
    ASSUME NEW f, NEW S, IsFiniteSet(S), NEW A \in SUBSET S, NEW B \in SUBSET S,
           NEW g, NEW h, IsFold(g, f, A), IsFold(h, f, B),
           NEW t \in SUBSET (A \cap B)
    PROVE  g[t] = h[t]
<1> DEFINE T == {s \in SUBSET (A \cap B) : g[s] # h[s]}
<1> SUFFICES ASSUME T # {} PROVE FALSE
  OBVIOUS
<1>1. PICK s \in T : \A y \in T : y \subseteq s => y = s
  <2>1. T \in SUBSET (SUBSET S)
    OBVIOUS
  <2> HIDE DEF T
  <2> QED BY <2>1, SmallestSubset
<1>2. s \in SUBSET A /\ s \in SUBSET B /\ g[s] # h[s]
  BY <1>1
<1>3. /\ g[s] = IF s = {} THEN 0 ELSE f[Pick(s)] + g[s \ {Pick(s)}]
      /\ h[s] = IF s = {} THEN 0 ELSE f[Pick(s)] + h[s \ {Pick(s)}]
  BY <1>2 DEF IsFold
<1>4. CASE s = {}
  BY <1>2, <1>3, <1>4
<1>5. CASE s # {}
  <2>1. Pick(s) \in s
    BY <1>5 DEF Pick
  <2> DEFINE u == s \ {Pick(s)}
  <2>2. u \in SUBSET (A \cap B) /\ u \subseteq s /\ u # s
    BY <1>2, <2>1
  <2>3. g[u] = h[u]
    <3>1. u \notin T
      BY <1>1, <2>2
    <3> QED BY <2>2, <3>1
  <2> QED BY <1>2, <1>3, <1>5, <2>3
<1> QED BY <1>4, <1>5

(* There is one. *)
LEMMA FoldExists ==
    ASSUME NEW f, NEW S, IsFiniteSet(S)
    PROVE  \E g : IsFold(g, f, S)
<1> DEFINE T == {s \in SUBSET S : ~ \E g : IsFold(g, f, s)}
<1> SUFFICES ASSUME T # {} PROVE FALSE
  OBVIOUS
<1>1. PICK s \in T : \A y \in T : y \subseteq s => y = s
  <2>1. T \in SUBSET (SUBSET S)
    OBVIOUS
  <2> HIDE DEF T
  <2> QED BY <2>1, SmallestSubset
<1>2. s \in SUBSET S /\ ~ \E g : IsFold(g, f, s)
  BY <1>1
<1> DEFINE F(u) == CHOOSE g : IsFold(g, f, u)
<1>3. ASSUME NEW u \in SUBSET s, u # s PROVE IsFold(F(u), f, u)
  <2>1. u \in SUBSET S /\ u \notin T
    BY <1>1, <1>2, <1>3
  <2>2. \E g : IsFold(g, f, u)
    BY <2>1
  <2> QED BY <2>2
<1> HIDE DEF F
<1> DEFINE v(t) == IF t = {} THEN 0 ELSE f[Pick(t)] + F(t \ {Pick(t)})[t \ {Pick(t)}]
           g == [t \in SUBSET s |-> v(t)]
<1>4. ASSUME NEW u \in SUBSET s, u # s PROVE v(u) = F(u)[u]
  <2>1. F(u)[u] = IF u = {} THEN 0 ELSE f[Pick(u)] + F(u)[u \ {Pick(u)}]
    BY <1>3, <1>4 DEF IsFold
  <2>2. CASE u = {}
    BY <2>1, <2>2
  <2>3. CASE u # {}
    <3>1. PICK w : w = u \ {Pick(u)}
      OBVIOUS
    <3>2. Pick(u) \in u
      BY <2>3 DEF Pick
    <3>3. w \in SUBSET s /\ w # s /\ w \in SUBSET (u \cap w) /\ u \in SUBSET S /\ w \in SUBSET S
      BY <3>1, <3>2, <1>2, <1>4
    <3>4. PICK fu : fu = F(u) /\ IsFold(fu, f, u)
      BY <1>3, <1>4
    <3>5. PICK fw : fw = F(w) /\ IsFold(fw, f, w)
      BY <1>3, <3>3
    <3>6. fu[w] = fw[w]
      BY <3>3, <3>4, <3>5, FoldsAgree
    <3> QED BY <2>1, <2>3, <3>1, <3>4, <3>5, <3>6
  <2> QED BY <2>2, <2>3
<1>5. ASSUME NEW t \in SUBSET s
      PROVE  v(t) = IF t = {} THEN 0 ELSE f[Pick(t)] + g[t \ {Pick(t)}]
  <2>1. CASE t = {}
    BY <2>1
  <2>2. CASE t # {}
    <3> DEFINE w == t \ {Pick(t)}
    <3>1. Pick(t) \in t
      BY <2>2 DEF Pick
    <3>2. w \in SUBSET s /\ w # s
      BY <3>1
    <3>3. g[w] = F(w)[w]
      <4>1. g[w] = v(w)
        BY <3>2
      <4> HIDE DEF w, g, v
      <4> QED BY <4>1, <3>2, <1>4
    <3> QED BY <2>2, <3>3
  <2> QED BY <2>1, <2>2
<1>6. IsFold(g, f, s)
  <2> HIDE DEF v
  <2> QED BY <1>5 DEF IsFold
<1> QED BY <1>2, <1>6

(* The sum is what it computes. *)
LEMMA SumIsFold ==
    ASSUME NEW f, NEW S, IsFiniteSet(S)
    PROVE  \E g : IsFold(g, f, S) /\ SumOver(f, S) = g[S]
<1> DEFINE g == CHOOSE g : IsFold(g, f, S)
<1>1. IsFold(g, f, S)
  BY FoldExists
<1>2. SumOver(f, S) = g[S]
  BY DEF SumOver, MapThenSumSet, MapThenFoldSet, IsFold, Pick
<1> QED BY <1>1, <1>2

-----------------------------------------------------------------------------
(* Nothing adds up to nothing. *)
LEMMA SumEmpty == ASSUME NEW f PROVE SumOver(f, {}) = 0
<1>1. IsFiniteSet({})
  BY FS_EmptySet
<1>2. PICK g : IsFold(g, f, {}) /\ SumOver(f, {}) = g[{}]
  BY <1>1, SumIsFold
<1> QED BY <1>2 DEF IsFold

(* The member that the fold picks first. *)
LEMMA SumPick ==
    ASSUME NEW f, NEW S, IsFiniteSet(S), S # {}
    PROVE  /\ Pick(S) \in S
           /\ SumOver(f, S) = f[Pick(S)] + SumOver(f, S \ {Pick(S)})
<1> DEFINE x == Pick(S)
           R == S \ {x}
<1>1. x \in S
  BY DEF Pick
<1>2. IsFiniteSet(R) /\ R \in SUBSET S /\ R \in SUBSET (S \cap R) /\ S \in SUBSET S
  BY FS_RemoveElement
<1>3. PICK g : IsFold(g, f, S) /\ SumOver(f, S) = g[S]
  BY SumIsFold
<1> HIDE DEF R, x
<1>4. PICK h : IsFold(h, f, R) /\ SumOver(f, R) = h[R]
  BY <1>2, SumIsFold
<1>5. g[R] = h[R]
  BY <1>2, <1>3, <1>4, FoldsAgree
<1>6. g[S] = f[x] + g[R]
  BY <1>3 DEF IsFold, R, x
<1> QED BY <1>1, <1>3, <1>4, <1>5, <1>6 DEF R, x

(* Sums of integers are integers, and sums of natural numbers natural. *)
LEMMA SumType ==
    ASSUME NEW f, NEW S, IsFiniteSet(S), \A x \in S : f[x] \in Int
    PROVE  /\ SumOver(f, S) \in Int
           /\ (\A x \in S : f[x] \in Nat) => SumOver(f, S) \in Nat
<1> DEFINE Bad(s) == \/ SumOver(f, s) \notin Int
                     \/ (\A x \in S : f[x] \in Nat) /\ SumOver(f, s) \notin Nat
           T == {s \in SUBSET S : Bad(s)}
<1> SUFFICES ASSUME T # {} PROVE FALSE
  OBVIOUS
<1>1. PICK s \in T : \A y \in T : y \subseteq s => y = s
  <2>1. T \in SUBSET (SUBSET S)
    OBVIOUS
  <2> HIDE DEF T
  <2> QED BY <2>1, SmallestSubset
<1>2. s \in SUBSET S /\ Bad(s) /\ IsFiniteSet(s)
  BY <1>1, FS_Subset
<1>3. CASE s = {}
  BY <1>2, <1>3, SumEmpty
<1>4. CASE s # {}
  <2> DEFINE x == Pick(s)
             u == s \ {x}
  <2>1. x \in s /\ SumOver(f, s) = f[x] + SumOver(f, u)
    BY <1>2, <1>4, SumPick
  <2>2. u \in SUBSET S /\ u \subseteq s /\ u # s
    BY <1>2, <2>1
  <2> HIDE DEF x, u
  <2>3. ~Bad(u)
    BY <1>1, <2>2
  <2> QED BY <1>2, <2>1, <2>3
<1> QED BY <1>3, <1>4

(* Any member may be taken out first. *)
LEMMA SumMember ==
    ASSUME NEW f, NEW S, IsFiniteSet(S), \A x \in S : f[x] \in Int, NEW y \in S
    PROVE  SumOver(f, S) = f[y] + SumOver(f, S \ {y})
<1> DEFINE T == {s \in SUBSET S : \E z \in s : SumOver(f, s) # f[z] + SumOver(f, s \ {z})}
<1> SUFFICES ASSUME T # {} PROVE FALSE
  OBVIOUS
<1>1. PICK s \in T : \A t \in T : t \subseteq s => t = s
  <2>1. T \in SUBSET (SUBSET S)
    OBVIOUS
  <2> HIDE DEF T
  <2> QED BY <2>1, SmallestSubset
<1>2. PICK z \in s : SumOver(f, s) # f[z] + SumOver(f, s \ {z})
  BY <1>1
<1> DEFINE x == Pick(s)
           a == s \ {x}
           b == s \ {z}
           c == a \ {z}
<1>3. s \in SUBSET S /\ IsFiniteSet(s) /\ s # {}
  BY <1>1, FS_Subset
<1>4. x \in s /\ SumOver(f, s) = f[x] + SumOver(f, a)
  BY <1>3, SumPick
<1>5. x # z
  BY <1>2, <1>4
<1>6. /\ a \in SUBSET S /\ a \subseteq s /\ a # s /\ z \in a
      /\ b \in SUBSET S /\ b \subseteq s /\ b # s /\ x \in b
      /\ c = b \ {x} /\ c \in SUBSET S
  BY <1>3, <1>4, <1>5
<1>7. SumOver(f, a) = f[z] + SumOver(f, c)
  BY <1>1, <1>6
<1>8. SumOver(f, b) = f[x] + SumOver(f, c)
  <2>1. SumOver(f, b) = f[x] + SumOver(f, b \ {x})
    <3> HIDE DEF x, c
    <3> QED BY <1>1, <1>6
  <2> QED BY <2>1, <1>6
<1>9. f[x] \in Int /\ f[z] \in Int /\ SumOver(f, c) \in Int
  <2>1. IsFiniteSet(c)
    BY <1>6, FS_Subset
  <2>2. \A k \in c : f[k] \in Int
    BY <1>6
  <2>3. SumOver(f, c) \in Int
    <3> HIDE DEF c
    <3> QED BY <2>1, <2>2, SumType
  <2> QED BY <1>3, <1>4, <2>3
<1> HIDE DEF x, a, b, c
<1>10. SumOver(f, s) = f[z] + SumOver(f, b)
  BY <1>4, <1>7, <1>8, <1>9
<1> QED BY <1>2, <1>10 DEF b

(* A member that is added, or was there. *)
LEMMA SumAdd ==
    ASSUME NEW f, NEW S, IsFiniteSet(S), \A x \in S : f[x] \in Int, NEW y, f[y] \in Int
    PROVE  SumOver(f, S \cup {y}) = SumOver(f, S) + IF y \in S THEN 0 ELSE f[y]
<1>1. SumOver(f, S) \in Int
  BY SumType
<1>2. CASE y \in S
  <2>1. S \cup {y} = S
    BY <1>2
  <2> QED BY <1>1, <1>2, <2>1
<1>3. CASE y \notin S
  <2> DEFINE R == S \cup {y}
  <2>1. IsFiniteSet(R) /\ y \in R /\ R \ {y} = S /\ \A x \in R : f[x] \in Int
    BY <1>3, FS_AddElement
  <2> HIDE DEF R
  <2>2. SumOver(f, R) = f[y] + SumOver(f, R \ {y})
    BY <2>1, SumMember
  <2>3. SumOver(f, S \cup {y}) = f[y] + SumOver(f, S)
    BY <2>1, <2>2 DEF R
  <2> HIDE DEF SumOver
  <2> QED BY <1>1, <1>3, <2>3
<1> QED BY <1>2, <1>3

(* Sums of natural numbers: a smaller set, and two sets together. *)
LEMMA SumUnion ==
    ASSUME NEW f, NEW S, IsFiniteSet(S), NEW R, IsFiniteSet(R),
           \A x \in S \cup R : f[x] \in Nat
    PROVE  /\ SumOver(f, S \cup R) <= SumOver(f, S) + SumOver(f, R)
           /\ SumOver(f, S) <= SumOver(f, S \cup R)
<1> DEFINE Good(t) == /\ SumOver(f, S \cup t) <= SumOver(f, S) + SumOver(f, t)
                      /\ SumOver(f, S) <= SumOver(f, S \cup t)
           T == {t \in SUBSET R : ~Good(t)}
<1> SUFFICES ASSUME T # {} PROVE FALSE
  OBVIOUS
<1>0. Nat \subseteq Int
  OBVIOUS
<1>1. PICK s \in T : \A t \in T : t \subseteq s => t = s
  <2>1. T \in SUBSET (SUBSET R)
    OBVIOUS
  <2> HIDE DEF T
  <2> QED BY <2>1, SmallestSubset
<1>2. s \in SUBSET R /\ ~Good(s) /\ IsFiniteSet(s)
  BY <1>1, FS_Subset
<1>3. \A A \in SUBSET (S \cup R) : IsFiniteSet(A) /\ SumOver(f, A) \in Nat
  <2> SUFFICES ASSUME NEW A \in SUBSET (S \cup R) PROVE IsFiniteSet(A) /\ SumOver(f, A) \in Nat
    OBVIOUS
  <2>1. IsFiniteSet(A)
    BY FS_Union, FS_Subset
  <2>2. \A x \in A : f[x] \in Nat /\ f[x] \in Int
    OBVIOUS
  <2> QED BY <2>1, <2>2, SumType
<1>4. CASE s = {}
  <2>1. S \cup s = S /\ SumOver(f, s) = 0 /\ SumOver(f, S) \in Nat
    BY <1>3, <1>4, SumEmpty
  <2> QED BY <1>2, <2>1
<1>5. CASE s # {}
  <2>1. PICK x \in s : TRUE
    BY <1>5
  <2> DEFINE u == s \ {x}
             A == S \cup u
  <2>2. u \in SUBSET R /\ u \subseteq s /\ u # s
    BY <1>2, <2>1
  <2>3. Good(u)
    BY <1>1, <2>2
  <2>4. SumOver(f, s) = f[x] + SumOver(f, u)
    BY <1>2, SumMember
  <2>5. S \cup s = A \cup {x} /\ A \in SUBSET (S \cup R) /\ f[x] \in Int /\ f[x] \in Nat
    BY <1>2, <2>1
  <2> HIDE DEF A, u
  <2>6. SumOver(f, A \cup {x}) = SumOver(f, A) + IF x \in A THEN 0 ELSE f[x]
    <3>1. IsFiniteSet(A) /\ \A k \in A : f[k] \in Int
      BY <1>3, <2>5
    <3> QED BY <2>5, <3>1, SumAdd
  <2>7. SumOver(f, S) \in Nat /\ SumOver(f, u) \in Nat /\ SumOver(f, A) \in Nat
    BY <1>3, <2>2, <2>5
  <2>8. SumOver(f, A) <= SumOver(f, S) + SumOver(f, u) /\ SumOver(f, S) <= SumOver(f, A)
    BY <2>3 DEF A
  <2>9. SumOver(f, S \cup s) = SumOver(f, A) + IF x \in A THEN 0 ELSE f[x]
    BY <2>5, <2>6
  <2> QED BY <1>2, <2>4, <2>5, <2>7, <2>8, <2>9
<1> QED BY <1>4, <1>5
=============================================================================
