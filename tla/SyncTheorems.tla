---------------------------- MODULE SyncTheorems ----------------------------
(***************************************************************************)
(* What holds of Sync for every lattice, set of clients and bound.         *)
(*                                                                         *)
(* A block is put on a node's block list when the node refuses it with an  *)
(* error that is not on the list of retryable ones.  That this is never a  *)
(* steady block that the network makes final rests on an invariant of the  *)
(* ledger: what a node holds final are winners.  A block appended later    *)
(* could only be below the final height of its account by branching off    *)
(* the finalized part of the chain, and the chains do not branch.          *)
(*                                                                         *)
(* Requests to one peer overlap, so a count of rejections passes the       *)
(* threshold; the invariant counts the answers that are still out.         *)
(***************************************************************************)
EXTENDS Sync, FiniteInduction

(* Chains of known blocks, each with its parents, none sharing a position. *)
Sound(chain) ==
    /\ chain \subseteq Block
    /\ IsFiniteSet(chain)
    /\ \A b \in chain :
          /\ Parents(b) \subseteq chain
          /\ \A c \in chain : Pos(b) = Pos(c) => b = c

(* What sync relies on of a ledger: the final height of an account is that *)
(* of one of its blocks, and what is final has won.                        *)
LedgerOK(s) ==
    /\ s = [chain |-> s.chain, known |-> s.known, staged |-> s.staged,
            conflict |-> s.conflict, finalHeight |-> s.finalHeight]
    /\ Sound(s.chain)
    /\ s.chain \subseteq s.known
    /\ s.finalHeight \in [Account -> Nat]
    /\ \A a \in Account : s.finalHeight[a] > 0 =>
          \E w \in s.chain : Acct[w] = a /\ Height[w] = s.finalHeight[a]
    /\ \A b \in s.chain : IsFinalized(s, b) => b \in Winner

-----------------------------------------------------------------------------
(* Chains *)

(* What the lattice assumes of a block.                                    *)
LEMMA BlockFacts ==
    ASSUME NEW b \in Block
    PROVE  /\ Acct[b] \in Account /\ Height[b] \in Nat /\ Height[b] > 0
           /\ Prev[b] \in Block \cup {Root} /\ Anc[b] \subseteq Block
           /\ (Prev[b] # Root => Prev[b] \in Parents(b))
<1>1. None \notin Block
  BY BlockAssumption
<1> QED BY <1>1, BlockAssumption, LineageAssumption DEF Parents

(* A block on a sound chain has all its ancestors there: of the missing    *)
(* ones, the highest would be the parent of a block that is there.         *)
LEMMA AncestorsThere ==
    ASSUME NEW chain, Sound(chain), NEW b \in chain
    PROVE  Anc[b] \subseteq chain
<1> DEFINE A == Anc[b] \ chain
           H == {Height[a] : a \in A}
<1>1. b \in Block
  BY DEF Sound
<1>2. \A a \in Anc[b] : a \in Block /\ Height[a] \in Nat /\ Height[a] < Height[b]
  BY <1>1, BlockFacts, LineageAssumption
<1>3. Height[b] \in Nat
  BY <1>1, BlockFacts
<1> SUFFICES ASSUME A # {} PROVE FALSE
  OBVIOUS
<1>4. H \in SUBSET (0..Height[b]) /\ H # {}
  BY <1>2, <1>3
<1>5. PICK m \in H : \A k \in H : k <= m
  <2> HIDE DEF H
  <2> QED BY <1>3, <1>4, Greatest
<1>6. PICK a \in A : Height[a] = m
  OBVIOUS
<1>7. PICK d \in Anc[b] \cup {b} : Prev[d] = a
  BY <1>1, LineageAssumption
<1>8. d \in Block /\ a \in Block /\ a # Root
  BY <1>1, <1>2, BlockAssumption
<1>9. a \in Anc[d]
  BY <1>7, <1>8, LineageAssumption
<1>10. Height[a] < Height[d] /\ Height[d] \in Nat /\ Height[a] \in Nat
  BY <1>8, <1>9, LineageAssumption, BlockFacts
<1>11. d \in chain
  BY <1>5, <1>6, <1>10
<1>12. a \in Parents(d)
  BY <1>7, <1>8, BlockFacts
<1> QED BY <1>11, <1>12 DEF Sound

(* An ancestor's ancestors are ancestors: a lowest block for which this    *)
(* fails would have a parent for which it fails.                           *)
LEMMA AncestorsNest ==
    ASSUME NEW b \in Block, NEW d \in Anc[b]
    PROVE  Anc[d] \subseteq Anc[b]
<1> DEFINE T == {c \in Block : ~ \A x \in Anc[c] : Anc[x] \subseteq Anc[c]}
           H == {Height[c] : c \in T}
<1> SUFFICES ASSUME T # {} PROVE FALSE
  OBVIOUS
<1>1. H \in SUBSET Nat /\ H # {}
  BY BlockFacts
<1>2. PICK m \in H : \A k \in H : m <= k
  <2> HIDE DEF H
  <2> QED BY <1>1, Least
<1>3. PICK c \in T : Height[c] = m
  OBVIOUS
<1>4. c \in Block /\ Prev[c] # Root /\ Anc[c] = {Prev[c]} \cup Anc[Prev[c]]
  BY LineageAssumption
<1>5. Prev[c] \in Block /\ Height[Prev[c]] < Height[c]
      /\ Height[c] \in Nat /\ Height[Prev[c]] \in Nat
  BY <1>4, BlockFacts, LineageAssumption
<1>6. Prev[c] \notin T
  <2> SUFFICES ASSUME Prev[c] \in T PROVE FALSE
    OBVIOUS
  <2>1. Height[Prev[c]] \in H
    OBVIOUS
  <2>2. Height[c] <= Height[Prev[c]]
    BY <1>2, <1>3, <2>1
  <2> HIDE DEF T, H
  <2> QED BY <1>5, <2>2
<1> QED BY <1>4, <1>5, <1>6

(* The blocks of an account form a line: of two, the lower is an ancestor  *)
(* of the other.                                                           *)
LEMMA Linear ==
    ASSUME NEW chain, Sound(chain), NEW b \in chain, NEW w \in chain,
           Acct[b] = Acct[w], Height[b] <= Height[w]
    PROVE  b = w \/ b \in Anc[w]
<1> DEFINE B == Anc[b] \cup {b}
           W == Anc[w] \cup {w}
           S == B \ W
           H == {Height[d] : d \in S}
<1>1. b \in Block /\ w \in Block /\ B \subseteq chain /\ W \subseteq chain /\ chain \subseteq Block
  BY AncestorsThere DEF Sound
<1> SUFFICES ASSUME S # {} PROVE FALSE
  OBVIOUS
<1>2. H \in SUBSET Nat /\ H # {}
  BY <1>1, BlockFacts
<1>3. PICK m \in H : \A k \in H : m <= k
  <2> HIDE DEF H
  <2> QED BY <1>2, Least
<1>4. PICK d \in S : Height[d] = m
  OBVIOUS
<1>5. d \in Block /\ d \in chain /\ Acct[d] = Acct[b]
  BY <1>1, LineageAssumption
<1>6. \A x \in W : Prev[x] # Prev[d]
  <2> SUFFICES ASSUME NEW x \in W, Prev[x] = Prev[d] PROVE FALSE
    OBVIOUS
  <2>1. x \in chain /\ Acct[x] = Acct[w]
    BY <1>1, LineageAssumption
  <2>2. x = d
    BY <1>5, <2>1 DEF Sound, Pos
  <2> QED BY <2>2
<1>7. Prev[d] # Root
  BY <1>1, <1>6, LineageAssumption
<1>8. Prev[d] \in Anc[b] /\ Prev[d] \in Anc[d]
  <2>1. Prev[d] \in Anc[d]
    BY <1>5, <1>7, LineageAssumption
  <2>2. CASE d = b
    BY <2>1, <2>2
  <2>3. CASE d \in Anc[b]
    <3>1. Anc[d] \subseteq Anc[b]
      BY <1>1, <2>3, AncestorsNest
    <3> QED BY <2>1, <3>1
  <2> QED BY <2>1, <2>2, <2>3
<1>9. Height[Prev[d]] < Height[d] /\ Height[Prev[d]] \in Nat /\ Height[d] \in Nat
  BY <1>5, <1>8, LineageAssumption, BlockFacts
<1>10. Prev[d] \in W
  BY <1>3, <1>4, <1>8, <1>9
<1>11. Prev[d] = w
  BY <1>1, <1>6, <1>10, LineageAssumption
<1>12. Height[w] < Height[b] /\ Height[w] \in Nat /\ Height[b] \in Nat
  BY <1>1, <1>8, <1>11, LineageAssumption, BlockFacts
<1> QED BY <1>12

(* A block that fits leaves the chains sound. *)
LEMMA SoundExtended ==
    ASSUME NEW s, NEW chain, Sound(chain), NEW b \in Block, FitsChain(s, chain, b)
    PROVE  Sound(chain \cup {b})
<1>1. Src[b] \in Block \cup {None} /\ Prev[b] \in Block \cup {Root}
  BY BlockAssumption
<1>2. Parents(b) \subseteq chain
  BY <1>1 DEF FitsChain, IsPending, Parents
<1>3. \A c \in chain : Pos(c) # Pos(b)
  BY DEF FitsChain
<1>4. IsFiniteSet(chain \cup {b})
  BY FS_AddElement DEF Sound
<1> QED BY <1>2, <1>3, <1>4 DEF Sound

(* A rollback takes with it every block that rests on one it takes. *)
LEMMA SoundUnwound ==
    ASSUME NEW s, Sound(s.chain), NEW l
    PROVE  Sound(s.chain \ Tainted(s, l))
<1>1. ASSUME NEW b \in s.chain \ Tainted(s, l), NEW d \in Parents(b)
      PROVE  d \in s.chain \ Tainted(s, l)
  <2>1. b \in Block /\ d \in s.chain /\ b # l /\ l \notin Below[b]
    BY DEF Sound, Tainted
  <2>2. d \in Below[b] /\ Below[d] \subseteq Below[b]
    BY <1>1, <2>1, BelowAssumption
  <2> QED BY <2>1, <2>2 DEF Tainted
<1>2. IsFiniteSet(s.chain \ Tainted(s, l))
  BY FS_Subset DEF Sound
<1> QED BY <1>1, <1>2 DEF Sound

-----------------------------------------------------------------------------
(* What the operations do to a ledger *)

(* A block that is appended is above all that is final: below, it would be *)
(* an ancestor of a block that is there.                                   *)
LEMMA AttachOK ==
    ASSUME NEW s, LedgerOK(s), NEW b \in Block, FitsChain(s, s.chain, b)
    PROVE  LedgerOK(Attach(s, b))
<1> DEFINE t == Attach(s, b)
<1>1. t = [chain |-> s.chain \cup {b}, known |-> s.known \cup {b}, staged |-> s.staged,
           conflict |-> s.conflict, finalHeight |-> s.finalHeight]
  <2>1. s = [chain |-> s.chain, known |-> s.known, staged |-> s.staged,
             conflict |-> s.conflict, finalHeight |-> s.finalHeight]
    BY DEF LedgerOK
  <2>2. t = [s EXCEPT !.chain = s.chain \cup {b}, !.known = s.known \cup {b}]
    BY DEF Attach
  <2> QED BY <2>1, <2>2
<1> HIDE DEF t
<1>2. Sound(t.chain)
  BY <1>1, SoundExtended DEF LedgerOK
<1>3. ~IsFinalized(t, b)
  <2> SUFFICES ASSUME IsFinalized(t, b) PROVE FALSE
    OBVIOUS
  <2>1. /\ Height[b] <= s.finalHeight[Acct[b]] /\ Acct[b] \in Account
        /\ Height[b] \in Nat /\ Height[b] > 0 /\ s.finalHeight[Acct[b]] \in Nat
    BY <1>1, BlockFacts DEF IsFinalized, LedgerOK
  <2>2. PICK w \in s.chain : Acct[w] = Acct[b] /\ Height[w] = s.finalHeight[Acct[b]]
    BY <2>1 DEF LedgerOK
  <2>3. b = w \/ b \in Anc[w]
    BY <1>1, <1>2, <2>1, <2>2, Linear
  <2>4. b \in s.chain
    BY <2>3, AncestorsThere DEF LedgerOK
  <2> QED BY <2>4 DEF FitsChain
<1>4. \A c \in s.chain : IsFinalized(t, c) => IsFinalized(s, c)
  BY <1>1 DEF IsFinalized
<1>5. \A c \in t.chain : IsFinalized(t, c) => c \in Winner
  BY <1>1, <1>3, <1>4 DEF LedgerOK
<1> QED BY <1>1, <1>2, <1>5 DEF LedgerOK, t

(* Staging a sibling changes neither the chains nor what is final. *)
LEMMA StageOK ==
    ASSUME NEW s, LedgerOK(s), NEW b
    PROVE  LedgerOK(StageCandidate(s, b))
<1> DEFINE t == RecordConflict(s, b)
           u == StageCandidate(s, b)
<1>1. /\ t = [chain |-> s.chain, known |-> s.known, staged |-> s.staged,
              conflict |-> t.conflict, finalHeight |-> s.finalHeight]
  BY DEF RecordConflict, LedgerOK
<1>2. /\ u = [chain |-> s.chain, known |-> s.known, staged |-> u.staged,
              conflict |-> u.conflict, finalHeight |-> s.finalHeight]
  <2> HIDE DEF t
  <2>1. u = IF b \in t.conflict[Pos(b)] THEN [t EXCEPT !.staged = @ \cup {b}] ELSE t
    BY DEF StageCandidate, t
  <2> QED BY <1>1, <2>1
<1> HIDE DEF u
<1>3. \A c : IsFinalized(u, c) = IsFinalized(s, c)
  BY <1>2 DEF IsFinalized
<1> QED BY <1>2, <1>3 DEF LedgerOK, u

(* The handler of a received block keeps chains sound.                     *)
LEMMA AddSyncedBlockOK ==
    ASSUME NEW n, NEW s, LedgerOK(s), NEW b
    PROVE  LedgerOK(AddSyncedBlock(n, s, b))
<1>1. ASSUME CanAppend(s, b) PROVE LedgerOK(Attach(s, b))
  BY <1>1, AttachOK, BlockAssumption DEF CanAppend
<1> QED BY <1>1, StageOK DEF AddSyncedBlock, Accepts, Appends

(* A winner whose parents are final goes final on sound chains that keep   *)
(* what was final.                                                         *)
LEMMA WinnerOK ==
    ASSUME NEW s, LedgerOK(s), NEW w \in Winner, DepsFinalized(s, w),
           NEW chain, Sound(chain), w \in chain, chain \subseteq s.chain \cup {w},
           Finalized(s) \subseteq chain,
           NEW t, t = [chain |-> chain, known |-> s.known \cup {w}, staged |-> t.staged,
                       conflict |-> t.conflict,
                       finalHeight |-> [s.finalHeight EXCEPT ![Acct[w]] = Height[w]]]
    PROVE  LedgerOK(t)
<1>1. w \in Block /\ Acct[w] \in Account /\ Height[w] \in Nat
  BY SyncAssumption, BlockAssumption, BlockFacts
<1>2. /\ t.chain = chain /\ t.known = s.known \cup {w}
      /\ t.finalHeight = [s.finalHeight EXCEPT ![Acct[w]] = Height[w]]
      /\ t.finalHeight \in [Account -> Nat] /\ s.finalHeight \in [Account -> Nat]
  BY <1>1 DEF LedgerOK
<1>3. ASSUME NEW a \in Account, t.finalHeight[a] > 0
      PROVE  \E c \in t.chain : Acct[c] = a /\ Height[c] = t.finalHeight[a]
  <2>1. CASE a = Acct[w]
    BY <1>1, <1>2, <2>1
  <2>2. CASE a # Acct[w]
    <3>1. PICK c \in s.chain : Acct[c] = a /\ Height[c] = s.finalHeight[a]
      BY <1>2, <1>3, <2>2 DEF LedgerOK
    <3>2. c \in Block /\ Height[c] \in Nat
      BY BlockFacts DEF LedgerOK, Sound
    <3>3. c \in Finalized(s)
      BY <3>1, <3>2 DEF Finalized, IsFinalized
    <3> QED BY <1>2, <2>2, <3>1, <3>3
  <2> QED BY <2>1, <2>2
<1>4. ASSUME NEW c \in t.chain, IsFinalized(t, c) PROVE c \in Winner
  <2>1. c \in Block /\ (c = w \/ c \in s.chain) /\ Height[c] <= t.finalHeight[Acct[c]]
        /\ Height[c] \in Nat /\ Acct[c] \in Account
    BY <1>2, <1>4, BlockFacts DEF IsFinalized, Sound
  <2>2. CASE c = w
    BY <2>2
  <2>3. CASE c # w /\ Acct[c] # Acct[w]
    <3>1. IsFinalized(s, c)
      BY <1>2, <2>1, <2>3 DEF IsFinalized
    <3> QED BY <2>1, <2>3, <3>1 DEF LedgerOK
  <2>4. CASE c # w /\ Acct[c] = Acct[w]
    <3>1. Height[c] <= Height[w]
      BY <1>1, <1>2, <2>1, <2>4
    <3>2. c \in Anc[w]
      BY <1>2, <2>4, <3>1, Linear
    <3>3. Prev[w] # Root /\ Anc[w] = {Prev[w]} \cup Anc[Prev[w]]
      BY <1>1, <3>2, LineageAssumption
    <3>4. Prev[w] \in Block /\ IsFinalized(s, Prev[w])
      BY <1>1, <3>3, BlockFacts DEF DepsFinalized
    <3>5. Height[c] <= Height[Prev[w]] /\ Acct[Prev[w]] = Acct[w]
      <4>1. Acct[Prev[w]] = Acct[w]
        BY <1>1, <3>3, LineageAssumption
      <4>2. c = Prev[w] \/ Height[c] < Height[Prev[w]]
        BY <3>2, <3>3, <3>4, LineageAssumption
      <4> QED BY <2>1, <3>4, <4>1, <4>2, BlockFacts
    <3>6. IsFinalized(s, c)
      <4>1. Height[Prev[w]] <= s.finalHeight[Acct[w]] /\ Height[Prev[w]] \in Nat
        BY <3>4, <3>5, BlockFacts DEF IsFinalized
      <4>2. Height[c] <= s.finalHeight[Acct[c]]
        BY <1>1, <1>2, <2>1, <2>4, <3>5, <4>1
      <4> QED BY <2>1, <2>4, <4>2 DEF IsFinalized
    <3> QED BY <2>1, <2>4, <3>6 DEF LedgerOK
  <2> QED BY <2>2, <2>3, <2>4
<1>5. t.chain \subseteq t.known
  BY <1>2 DEF LedgerOK
<1> QED BY <1>2, <1>3, <1>4, <1>5 DEF LedgerOK

(* The step of Finalize. *)
LEMMA DecidedOK ==
    ASSUME NEW s, LedgerOK(s), NEW w \in Winner, DepsFinalized(s, w),
           ChildAt(s, Pos(w)) = {} => FitsChain(s, s.chain, w),
           \A l \in ChildAt(s, Pos(w)) \ {w} : CanSwap(s, l, w)
    PROVE  LedgerOK(Decided(s, w))
<1> DEFINE losers == ChildAt(s, Pos(w)) \ {w}
           l == CHOOSE x \in losers : TRUE
           t == IF losers = {} THEN Attach(s, w) ELSE Swap(s, l, w)
           u == Decided(s, w)
           chain == t.chain
<1>1. w \in Block
  BY SyncAssumption, BlockAssumption
<1>2. Sound(s.chain)
  BY DEF LedgerOK
<1>3. /\ t = [chain |-> chain, known |-> s.known \cup {w}, staged |-> s.staged,
              conflict |-> s.conflict, finalHeight |-> s.finalHeight]
      /\ chain = IF losers = {} THEN s.chain \cup {w}
                 ELSE (s.chain \ Tainted(s, l)) \cup {w}
  <2> HIDE DEF losers, l
  <2> QED BY DEF Attach, Swap, LedgerOK
<1>4. u = [t EXCEPT !.finalHeight[Acct[w]] = Height[w],
                    !.conflict[Pos(w)] = {},
                    !.staged = @ \ s.conflict[Pos(w)]]
  BY DEF Decided
<1> HIDE DEF t, u
<1>5. u = [chain |-> chain, known |-> s.known \cup {w}, staged |-> u.staged,
           conflict |-> u.conflict,
           finalHeight |-> [s.finalHeight EXCEPT ![Acct[w]] = Height[w]]]
  <2> HIDE DEF chain
  <2> QED BY <1>3, <1>4
<1>6. CASE losers = {}
  <2>1. chain = s.chain \cup {w}
    BY <1>3, <1>6
  <2>2. Sound(chain)
    <3>1. CASE w \in s.chain
      <4>1. chain = s.chain
        BY <2>1, <3>1
      <4> QED BY <1>2, <4>1
    <3>2. CASE w \notin s.chain
      <4>1. ChildAt(s, Pos(w)) = {}
        BY <1>6, <3>2 DEF ChildAt
      <4> QED BY <1>1, <1>2, <2>1, <4>1, SoundExtended
    <3> QED BY <3>1, <3>2
  <2>3. Finalized(s) \subseteq chain
    BY <2>1 DEF Finalized, IsFinalized
  <2> HIDE DEF chain
  <2> QED BY <1>5, <2>1, <2>2, <2>3, WinnerOK DEF u
<1>7. CASE losers # {}
  <2>1. chain = (s.chain \ Tainted(s, l)) \cup {w}
    BY <1>3, <1>7
  <2>2. CanSwap(s, l, w)
    BY <1>7
  <2>3. Sound(chain)
    BY <1>1, <1>2, <2>1, <2>2, SoundExtended, SoundUnwound DEF CanSwap
  <2>4. Finalized(s) \subseteq chain
    BY <2>1, <2>2 DEF CanSwap, CanUnwind, Finalized, IsFinalized
  <2> HIDE DEF chain, l
  <2> QED BY <1>5, <2>1, <2>3, <2>4, WinnerOK DEF u
<1> QED BY <1>6, <1>7

-----------------------------------------------------------------------------
(* The invariant *)

Maps == UNION {[A -> Block] : A \in SUBSET Account}

(* What the rejection counts may reach. *)
Limit == DropThreshold - 1 + Cardinality(Slot)

Tracker ==
    [dirty : BOOLEAN, due : BOOLEAN, ticking : BOOLEAN,
     last : [Node -> {None} \cup Maps],
     rejections : [Node -> [Account -> 0..Limit]],
     incapable : SUBSET Node, cooling : SUBSET Node]

SessionOK(e) ==
    /\ e = [x \in {"phase", "frontiers", "pending", "retryable", "size", "round"} |-> e[x]]
    /\ e.round \in 0..MaxRetries

(* The requests of x to y that wait for an answer and name account a. *)
Open(x, y, a) ==
    {k \in Slot : /\ session[x][<<y, k>>].phase = "asked"
                  /\ a \in DOMAIN session[x][<<y, k>>].frontiers}

(* A block list that is not too long and holds no steady winner. *)
ListOK(q) ==
    /\ \E X : q \in Seq(X)
    /\ Len(q) <= MaxQuarantine
    /\ \A b \in ToSet(q) \cap Winner : ~Steady(b)

LedgersOK  == DOMAIN node = Node /\ \A n \in Node : LedgerOK(node[n])

SessionsOK ==
    /\ session = [n \in Client |-> [c \in Call |-> session[n][c]]]
    /\ \A n \in Client, c \in Call : SessionOK(session[n][c])

(* Each answer that is still out may add one to the counts it names. *)
CountsOK ==
    \A x \in Client, y \in Node, a \in Account :
        tracker[x].rejections[y][a] + Cardinality(Open(x, y, a)) <= Limit

ListsOK == DOMAIN quarantine = Client /\ \A n \in Client : ListOK(quarantine[n])

SyncInv ==
    /\ LedgersOK
    /\ tracker \in [Node -> Tracker]
    /\ SessionsOK
    /\ CountsOK
    /\ ListsOK

(* The frontiers of a ledger are blocks: an account of a finite chain has  *)
(* a highest one.                                                          *)
LEMMA FrontiersType ==
    ASSUME NEW s, LedgerOK(s)
    PROVE  Frontiers(s) \in Maps
<1> DEFINE A == {Acct[b] : b \in s.chain}
<1>1. s.chain \subseteq Block /\ IsFiniteSet(s.chain)
  BY DEF LedgerOK, Sound
<1>2. A \subseteq Account
  BY <1>1, BlockFacts
<1>3. ASSUME NEW a \in A
      PROVE  \E b \in ChainOf(s, a) : \A c \in ChainOf(s, a) : Height[c] <= Height[b]
  <2> DEFINE C == ChainOf(s, a)
             H == {Height[b] : b \in C}
  <2>1. C \subseteq Block /\ IsFiniteSet(C) /\ C # {}
    BY <1>1, FS_Subset DEF ChainOf
  <2>2. IsFiniteSet(H) /\ H # {} /\ H \in SUBSET Nat
    <3>1. H # {} /\ H \in SUBSET Nat
      BY <2>1, BlockFacts
    <3>2. [b \in C |-> Height[b]] \in Surjection(C, H)
      BY DEF Surjection
    <3> HIDE DEF H, C
    <3> QED BY <2>1, <3>1, <3>2, FS_Surjection
  <2>3. PICK m \in H : \A k \in H : k <= m
    <3> HIDE DEF H
    <3> QED BY <2>2, FiniteGreatest
  <2> QED BY <2>3
<1>4. \A a \in A : (CHOOSE b \in ChainOf(s, a) : \A c \in ChainOf(s, a) : Height[c] <= Height[b])
                      \in Block
  <2> SUFFICES ASSUME NEW a \in A
               PROVE  (CHOOSE b \in ChainOf(s, a) : \A c \in ChainOf(s, a) : Height[c] <= Height[b])
                         \in ChainOf(s, a)
    BY <1>1 DEF ChainOf
  <2> QED BY <1>3
<1>5. Frontiers(s) \in [A -> Block]
  BY <1>4 DEF Frontiers
<1> QED BY <1>2, <1>5 DEF Maps

(* The constants' types, from the assumptions.                             *)
LEMMA Constants ==
    /\ Client \subseteq Node /\ Winner \subseteq FullyValid /\ FullyValid \subseteq Block
    /\ DropThreshold \in Nat /\ DropThreshold > 0
    /\ MaxRetries \in Nat /\ MaxRetries > 0
    /\ MaxQuarantine \in Nat /\ MaxQuarantine > 0
    /\ IsFiniteSet(Slot) /\ Cardinality(Slot) \in Nat /\ Limit \in Nat
    /\ DropThreshold <= Limit
<1>1. /\ Client \subseteq Node /\ Winner \subseteq FullyValid /\ FullyValid \subseteq Block
      /\ DropThreshold \in Nat /\ DropThreshold > 0
      /\ MaxRetries \in Nat /\ MaxRetries > 0
      /\ MaxQuarantine \in Nat /\ MaxQuarantine > 0
      /\ IsFiniteSet(Slot) /\ Slot # {}
  BY SyncAssumption, BlockAssumption
<1>2. Cardinality(Slot) \in Nat /\ Cardinality(Slot) # 0
  BY <1>1, FS_CardinalityType, FS_EmptySet
<1> QED BY <1>1, <1>2 DEF Limit

(* The requests that are out are among the slots. *)
LEMMA OpenFinite ==
    ASSUME NEW x, NEW y, NEW a
    PROVE  /\ IsFiniteSet(Open(x, y, a)) /\ Cardinality(Open(x, y, a)) \in Nat
           /\ Cardinality(Open(x, y, a)) <= Cardinality(Slot)
<1>1. Open(x, y, a) \subseteq Slot
  BY DEF Open
<1>2. IsFiniteSet(Open(x, y, a)) /\ Cardinality(Open(x, y, a)) <= Cardinality(Slot)
  BY <1>1, Constants, FS_Subset
<1> QED BY <1>2, FS_CardinalityType

(* A fresh tracker is well typed.                                          *)
LEMMA NewTrackerType == NewTracker \in Tracker
BY Constants DEF NewTracker, NoRejections, Tracker

(* Sessions that ask nothing. *)
LEMMA QuietSession ==
    ASSUME NEW phase, phase # "asked", NEW blocks, NEW round \in 0..MaxRetries
    PROVE  /\ SessionOK(Idle) /\ Idle.phase # "asked"
           /\ SessionOK(Spawned) /\ Spawned.phase # "asked"
           /\ SessionOK(Pass(phase, blocks, round))
           /\ Pass(phase, blocks, round).phase # "asked"
<1>1. SessionOK(Idle) /\ Idle.phase # "asked"
  BY Constants DEF SessionOK, Idle
<1>2. SessionOK(Spawned) /\ Spawned.phase # "asked"
  BY Constants DEF SessionOK, Spawned, Idle
<1>3. SessionOK(Pass(phase, blocks, round)) /\ Pass(phase, blocks, round).phase # "asked"
  BY DEF SessionOK, Pass, Idle
<1> QED BY <1>1, <1>2, <1>3

(* No request is added to those that are out, and no count goes up. *)
LEMMA CountKept ==
    ASSUME SyncInv, NEW x \in Client, NEW y \in Node, NEW a \in Account,
           tracker' \in [Node -> Tracker],
           tracker'[x].rejections[y][a] <= tracker[x].rejections[y][a],
           \A k \in Slot : \/ session'[x][<<y, k>>] = session[x][<<y, k>>]
                           \/ session'[x][<<y, k>>].phase # "asked"
    PROVE  tracker'[x].rejections[y][a] + Cardinality(Open(x, y, a)') <= Limit
<1>1. Open(x, y, a)' \subseteq Open(x, y, a)
  BY DEF Open
<1>2. Cardinality(Open(x, y, a)') \in Nat /\ Cardinality(Open(x, y, a)) \in Nat
      /\ Cardinality(Open(x, y, a)') <= Cardinality(Open(x, y, a))
  <2> PICK S : S = Open(x, y, a)'
    OBVIOUS
  <2>1. IsFiniteSet(S) /\ Cardinality(S) <= Cardinality(Open(x, y, a))
    BY <1>1, OpenFinite, FS_Subset
  <2> QED BY <2>1, OpenFinite, FS_CardinalityType
<1>3. tracker[x].rejections[y][a] \in Nat /\ tracker'[x].rejections[y][a] \in Nat
  BY Constants DEF SyncInv, Tracker
<1>4. tracker[x].rejections[y][a] + Cardinality(Open(x, y, a)) <= Limit
  BY DEF SyncInv, CountsOK
<1> QED BY <1>2, <1>3, <1>4, Constants

(* Steps that send no request and count no rejection. *)
LEMMA QuietStep ==
    ASSUME SyncInv,
           session' = [x \in Client |-> [c \in Call |-> session'[x][c]]],
           \A x \in Client, c \in Call :
               \/ session'[x][c] = session[x][c]
               \/ SessionOK(session'[x][c]) /\ session'[x][c].phase # "asked",
           tracker' \in [Node -> Tracker],
           \A x \in Client, y \in Node, a \in Account :
               tracker'[x].rejections[y][a] <= tracker[x].rejections[y][a],
           LedgersOK', ListsOK'
    PROVE  SyncInv'
<1>1. SessionsOK'
  BY DEF SyncInv, SessionsOK
<1>2. CountsOK'
  <2> SUFFICES ASSUME NEW x \in Client, NEW y \in Node, NEW a \in Account
               PROVE  tracker'[x].rejections[y][a] + Cardinality(Open(x, y, a)') <= Limit
    BY DEF CountsOK
  <2>1. \A k \in Slot : \/ session'[x][<<y, k>>] = session[x][<<y, k>>]
                        \/ session'[x][<<y, k>>].phase # "asked"
    BY DEF Call
  <2> QED BY <2>1, CountKept
<1> QED BY <1>1, <1>2 DEF SyncInv

(* One session changes and asks nothing. *)
LEMMA CallStep ==
    ASSUME SyncInv, NEW n \in Client, NEW c \in Call, NEW e, SessionOK(e), e.phase # "asked",
           session' = [session EXCEPT ![n][c] = e],
           tracker' \in [Node -> Tracker],
           \A x \in Node : tracker'[x].rejections = tracker[x].rejections,
           LedgersOK', ListsOK'
    PROVE  SyncInv'
<1>1. session = [x \in Client |-> [d \in Call |-> session[x][d]]]
  BY DEF SyncInv, SessionsOK
<1>2. session' = [x \in Client |-> [d \in Call |-> session'[x][d]]]
  BY <1>1
<1>3. \A x \in Client, d \in Call :
         session'[x][d] = IF x = n /\ d = c THEN e ELSE session[x][d]
  BY <1>1
<1>4. \A x \in Client, y \in Node, a \in Account :
         tracker'[x].rejections[y][a] <= tracker[x].rejections[y][a]
  <2> SUFFICES ASSUME NEW x \in Client, NEW y \in Node, NEW a \in Account
               PROVE  tracker'[x].rejections[y][a] <= tracker[x].rejections[y][a]
    OBVIOUS
  <2>1. tracker[x].rejections[y][a] \in Nat
    BY Constants DEF SyncInv, Tracker
  <2>2. tracker'[x].rejections = tracker[x].rejections
    BY Constants
  <2> QED BY <2>1, <2>2
<1> QED BY <1>2, <1>3, <1>4, QuietStep

(* No session changes. *)
LEMMA StillStep ==
    ASSUME SyncInv, session' = session, tracker' \in [Node -> Tracker],
           \A x \in Node : tracker'[x].rejections = tracker[x].rejections,
           LedgersOK', ListsOK'
    PROVE  SyncInv'
<1>1. session' = [x \in Client |-> [d \in Call |-> session'[x][d]]]
  BY DEF SyncInv, SessionsOK
<1>2. \A x \in Client, y \in Node, a \in Account :
         tracker'[x].rejections[y][a] <= tracker[x].rejections[y][a]
  <2> SUFFICES ASSUME NEW x \in Client, NEW y \in Node, NEW a \in Account
               PROVE  tracker'[x].rejections[y][a] <= tracker[x].rejections[y][a]
    OBVIOUS
  <2>1. tracker[x].rejections[y][a] \in Nat
    BY Constants DEF SyncInv, Tracker
  <2>2. tracker'[x].rejections = tracker[x].rejections
    BY Constants
  <2> QED BY <2>1, <2>2
<1> QED BY <1>1, <1>2, QuietStep

(* Nothing that the invariant speaks of changes. *)
LEMMA NoStep ==
    ASSUME SyncInv, UNCHANGED <<node, tracker, quarantine, session>>
    PROVE  SyncInv'
<1>1. LedgersOK' /\ ListsOK'
  BY DEF SyncInv, LedgersOK, ListsOK
<1>2. tracker' \in [Node -> Tracker] /\ \A x \in Node : tracker'[x].rejections = tracker[x].rejections
  BY DEF SyncInv
<1> QED BY <1>1, <1>2, StillStep

(* A ledger changes. *)
LEMMA LedgersStep ==
    ASSUME LedgersOK, NEW n \in Node, NEW s, LedgerOK(s), node' = [node EXCEPT ![n] = s]
    PROVE  LedgersOK'
<1>1. DOMAIN node' = Node /\ \A x \in Node : node'[x] = IF x = n THEN s ELSE node[x]
  BY DEF LedgersOK
<1> QED BY <1>1 DEF LedgersOK

(* A tracker changes. *)
LEMMA TrackerStep ==
    ASSUME tracker \in [Node -> Tracker], NEW n \in Node, NEW t \in Tracker,
           tracker' = [tracker EXCEPT ![n] = t], t.rejections = tracker[n].rejections
    PROVE  /\ tracker' \in [Node -> Tracker]
           /\ \A x \in Node : tracker'[x].rejections = tracker[x].rejections
OBVIOUS

(* Marking an account dirty.                                               *)
LEMMA MarkDirtyType ==
    ASSUME NEW t \in Tracker
    PROVE  MarkDirty(t) \in Tracker /\ MarkDirty(t).rejections = t.rejections
BY DEF MarkDirty, Tracker

(* A gossiped block keeps the invariant.                                   *)
LEMMA AddBlockOK ==
    ASSUME SyncInv, NEW n \in Node, NEW b, AddBlock(n, b), UNCHANGED <<session, quarantine>>
    PROVE  SyncInv'
<1>1. LedgerOK(AddSyncedBlock(n, node[n], b))
  BY AddSyncedBlockOK DEF SyncInv, LedgersOK
<1>2. LedgersOK'
  BY <1>1, LedgersStep DEF SyncInv, AddBlock
<1>3. MarkDirty(tracker[n]) \in Tracker
      /\ MarkDirty(tracker[n]).rejections = tracker[n].rejections
  BY MarkDirtyType DEF SyncInv
<1>4. tracker' \in [Node -> Tracker] /\ \A x \in Node : tracker'[x].rejections = tracker[x].rejections
  BY <1>3, TrackerStep DEF SyncInv, AddBlock
<1>5. ListsOK'
  BY DEF SyncInv, ListsOK
<1> QED BY <1>2, <1>4, <1>5, StillStep

(* Finalizing a block keeps the invariant.                                 *)
LEMMA FinalizeOK ==
    ASSUME SyncInv, NEW n \in Node, NEW b \in Block, Finalize(n, b)
    PROVE  SyncInv'
<1>1. LedgerOK(node[n])
  BY DEF SyncInv, LedgersOK
<1>2. LedgerOK(Decided(node[n], b))
  BY <1>1, DecidedOK DEF Finalize, CanFinalize
<1>3. LedgersOK'
  BY <1>2, LedgersStep DEF SyncInv, Finalize
<1>4. ListsOK' /\ session' = session /\ tracker' = tracker
  BY DEF SyncInv, ListsOK, Finalize
<1>5. tracker' \in [Node -> Tracker] /\ \A x \in Node : tracker'[x].rejections = tracker[x].rejections
  BY <1>4 DEF SyncInv
<1> QED BY <1>3, <1>4, <1>5, StillStep

(* Steps of the tracker alone. *)
LEMMA TrackerOK ==
    ASSUME SyncInv, NEW n \in Client, NEW m \in Node,
           TickEnds(n) \/ FullResyncDue(n) \/ ReprobeDue(n, m)
    PROVE  SyncInv'
<1>0. n \in Node /\ tracker[n] \in Tracker /\ tracker \in [Node -> Tracker]
  BY Constants DEF SyncInv
<1>1. PICK t \in Tracker : /\ tracker' = [tracker EXCEPT ![n] = t]
                           /\ t.rejections = tracker[n].rejections
  <2>1. CASE TickEnds(n)
    <3>1. ClearDirty(tracker[n]) \in Tracker
          /\ ClearDirty(tracker[n]).rejections = tracker[n].rejections
      BY <1>0 DEF ClearDirty, Tracker
    <3> QED BY <2>1, <3>1 DEF TickEnds
  <2>2. CASE FullResyncDue(n)
    <3> DEFINE u == [tracker[n] EXCEPT !.due = TRUE]
    <3>1. u \in Tracker /\ u.rejections = tracker[n].rejections
      BY <1>0 DEF Tracker
    <3> QED BY <2>2, <3>1 DEF FullResyncDue
  <2>3. CASE ReprobeDue(n, m)
    <3> DEFINE u == [tracker[n] EXCEPT !.incapable = @ \ {m}]
    <3>1. u \in Tracker /\ u.rejections = tracker[n].rejections
      BY <1>0 DEF Tracker
    <3> QED BY <2>3, <3>1 DEF ReprobeDue
  <2> QED BY <2>1, <2>2, <2>3
<1>2. tracker' \in [Node -> Tracker] /\ \A x \in Node : tracker'[x].rejections = tracker[x].rejections
  BY <1>0, <1>1, TrackerStep
<1>3. UNCHANGED <<node, quarantine, session>>
  BY DEF TickEnds, FullResyncDue, ReprobeDue
<1>4. LedgersOK' /\ ListsOK'
  BY <1>3 DEF SyncInv, LedgersOK, ListsOK
<1> QED BY <1>2, <1>3, <1>4, StillStep

(* A round spawns requests, which ask nothing yet. *)
LEMMA TickOK ==
    ASSUME SyncInv, NEW n \in Client, NEW held, Tick(n, held)
    PROVE  SyncInv'
<1> DEFINE asked == {m \in linked[n] \ held : ShouldSync(tracker[n], m, Frontiers(node[n]))}
           calls == {NewCall(n, m) : m \in asked}
           u == [tracker[n] EXCEPT !.cooling = {}, !.ticking = (asked # {})]
<1>0. n \in Node /\ tracker[n] \in Tracker /\ tracker \in [Node -> Tracker]
      /\ session = [x \in Client |-> [d \in Call |-> session[x][d]]]
  BY Constants DEF SyncInv, SessionsOK
<1>4. session' = [session EXCEPT ![n] = [c \in Call |-> IF c \in calls THEN Spawned ELSE session[n][c]]]
  BY DEF Tick
<1>2. tracker' = [tracker EXCEPT ![n] = u]
  BY <1>0 DEF Tick
<1> HIDE DEF asked, calls
<1>1. u \in Tracker /\ u.rejections = tracker[n].rejections
  BY <1>0 DEF Tracker
<1>3. tracker' \in [Node -> Tracker] /\ \A x \in Node : tracker'[x].rejections = tracker[x].rejections
  <2> HIDE DEF u
  <2> QED BY <1>0, <1>1, <1>2, TrackerStep
<1>5. session' = [x \in Client |-> [d \in Call |-> session'[x][d]]]
  BY <1>0, <1>4
<1>6. \A x \in Client, d \in Call : session'[x][d] \in {Spawned, session[x][d]}
  BY <1>0, <1>4
<1>7. SessionOK(Spawned) /\ Spawned.phase # "asked"
  <2>1. "idle" # "asked" /\ 0 \in 0..MaxRetries
    BY Constants
  <2> QED BY <2>1, QuietSession
<1>8. \A x \in Client, y \in Node, a \in Account :
         tracker'[x].rejections[y][a] <= tracker[x].rejections[y][a]
  <2> SUFFICES ASSUME NEW x \in Client, NEW y \in Node, NEW a \in Account
               PROVE  tracker'[x].rejections[y][a] <= tracker[x].rejections[y][a]
    OBVIOUS
  <2>1. tracker[x].rejections[y][a] \in Nat
    BY Constants DEF SyncInv, Tracker
  <2>2. tracker'[x].rejections = tracker[x].rejections
    BY <1>3, Constants
  <2> QED BY <2>1, <2>2
<1>9. LedgersOK' /\ ListsOK'
  BY DEF SyncInv, LedgersOK, ListsOK, Tick
<1>10. \A x \in Client, d \in Call :
          \/ session'[x][d] = session[x][d]
          \/ SessionOK(session'[x][d]) /\ session'[x][d].phase # "asked"
  BY <1>6, <1>7
<1> QED BY <1>3, <1>5, <1>8, <1>9, <1>10, QuietStep

(* A new stream keeps the invariant.                                       *)
LEMMA ConnectOK ==
    ASSUME SyncInv, NEW n \in Client, NEW m \in Node, NEW allowed, Connect(n, m, allowed)
    PROVE  SyncInv'
<1>0. n \in Node /\ tracker[n] \in Tracker /\ tracker \in [Node -> Tracker]
  BY Constants DEF SyncInv
<1>1. LedgersOK' /\ ListsOK'
  BY DEF SyncInv, LedgersOK, ListsOK, Connect
<1>2. CASE UNCHANGED <<tracker, session>>
  <2>1. \A x \in Node : tracker'[x].rejections = tracker[x].rejections
    BY <1>2
  <2> QED BY <1>0, <1>1, <1>2, <2>1, StillStep
<1>3. CASE /\ Free(n, m) # {}
           /\ tracker' = [tracker EXCEPT ![n].cooling = @ \cup {m}]
           /\ session' = [session EXCEPT ![n][NewCall(n, m)] = Spawned]
  <2> DEFINE u == [tracker[n] EXCEPT !.cooling = @ \cup {m}]
  <2>1. u \in Tracker /\ u.rejections = tracker[n].rejections
    BY <1>0 DEF Tracker
  <2>2. tracker' = [tracker EXCEPT ![n] = u]
    BY <1>0, <1>3
  <2>3. tracker' \in [Node -> Tracker] /\ \A x \in Node : tracker'[x].rejections = tracker[x].rejections
    <3> HIDE DEF u
    <3> QED BY <1>0, <2>1, <2>2, TrackerStep
  <2>4. SessionOK(Spawned) /\ Spawned.phase # "asked"
    <3>1. "idle" # "asked" /\ 0 \in 0..MaxRetries
      BY Constants
    <3> QED BY <3>1, QuietSession
  <2>5. NewCall(n, m) \in Call
    <3>1. PICK k : k = CHOOSE d \in Free(n, m) : TRUE
      OBVIOUS
    <3>2. k \in Slot
      BY <1>3, <3>1 DEF Free
    <3>3. NewCall(n, m) = <<m, k>>
      BY <3>1 DEF NewCall
    <3> QED BY <3>2, <3>3 DEF Call
  <2>6. PICK c \in Call : c = NewCall(n, m)
    BY <2>5
  <2>7. session' = [session EXCEPT ![n][c] = Spawned]
    BY <1>3, <2>6
  <2> QED BY <1>1, <2>3, <2>4, <2>7, CallStep
<1> QED BY <1>2, <1>3 DEF Connect

(* The request leaves out what is at the threshold: an account that is     *)
(* named has a count below it, and one slot each for the requests.         *)
LEMMA AskOK ==
    ASSUME SyncInv, NEW n \in Client, NEW c \in Call, Ask(n, c)
    PROVE  SyncInv'
<1> DEFINE e == session[n][c]
           f == FilterFrontiers(tracker[n], c[1], Frontiers(node[n]))
           g == [e EXCEPT !.phase = "asked", !.frontiers = f]
<1>0. /\ session = [x \in Client |-> [d \in Call |-> session[x][d]]]
      /\ SessionOK(e) /\ tracker \in [Node -> Tracker] /\ n \in Node
  BY Constants DEF SyncInv, SessionsOK
<1>1. session' = [session EXCEPT ![n][c] = g]
  BY <1>0 DEF Ask
<1>2. \A a \in DOMAIN f : tracker[n].rejections[c[1]][a] < DropThreshold
  BY DEF FilterFrontiers
<1> HIDE DEF f
<1>3. SessionOK(g) /\ g.frontiers = f
  <2>1. e = [x \in {"phase", "frontiers", "pending", "retryable", "size", "round"} |-> e[x]]
        /\ e.round \in 0..MaxRetries
    BY <1>0 DEF SessionOK
  <2> HIDE DEF e
  <2> QED BY <2>1 DEF SessionOK
<1>4. LedgersOK' /\ ListsOK' /\ tracker' = tracker
  BY DEF SyncInv, LedgersOK, ListsOK, Ask
<1> HIDE DEF g
<1>5. \A x \in Client, d \in Call :
         session'[x][d] = IF x = n /\ d = c THEN g ELSE session[x][d]
  BY <1>0, <1>1
<1>6. SessionsOK'
  <2>1. session' = [x \in Client |-> [d \in Call |-> session'[x][d]]]
    BY <1>0, <1>1
  <2> QED BY <1>3, <1>5, <2>1 DEF SyncInv, SessionsOK
<1>7. CountsOK'
  <2> SUFFICES ASSUME NEW x \in Client, NEW y \in Node, NEW a \in Account
               PROVE  tracker'[x].rejections[y][a] + Cardinality(Open(x, y, a)') <= Limit
    BY DEF CountsOK
  <2>0. tracker[x].rejections[y][a] \in Nat
    BY Constants DEF SyncInv, Tracker
  <2>1. CASE x = n /\ y = c[1] /\ a \in DOMAIN f
    <3>1. tracker[x].rejections[y][a] < DropThreshold
      BY <1>2, <2>1
    <3> PICK S : S = Open(x, y, a)'
      OBVIOUS
    <3>2. S \subseteq Slot
      BY DEF Open
    <3>3. Cardinality(S) <= Cardinality(Slot) /\ Cardinality(S) \in Nat
      BY <3>2, Constants, FS_Subset, FS_CardinalityType
    <3> QED BY <1>4, <2>0, <3>1, <3>3, Constants DEF Limit
  <2>2. CASE ~(x = n /\ y = c[1] /\ a \in DOMAIN f)
    <3>1. Open(x, y, a)' \subseteq Open(x, y, a)
      <4> SUFFICES ASSUME NEW k \in Slot, session'[x][<<y, k>>].phase = "asked",
                          a \in DOMAIN session'[x][<<y, k>>].frontiers
                   PROVE  /\ session[x][<<y, k>>].phase = "asked"
                          /\ a \in DOMAIN session[x][<<y, k>>].frontiers
        BY DEF Open
      <4>1. <<y, k>> \in Call
        BY DEF Call
      <4>2. CASE x = n /\ <<y, k>> = c
        <5>1. y = c[1]
          BY <4>2
        <5> QED BY <1>3, <1>5, <2>2, <4>1, <4>2, <5>1
      <4>3. CASE ~(x = n /\ <<y, k>> = c)
        BY <1>5, <4>1, <4>3
      <4> QED BY <4>2, <4>3
    <3>2. Cardinality(Open(x, y, a)') <= Cardinality(Open(x, y, a))
          /\ Cardinality(Open(x, y, a)') \in Nat /\ Cardinality(Open(x, y, a)) \in Nat
      <4> PICK S : S = Open(x, y, a)'
        OBVIOUS
      <4> QED BY <3>1, OpenFinite, FS_Subset, FS_CardinalityType
    <3>3. tracker[x].rejections[y][a] + Cardinality(Open(x, y, a)) <= Limit
      BY DEF SyncInv, CountsOK
    <3> QED BY <1>4, <2>0, <3>2, <3>3, Constants
  <2> QED BY <2>1, <2>2
<1> QED BY <1>0, <1>4, <1>6, <1>7 DEF SyncInv

(* A server rejects only what it was asked. *)
LEMMA RejectedAsked ==
    ASSUME NEW s, NEW frontiers, NEW order
    PROVE  Served(s, frontiers, order).rejected \subseteq DOMAIN frontiers
<1> DEFINE answer == Served(s, frontiers, order)
<1>1. answer.rejected \subseteq
        {order[i] : i \in {j \in DOMAIN order : Unrecognized(s, frontiers, order[j])}}
  BY DEF Served
<1> HIDE DEF answer
<1> QED BY <1>1 DEF Unrecognized, answer

(* Counting a rejection.                                                   *)
LEMMA RecordRejectionsType ==
    ASSUME NEW t \in Tracker, NEW m \in Node, NEW rejected,
           \A a \in rejected : a \in Account => t.rejections[m][a] < Limit
    PROVE  /\ RecordRejections(t, m, rejected) \in Tracker
           /\ \A y \in Node \ {m} :
                RecordRejections(t, m, rejected).rejections[y] = t.rejections[y]
           /\ \A a \in Account : RecordRejections(t, m, rejected).rejections[m][a] =
                IF a \in rejected THEN t.rejections[m][a] + 1 ELSE 0
<1> DEFINE r == [a \in Account |-> IF a \in rejected THEN t.rejections[m][a] + 1 ELSE 0]
           R == [t.rejections EXCEPT ![m] = r]
<1>1. t.rejections \in [Node -> [Account -> 0..Limit]]
  BY DEF Tracker
<1>2. r \in [Account -> 0..Limit]
  BY <1>1, Constants
<1> HIDE DEF r
<1>3. R \in [Node -> [Account -> 0..Limit]]
      /\ R[m] = r /\ \A y \in Node \ {m} : R[y] = t.rejections[y]
  BY <1>1, <1>2
<1>4. RecordRejections(t, m, rejected) = [t EXCEPT !.rejections = R]
  BY <1>1 DEF RecordRejections, r, Tracker
<1> HIDE DEF R
<1>5. [t EXCEPT !.rejections = R] \in Tracker /\ [t EXCEPT !.rejections = R].rejections = R
  BY <1>3 DEF Tracker
<1> QED BY <1>3, <1>4, <1>5 DEF r

(* The counts go up for accounts that were asked, and one answer less is   *)
(* out that may raise them.                                                *)
LEMMA ServeOK ==
    ASSUME SyncInv, NEW n \in Client, NEW c \in Calls(n), NEW order, Serve(n, c, order)
    PROVE  SyncInv'
<1> DEFINE m == c[1]
           frontiers == session[n][c].frontiers
           answer == Served(node[m], frontiers, order)
           fresh  == SelectSeq(answer.blocks, LAMBDA b : b \notin ToSet(quarantine[n]))
           client(t) == IF answer.terminal THEN RecordRejections(t, m, answer.rejected) ELSE t
           server(t) == IF ServerIsBehind(node[m], frontiers) THEN MarkDirty(t) ELSE t
           e == Pass("adding", fresh, 1)
<1>0. /\ n \in Node /\ m \in Node \ {n} /\ c \in Call /\ c[2] \in Slot /\ c = <<m, c[2]>>
      /\ tracker \in [Node -> Tracker]
      /\ session = [x \in Client |-> [d \in Call |-> session[x][d]]]
      /\ session[n][c].phase = "asked"
  BY Constants DEF SyncInv, SessionsOK, Calls, Call, Serve
<1>1. /\ tracker' = [tracker EXCEPT ![n] = client(@), ![m] = server(@)]
      /\ session' = [session EXCEPT ![n][c] = e]
      /\ UNCHANGED <<node, quarantine>>
  BY DEF Serve
<1>2. SessionOK(e) /\ e.phase # "asked"
  <2>1. "adding" # "asked" /\ 1 \in 0..MaxRetries
    BY Constants
  <2> QED BY <2>1, QuietSession
<1>3. answer.rejected \subseteq DOMAIN frontiers
  BY RejectedAsked
<1>4. ASSUME NEW a \in answer.rejected, a \in Account
      PROVE  /\ c[2] \in Open(n, m, a)
             /\ tracker[n].rejections[m][a] < Limit
  <2>1. c[2] \in Open(n, m, a)
    BY <1>0, <1>3, <1>4 DEF Open
  <2>2. Cardinality(Open(n, m, a)) > 0 /\ Cardinality(Open(n, m, a)) \in Nat
    BY <2>1, OpenFinite, FS_EmptySet
  <2>3. tracker[n].rejections[m][a] + Cardinality(Open(n, m, a)) <= Limit
        /\ tracker[n].rejections[m][a] \in Nat
    BY <1>0, <1>4 DEF SyncInv, CountsOK, Tracker
  <2> QED BY <2>1, <2>2, <2>3, Constants
<1> HIDE DEF answer, fresh, frontiers, e
<1>5. client(tracker[n]) \in Tracker
      /\ (\A y \in Node \ {m} : client(tracker[n]).rejections[y] = tracker[n].rejections[y])
      /\ \A a \in Account : client(tracker[n]).rejections[m][a] \in
            {0, tracker[n].rejections[m][a]}
            \cup (IF a \in answer.rejected THEN {tracker[n].rejections[m][a] + 1} ELSE {})
  BY <1>0, <1>4, RecordRejectionsType
<1>6. \A t \in Tracker : server(t) \in Tracker /\ server(t).rejections = t.rejections
  BY MarkDirtyType
<1> HIDE DEF client, server, m
<1>7. /\ tracker' = [x \in Node |-> tracker'[x]]
      /\ \A x \in Node : tracker'[x] =
            IF x = m THEN server(tracker[m])
            ELSE IF x = n THEN client(tracker[n]) ELSE tracker[x]
  <2>1. DOMAIN tracker = Node
    BY <1>0
  <2>2. tracker' = [x \in Node |-> tracker'[x]]
    BY <1>1, <2>1
  <2> QED BY <1>0, <1>1, <2>1, <2>2
<1>8. tracker' \in [Node -> Tracker]
  <2>1. \A x \in Node : tracker'[x] \in Tracker
    BY <1>0, <1>5, <1>6, <1>7
  <2> QED BY <1>7, <2>1
<1>9. \A x \in Client, d \in Call :
         session'[x][d] = IF x = n /\ d = c THEN e ELSE session[x][d]
  BY <1>0, <1>1
<1>10. SessionsOK'
  <2>1. session' = [x \in Client |-> [d \in Call |-> session'[x][d]]]
    BY <1>0, <1>1
  <2> QED BY <1>2, <1>9, <2>1 DEF SyncInv, SessionsOK
<1>11. ASSUME NEW x \in Client, NEW y \in Node, NEW a \in Account
       PROVE  tracker'[x].rejections[y][a] + Cardinality(Open(x, y, a)') <= Limit
  <2>0. \A k \in Slot : \/ session'[x][<<y, k>>] = session[x][<<y, k>>]
                        \/ session'[x][<<y, k>>].phase # "asked"
    BY <1>2, <1>9 DEF Call
  <2>1. tracker[x].rejections[y][a] \in Nat /\ x \in Node
    BY Constants DEF SyncInv, Tracker
  <2>2. CASE x = n /\ y = m /\ a \in answer.rejected
                 /\ tracker'[x].rejections[y][a] = tracker[x].rejections[y][a] + 1
    <3>1. c[2] \in Open(x, y, a)
      BY <1>4, <2>2
    <3>2. Open(x, y, a)' \subseteq Open(x, y, a) \ {c[2]}
      <4>1. session'[x][<<y, c[2]>>].phase # "asked"
        BY <1>0, <1>2, <1>9, <2>2
      <4> QED BY <2>0, <4>1 DEF Open
    <3>3. /\ Cardinality(Open(x, y, a)') \in Nat /\ Cardinality(Open(x, y, a)) \in Nat
          /\ Cardinality(Open(x, y, a)') <= Cardinality(Open(x, y, a)) - 1
      <4> PICK S : S = Open(x, y, a)'
        OBVIOUS
      <4>1. IsFiniteSet(Open(x, y, a)) /\ Cardinality(Open(x, y, a)) \in Nat
        BY OpenFinite
      <4>2. IsFiniteSet(Open(x, y, a) \ {c[2]})
            /\ Cardinality(Open(x, y, a) \ {c[2]}) = Cardinality(Open(x, y, a)) - 1
        BY <3>1, <4>1, FS_RemoveElement
      <4>3. IsFiniteSet(S) /\ Cardinality(S) <= Cardinality(Open(x, y, a) \ {c[2]})
        BY <3>2, <4>2, FS_Subset
      <4>4. Cardinality(S) \in Nat
        BY <4>3, FS_CardinalityType
      <4> QED BY <4>1, <4>2, <4>3, <4>4
    <3>4. tracker[x].rejections[y][a] + Cardinality(Open(x, y, a)) <= Limit
      BY DEF SyncInv, CountsOK
    <3> QED BY <2>1, <2>2, <3>3, <3>4, Constants
  <2>3. CASE tracker'[x].rejections[y][a] <= tracker[x].rejections[y][a]
    BY <1>8, <2>0, <2>3, CountKept
  <2>4. CASE x = n /\ y = m
    <3>1. tracker'[x].rejections[y][a] = client(tracker[n]).rejections[m][a]
      BY <1>0, <1>7, <2>4
    <3>2. \/ tracker'[x].rejections[y][a] = 0
          \/ tracker'[x].rejections[y][a] = tracker[x].rejections[y][a]
          \/ /\ a \in answer.rejected
             /\ tracker'[x].rejections[y][a] = tracker[x].rejections[y][a] + 1
      BY <1>5, <2>4, <3>1
    <3>3. CASE tracker'[x].rejections[y][a] \in {0, tracker[x].rejections[y][a]}
      BY <2>1, <2>3, <3>3
    <3> QED BY <2>2, <2>4, <3>2, <3>3
  <2>5. CASE ~(x = n /\ y = m)
    <3>1. tracker'[x].rejections[y] = tracker[x].rejections[y]
      <4>1. CASE x = n
        <5>1. y \in Node \ {m}
          BY <2>5, <4>1
        <5> QED BY <1>0, <1>5, <1>7, <4>1, <5>1
      <4>2. CASE x # n
        <5>1. tracker[x] \in Tracker
          BY <1>0, <2>1
        <5> QED BY <1>6, <1>7, <2>1, <4>2, <5>1
      <4> QED BY <4>1, <4>2
    <3> QED BY <2>1, <2>3, <3>1
  <2> QED BY <2>4, <2>5
<1>12. CountsOK'
  BY <1>11 DEF CountsOK
<1> QED BY <1>1, <1>8, <1>10, <1>12 DEF SyncInv, LedgersOK, ListsOK

(* The keyset of a chain that is not empty is one that a steady block is   *)
(* signed for: the chain starts with a first block of the account.         *)
LEMMA KeysetKnown ==
    ASSUME NEW s, LedgerOK(s), NEW a, ChainOf(s, a) # {}
    PROVE  KeysetOf(ChainOf(s, a)) \in Keysets(a)
<1> DEFINE C == ChainOf(s, a)
           R == C \cap Rotates
<1>1. C \subseteq Block /\ IsFiniteSet(C)
  BY FS_Subset DEF ChainOf, LedgerOK, Sound
<1>2. CASE R = {}
  <2>1. PICK b \in C : TRUE
    OBVIOUS
  <2>2. PICK d \in Anc[b] \cup {b} : Prev[d] = Root
    BY <1>1, <2>1, LineageAssumption
  <2>3. b \in s.chain /\ b \in Block /\ Acct[b] = a
    BY <1>1 DEF ChainOf
  <2>4. d \in s.chain /\ Acct[d] = a /\ d \in Block
    BY <1>1, <2>2, <2>3, AncestorsThere, LineageAssumption DEF LedgerOK, Sound
  <2>5. d \notin Rotates
    BY <1>2, <2>4 DEF ChainOf
  <2>6. KeysetOf(C) = None
    BY <1>2 DEF KeysetOf
  <2> QED BY <2>2, <2>4, <2>5, <2>6 DEF Keysets
<1>3. CASE R # {}
  <2> DEFINE H == {Height[b] : b \in R}
  <2>1. R \subseteq Block /\ IsFiniteSet(R)
    BY <1>1, FS_Subset
  <2>2. IsFiniteSet(H) /\ H # {} /\ H \in SUBSET Nat
    <3>1. H # {} /\ H \in SUBSET Nat
      BY <1>3, <2>1, BlockFacts
    <3>2. [b \in R |-> Height[b]] \in Surjection(R, H)
      BY DEF Surjection
    <3> HIDE DEF H, R
    <3> QED BY <2>1, <3>1, <3>2, FS_Surjection
  <2>3. PICK h \in H : \A k \in H : k <= h
    <3> HIDE DEF H
    <3> QED BY <2>2, FiniteGreatest
  <2>4. \E b \in R : \A d \in R : Height[d] <= Height[b]
    BY <2>3
  <2>5. KeysetOf(C) \in R
    BY <1>3, <2>4 DEF KeysetOf
  <2> QED BY <2>5 DEF Keysets, ChainOf
<1> QED BY <1>2, <1>3

(* A steady winner is never hopeless: its signatures satisfy whatever      *)
(* keyset the account has, a finalized sibling would be the winner, and    *)
(* its content is valid.                                                   *)
LEMMA WinnerNotTerminal ==
    ASSUME NEW n, NEW s, LedgerOK(s), NEW b \in Winner, Steady(b)
    PROVE  ~Terminal(n, s, b)
<1> SUFFICES ASSUME b \notin s.known, Hopeless(n, s, b) PROVE FALSE
  BY DEF Terminal
<1>1. b \in FullyValid /\ s.chain \subseteq Block /\ s.chain \subseteq s.known
  BY Constants DEF LedgerOK, Sound
<1>2. ASSUME NEW c \in ChildAt(s, Pos(b)), IsFinalized(s, c) PROVE FALSE
  <2>1. c \in s.chain /\ Pos(c) = Pos(b) /\ c \in Winner
    BY <1>2 DEF ChildAt, LedgerOK
  <2>2. c = b
    BY <2>1, SyncAssumption
  <2> QED BY <1>1, <2>1, <2>2
<1>3. ASSUME b \in Unstageable, NEW c \in ChildAt(s, Pos(b)) PROVE FALSE
  <2>1. c \in s.chain /\ Pos(c) = Pos(b)
    BY <1>3 DEF ChildAt
  <2>2. c = b
    BY <1>1, <1>3, <2>1 DEF Steady
  <2> QED BY <1>1, <2>1, <2>2
<1>4. ~BadCredential(s, b)
  BY KeysetKnown DEF BadCredential, Steady
<1>5. IsMinter(n, b)
  BY DEF IsMinter, Steady
<1> QED BY <1>1, <1>2, <1>3, <1>4, <1>5 DEF Hopeless, FinalizedChild

(* A block that is listed is no steady winner.                             *)
LEMMA AddQuarantineOK ==
    ASSUME NEW q, ListOK(q), NEW b, b \in Winner => ~Steady(b)
    PROVE  ListOK(AddQuarantine(q, b))
<1>1. PICK X : q \in Seq(X)
  BY DEF ListOK
<1> DEFINE Y == X \cup {b}
<1>2. q \in Seq(Y) /\ b \in Y /\ Len(q) \in Nat /\ Len(q) <= MaxQuarantine
      /\ \A d \in ToSet(q) \cap Winner : ~Steady(d)
  BY <1>1 DEF ListOK
<1> HIDE DEF Y
<1>3. ASSUME NEW r \in Seq(Y), Len(r) < MaxQuarantine,
             \A d \in ToSet(r) \cap Winner : ~Steady(d)
      PROVE  ListOK(Append(r, b))
  <2>1. Append(r, b) \in Seq(Y) /\ Len(Append(r, b)) = Len(r) + 1 /\ Len(r) \in Nat
    BY <1>2
  <2>2. ToSet(Append(r, b)) \subseteq ToSet(r) \cup {b}
    BY <1>2 DEF ToSet
  <2> QED BY <1>3, <2>1, <2>2, Constants DEF ListOK
<1>4. CASE Len(q) >= MaxQuarantine
  <2>1. q # <<>>
    BY <1>2, <1>4, Constants
  <2>2. Tail(q) \in Seq(Y) /\ Len(Tail(q)) = Len(q) - 1
    BY <1>2, <2>1
  <2>3. ToSet(Tail(q)) \subseteq ToSet(q)
    BY <1>2, <2>1 DEF ToSet
  <2>4. Len(Tail(q)) < MaxQuarantine /\ \A d \in ToSet(Tail(q)) \cap Winner : ~Steady(d)
    BY <1>2, <2>2, <2>3, Constants
  <2>5. ListOK(Append(Tail(q), b))
    BY <1>3, <2>2, <2>4
  <2> QED BY <1>4, <2>5 DEF AddQuarantine
<1>5. CASE ~(Len(q) >= MaxQuarantine)
  <2>1. ListOK(Append(q, b))
    BY <1>2, <1>3, <1>5, Constants
  <2> QED BY <1>5, <2>1 DEF AddQuarantine
<1> QED BY <1>4, <1>5

(* Adding the next received block keeps the invariant.                     *)
LEMMA AddNextOK ==
    ASSUME SyncInv, NEW n \in Client, NEW c \in Call, AddNext(n, c)
    PROVE  SyncInv'
<1> DEFINE e == session[n][c]
           b == Head(e.pending)
           retry == /\ e.phase = "adding" /\ ~Accepts(n, node[n], b)
                    /\ ~Terminal(n, node[n], b)
           g == [e EXCEPT !.pending = Tail(@), !.retryable = IF retry THEN Append(@, b) ELSE @]
<1>0. /\ n \in Node /\ LedgerOK(node[n]) /\ ListOK(quarantine[n])
      /\ session = [x \in Client |-> [d \in Call |-> session[x][d]]]
      /\ SessionOK(e) /\ tracker \in [Node -> Tracker]
      /\ DOMAIN quarantine = Client /\ e.phase \in {"adding", "last"}
  BY Constants DEF SyncInv, SessionsOK, LedgersOK, ListsOK, AddNext
<1>1. session' = [session EXCEPT ![n][c] = g]
  <2>1. session' = [session EXCEPT
               ![n][c].pending = Tail(@),
               ![n][c].retryable = IF retry THEN Append(@, b) ELSE @]
    BY DEF AddNext
  <2> HIDE DEF retry, b
  <2> QED BY <1>0, <2>1
<1>2. SessionOK(g) /\ g.phase # "asked"
  <2> HIDE DEF retry, b, e
  <2> QED BY <1>0 DEF SessionOK
<1>3. LedgersOK'
  <2>1. LedgerOK(AddSyncedBlock(n, node[n], b))
    BY <1>0, AddSyncedBlockOK
  <2>2. node' = [node EXCEPT ![n] = AddSyncedBlock(n, node[n], b)]
    BY DEF AddNext
  <2> HIDE DEF b
  <2> QED BY <1>0, <2>1, <2>2, LedgersStep DEF SyncInv
<1>4. ListsOK'
  <2>1. CASE Terminal(n, node[n], b)
    <3>1. b \in Winner => ~Steady(b)
      BY <1>0, <2>1, WinnerNotTerminal
    <3>2. ListOK(AddQuarantine(quarantine[n], b))
      BY <1>0, <3>1, AddQuarantineOK
    <3>3. quarantine' \in {quarantine, [quarantine EXCEPT ![n] = AddQuarantine(quarantine[n], b)]}
      BY DEF AddNext
    <3> HIDE DEF b
    <3> QED BY <1>0, <3>2, <3>3 DEF ListsOK, SyncInv
  <2>2. CASE ~Terminal(n, node[n], b)
    <3>1. quarantine' = quarantine
      BY <2>2 DEF AddNext
    <3> QED BY <3>1 DEF ListsOK, SyncInv
  <2> QED BY <2>1, <2>2
<1>5. tracker' = tracker
  BY DEF AddNext
<1> HIDE DEF g
<1> QED BY <1>0, <1>1, <1>2, <1>3, <1>4, <1>5, CallStep

(* The next pass keeps the invariant.                                      *)
LEMMA NextPassOK ==
    ASSUME SyncInv, NEW n \in Client, NEW c \in Call, NextPass(n, c)
    PROVE  SyncInv'
<1> DEFINE e == session[n][c]
           again == Len(e.retryable) < e.size /\ e.round < MaxRetries
           g == IF again THEN Pass("adding", e.retryable, e.round + 1)
                ELSE Pass("last", e.retryable, 0)
<1>0. SessionOK(e) /\ tracker \in [Node -> Tracker]
  BY DEF SyncInv, SessionsOK
<1>1. session' = [session EXCEPT ![n][c] = g] /\ UNCHANGED <<node, tracker, quarantine>>
  BY DEF NextPass
<1>2. SessionOK(g) /\ g.phase # "asked"
  <2>1. e.round \in 0..MaxRetries
    BY <1>0 DEF SessionOK
  <2>2. CASE again
    <3>1. e.round + 1 \in 0..MaxRetries
      BY <2>1, <2>2, Constants
    <3> QED BY <2>2, <3>1, QuietSession
  <2>3. CASE ~again
    <3>1. 0 \in 0..MaxRetries
      BY Constants
    <3> QED BY <2>3, <3>1, QuietSession
  <2> QED BY <2>2, <2>3
<1>3. LedgersOK' /\ ListsOK'
  BY <1>1 DEF SyncInv, LedgersOK, ListsOK
<1> HIDE DEF g
<1> QED BY <1>0, <1>1, <1>2, <1>3, CallStep

(* Steps that end a request, one way or the other, and keep the counts. *)
LEMMA EndOK ==
    ASSUME SyncInv, NEW n \in Client, NEW c \in Call,
           \/ Finish(n, c) \/ StreamFails(n, c) \/ Refused(n, c) \/ NotSupported(n, c)
    PROVE  SyncInv'
<1>0. /\ n \in Node /\ tracker \in [Node -> Tracker] /\ tracker[n] \in Tracker
      /\ LedgerOK(node[n]) /\ c[1] \in Node
  BY Constants DEF SyncInv, LedgersOK, Call
<1>1. UNCHANGED <<node, quarantine>>
  BY DEF Finish, StreamFails, Refused, NotSupported
<1>2. PICK e : /\ session' = [session EXCEPT ![n][c] = e]
               /\ SessionOK(e) /\ e.phase # "asked"
  <2>1. /\ SessionOK(Idle) /\ Idle.phase # "asked"
        /\ SessionOK(Pass("adding", <<>>, 1)) /\ Pass("adding", <<>>, 1).phase # "asked"
    <3>1. "adding" # "asked" /\ 1 \in 0..MaxRetries
      BY Constants
    <3> QED BY <3>1, QuietSession
  <2>2. \/ session' = [session EXCEPT ![n][c] = Idle]
        \/ session' = [session EXCEPT ![n][c] = Pass("adding", <<>>, 1)]
    BY DEF Finish, StreamFails, Refused, NotSupported
  <2> QED BY <2>1, <2>2
<1>3. tracker' \in [Node -> Tracker] /\ \A x \in Node : tracker'[x].rejections = tracker[x].rejections
  <2>1. CASE Finish(n, c)
    <3> DEFINE f == Frontiers(node[n])
               u == RecordSync(tracker[n], c[1], f)
    <3>1. f \in Maps
      BY <1>0, FrontiersType
    <3> HIDE DEF f
    <3>2. u \in Tracker /\ u.rejections = tracker[n].rejections
      BY <1>0, <3>1 DEF RecordSync, Tracker
    <3>3. tracker' = [tracker EXCEPT ![n] = u]
      BY <2>1 DEF Finish, f
    <3> HIDE DEF u
    <3> QED BY <1>0, <3>2, <3>3, TrackerStep
  <2>2. CASE NotSupported(n, c)
    <3> DEFINE u == [tracker[n] EXCEPT !.incapable = @ \cup {c[1]}]
    <3>1. u \in Tracker /\ u.rejections = tracker[n].rejections
      BY <1>0 DEF Tracker
    <3>2. tracker' = [tracker EXCEPT ![n] = u]
      BY <2>2 DEF NotSupported
    <3> HIDE DEF u
    <3> QED BY <1>0, <3>1, <3>2, TrackerStep
  <2>3. CASE StreamFails(n, c) \/ Refused(n, c)
    BY <1>0, <2>3 DEF StreamFails, Refused
  <2> QED BY <2>1, <2>2, <2>3
<1>4. LedgersOK' /\ ListsOK'
  BY <1>1 DEF SyncInv, LedgersOK, ListsOK
<1> QED BY <1>2, <1>3, <1>4, CallStep

(* The counts for a peer that leaves are dropped with the requests to it. *)
LEMMA DisconnectOK ==
    ASSUME SyncInv, NEW n \in Client, NEW m \in Node, Disconnect(n, m)
    PROVE  SyncInv'
<1> DEFINE t == tracker[n]
           u == RemovePeer(t, m)
<1>0. /\ n \in Node /\ tracker \in [Node -> Tracker] /\ t \in Tracker
      /\ session = [x \in Client |-> [d \in Call |-> session[x][d]]]
  BY Constants DEF SyncInv, SessionsOK
<1>1. /\ session' = [session EXCEPT ![n] =
              [d \in Call |-> IF d[1] = m /\ Waiting(n, d) THEN Idle ELSE session[n][d]]]
      /\ UNCHANGED <<node, quarantine>>
      /\ tracker' = [tracker EXCEPT ![n] = u]
  BY <1>0 DEF Disconnect
<1>2. /\ u \in Tracker
      /\ \A y \in Node : u.rejections[y] \in {t.rejections[y], NoRejections[m]}
  <2>1. NoRejections[m] \in [Account -> 0..Limit]
    BY Constants DEF NoRejections
  <2> HIDE DEF t
  <2> QED BY <1>0, <2>1 DEF RemovePeer, Tracker
<1> HIDE DEF u
<1>3. tracker' \in [Node -> Tracker] /\ tracker'[n] = u
      /\ \A x \in Node \ {n} : tracker'[x] = tracker[x]
  BY <1>0, <1>1, <1>2
<1>4. \A x \in Client, y \in Node, a \in Account :
         tracker'[x].rejections[y][a] <= tracker[x].rejections[y][a]
  <2> SUFFICES ASSUME NEW x \in Client, NEW y \in Node, NEW a \in Account
               PROVE  tracker'[x].rejections[y][a] <= tracker[x].rejections[y][a]
    OBVIOUS
  <2>1. tracker[x].rejections[y][a] \in Nat /\ x \in Node
    BY Constants DEF SyncInv, Tracker
  <2>2. NoRejections[m][a] = 0
    BY DEF NoRejections
  <2>3. CASE x = n
    BY <1>2, <1>3, <2>1, <2>2, <2>3
  <2>4. CASE x # n
    BY <1>3, <2>1, <2>4
  <2> QED BY <2>3, <2>4
<1>5. session' = [x \in Client |-> [d \in Call |-> session'[x][d]]]
  BY <1>0, <1>1
<1>6. \A x \in Client, d \in Call : session'[x][d] \in {Idle, session[x][d]}
  BY <1>0, <1>1
<1>7. SessionOK(Idle) /\ Idle.phase # "asked"
  <2>1. "idle" # "asked" /\ 0 \in 0..MaxRetries
    BY Constants
  <2> QED BY <2>1, QuietSession
<1>8. \A x \in Client, d \in Call :
         \/ session'[x][d] = session[x][d]
         \/ SessionOK(session'[x][d]) /\ session'[x][d].phase # "asked"
  BY <1>6, <1>7
<1>9. LedgersOK' /\ ListsOK'
  BY <1>1 DEF SyncInv, LedgersOK, ListsOK
<1> QED BY <1>3, <1>4, <1>5, <1>8, <1>9, QuietStep

(* A restart keeps the invariant.                                          *)
LEMMA RestartOK ==
    ASSUME SyncInv, NEW n \in Client, Restart(n)
    PROVE  SyncInv'
<1>0. /\ n \in Node /\ tracker \in [Node -> Tracker]
      /\ session = [x \in Client |-> [d \in Call |-> session[x][d]]]
      /\ DOMAIN quarantine = Client
  BY Constants DEF SyncInv, SessionsOK, ListsOK
<1>1. tracker' \in [Node -> Tracker] /\ tracker'[n] = NewTracker
      /\ \A x \in Node \ {n} : tracker'[x] = tracker[x]
  BY <1>0, NewTrackerType DEF Restart
<1>2. ListsOK'
  <2>1. ListOK(<<>>)
    BY Constants DEF ListOK, ToSet
  <2>2. \A x \in Client : quarantine'[x] = IF x = n THEN <<>> ELSE quarantine[x]
    BY <1>0 DEF Restart
  <2>3. DOMAIN quarantine' = Client
    BY <1>0 DEF Restart
  <2> QED BY <2>1, <2>2, <2>3 DEF ListsOK, SyncInv
<1>3. session' = [session EXCEPT ![n] = [d \in Call |-> Idle]]
  BY DEF Restart
<1>4. session' = [x \in Client |-> [d \in Call |-> session'[x][d]]]
  BY <1>0, <1>3
<1>5. \A x \in Client, d \in Call : session'[x][d] \in {Idle, session[x][d]}
  BY <1>0, <1>3
<1>6. SessionOK(Idle) /\ Idle.phase # "asked"
  <2>1. "idle" # "asked" /\ 0 \in 0..MaxRetries
    BY Constants
  <2> QED BY <2>1, QuietSession
<1>7. \A x \in Client, d \in Call :
         \/ session'[x][d] = session[x][d]
         \/ SessionOK(session'[x][d]) /\ session'[x][d].phase # "asked"
  BY <1>5, <1>6
<1>8. \A x \in Client, y \in Node, a \in Account :
         tracker'[x].rejections[y][a] <= tracker[x].rejections[y][a]
  <2> SUFFICES ASSUME NEW x \in Client, NEW y \in Node, NEW a \in Account
               PROVE  tracker'[x].rejections[y][a] <= tracker[x].rejections[y][a]
    OBVIOUS
  <2>1. tracker[x].rejections[y][a] \in Nat /\ x \in Node
    BY Constants DEF SyncInv, Tracker
  <2>2. NewTracker.rejections[y][a] = 0
    BY DEF NewTracker, NoRejections
  <2> QED BY <1>1, <2>1, <2>2
<1>9. LedgersOK'
  BY DEF SyncInv, LedgersOK, Restart
<1> QED BY <1>1, <1>2, <1>4, <1>7, <1>8, <1>9, QuietStep

-----------------------------------------------------------------------------
(* The invariant holds at first.                                           *)
LEMMA InitOK == Init => SyncInv
<1> SUFFICES ASSUME Init PROVE SyncInv
  OBVIOUS
<1>1. LedgersOK
  <2>1. LedgerOK(EmptyLedger)
    <3>1. EmptyLedger.chain = {} /\ EmptyLedger.known = {}
          /\ EmptyLedger.finalHeight = [a \in Account |-> 0]
          /\ EmptyLedger = [chain |-> EmptyLedger.chain, known |-> EmptyLedger.known,
                            staged |-> EmptyLedger.staged, conflict |-> EmptyLedger.conflict,
                            finalHeight |-> EmptyLedger.finalHeight]
      BY DEF EmptyLedger, InitDisk
    <3>2. Sound({})
      BY FS_EmptySet DEF Sound
    <3> QED BY <3>1, <3>2 DEF LedgerOK
  <2> QED BY <2>1 DEF Init, LedgersOK
<1>2. tracker \in [Node -> Tracker]
  BY NewTrackerType DEF Init
<1>3. SessionsOK
  <2>1. "idle" # "asked" /\ 0 \in 0..MaxRetries
    BY Constants
  <2>2. SessionOK(Idle)
    BY <2>1, QuietSession
  <2> QED BY <2>2 DEF Init, SessionsOK
<1>5. CountsOK
  <2> SUFFICES ASSUME NEW x \in Client, NEW y \in Node, NEW a \in Account
               PROVE  tracker[x].rejections[y][a] + Cardinality(Open(x, y, a)) <= Limit
    BY DEF CountsOK
  <2>1. tracker[x].rejections[y][a] = 0
    BY Constants DEF Init, NewTracker, NoRejections
  <2>2. Open(x, y, a) = {}
    BY DEF Init, Open, Call, Idle
  <2> QED BY <2>1, <2>2, FS_EmptySet, Constants
<1>4. ListsOK
  <2>1. ListOK(<<>>)
    BY Constants DEF ListOK, ToSet
  <2> QED BY <2>1 DEF Init, ListsOK
<1> QED BY <1>1, <1>2, <1>3, <1>4, <1>5 DEF SyncInv

(* Every step keeps the invariant.                                         *)
LEMMA NextOK == SyncInv /\ [Next]_vars => SyncInv'
<1> SUFFICES ASSUME SyncInv, [Next]_vars PROVE SyncInv'
  OBVIOUS
<1>1. ASSUME NEW n \in Node, NEW b \in Block,
             SubmitBlock(n, b) \/ HandleIncoming(n, b) \/ Finalize(n, b)
      PROVE  SyncInv'
  BY <1>1, AddBlockOK, FinalizeOK DEF SubmitBlock, HandleIncoming
<1>2. ASSUME NEW n \in Node, Activate(n) PROVE SyncInv'
  <2>1. UNCHANGED <<node, tracker, quarantine, session>>
    BY <1>2 DEF Activate
  <2> QED BY <2>1, NoStep
<1>3. ASSUME NEW n \in Client, Round(n) \/ TickEnds(n) \/ FullResyncDue(n) \/ Restart(n)
      PROVE  SyncInv'
  <2>1. PICK m \in Node : m = n
    BY Constants
  <2> QED BY <1>3, TickOK, TrackerOK, RestartOK DEF Round
<1>4. ASSUME NEW n \in Client, NEW m \in Node \ {n},
             \/ \E allowed \in BOOLEAN : Connect(n, m, allowed)
             \/ ReprobeDue(n, m) \/ Disconnect(n, m)
             \/ \E b \in Block : PullPhantomBlock(n, m, b)
      PROVE  SyncInv'
  <2>1. CASE \E b \in Block : PullPhantomBlock(n, m, b)
    BY <2>1, AddBlockOK, Constants DEF PullPhantomBlock
  <2>2. CASE \E allowed \in BOOLEAN : Connect(n, m, allowed)
    BY <2>2, ConnectOK
  <2>3. CASE ReprobeDue(n, m)
    BY <2>3, TrackerOK
  <2>4. CASE Disconnect(n, m)
    BY <2>4, DisconnectOK
  <2> QED BY <1>4, <2>1, <2>2, <2>3, <2>4
<1>5. ASSUME NEW n \in Client, NEW c \in Calls(n),
             Request(n, c) \/ StreamFails(n, c) \/ Refused(n, c) \/ NotSupported(n, c)
      PROVE  SyncInv'
  <2>0. c \in Call
    BY DEF Calls
  <2>1. CASE Request(n, c)
    BY <2>0, <2>1, AskOK, ServeOK, AddNextOK, NextPassOK, EndOK DEF Request
  <2>2. CASE StreamFails(n, c) \/ Refused(n, c) \/ NotSupported(n, c)
    BY <2>0, <2>2, EndOK
  <2> QED BY <1>5, <2>1, <2>2
<1>6. CASE UNCHANGED vars
  BY <1>6, NoStep DEF vars
<1> QED BY <1>1, <1>2, <1>3, <1>4, <1>5, <1>6 DEF Next

(* SyncInv is an invariant.                                                *)
LEMMA InvHolds == Spec => []SyncInv
<1>1. Init => SyncInv
  BY InitOK
<1>2. SyncInv /\ [Next]_vars => SyncInv'
  BY NextOK
<1> QED BY <1>1, <1>2, PTL DEF Spec

(* What a node has put on its block list (requestSync) is never a steady   *)
(* block that the network makes final, for every lattice, number of peers  *)
(* and of requests that overlap, after any failures.                       *)
THEOREM ListedNeverWins == Spec => []QuarantineSound
<1>1. SyncInv => QuarantineSound
  BY DEF SyncInv, ListsOK, ListOK, QuarantineSound
<1> QED BY <1>1, InvHolds, PTL

(* The rejection counts pass dropFrontierThreshold by no more than the     *)
(* requests that are under way at a time, although Serve adds without a    *)
(* check (filterFrontiers leaves the account out of later requests); the   *)
(* quarantine stays within its limit, the passes over an answer within     *)
(* maxRetries.                                                             *)
THEOREM SyncTypes == Spec => []SyncTypeOK
<1>1. SyncInv => SyncTypeOK
  <2> SUFFICES ASSUME SyncInv PROVE SyncTypeOK
    OBVIOUS
  <2>1. ASSUME NEW n \in Node
        PROVE  /\ node[n].chain \subseteq node[n].known
               /\ tracker[n].rejections \in [Node -> [Account -> 0..Limit]]
               /\ \A m \in Node : tracker[n].last[m] \in {None} \cup Maps
    BY DEF SyncInv, LedgersOK, LedgerOK, Tracker
  <2>2. ASSUME NEW n \in Client, NEW c \in Call
        PROVE  session[n][c].round <= MaxRetries
    <3>1. session[n][c].round \in 0..MaxRetries
      BY DEF SyncInv, SessionsOK, SessionOK
    <3> QED BY <3>1, Constants
  <2>3. ASSUME NEW n \in Client PROVE Len(quarantine[n]) <= MaxQuarantine
    BY DEF SyncInv, ListsOK, ListOK
  <2> QED BY <2>1, <2>2, <2>3 DEF SyncTypeOK, Maps, Limit
<1> QED BY <1>1, InvHolds, PTL
=============================================================================
