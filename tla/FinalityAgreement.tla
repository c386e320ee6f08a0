------------------------- MODULE FinalityAgreement -------------------------
(***************************************************************************)
(* Agreement, for every lattice and weight distribution, of a network      *)
(* whose tallies never substitute a candidate for the one that was voted   *)
(* for.  Messages may be lost, delayed, duplicated and reordered, writes   *)
(* may fail, processes may restart and machines may lose power: only a     *)
(* network in which both power and syncs fail is left out, and in that one *)
(* agreement is lost (MCUnsynced).                                         *)
(*                                                                         *)
(* The argument.  A block is chosen when 67% of the weight is locked on    *)
(* it, so two siblings are never both chosen.  A final vote is backed by   *)
(* its sender's lock or reaffirms a chosen block; hence a block with 67%   *)
(* of final votes is chosen.  A node locks a block only when its parents   *)
(* are final, so what a chosen block rests on is chosen, and a node that   *)
(* finalizes a block finalizes nothing but that block and its ancestors.   *)
(* All of this is said relative to a table lk of the locks of all nodes    *)
(* that cannot be lost (Kept): those on disk where power may fail, those   *)
(* of the store where it may not.  The handlers only ever add to it.  A    *)
(* node's store may be ahead of its disk, by locks and blocks nobody has   *)
(* been told of; both are in order (NodeOK), and no lock on disk is        *)
(* overwritten, so what a sync writes and what a power failure brings back *)
(* are in order too.                                                       *)
(*                                                                         *)
(* The same facts make Finality an implementation of FinalitySpec where no *)
(* power fails: locks are never given up, so a chosen block stays chosen,  *)
(* and the blocks at or below the final heights only grow (PromiseKept).   *)
(*                                                                         *)
(* Where candidates spread within the stability window, locks do not split *)
(* either (LocksNeverSplit).  A node that may lock has the bodies of all   *)
(* candidates; RecordsOK says that those are on a chain, on record or      *)
(* dead, that is beaten by a final block.  So its preference is the lowest *)
(* candidate that can still be chosen (LowLocks), and of two locks neither *)
(* is the lower.                                                           *)
(***************************************************************************)
EXTENDS FinalityTypes

LockTable == [Node -> [Position -> Block \cup {None}]]

LockersOf(lk, b) == {r \in Node : lk[r][Pos(b)] = b}

ChosenIn(lk, b) == ThresholdMet(LockersOf(lk, b))

Backed(lk, r, b) == lk[r][Pos(b)] = b \/ ChosenIn(lk, b)

(* A node's locks are for blocks of the position, over chosen blocks. *)
LockOK(lk, lock) ==
    \A p \in Position :
        lock[p] # None =>
            /\ Pos(lock[p]) = p
            /\ \A a \in Below[lock[p]] : ChosenIn(lk, a)

LocksOK(lk) == \A r \in Node : LockOK(lk, lk[r])

VotesOK(lk, vote) ==
    \A p \in Position, r \in Node :
        vote[p][r] # None =>
            /\ Pos(vote[p][r].block) = p
            /\ vote[p][r].final => Backed(lk, r, vote[p][r].block)

ConflictOK(conflict) == \A p \in Position : \A b \in conflict[p] : Pos(b) = p

SentOK(lk, sent) == \A m \in sent : m.final => Backed(lk, m.rep, m.block)

(* The chains are closed under ancestors, the blocks of an account form a  *)
(* line, and a final height is that of a block.                            *)
Closed(chain) == \A b \in chain : Anc[b] \subseteq chain

Linear(chain) ==
    \A b, c \in chain :
        Acct[b] = Acct[c] /\ Height[b] <= Height[c] => b = c \/ b \in Anc[c]

Capped(chain, finalHeight) ==
    \A a \in Account :
        finalHeight[a] = 0 \/ \E b \in chain : Acct[b] = a /\ Height[b] = finalHeight[a]

ChainOK(chain, finalHeight) ==
    Closed(chain) /\ Linear(chain) /\ Capped(chain, finalHeight)

FinalOK(lk, chain, finalHeight) ==
    \A b \in chain : Height[b] <= finalHeight[Acct[b]] => ChosenIn(lk, b)

(* What a node has in its store, or on disk. *)
StoreOK(lk, d) ==
    /\ VotesOK(lk, d.vote)
    /\ ConflictOK(d.conflict)
    /\ ChainOK(d.chain, d.finalHeight)
    /\ FinalOK(lk, d.chain, d.finalHeight)
    /\ LockOK(lk, d.lock)

(* A lock on disk is not overwritten. *)
LocksKept(s) ==
    \A p \in Position : s.disk.lock[p] # None => s.lock[p] = s.disk.lock[p]

NodeOK(lk, s) ==
    /\ StoreOK(lk, s)
    /\ SentOK(lk, s.sent)
    /\ StoreOK(lk, s.disk)
    /\ LocksKept(s)

(* The locks a node cannot lose. *)
Kept(s) == IF "power" \in Faults THEN s.disk.lock ELSE s.lock

Locks == [n \in Node |-> Kept(node[n])]

(* The inductive invariant. *)
AgreementInv ==
    /\ TypeOK
    /\ NoSubstitution => LocksOK(Locks) /\ \A n \in Node : NodeOK(Locks, node[n])

-----------------------------------------------------------------------------
(* Weights *)
LEMMA WeightMonotone ==
    ASSUME NEW S \in SUBSET Node, NEW T \in SUBSET Node, S \subseteq T
    PROVE  WeightOf[S] <= WeightOf[T]
<1>1. T \ S \in SUBSET Node /\ S \cap (T \ S) = {} /\ S \cup (T \ S) = T
  OBVIOUS
<1>2. WeightOf[T] = WeightOf[S] + WeightOf[T \ S]
  BY <1>1, WeightAssumption
<1>3. WeightOf[S] \in Nat /\ WeightOf[T \ S] \in Nat
  BY <1>1, WeightAssumption
<1> QED
  BY <1>2, <1>3

(* A larger set than a quorum is a quorum.                                 *)
LEMMA ThresholdMonotone ==
    ASSUME NEW S \in SUBSET Node, NEW T \in SUBSET Node, S \subseteq T, ThresholdMet(S)
    PROVE  ThresholdMet(T)
<1>1. WeightOf[S] <= WeightOf[T]
  BY WeightMonotone
<1>2. WeightOf[S] \in Nat /\ WeightOf[T] \in Nat /\ WeightOf[Node] \in Nat
  BY WeightAssumption
<1> QED
  BY <1>1, <1>2 DEF ThresholdMet

(* 67% and 67% overlap. *)
LEMMA ThresholdsMeet ==
    ASSUME NEW S \in SUBSET Node, NEW T \in SUBSET Node, ThresholdMet(S), ThresholdMet(T)
    PROVE  S \cap T # {}
<1> SUFFICES ASSUME S \cap T = {}  PROVE FALSE
  OBVIOUS
<1>1. WeightOf[S \cup T] = WeightOf[S] + WeightOf[T]
  BY WeightAssumption
<1>2. WeightOf[S \cup T] <= WeightOf[Node]
  BY WeightMonotone
<1>3. /\ WeightOf[S] \in Nat /\ WeightOf[T] \in Nat
      /\ WeightOf[Node] \in Nat /\ WeightOf[Node] > 0
  BY WeightAssumption
<1> QED
  BY <1>1, <1>2, <1>3 DEF ThresholdMet

(* A quorum has members.                                                   *)
LEMMA ThresholdNonempty ==
    ASSUME NEW S \in SUBSET Node, ThresholdMet(S)
    PROVE  S # {}
BY ThresholdsMeet

-----------------------------------------------------------------------------
(* Chosen blocks *)
LEMMA ChosenUnique ==
    ASSUME NEW lk \in LockTable, NEW b \in Block, NEW c \in Block,
           Pos(b) = Pos(c), ChosenIn(lk, b), ChosenIn(lk, c)
    PROVE  b = c
<1>1. PICK r \in Node : r \in LockersOf(lk, b) /\ r \in LockersOf(lk, c)
  BY ThresholdsMeet DEF ChosenIn, LockersOf
<1> QED
  BY <1>1 DEF LockersOf

(* What a chosen block rests on is chosen: some node locked it.            *)
LEMMA ChosenAncestors ==
    ASSUME NEW lk \in LockTable, LocksOK(lk), NEW b \in Block, ChosenIn(lk, b)
    PROVE  \A a \in Below[b] : ChosenIn(lk, a)
<1>1. PICK r \in Node : lk[r][Pos(b)] = b
  BY ThresholdNonempty DEF ChosenIn, LockersOf
<1> QED
  BY <1>1, BlockFacts DEF LocksOK, LockOK

(* A quorum of final votes makes a block chosen. *)
LEMMA QuorumChosen ==
    ASSUME NEW lk \in LockTable, NEW s \in NodeState, VotesOK(lk, s.vote),
           NEW p \in Position, NEW b \in QuorumBlocks(s, p)
    PROVE  ChosenIn(lk, b)
<1>1. b \in Block /\ Pos(b) = p /\ ThresholdMet(FinalVotersFor(s, p, b))
  BY CandidateType DEF QuorumBlocks
<1>2. \A r \in FinalVotersFor(s, p, b) : Backed(lk, r, b)
  BY DEF FinalVotersFor, VotersFor, VotesOK
<1>3. CASE \A r \in FinalVotersFor(s, p, b) : lk[r][Pos(b)] = b
  <2>1. /\ FinalVotersFor(s, p, b) \in SUBSET Node
        /\ LockersOf(lk, b) \in SUBSET Node
        /\ FinalVotersFor(s, p, b) \subseteq LockersOf(lk, b)
    BY <1>3 DEF FinalVotersFor, VotersFor, LockersOf
  <2> QED
    BY <1>1, <2>1, ThresholdMonotone DEF ChosenIn
<1> QED
  BY <1>2, <1>3 DEF Backed

-----------------------------------------------------------------------------
(* Chains *)
LEMMA AncFacts ==
    ASSUME NEW b \in Block
    PROVE  /\ Anc[b] \subseteq Block
           /\ Anc[b] = IF Prev[b] = Root THEN {} ELSE {Prev[b]} \cup Anc[Prev[b]]
           /\ \A a \in Anc[b] : Acct[a] = Acct[b] /\ Height[a] < Height[b]
           /\ \E d \in Anc[b] \cup {b} : Prev[d] = Root
           /\ \A a \in Anc[b] : \E d \in Anc[b] \cup {b} : Prev[d] = a
BY LineageAssumption

(* Blocks rest on blocks, and on what those rest on.                       *)
LEMMA BelowFacts ==
    ASSUME NEW b \in Block
    PROVE  /\ Below[b] \subseteq Block
           /\ Below[b] = Parents(b) \cup UNION {Below[d] : d \in Parents(b)}
           /\ Anc[b] \subseteq Below[b]
           /\ Parents(b) \subseteq Below[b]
BY BelowAssumption

(* A block whose parent is there and whose position is free extends the    *)
(* chain of its account: all that is on it is below the block.             *)
LEMMA FitsOnTop ==
    ASSUME NEW chain \in SUBSET Block, Closed(chain), Linear(chain), NEW b \in Block,
           Prev[b] = Root \/ Prev[b] \in chain,
           ~ \E c \in chain : Pos(c) = Pos(b)
    PROVE  \A c \in chain : Acct[c] = Acct[b] => c \in Anc[b]
<1> SUFFICES ASSUME NEW c \in chain, Acct[c] = Acct[b]
             PROVE  c \in Anc[b]
  OBVIOUS
<1>0. \A d \in Anc[c] \cup {c} : d \in chain /\ Acct[d] = Acct[b]
  BY AncFacts DEF Closed
<1>1. \A d \in Anc[c] \cup {c} : Prev[d] # Prev[b]
  BY <1>0 DEF Pos
<1>2. CASE Prev[b] = Root
  BY <1>1, <1>2, AncFacts
<1>3. CASE Prev[b] # Root /\ Prev[b] \in chain
  <2> DEFINE a == Prev[b]
  <2>1. a \in Block /\ Anc[b] = {a} \cup Anc[a]
    BY <1>3, AncFacts
  <2>2. Acct[a] = Acct[b]
    BY <2>1, AncFacts
  <2>3. a \notin Anc[c]
    <3>1. \A x \in Anc[c] : \E d \in Anc[c] \cup {c} : Prev[d] = x
      BY AncFacts
    <3> QED
      BY <1>1, <3>1
  <2>4. Height[a] <= Height[c] \/ Height[c] <= Height[a]
    BY <2>1, BlockFacts
  <2>5. a = c \/ c \in Anc[a]
    BY <1>3, <2>2, <2>3, <2>4 DEF Linear
  <2> QED
    BY <2>1, <2>5
<1> QED
  BY <1>2, <1>3

(* A block that fits leaves chains and final blocks in order.              *)
LEMMA ExtendChain ==
    ASSUME NEW chain \in SUBSET Block, NEW fh \in [Account -> Nat], ChainOK(chain, fh),
           NEW lk, FinalOK(lk, chain, fh), NEW b \in Block,
           Prev[b] = Root \/ Prev[b] \in chain,
           ~ \E c \in chain : Pos(c) = Pos(b)
    PROVE  ChainOK(chain \cup {b}, fh) /\ FinalOK(lk, chain \cup {b}, fh)
<1>1. \A c \in chain : Acct[c] = Acct[b] => c \in Anc[b] /\ Height[c] < Height[b]
  BY FitsOnTop, AncFacts DEF ChainOK
<1>2. Closed(chain \cup {b})
  <2>1. Anc[b] \subseteq chain
    <3>1. Anc[b] = IF Prev[b] = Root THEN {} ELSE {Prev[b]} \cup Anc[Prev[b]]
      BY AncFacts
    <3> QED
      BY <3>1 DEF ChainOK, Closed
  <2> QED
    BY <2>1 DEF ChainOK, Closed
<1>3. Linear(chain \cup {b})
  <2> SUFFICES ASSUME NEW x \in chain \cup {b}, NEW y \in chain \cup {b},
                      Acct[x] = Acct[y], Height[x] <= Height[y]
               PROVE  x = y \/ x \in Anc[y]
    BY DEF Linear
  <2>1. Height[x] \in Nat /\ Height[y] \in Nat
    BY BlockFacts
  <2>2. CASE x \in chain /\ y \in chain
    BY <2>2 DEF ChainOK, Linear
  <2>3. CASE x = b /\ y \in chain
    BY <1>1, <2>1, <2>3
  <2>4. CASE x \in chain /\ y = b
    BY <1>1, <2>4
  <2> QED
    BY <2>2, <2>3, <2>4
<1>4. Capped(chain \cup {b}, fh)
  BY DEF ChainOK, Capped
<1>5. ~(Height[b] <= fh[Acct[b]])
  <2>1. Acct[b] \in Account /\ Height[b] \in Nat \ {0}
    BY BlockFacts, LineageAssumption
  <2>2. fh[Acct[b]] = 0 \/ \E c \in chain : Acct[c] = Acct[b] /\ Height[c] = fh[Acct[b]]
    BY <2>1 DEF ChainOK, Capped
  <2>3. \A c \in chain : Height[c] \in Nat
    BY BlockFacts
  <2> QED
    BY <1>1, <2>1, <2>2, <2>3
<1>6. FinalOK(lk, chain \cup {b}, fh)
  BY <1>5 DEF FinalOK
<1> QED
  BY <1>2, <1>3, <1>4, <1>6 DEF ChainOK

(* What a rollback leaves. *)
LEMMA UnwindChain ==
    ASSUME NEW s \in NodeState, NEW lk, ChainOK(s.chain, s.finalHeight),
           FinalOK(lk, s.chain, s.finalHeight), NEW l, CanUnwind(s, l)
    PROVE  LET chain == s.chain \ Tainted(s, l)
           IN  ChainOK(chain, s.finalHeight) /\ FinalOK(lk, chain, s.finalHeight)
<1> DEFINE chain == s.chain \ Tainted(s, l)
<1>0. s.chain \subseteq Block /\ chain \subseteq s.chain
  BY DEF NodeState
<1>1. Closed(chain)
  <2> SUFFICES ASSUME NEW b \in chain, NEW a \in Anc[b]
               PROVE  a \in chain
    BY DEF Closed
  <2>1. b \in Block /\ a \in s.chain /\ a \in Below[b] /\ Below[a] \subseteq Below[b]
    BY <1>0, BelowAssumption DEF ChainOK, Closed
  <2> QED
    BY <2>1 DEF Tainted
<1>2. Linear(chain)
  BY <1>0 DEF ChainOK, Linear
<1>3. Capped(chain, s.finalHeight)
  <2> SUFFICES ASSUME NEW a \in Account, s.finalHeight[a] # 0
               PROVE  \E b \in chain : Acct[b] = a /\ Height[b] = s.finalHeight[a]
    BY DEF Capped
  <2>1. PICK b \in s.chain : Acct[b] = a /\ Height[b] = s.finalHeight[a]
    BY DEF ChainOK, Capped
  <2>2. Height[b] \in Nat
    BY <1>0, BlockFacts
  <2>3. b \in Finalized(s)
    BY <1>0, <2>1, <2>2 DEF Finalized, IsFinalized
  <2>4. b \in chain
    BY <2>3 DEF CanUnwind
  <2> QED
    BY <2>1, <2>4
<1>4. FinalOK(lk, chain, s.finalHeight)
  BY <1>0 DEF FinalOK
<1> QED
  BY <1>1, <1>2, <1>3, <1>4 DEF ChainOK

(* Raising the final height to a chosen block finalizes chosen blocks.     *)
LEMMA RaiseFinalHeight ==
    ASSUME NEW chain \in SUBSET Block, NEW fh \in [Account -> Nat], ChainOK(chain, fh),
           NEW lk \in LockTable, LocksOK(lk), FinalOK(lk, chain, fh),
           NEW w \in chain, ChosenIn(lk, w)
    PROVE  LET up == [fh EXCEPT ![Acct[w]] = Height[w]]
           IN  ChainOK(chain, up) /\ FinalOK(lk, chain, up)
<1> DEFINE up == [fh EXCEPT ![Acct[w]] = Height[w]]
<1>1. Acct[w] \in Account
  BY BlockFacts
<1>2. Capped(chain, up)
  BY <1>1 DEF ChainOK, Capped
<1>3. FinalOK(lk, chain, up)
  <2> SUFFICES ASSUME NEW b \in chain, Height[b] <= up[Acct[b]]
               PROVE  ChosenIn(lk, b)
    BY DEF FinalOK
  <2>1. CASE Acct[b] # Acct[w]
    BY <2>1 DEF FinalOK
  <2>2. CASE Acct[b] = Acct[w]
    <3>1. b = w \/ b \in Anc[w]
      BY <1>1, <2>2 DEF ChainOK, Linear
    <3> QED
      BY <3>1, ChosenAncestors, BelowFacts
  <2> QED
    BY <2>1, <2>2
<1> QED
  BY <1>2, <1>3 DEF ChainOK

-----------------------------------------------------------------------------
(* Ledger and quorum manager: the operators keep NodeOK for a fixed table. *)
(* The fields that the invariant does not mention. *)
LEMMA StageOK ==
    ASSUME NEW lk, NEW s \in NodeState, NodeOK(lk, s), NEW X
    PROVE  /\ NodeOK(lk, [s EXCEPT !.staged = X])
           /\ NodeOK(lk, [s EXCEPT !.quarantine = X])
           /\ NodeOK(lk, [s EXCEPT !.substituted = X])
           /\ NodeOK(lk, [s EXCEPT !.seen = X])
<1>1. NodeOK(lk, [s EXCEPT !.staged = X])
  BY DEF NodeOK, StoreOK, LocksKept, NodeState
<1>2. NodeOK(lk, [s EXCEPT !.quarantine = X])
  BY DEF NodeOK, StoreOK, LocksKept, NodeState
<1>3. NodeOK(lk, [s EXCEPT !.substituted = X])
  BY DEF NodeOK, StoreOK, LocksKept, NodeState
<1>4. NodeOK(lk, [s EXCEPT !.seen = X])
  BY DEF NodeOK, StoreOK, LocksKept, NodeState
<1> QED
  BY <1>1, <1>2, <1>3, <1>4

(* Appending keeps a node in order.                                        *)
LEMMA AppendOK ==
    ASSUME NEW lk, NEW s \in NodeState, NodeOK(lk, s), NEW b \in Block,
           FitsChain(s, s.chain, b)
    PROVE  NodeOK(lk, Attach(s, b))
<1>1. s.chain \in SUBSET Block /\ s.finalHeight \in [Account -> Nat]
  BY DEF NodeState
<1>2. /\ ChainOK(s.chain \cup {b}, s.finalHeight)
      /\ FinalOK(lk, s.chain \cup {b}, s.finalHeight)
  BY <1>1, ExtendChain DEF NodeOK, StoreOK, FitsChain
<1> QED
  BY <1>2 DEF NodeOK, StoreOK, LocksKept, Attach, NodeState

(* A swap keeps a node in order: it undoes no final block.                 *)
LEMMA SwapOK ==
    ASSUME NEW lk, NEW s \in NodeState, NodeOK(lk, s), NEW l, NEW w \in Block,
           CanSwap(s, l, w)
    PROVE  NodeOK(lk, Swap(s, l, w))
<1> DEFINE chain == s.chain \ Tainted(s, l)
<1>1. chain \in SUBSET Block /\ s.finalHeight \in [Account -> Nat]
  BY DEF NodeState
<1>2. ChainOK(chain, s.finalHeight) /\ FinalOK(lk, chain, s.finalHeight)
  BY UnwindChain DEF NodeOK, StoreOK, CanSwap
<1>3. FitsChain(s, chain, w)
  BY DEF CanSwap
<1>4. Swap(s, l, w) = [s EXCEPT !.chain = chain \cup {w}, !.known = @ \cup {w}]
  BY DEF Swap
<1> HIDE DEF chain
<1>5. /\ ChainOK(chain \cup {w}, s.finalHeight)
      /\ FinalOK(lk, chain \cup {w}, s.finalHeight)
  BY <1>1, <1>2, <1>3, ExtendChain DEF FitsChain
<1> QED
  BY <1>4, <1>5 DEF NodeOK, StoreOK, LocksKept, NodeState

(* A conflict record disturbs nothing of it.                               *)
LEMMA RecordConflictOK ==
    ASSUME NEW lk, NEW s \in NodeState, NodeOK(lk, s), NEW b \in Block
    PROVE  NodeOK(lk, RecordConflict(s, b))
<1> DEFINE p   == Pos(b)
           old == s.conflict[p]
           new == IF old = {} THEN ChildAt(s, p) \cup {b}
                  ELSE IF Cardinality(old) >= MaxHashes THEN old
                  ELSE old \cup {b}
<1>1. p \in Position
  BY BlockFacts
<1>2. \A c \in new : Pos(c) = p
  BY <1>1 DEF NodeOK, StoreOK, ConflictOK, ChildAt
<1>3. RecordConflict(s, b) = [s EXCEPT !.conflict[p] = new]
  BY DEF RecordConflict
<1> HIDE DEF new, p
<1>4. ConflictOK([s.conflict EXCEPT ![p] = new])
  BY <1>2 DEF NodeOK, StoreOK, ConflictOK, NodeState
<1> QED
  BY <1>3, <1>4 DEF NodeOK, StoreOK, LocksKept, NodeState

(* Nor do votes that are dropped.                                          *)
LEMMA ClearVotesOK ==
    ASSUME NEW lk, NEW s \in NodeState, NodeOK(lk, s), NEW p \in Position
    PROVE  NodeOK(lk, ClearVotes(s, p))
<1> DEFINE votes == [s.vote EXCEPT ![p] = [r \in Node |-> None]]
<1>1. VotesOK(lk, votes)
  BY DEF NodeOK, StoreOK, VotesOK, NodeState
<1> HIDE DEF votes
<1>2. NodeOK(lk, [s EXCEPT !.vote = votes])
  BY <1>1 DEF NodeOK, StoreOK, LocksKept, NodeState
<1> QED
  BY <1>2 DEF ClearVotes, votes

(* Nor does the removal of a record.                                       *)
LEMMA CleanupOK ==
    ASSUME NEW lk, NEW s \in NodeState, NodeOK(lk, s), NEW p \in Position, NEW w, NEW cands
    PROVE  /\ NodeOK(lk, CleanupResolvedConflict(s, p, w, cands))
           /\ NodeOK(lk, DropOrphaned(s, p))
<1> DEFINE t == ClearVotes(s, p)
<1>1. NodeOK(lk, t) /\ t \in NodeState
  BY ClearVotesOK, ClearVotesType DEF Evolves
<1> HIDE DEF t
<1>2. ConflictOK([t.conflict EXCEPT ![p] = {}])
  BY <1>1 DEF NodeOK, StoreOK, ConflictOK, NodeState
<1>3. /\ NodeOK(lk, [t EXCEPT !.staged = @ \ ({w} \cup cands), !.conflict[p] = {}])
      /\ NodeOK(lk, [t EXCEPT !.conflict[p] = {}])
  BY <1>1, <1>2 DEF NodeOK, StoreOK, LocksKept, NodeState
<1> QED
  BY <1>3 DEF CleanupResolvedConflict, DropOrphaned, t

(* A chosen block may become final.                                        *)
LEMMA AdvanceFinalHeightOK ==
    ASSUME NEW lk \in LockTable, LocksOK(lk), NEW s \in NodeState, NodeOK(lk, s),
           NEW w \in Block, ChosenIn(lk, w)
    PROVE  NodeOK(lk, AdvanceFinalHeight(s, w))
<1> SUFFICES ASSUME w \in s.chain
             PROVE  NodeOK(lk, [s EXCEPT !.finalHeight[Acct[w]] = Height[w]])
  BY DEF AdvanceFinalHeight
<1>1. s.chain \in SUBSET Block /\ s.finalHeight \in [Account -> Nat]
  BY DEF NodeState
<1> DEFINE up == [s.finalHeight EXCEPT ![Acct[w]] = Height[w]]
<1>2. ChainOK(s.chain, up) /\ FinalOK(lk, s.chain, up)
  BY <1>1, RaiseFinalHeight DEF NodeOK, StoreOK
<1> QED
  BY <1>2 DEF NodeOK, StoreOK, LocksKept, NodeState

(* A chosen winner may become final.                                       *)
LEMMA FinalizeWinnerOK ==
    ASSUME NEW lk \in LockTable, LocksOK(lk), NEW s \in NodeState, NodeOK(lk, s),
           NEW p \in Position, NEW w \in Block, ChosenIn(lk, w), NEW cands
    PROVE  NodeOK(lk, FinalizeWinner(s, p, w, cands))
<1>1. AdvanceFinalHeight(s, w) \in NodeState
  BY AdvanceFinalHeightType DEF Evolves
<1> QED
  BY <1>1, AdvanceFinalHeightOK, CleanupOK DEF FinalizeWinner

(* A chosen winner may be promoted.                                        *)
LEMMA SwapInWinnerOK ==
    ASSUME NEW lk \in LockTable, LocksOK(lk), NEW s \in NodeState, NodeOK(lk, s),
           NEW p \in Position, NEW l \in Block, NEW w \in Block, ChosenIn(lk, w), NEW cands
    PROVE  NodeOK(lk, SwapInWinner(s, p, l, w, cands))
<1> DEFINE t == [s EXCEPT !.staged = @ \cup {l}]
<1>1. NodeOK(lk, t) /\ t \in NodeState
  BY StageOK, StageType DEF Evolves
<1> HIDE DEF t
<1>2. NodeOK(lk, [t EXCEPT !.quarantine = @ \cup {w}])
  BY <1>1, StageOK
<1>3. ASSUME CanSwap(t, l, w), w \in FullyValid
      PROVE  NodeOK(lk, FinalizeWinner(Swap(t, l, w), p, w, cands))
  <2>1. NodeOK(lk, Swap(t, l, w)) /\ Swap(t, l, w) \in NodeState
    BY <1>1, <1>3, SwapOK, SwapType DEF Evolves
  <2> QED
    BY <2>1, FinalizeWinnerOK
<1> QED
  BY <1>1, <1>2, <1>3 DEF SwapInWinner, t

(* confirmConflict keeps a node in order when the winner is chosen.        *)
LEMMA ConfirmConflictOK ==
    ASSUME NEW lk \in LockTable, LocksOK(lk), NEW s \in NodeState, NodeOK(lk, s),
           NEW p \in Position, NEW w \in Block, ChosenIn(lk, w)
    PROVE  NodeOK(lk, ConfirmConflict(s, p, w))
<1> DEFINE cands  == CandidateSet(s, p)
           losers == (cands \ {w}) \cap ChildAt(s, p)
           l      == CHOOSE x \in losers : TRUE
<1>1. losers # {} => l \in Block
  BY ChildAtType
<1> HIDE DEF cands, losers, l
<1>2. losers # {} => NodeOK(lk, SwapInWinner(s, p, l, w, cands))
  BY <1>1, SwapInWinnerOK
<1>3. /\ NodeOK(lk, CleanupResolvedConflict(s, p, w, cands))
      /\ NodeOK(lk, FinalizeWinner(s, p, w, cands))
  BY CleanupOK, FinalizeWinnerOK
<1>4. NodeOK(lk, AppendStagedWinner(s, p, w, cands))
  <2>1. FitsChain(s, s.chain, w) /\ w \in FullyValid => Attach(s, w) \in NodeState
    BY AppendType DEF Evolves
  <2> QED
    BY <2>1, AppendOK, FinalizeWinnerOK DEF AppendStagedWinner
<1> QED
  BY <1>2, <1>3, <1>4 DEF ConfirmConflict, cands, losers, l

-----------------------------------------------------------------------------
(* Vote manager.  A node's state is sound, given the locks lk of the       *)
(* others, when it has substituted something or all is well with it.       *)
LocksWith(lk, n, s) == [lk EXCEPT ![n] = Kept(s)]

(* Kept locks are only ever added, so what is chosen or backed stays so. *)
Extends(lk, l2) ==
    \A r \in Node, p \in Position : lk[r][p] # None => l2[r][p] = lk[r][p]

Sound(lk, n, s) ==
    /\ s \in NodeState
    /\ s.substituted = {} =>
         /\ Extends(lk, LocksWith(lk, n, s))
         /\ LocksOK(LocksWith(lk, n, s))
         /\ NodeOK(LocksWith(lk, n, s), s)

(* The table with one node's locks replaced is a table.                    *)
LEMMA LocksWithType ==
    ASSUME NEW lk \in LockTable, NEW n \in Node, NEW s \in NodeState
    PROVE  LocksWith(lk, n, s) \in LockTable /\ LocksWith(lk, n, s)[n] = Kept(s)
BY DEF LocksWith, LockTable, NodeState, Disk, Kept

(* A step that sets no lock is sound if it keeps the node in order.        *)
LEMMA SoundEvolves ==
    ASSUME NEW lk, NEW n, NEW s, NEW t, Sound(lk, n, s), Evolves(s, t),
           /\ s.substituted = {}
           /\ t.substituted = {}
           /\ LocksOK(LocksWith(lk, n, s))
           /\ NodeOK(LocksWith(lk, n, s), s)
           => NodeOK(LocksWith(lk, n, s), t)
    PROVE  Sound(lk, n, t)
<1>1. LocksWith(lk, n, t) = LocksWith(lk, n, s)
  BY DEF LocksWith, Evolves, Kept
<1>2. t.substituted = {} => s.substituted = {}
  BY DEF Evolves
<1> QED
  BY <1>1, <1>2 DEF Sound, Evolves

(* Retally is sound: 67% of final votes make a block chosen.               *)
LEMMA RetallySound ==
    ASSUME NEW lk \in LockTable, NEW n \in Node, NEW s, Sound(lk, n, s), NEW p \in Position
    PROVE  Sound(lk, n, Retally(s, p))
<1> DEFINE L == LocksWith(lk, n, s)
           w == FinalTally(s, p)
           t == NoteSubstitution(s, p, w)
<1>1. s \in NodeState /\ L \in LockTable
  BY LocksWithType DEF Sound
<1>2. Evolves(s, Retally(s, p))
  BY <1>1, RetallyType
<1> HIDE DEF L
<1> SUFFICES ASSUME Retally(s, p).substituted = {}, LocksOK(L), NodeOK(L, s)
             PROVE  NodeOK(L, Retally(s, p))
  BY <1>2, SoundEvolves DEF L
<1>3. w \in Block \cup {None}
  BY <1>1, FinalTallyType
<1> HIDE DEF w
<1> SUFFICES ASSUME w # None
             PROVE  NodeOK(L, ConfirmConflict(t, p, w))
  BY DEF Retally, w
<1>4. t \in NodeState
  BY <1>1, NoteSubstitutionType DEF Evolves
<1>5. t.substituted = {}
  <2>1. Retally(s, p) = ConfirmConflict(t, p, w)
    BY DEF Retally, w
  <2>2. Evolves(t, ConfirmConflict(t, p, w))
    BY <1>3, <1>4, ConfirmConflictType
  <2> QED
    BY <2>1, <2>2 DEF Evolves
<1>6. w \in QuorumBlocks(s, p) /\ t = s
  BY <1>1, <1>5 DEF NoteSubstitution, NodeState
<1>7. ChosenIn(L, w)
  BY <1>1, <1>6, QuorumChosen DEF NodeOK, StoreOK
<1> QED
  BY <1>1, <1>3, <1>6, <1>7, ConfirmConflictOK

(* Storing a vote is sound if a final one is backed.                       *)
LEMMA PutVoteSound ==
    ASSUME NEW lk \in LockTable, NEW n \in Node, NEW s, Sound(lk, n, s),
           NEW p \in Position, NEW r \in Node, NEW b \in Block, NEW final \in BOOLEAN,
           s.substituted = {} =>
             Pos(b) = p /\ (final => Backed(LocksWith(lk, n, s), r, b))
    PROVE  Sound(lk, n, PutVote(s, p, r, b, final))
<1> DEFINE L     == LocksWith(lk, n, s)
           v     == [block |-> b, final |-> final]
           votes == [s.vote EXCEPT ![p][r] = v]
<1>1. s \in NodeState
  BY DEF Sound
<1>2. Evolves(s, PutVote(s, p, r, b, final))
  BY <1>1, PutVoteType
<1> SUFFICES ASSUME s.substituted = {}, NodeOK(L, s)
             PROVE  NodeOK(L, PutVote(s, p, r, b, final))
  BY <1>2, SoundEvolves
<1>3. Pos(v.block) = p /\ (v.final => Backed(L, r, v.block))
  OBVIOUS
<1>4. PutVote(s, p, r, b, final) = [s EXCEPT !.vote = votes]
  BY DEF PutVote
<1> HIDE DEF L, v
<1>5. \A q \in Position, k \in Node :
        votes[q][k] = IF q = p /\ k = r THEN v ELSE s.vote[q][k]
  BY <1>1 DEF NodeState
<1> HIDE DEF votes
<1>6. VotesOK(L, votes)
  BY <1>3, <1>5 DEF NodeOK, StoreOK, VotesOK
<1> QED
  BY <1>1, <1>4, <1>6 DEF NodeOK, StoreOK, LocksKept, NodeState

(* Sending a vote is sound if a final one is backed.                       *)
LEMMA EmitSound ==
    ASSUME NEW lk \in LockTable, NEW n \in Node, NEW s, Sound(lk, n, s),
           NEW b \in Block, NEW final \in BOOLEAN,
           s.substituted = {} /\ final => Backed(LocksWith(lk, n, s), n, b)
    PROVE  Sound(lk, n, Emit(s, n, b, final))
<1> DEFINE L == LocksWith(lk, n, s)
           m == [rep |-> n, block |-> b, final |-> final]
<1>1. s \in NodeState
  BY DEF Sound
<1>2. Evolves(s, Emit(s, n, b, final))
  BY <1>1, EmitType
<1> SUFFICES ASSUME s.substituted = {}, NodeOK(L, s)
             PROVE  NodeOK(L, Emit(s, n, b, final))
  BY <1>2, SoundEvolves
<1>3. m.final => Backed(L, m.rep, m.block)
  OBVIOUS
<1>4. Emit(s, n, b, final) = [s EXCEPT !.sent = @ \cup {m}]
  BY DEF Emit
<1> HIDE DEF L, m
<1>5. SentOK(L, s.sent \cup {m})
  BY <1>3 DEF NodeOK, StoreOK, SentOK
<1> QED
  BY <1>1, <1>4, <1>5 DEF NodeOK, StoreOK, LocksKept, NodeState

(* Remembering the candidates held is sound.                               *)
LEMMA NoteHeldCandidatesSound ==
    ASSUME NEW lk \in LockTable, NEW n \in Node, NEW s, Sound(lk, n, s),
           NEW p \in Position, NEW cands
    PROVE  Sound(lk, n, NoteHeldCandidates(s, p, cands))
<1>1. s \in NodeState
  BY DEF Sound
<1>2. Evolves(s, NoteHeldCandidates(s, p, cands))
  BY <1>1, NoteHeldCandidatesType
<1> DEFINE L == LocksWith(lk, n, s)
           X == [s.seen EXCEPT ![p] = @ \cup NewCandidates(s, p, cands)]
<1>3. NoteHeldCandidates(s, p, cands) = [s EXCEPT !.seen = X]
  BY DEF NoteHeldCandidates
<1> HIDE DEF L, X
<1>4. NodeOK(L, s) => NodeOK(L, [s EXCEPT !.seen = X])
  BY <1>1, StageOK
<1> QED
  BY <1>2, <1>3, <1>4, SoundEvolves DEF L

(* What is chosen stays chosen when locks are added.                       *)
LEMMA ChosenGrows ==
    ASSUME NEW lk \in LockTable, NEW l2 \in LockTable, Extends(lk, l2),
           NEW b \in Block, ChosenIn(lk, b)
    PROVE  ChosenIn(l2, b)
<1>1. LockersOf(lk, b) \subseteq LockersOf(l2, b)
  BY BlockFacts DEF LockersOf, Extends
<1>2. LockersOf(lk, b) \in SUBSET Node /\ LockersOf(l2, b) \in SUBSET Node
  BY DEF LockersOf
<1> QED
  BY <1>1, <1>2, ThresholdMonotone DEF ChosenIn

(* What backs a vote backs it when locks are added.                        *)
LEMMA BackedGrows ==
    ASSUME NEW lk \in LockTable, NEW l2 \in LockTable, Extends(lk, l2),
           NEW r \in Node, NEW b \in Block, Backed(lk, r, b)
    PROVE  Backed(l2, r, b)
BY ChosenGrows, BlockFacts DEF Backed, Extends

(* A node's locks rest on chosen blocks when locks are added.              *)
LEMMA LockOKGrows ==
    ASSUME NEW lk \in LockTable, NEW l2 \in LockTable, Extends(lk, l2),
           NEW lock \in [Position -> Block \cup {None}], LockOK(lk, lock)
    PROVE  LockOK(l2, lock)
<1> SUFFICES ASSUME NEW p \in Position, lock[p] # None, NEW a \in Below[lock[p]]
             PROVE  ChosenIn(l2, a)
  BY DEF LockOK
<1>1. lock[p] \in Block
  OBVIOUS
<1>2. a \in Block /\ ChosenIn(lk, a)
  BY <1>1, BelowFacts DEF LockOK
<1> QED
  BY <1>2, ChosenGrows

(* A store in order is in order when locks are added.                      *)
LEMMA StoreOKGrows ==
    ASSUME NEW lk \in LockTable, NEW l2 \in LockTable, Extends(lk, l2),
           NEW d, StoreOK(lk, d),
           d.vote \in [Position -> [Node -> Vote \cup {None}]],
           d.chain \in SUBSET Block,
           d.lock \in [Position -> Block \cup {None}]
    PROVE  StoreOK(l2, d)
<1>1. VotesOK(l2, d.vote)
  <2> SUFFICES ASSUME NEW p \in Position, NEW r \in Node, d.vote[p][r] # None
               PROVE  /\ Pos(d.vote[p][r].block) = p
                      /\ d.vote[p][r].final => Backed(l2, r, d.vote[p][r].block)
    BY DEF VotesOK
  <2>1. d.vote[p][r].block \in Block
    BY DEF Vote
  <2> QED
    BY <2>1, BackedGrows DEF StoreOK, VotesOK
<1>2. FinalOK(l2, d.chain, d.finalHeight)
  BY ChosenGrows DEF StoreOK, FinalOK
<1>3. LockOK(l2, d.lock)
  BY LockOKGrows DEF StoreOK
<1> QED
  BY <1>1, <1>2, <1>3 DEF StoreOK

(* A node in order is in order when locks are added.                       *)
LEMMA NodeOKGrows ==
    ASSUME NEW lk \in LockTable, NEW l2 \in LockTable, Extends(lk, l2),
           NEW s \in NodeState, NodeOK(lk, s)
    PROVE  NodeOK(l2, s)
<1>1. StoreOK(l2, s)
  BY StoreOKGrows DEF NodeOK, NodeState
<1>2. StoreOK(l2, s.disk)
  <2>1. s.disk \in Disk
    BY DEF NodeState
  <2> QED
    BY <2>1, StoreOKGrows DEF NodeOK, Disk
<1>3. SentOK(l2, s.sent)
  <2>1. \A m \in s.sent : m.rep \in Node /\ m.block \in Block
    BY DEF NodeState, VoteMsg
  <2> QED
    BY <2>1, BackedGrows DEF NodeOK, SentOK
<1> QED
  BY <1>1, <1>2, <1>3 DEF NodeOK

(* The kept locks of one node grow, over chosen blocks.                    *)
LEMMA LocksGrow ==
    ASSUME NEW lk \in LockTable, NEW n \in Node, NEW s \in NodeState, NEW t \in NodeState,
           Extends(lk, LocksWith(lk, n, s)), LocksOK(LocksWith(lk, n, s)),
           LockOK(LocksWith(lk, n, s), Kept(t)),
           \A p \in Position : Kept(s)[p] # None => Kept(t)[p] = Kept(s)[p]
    PROVE  /\ Extends(LocksWith(lk, n, s), LocksWith(lk, n, t))
           /\ Extends(lk, LocksWith(lk, n, t))
           /\ LocksOK(LocksWith(lk, n, t))
<1> DEFINE L  == LocksWith(lk, n, s)
           L2 == LocksWith(lk, n, t)
<1>1. L \in LockTable /\ L2 \in LockTable /\ L[n] = Kept(s) /\ L2[n] = Kept(t)
  BY LocksWithType
<1>2. \A r \in Node \ {n} : L2[r] = L[r]
  BY DEF LocksWith, LockTable
<1> HIDE DEF L, L2
<1>3. Extends(L, L2)
  BY <1>1, <1>2 DEF Extends
<1>4. Extends(lk, L2)
  BY <1>3 DEF Extends, L
<1>5. \A r \in Node : LockOK(L, L2[r])
  BY <1>1, <1>2 DEF LocksOK, L
<1>6. \A r \in Node : L2[r] \in [Position -> Block \cup {None}]
  BY <1>1 DEF LockTable
<1>7. LocksOK(L2)
  BY <1>1, <1>3, <1>5, <1>6, LockOKGrows DEF LocksOK
<1> QED
  BY <1>3, <1>4, <1>7 DEF L, L2

(* What a sync does: the locks of the store can no longer be lost.         *)
LEMMA SyncFacts ==
    ASSUME NEW s \in NodeState
    PROVE  /\ Sync(s) \in NodeState
           /\ Kept(Sync(s)) = s.lock
           /\ Sync(s).lock = s.lock
           /\ Sync(s).vote = s.vote
           /\ Sync(s).substituted = s.substituted
<1>1. Sync(s) \in NodeState
  BY SyncType DEF Advances
<1>2. Store(s).lock = s.lock
  BY DEF Store
<1> QED
  BY <1>1, <1>2 DEF Sync, Kept, NodeState

(* Syncing the store is sound: what it holds is in order, and its locks    *)
(* extend the ones on disk.                                                *)
LEMMA SyncSound ==
    ASSUME NEW lk \in LockTable, NEW n \in Node, NEW s, Sound(lk, n, s)
    PROVE  Sound(lk, n, Sync(s))
<1> SUFFICES ASSUME "power" \in Faults
             PROVE  Sound(lk, n, Sync(s))
  BY DEF Sync
<1> DEFINE d  == Store(s)
           t  == [s EXCEPT !.disk = d]
           L  == LocksWith(lk, n, s)
           L2 == LocksWith(lk, n, t)
<1>1. s \in NodeState /\ Sync(s) = t /\ t \in NodeState /\ t.substituted = s.substituted
  BY SyncFacts DEF Sound, Sync
<1>2. Kept(t) = s.lock /\ Kept(s) = s.disk.lock
  BY <1>1, SyncFacts DEF Kept
<1>3. /\ d.vote = s.vote /\ d.conflict = s.conflict /\ d.chain = s.chain
      /\ d.finalHeight = s.finalHeight /\ d.lock = s.lock
  BY DEF Store
<1>4. /\ t.vote = s.vote /\ t.conflict = s.conflict /\ t.chain = s.chain
      /\ t.finalHeight = s.finalHeight /\ t.lock = s.lock /\ t.sent = s.sent
      /\ t.disk = d
  BY <1>1 DEF NodeState
<1> HIDE DEF d, t
<1> SUFFICES ASSUME s.substituted = {}
             PROVE  Extends(lk, L2) /\ LocksOK(L2) /\ NodeOK(L2, t)
  BY <1>1 DEF Sound
<1>5. Extends(lk, L) /\ LocksOK(L) /\ NodeOK(L, s)
  BY DEF Sound
<1>6. Extends(L, L2) /\ Extends(lk, L2) /\ LocksOK(L2)
  BY <1>1, <1>2, <1>5, LocksGrow DEF NodeOK, StoreOK, LocksKept
<1>7. NodeOK(L2, s)
  BY <1>1, <1>5, <1>6, NodeOKGrows, LocksWithType
<1>8. StoreOK(L2, t) /\ StoreOK(L2, t.disk)
  BY <1>3, <1>4, <1>7 DEF NodeOK, StoreOK
<1>9. SentOK(L2, t.sent) /\ LocksKept(t)
  BY <1>3, <1>4, <1>7 DEF NodeOK, LocksKept
<1> QED
  BY <1>6, <1>8, <1>9 DEF NodeOK

(* A lock on a block of the position over chosen blocks. *)
LEMMA LockSound ==
    ASSUME NEW lk \in LockTable, NEW n \in Node, NEW s, Sound(lk, n, s),
           NEW p \in Position, NEW b \in Block,
           s.substituted = {} =>
             Pos(b) = p /\ \A a \in Below[b] : ChosenIn(LocksWith(lk, n, s), a)
    PROVE  Sound(lk, n, PutFinalVoteIfAbsent(s, p, b))
<1> SUFFICES ASSUME s.lock[p] = None
             PROVE  Sound(lk, n, [s EXCEPT !.lock[p] = b])
  BY DEF PutFinalVoteIfAbsent
<1> DEFINE t  == [s EXCEPT !.lock[p] = b]
           L  == LocksWith(lk, n, s)
           L2 == LocksWith(lk, n, t)
<1>1. s \in NodeState
  BY DEF Sound
<1>2. /\ t \in NodeState /\ t.substituted = s.substituted
      /\ t.vote = s.vote /\ t.conflict = s.conflict /\ t.chain = s.chain
      /\ t.finalHeight = s.finalHeight /\ t.sent = s.sent /\ t.disk = s.disk
      /\ t.lock = [s.lock EXCEPT ![p] = b]
  BY <1>1 DEF NodeState
<1>3. s.lock \in [Position -> Block \cup {None}]
  BY <1>1 DEF NodeState
<1>4. \A q \in Position : t.lock[q] = IF q = p THEN b ELSE s.lock[q]
  BY <1>2, <1>3
<1> HIDE DEF t
<1> SUFFICES ASSUME s.substituted = {}
             PROVE  Extends(lk, L2) /\ LocksOK(L2) /\ NodeOK(L2, t)
  BY <1>2 DEF Sound, t
<1>5. /\ Extends(lk, L) /\ LocksOK(L) /\ NodeOK(L, s)
      /\ Pos(b) = p /\ \A a \in Below[b] : ChosenIn(L, a)
  BY DEF Sound
<1>6. LockOK(L, t.lock)
  BY <1>4, <1>5 DEF NodeOK, StoreOK, LockOK
<1>7. LocksKept(t)
  BY <1>2, <1>4, <1>5 DEF NodeOK, LocksKept
<1>8. LockOK(L, Kept(t))
  BY <1>2, <1>5, <1>6 DEF Kept, NodeOK, StoreOK
<1>9. \A q \in Position : Kept(s)[q] # None => Kept(t)[q] = Kept(s)[q]
  BY <1>2, <1>4 DEF Kept
<1>10. Extends(L, L2) /\ Extends(lk, L2) /\ LocksOK(L2)
  BY <1>1, <1>2, <1>5, <1>8, <1>9, LocksGrow
<1>11. L \in LockTable /\ L2 \in LockTable
  BY <1>1, <1>2, LocksWithType
<1> HIDE DEF L, L2
<1>12. NodeOK(L2, s)
  BY <1>1, <1>5, <1>10, <1>11, NodeOKGrows
<1>13. LockOK(L2, t.lock)
  <2>1. t.lock \in [Position -> Block \cup {None}]
    BY <1>2 DEF NodeState
  <2> QED
    BY <1>6, <1>10, <1>11, <2>1, LockOKGrows
<1>14. StoreOK(L2, t)
  BY <1>2, <1>12, <1>13 DEF NodeOK, StoreOK
<1>15. NodeOK(L2, t)
  BY <1>2, <1>7, <1>12, <1>14 DEF NodeOK
<1> QED
  BY <1>10, <1>15

(* A final vote for the locked block that is stored and synced is sound.   *)
(* Vote and lock reach the disk together, so the proof may write the lock  *)
(* first.                                                                  *)
LEMMA SyncedVoteSound ==
    ASSUME NEW lk \in LockTable, NEW n \in Node, NEW s, Sound(lk, n, s),
           NEW p \in Position, s.lock[p] # None
    PROVE  Sound(lk, n, Sync(PutVote(s, p, n, s.lock[p], TRUE)))
<1> DEFINE t == Sync(s)
           b == s.lock[p]
           v == PutVote(s, p, n, b, TRUE)
           u == PutVote(t, p, n, b, TRUE)
<1>1. s \in NodeState /\ b \in Block
  BY DEF Sound, NodeState
<1>2. Sound(lk, n, t)
  BY SyncSound
<1>3. /\ t \in NodeState /\ Kept(t) = s.lock /\ t.lock = s.lock /\ t.vote = s.vote
      /\ t.substituted = s.substituted
  BY <1>1, SyncFacts
<1>4. LocksWith(lk, n, t)[n][p] = b
  BY <1>3, LocksWithType
<1>5. t.substituted = {} => Pos(b) = p /\ Backed(LocksWith(lk, n, t), n, b)
  BY <1>2, <1>3, <1>4 DEF Sound, NodeOK, StoreOK, LockOK, Backed
<1>6. Sound(lk, n, u)
  <2> HIDE DEF t, b
  <2> QED
    BY <1>1, <1>2, <1>5, PutVoteSound
<1>7. Sound(lk, n, Sync(u))
  <2> HIDE DEF u
  <2> QED
    BY <1>6, SyncSound
<1>8. Sync(u) = Sync(v)
  <2>1. CASE "power" \notin Faults
    BY <2>1 DEF Sync
  <2>2. CASE "power" \in Faults
    <3> DEFINE votes == [s.vote EXCEPT ![p][n] = [block |-> b, final |-> TRUE]]
    <3>1. t = [s EXCEPT !.disk = Store(s)]
      BY <2>2 DEF Sync
    <3>2. v = [s EXCEPT !.vote = votes] /\ u = [t EXCEPT !.vote = votes]
      BY <1>3 DEF PutVote
    <3>3. Sync(u) = [u EXCEPT !.disk = Store(u)] /\ Sync(v) = [v EXCEPT !.disk = Store(v)]
      BY <2>2 DEF Sync
    <3> HIDE DEF t, u, v, votes, b
    <3>4. Store(u) = Store(v)
      BY <1>1, <3>1, <3>2 DEF Store, NodeState
    <3>5. [u EXCEPT !.disk = Store(v)] = [v EXCEPT !.disk = Store(v)]
      <4> PICK d : d = Store(v)
        OBVIOUS
      <4> PICK c : c = Store(s)
        OBVIOUS
      <4>1. t = [s EXCEPT !.disk = c]
        BY <3>1
      <4>2. [u EXCEPT !.disk = d] = [v EXCEPT !.disk = d]
        BY <1>1, <3>2, <4>1 DEF NodeState
      <4> QED
        BY <4>2
    <3> QED
      BY <3>3, <3>4, <3>5
  <2> QED
    BY <2>1, <2>2
<1> QED
  BY <1>7, <1>8

(* emitFinalLocked is sound for a target over chosen blocks.  Where power  *)
(* may fail no sync fails: a final vote that was stored and not synced     *)
(* would be sent with the answer to a vote pull.                           *)
LEMMA EmitFinalLockedSound ==
    ASSUME NEW lk \in LockTable, NEW n \in Node, NEW s, Sound(lk, n, s),
           NEW p \in Position, NEW target \in Block,
           NEW e, e.io = "sync" => "power" \notin Faults,
           s.substituted = {} =>
             /\ Pos(target) = p
             /\ \A a \in Below[target] : ChosenIn(LocksWith(lk, n, s), a)
    PROVE  Sound(lk, n, EmitFinalLocked(s, n, p, target, e))
<1> DEFINE t == PutFinalVoteIfAbsent(s, p, target)
           b == t.lock[p]
           v == PutVote(t, p, n, b, TRUE)
           w == Sync(v)
           u == Retally(w, p)
<1>1. s \in NodeState
  BY DEF Sound
<1>2. t \in NodeState /\ b \in Block /\ b # None
  BY <1>1, PutFinalVoteIfAbsentType, BlockFacts DEF Advances
<1>3. Sound(lk, n, t)
  BY LockSound
<1> HIDE DEF t
<1>4. ASSUME e.io = "sync"  PROVE Sound(lk, n, v)
  <2>1. LocksWith(lk, n, t)[n] = t.lock
    BY <1>2, <1>4, LocksWithType DEF Kept
  <2>2. t.substituted = {} => Pos(b) = p /\ Backed(LocksWith(lk, n, t), n, b)
    BY <1>2, <1>3, <2>1 DEF Sound, LocksOK, LockOK, Backed
  <2> HIDE DEF b
  <2> QED
    BY <1>2, <1>3, <2>2, PutVoteSound
<1>5. Sound(lk, n, w)
  BY <1>2, <1>3, SyncedVoteSound
<1> HIDE DEF b
<1>6. v \in NodeState /\ v.lock = t.lock
  BY <1>2, PutVoteType DEF Evolves
<1> HIDE DEF v
<1>7. w \in NodeState /\ Kept(w) = t.lock
  BY <1>6, SyncFacts
<1> HIDE DEF w
<1>8. Sound(lk, n, u)
  BY <1>5, RetallySound
<1>9. Evolves(w, u) /\ u \in NodeState
  BY <1>7, RetallyType DEF Evolves
<1> HIDE DEF u
<1>10. Kept(u) = t.lock
  BY <1>7, <1>9 DEF Evolves, Kept
<1>11. u.substituted = {} => Backed(LocksWith(lk, n, u), n, b)
  <2>1. t.substituted = {} => Pos(b) = p
    BY <1>2, <1>3 DEF Sound, NodeOK, StoreOK, LockOK, b
  <2>2. u.substituted = {} => t.substituted = {}
    <3>1. w.substituted = v.substituted
      BY <1>6, SyncFacts DEF w
    <3>2. t.substituted \subseteq v.substituted
      BY <1>2, PutVoteType DEF Evolves, v
    <3> QED
      BY <1>9, <3>1, <3>2 DEF Evolves
  <2>3. LocksWith(lk, n, u)[n] = t.lock
    BY <1>9, <1>10, LocksWithType
  <2> QED
    BY <2>1, <2>2, <2>3 DEF Backed, b
<1>12. Sound(lk, n, Emit(u, n, b, TRUE))
  BY <1>2, <1>8, <1>11, EmitSound
<1> QED
  BY <1>3, <1>4, <1>12 DEF EmitFinalLocked, t, b, v, w, u

(* A block whose dependencies are final rests on chosen blocks.            *)
LEMMA DepsChosen ==
    ASSUME NEW lk \in LockTable, LocksOK(lk), NEW s \in NodeState, NodeOK(lk, s),
           NEW b \in Block, DepsFinalized(s, b)
    PROVE  \A a \in Below[b] : ChosenIn(lk, a)
<1>1. \A d \in Parents(b) : d \in Block /\ ChosenIn(lk, d)
  BY DEF DepsFinalized, IsFinalized, NodeOK, StoreOK, FinalOK, NodeState
<1>2. \A d \in Parents(b) : \A a \in Below[d] : ChosenIn(lk, a)
  BY <1>1, ChosenAncestors
<1>3. Below[b] = Parents(b) \cup UNION {Below[d] : d \in Parents(b)}
  BY BelowFacts
<1> QED
  BY <1>1, <1>2, <1>3

(* A converging vote is sound.                                             *)
LEMMA ConvergeSound ==
    ASSUME NEW lk \in LockTable, NEW n \in Node, NEW s, Sound(lk, n, s),
           NEW p \in Position, NEW pref \in Block, NEW e,
           s.substituted = {} => Pos(pref) = p
    PROVE  Sound(lk, n, Converge(s, n, p, pref, e))
<1> DEFINE v == PutVote(s, p, n, pref, FALSE)
           u == Retally(v, p)
<1>1. Sound(lk, n, v)
  BY PutVoteSound
<1> HIDE DEF v
<1>2. Sound(lk, n, u)
  BY <1>1, RetallySound
<1> HIDE DEF u
<1>3. Sound(lk, n, Emit(u, n, pref, FALSE))
  BY <1>2, EmitSound
<1> QED
  BY <1>3 DEF Converge, v, u

(* Voting without an own final vote is sound.                              *)
LEMMA VoteFreelySound ==
    ASSUME NEW lk \in LockTable, NEW n \in Node, NEW s, Sound(lk, n, s),
           NEW p \in Position, NEW seed \in SUBSET Block, \A b \in seed : Pos(b) = p, NEW e,
           e.io = "sync" => "power" \notin Faults
    PROVE  Sound(lk, n, VoteFreely(s, n, p, seed, e))
<1> DEFINE cands    == GatherCandidates(s, p, seed)
           t        == NoteHeldCandidates(s, p, cands)
           stable   == e.window /\ NewCandidates(s, p, cands) = {}
           eligible == cands \cap (Held(s) \cup s.conflict[p])
           pref     == Lowest(eligible)
           c        == Converge(t, n, p, pref, e)
           u        == MaybeLock(c, n, p, pref, stable, e)
           L        == LocksWith(lk, n, s)
<1>0. s \in NodeState
  BY DEF Sound
<1>1. eligible \subseteq Block
  BY <1>0, CandidateType DEF GatherCandidates, NodeState
<1>2. s.substituted = {} => \A b \in eligible : Pos(b) = p
  BY DEF Sound, NodeOK, StoreOK, VotesOK, ConflictOK, GatherCandidates, VotedBlocks
<1>3. Sound(lk, n, t)
  BY NoteHeldCandidatesSound
<1>4. Evolves(s, t) /\ t \in NodeState
  BY <1>0, NoteHeldCandidatesType DEF Evolves
<1>5. VoteFreely(s, n, p, seed, e) # t =>
        eligible # {} /\ DepsFinalized(s, pref) /\ VoteFreely(s, n, p, seed, e) = u
  BY DEF VoteFreely
<1> HIDE DEF cands, eligible, t, stable
<1>6. ASSUME eligible # {}, DepsFinalized(s, pref)
      PROVE  Sound(lk, n, u)
  <2>1. pref \in eligible /\ pref \in Block
    BY <1>1, <1>6, LowestIn, BlockAssumption
  <2>2. s.substituted = {} => Pos(pref) = p /\ \A a \in Below[pref] : ChosenIn(L, a)
    BY <1>0, <1>2, <1>6, <2>1, DepsChosen, LocksWithType DEF Sound
  <2> HIDE DEF pref, L
  <2>3. t.substituted = {} => s.substituted = {}
    BY <1>4 DEF Evolves
  <2>4. Sound(lk, n, c)
    BY <1>3, <2>1, <2>2, <2>3, ConvergeSound
  <2>5. Evolves(s, c)
    BY <1>4, <2>1, ConvergeType, EvolvesTrans
  <2> HIDE DEF c
  <2>6. LocksWith(lk, n, c) = L
    BY <2>5 DEF LocksWith, Evolves, Kept, L
  <2>7. c.substituted = {} =>
          Pos(pref) = p /\ \A a \in Below[pref] : ChosenIn(LocksWith(lk, n, c), a)
    BY <2>2, <2>5, <2>6 DEF Evolves
  <2>8. Sound(lk, n, EmitFinalLocked(c, n, p, pref, e))
    BY <2>1, <2>4, <2>7, EmitFinalLockedSound
  <2> QED
    BY <2>4, <2>8 DEF MaybeLock
<1> QED
  BY <1>3, <1>5, <1>6

(* CastVote is sound.                                                      *)
LEMMA CastVoteSound ==
    ASSUME NEW lk \in LockTable, NEW n \in Node, NEW s, Sound(lk, n, s),
           NEW p \in Position, NEW seed \in SUBSET Block, \A b \in seed : Pos(b) = p, NEW e,
           e.io = "sync" => "power" \notin Faults
    PROVE  Sound(lk, n, CastVote(s, n, p, seed, e))
<1>0. s \in NodeState
  BY DEF Sound
<1>1. ASSUME OwnFinal(s, n, p)  PROVE Sound(lk, n, ReEmitFinal(s, n, p, e))
  <2> DEFINE b == s.vote[p][n].block
             t == Sync(s)
  <2>1. b \in Block
    BY <1>0, <1>1, VotedBlockType DEF OwnFinal
  <2>3. Sound(lk, n, t)
    BY SyncSound
  <2>4. t.vote = s.vote /\ t.substituted = s.substituted
    BY <1>0, SyncFacts
  <2>5. t.substituted = {} => Backed(LocksWith(lk, n, t), n, b)
    BY <1>1, <2>3, <2>4 DEF OwnFinal, Sound, NodeOK, StoreOK, VotesOK, b
  <2> HIDE DEF b, t
  <2>6. Sound(lk, n, Emit(t, n, b, TRUE))
    BY <2>1, <2>3, <2>5, EmitSound
  <2> QED
    BY <2>6 DEF ReEmitFinal, b, t
<1>2. ASSUME s.lock[p] # None  PROVE Sound(lk, n, EmitFinalLocked(s, n, p, s.lock[p], e))
  <2> DEFINE b == s.lock[p]
  <2>1. b \in Block
    BY <1>0, <1>2 DEF NodeState
  <2>2. s.substituted = {} =>
          Pos(b) = p /\ \A a \in Below[b] : ChosenIn(LocksWith(lk, n, s), a)
    BY <1>2 DEF Sound, NodeOK, StoreOK, LockOK
  <2> HIDE DEF b
  <2>3. Sound(lk, n, EmitFinalLocked(s, n, p, b, e))
    BY <2>1, <2>2, EmitFinalLockedSound
  <2> QED
    BY <2>3 DEF b
<1> QED
  BY <1>1, <1>2, VoteFreelySound DEF CastVote

(* Reaffirming what is final is sound: it is chosen.                       *)
LEMMA ReaffirmFromStateSound ==
    ASSUME NEW lk \in LockTable, NEW n \in Node, NEW s, Sound(lk, n, s),
           NEW p \in Position, NEW due
    PROVE  Sound(lk, n, ReaffirmFromState(s, n, p, due))
<1> DEFINE c == CHOOSE x \in FinalizedChild(s, p) : TRUE
<1>1. FinalizedChild(s, p) # {} => c \in Block /\ c \in FinalizedChild(s, p)
  BY ChildAtType DEF Sound
<1> HIDE DEF c
<1>2. FinalizedChild(s, p) # {} /\ s.substituted = {} => Backed(LocksWith(lk, n, s), n, c)
  BY <1>1 DEF Sound, NodeOK, StoreOK, FinalOK, FinalizedChild, IsFinalized, Backed
<1>3. FinalizedChild(s, p) # {} => Sound(lk, n, Emit(s, n, c, TRUE))
  BY <1>1, <1>2, EmitSound
<1> QED
  BY <1>3 DEF ReaffirmFromState, c

(* Receiving a backed vote is sound.                                       *)
LEMMA ReceiveVoteSound ==
    ASSUME NEW lk \in LockTable, NEW n \in Node, NEW s, Sound(lk, n, s),
           NEW m \in VoteMsg,
           NEW e \in Env, e.io = "sync" => "power" \notin Faults,
           s.substituted = {} /\ m.final => Backed(LocksWith(lk, n, s), m.rep, m.block)
    PROVE  Sound(lk, n, ReceiveVote(s, n, m, e))
<1> DEFINE p == Pos(m.block)
           d == [e EXCEPT !.due = @ \/ ~OwnFinal(s, m.rep, p)]
           v == PutVote(s, p, m.rep, m.block, m.final)
           t == ReceiveVoteInner(s, m)
<1>1. m.rep \in Node /\ m.block \in Block /\ m.final \in BOOLEAN /\ p \in Position
  BY BlockFacts DEF VoteMsg
<1>2. Sound(lk, n, v)
  BY <1>1, PutVoteSound
<1> HIDE DEF v
<1>3. Sound(lk, n, Retally(v, p))
  BY <1>1, <1>2, RetallySound
<1>4. Sound(lk, n, t)
  BY <1>3 DEF ReceiveVoteInner, v
<1>5. d.io = e.io
  BY DEF Env
<1> HIDE DEF p, d, t
<1>6. Sound(lk, n, CastVote(t, n, p, {}, d))
  BY <1>1, <1>4, <1>5, CastVoteSound
<1>7. Sound(lk, n, ReaffirmFromState(s, n, p, e.due))
  BY <1>1, ReaffirmFromStateSound
<1> QED
  BY <1>6, <1>7 DEF ReceiveVote, p, d, t

(* Answering a vote pull is sound.                                         *)
LEMMA VotesForPositionSound ==
    ASSUME NEW lk \in LockTable, NEW n \in Node, NEW s, Sound(lk, n, s), NEW p \in Position
    PROVE  Sound(lk, n, VotesForPosition(s, n, p))
<1> DEFINE own == IF s.vote[p][n] = None THEN s
                  ELSE Emit(s, n, s.vote[p][n].block, s.vote[p][n].final)
<1>1. Sound(lk, n, own)
  <2> SUFFICES ASSUME s.vote[p][n] # None
               PROVE  Sound(lk, n, Emit(s, n, s.vote[p][n].block, s.vote[p][n].final))
    OBVIOUS
  <2>1. s.vote[p][n].block \in Block /\ s.vote[p][n].final \in BOOLEAN
    BY VotedBlockType DEF Sound
  <2>2. s.substituted = {} /\ s.vote[p][n].final =>
          Backed(LocksWith(lk, n, s), n, s.vote[p][n].block)
    BY DEF Sound, NodeOK, StoreOK, VotesOK
  <2> QED
    BY <2>1, <2>2, EmitSound
<1> HIDE DEF own
<1>2. Sound(lk, n, ReaffirmFromState(own, n, p, TRUE))
  BY <1>1, ReaffirmFromStateSound
<1> QED
  BY <1>1, <1>2 DEF VotesForPosition, own

(* Removing a resolved or an orphaned record is sound.                     *)
LEMMA CleanupSound ==
    ASSUME NEW lk \in LockTable, NEW n \in Node, NEW s, Sound(lk, n, s), NEW p \in Position
    PROVE  /\ Sound(lk, n, DropResolved(s, p))
           /\ Sound(lk, n, DropOrphaned(s, p))
<1> DEFINE w == CHOOSE c \in FinalizedChild(s, p) : TRUE
           L == LocksWith(lk, n, s)
<1>1. s \in NodeState
  BY DEF Sound
<1> HIDE DEF w, L
<1>2. /\ Evolves(s, CleanupResolvedConflict(s, p, w, s.conflict[p]))
      /\ Evolves(s, DropOrphaned(s, p))
  BY <1>1, CleanupResolvedConflictType, DropOrphanedType
<1>3. NodeOK(L, s) => /\ NodeOK(L, CleanupResolvedConflict(s, p, w, s.conflict[p]))
                      /\ NodeOK(L, DropOrphaned(s, p))
  BY <1>1, CleanupOK
<1> QED
  BY <1>2, <1>3, SoundEvolves DEF DropResolved, w, L

(* Taking candidates off a record is sound.                                *)
LEMMA EvictedSound ==
    ASSUME NEW lk \in LockTable, NEW n \in Node, NEW s, Sound(lk, n, s),
           NEW p \in Position, NEW kept, kept \subseteq s.conflict[p]
    PROVE  /\ Evolves(s, [s EXCEPT !.conflict[p] = kept])
           /\ Sound(lk, n, [s EXCEPT !.conflict[p] = kept])
<1> DEFINE t == [s EXCEPT !.conflict[p] = kept]
           L == LocksWith(lk, n, s)
<1>1. s \in NodeState
  BY DEF Sound
<1> HIDE DEF L
<1>2. Evolves(s, t)
  BY <1>1 DEF NodeState, Evolves, Keeps, Clean, Finalized, IsFinalized
<1>3. NodeOK(L, s) => NodeOK(L, t)
  <2> HAVE NodeOK(L, s)
  <2>1. ConflictOK([s.conflict EXCEPT ![p] = kept])
    BY <1>1 DEF NodeOK, StoreOK, ConflictOK, NodeState
  <2> QED
    BY <1>1, <2>1 DEF NodeOK, StoreOK, LocksKept, NodeState
<1>4. Sound(lk, n, t)
  BY <1>2, <1>3, SoundEvolves DEF L
<1> QED
  BY <1>2, <1>4

(* evictPhantomsAndResolve is sound.                                       *)
LEMMA EvictPhantomsSound ==
    ASSUME NEW lk \in LockTable, NEW n \in Node, NEW s, Sound(lk, n, s),
           NEW p \in Position, NEW timedOut
    PROVE  Sound(lk, n, EvictPhantomsAndResolve(s, p, timedOut))
<1> DEFINE real == s.conflict[p] \cap Held(s)
           kept == real \cup RetainedPhantoms(s, p, timedOut)
           t    == [s EXCEPT !.conflict[p] = kept]
<1>1. kept \subseteq s.conflict[p]
  BY DEF RetainedPhantoms, Phantoms
<1> HIDE DEF kept
<1>2. Sound(lk, n, t)
  BY <1>1, EvictedSound
<1> HIDE DEF t
<1>3. Sound(lk, n, Retally(t, p))
  BY <1>2, RetallySound
<1> QED
  BY <1>2, <1>3, CleanupSound DEF EvictPhantomsAndResolve, kept, t

(* A sweep over a stale conflict is sound.                                 *)
LEMMA SweepConflictSound ==
    ASSUME NEW lk \in LockTable, NEW n \in Node, NEW s, Sound(lk, n, s),
           NEW p \in Position, NEW age, NEW e,
           e.io = "sync" => "power" \notin Faults
    PROVE  Sound(lk, n, SweepConflict(s, n, p, age, e))
<1> DEFINE evict == age # "stale" /\ Phantoms(s, p) # {}
           late  == age = "expired"
           t     == IF evict THEN EvictPhantomsAndResolve(s, p, late) ELSE s
           c     == CastVote(t, n, p, {}, e)
<1>1. Sound(lk, n, t)
  BY EvictPhantomsSound
<1> HIDE DEF t
<1>2. Sound(lk, n, c)
  BY <1>1, CastVoteSound
<1> HIDE DEF c
<1>3. Sound(lk, n, Retally(c, p))
  BY <1>2, RetallySound
<1> QED
  BY <1>1, <1>3, CleanupSound DEF SweepConflict, t, c

(* Recording and staging a candidate are sound.                            *)
LEMMA StageCandidateSound ==
    ASSUME NEW lk \in LockTable, NEW n \in Node, NEW s, Sound(lk, n, s), NEW b \in Block
    PROVE  /\ Sound(lk, n, RecordConflict(s, b))
           /\ Sound(lk, n, StageCandidate(s, b))
<1> DEFINE L == LocksWith(lk, n, s)
           t == RecordConflict(s, b)
           X == t.staged \cup {b}
<1>1. s \in NodeState
  BY DEF Sound
<1>2. Evolves(s, t) /\ t \in NodeState
  BY <1>1, RecordConflictType DEF Evolves
<1> HIDE DEF L
<1>3. NodeOK(L, s) => NodeOK(L, t)
  BY <1>1, RecordConflictOK
<1> HIDE DEF t
<1>4. NodeOK(L, s) => NodeOK(L, [t EXCEPT !.staged = X])
  BY <1>2, <1>3, StageOK
<1>5. Evolves(s, StageCandidate(s, b))
  BY <1>1, StageCandidateType
<1>6. StageCandidate(s, b) \in {t, [t EXCEPT !.staged = X]}
  BY DEF StageCandidate, t
<1> QED
  BY <1>2, <1>3, <1>4, <1>5, <1>6, SoundEvolves DEF L, t

-----------------------------------------------------------------------------
(* The locks that cannot be lost are a table of locks.                     *)
LEMMA LocksType == TypeOK => Locks \in LockTable
<1>1. TypeOK => \A n \in Node : Kept(node[n]) \in [Position -> Block \cup {None}]
  BY DEF TypeOK, NodeState, Disk, Kept
<1> QED
  BY <1>1 DEF Locks, LockTable

(* The step of a node leaves it sound, given the locks before the step. *)
SoundStepOf(n) == \E t \in NodeState : Update(n, t) /\ Sound(Locks, n, t)

(* A sound handler is a sound step.                                        *)
LEMMA SoundStep ==
    ASSUME NEW n \in Node, NEW t, Update(n, t), Sound(Locks, n, t)
    PROVE  SoundStepOf(n)
BY DEF SoundStepOf, Sound

(* A handler that evolves its node in order is a sound step.               *)
LEMMA SoundEvolvesStep ==
    ASSUME NEW n \in Node, NEW t, Update(n, t), Sound(Locks, n, node[n]),
           Evolves(node[n], t),
           NodeOK(LocksWith(Locks, n, node[n]), node[n]) =>
             NodeOK(LocksWith(Locks, n, node[n]), t)
    PROVE  SoundStepOf(n)
<1>1. Sound(Locks, n, t)
  BY SoundEvolves
<1> QED
  BY <1>1, SoundStep

(* A machine that comes back with what is on disk is sound.                *)
LEMMA PowerFailureSound ==
    ASSUME NEW lk \in LockTable, NEW n \in Node, NEW s, Sound(lk, n, s), "power" \in Faults
    PROVE  Sound(lk, n, NodeOn(s.disk, s.sent, s.substituted))
<1> DEFINE t == NodeOn(s.disk, s.sent, s.substituted)
<1>1. s.disk \in Disk /\ s.sent \subseteq VoteMsg /\ s.substituted \subseteq Position
  BY DEF Sound, NodeState
<1>2. t \in NodeState /\ t.substituted = s.substituted /\ t.disk = s.disk
  BY <1>1, NodeOnType
<1>3. /\ t.vote = s.disk.vote /\ t.conflict = s.disk.conflict /\ t.chain = s.disk.chain
      /\ t.finalHeight = s.disk.finalHeight /\ t.lock = s.disk.lock /\ t.sent = s.sent
  BY DEF NodeOn
<1> HIDE DEF t
<1>4. LocksWith(lk, n, t) = LocksWith(lk, n, s)
  BY <1>2 DEF LocksWith, Kept
<1> DEFINE L == LocksWith(lk, n, s)
<1>5. NodeOK(L, s) => NodeOK(L, t)
  <2> HAVE NodeOK(L, s)
  <2>1. StoreOK(L, t) /\ StoreOK(L, t.disk)
    BY <1>2, <1>3 DEF NodeOK, StoreOK
  <2>2. SentOK(L, t.sent) /\ LocksKept(t)
    BY <1>2, <1>3 DEF NodeOK, LocksKept
  <2> QED
    BY <2>1, <2>2 DEF NodeOK
<1> QED
  BY <1>2, <1>4, <1>5 DEF Sound, t

(* Every step is a sound step of one node.                                 *)
LEMMA NextSound ==
    ASSUME ~({"power", "sync"} \subseteq Faults), AgreementInv, NoSubstitution, Next
    PROVE  \E n \in Node : SoundStepOf(n)
<1> PICK n \in Node :
      \/ \E b \in Block : \/ AppendBlock(n, b)
                          \/ StageBlock(n, b)
                          \/ StageBlockFails(n, b)
                          \/ QuarantineExpires(n, b)
      \/ \E p \in Position : \/ CastVoteOn(n, p)
                             \/ AnswerVotePull(n, p)
                             \/ PullFrontierVotes(n, p)
                             \/ SweepStaleConflict(n, p)
      \/ \E m \in VoteMsg : HandleVote(n, m)
      \/ Restart(n)
      \/ WriteBack(n)
      \/ PowerFailure(n)
  BY Zenon DEF Next
<1> DEFINE s == node[n]
<1>t. s \in NodeState /\ Locks \in LockTable
  BY LocksType DEF AgreementInv, TypeOK
<1>l. LocksWith(Locks, n, s) = Locks
  BY <1>t DEF LocksWith, Locks, LockTable
<1>s. Sound(Locks, n, s)
  BY <1>t, <1>l DEF Sound, AgreementInv, Extends
<1>e. \A p \in Position : \A e \in EnvAt(p) :
        e \in Env /\ (e.io = "sync" => "power" \notin Faults)
  BY DEF EnvAt
<1> HIDE DEF s
<1> SUFFICES SoundStepOf(n)
  OBVIOUS
<1>1. ASSUME NEW b \in Block, AppendBlock(n, b)  PROVE SoundStepOf(n)
  <2>1. FitsChain(s, s.chain, b) /\ b \in FullyValid /\ Update(n, Attach(s, b))
    BY <1>1 DEF AppendBlock, CanAppend, s
  <2>2. NodeOK(Locks, s) => NodeOK(Locks, Attach(s, b))
    BY <1>t, <2>1, AppendOK
  <2>3. Evolves(s, Attach(s, b))
    BY <1>t, <2>1, AppendType
  <2> QED
    BY <1>s, <1>l, <2>1, <2>2, <2>3, SoundEvolvesStep DEF s
<1>2. ASSUME NEW b \in Block, StageBlock(n, b)  PROVE SoundStepOf(n)
  <2>1. Sound(Locks, n, StageCandidate(s, b))
    BY <1>t, <1>s, StageCandidateSound
  <2> QED
    BY <1>2, <2>1, SoundStep DEF StageBlock, s
<1>3. ASSUME NEW b \in Block, StageBlockFails(n, b)  PROVE SoundStepOf(n)
  <2>1. Sound(Locks, n, RecordConflict(s, b))
    BY <1>t, <1>s, StageCandidateSound
  <2> QED
    BY <1>3, <2>1, SoundStep DEF StageBlockFails, s
<1>4. ASSUME NEW b \in Block, QuarantineExpires(n, b)  PROVE SoundStepOf(n)
  <2> DEFINE X == s.quarantine \ {b}
  <2>1. Evolves(s, [s EXCEPT !.quarantine = X])
    BY <1>t, QuarantineType
  <2>2. NodeOK(Locks, s) => NodeOK(Locks, [s EXCEPT !.quarantine = X])
    BY <1>t, StageOK
  <2> QED
    BY <1>4, <1>s, <1>l, <2>1, <2>2, SoundEvolvesStep DEF QuarantineExpires, s
<1>5. ASSUME NEW p \in Position, CastVoteOn(n, p)  PROVE SoundStepOf(n)
  <2>1. PICK seed \in VoteSeeds(s, p), e \in EnvAt(p) : Update(n, CastVote(s, n, p, seed, e))
    BY <1>5 DEF CastVoteOn, s
  <2>2. seed \subseteq Block /\ \A b \in seed : Pos(b) = p
    BY <1>t, <2>1 DEF VoteSeeds, NodeState
  <2>3. Sound(Locks, n, CastVote(s, n, p, seed, e))
    BY <1>t, <1>s, <1>e, <2>2, CastVoteSound
  <2> QED
    BY <2>1, <2>3, SoundStep DEF s
<1>6. ASSUME NEW p \in Position, AnswerVotePull(n, p)  PROVE SoundStepOf(n)
  <2>1. Sound(Locks, n, VotesForPosition(s, n, p))
    BY <1>t, <1>s, VotesForPositionSound
  <2> QED
    BY <1>6, <2>1, SoundStep DEF AnswerVotePull, s
<1>7. ASSUME NEW p \in Position, PullFrontierVotes(n, p)  PROVE SoundStepOf(n)
  <2>1. Sound(Locks, n, Retally(s, p))
    BY <1>t, <1>s, RetallySound
  <2> QED
    BY <1>7, <2>1, SoundStep DEF PullFrontierVotes, s
<1>8. ASSUME NEW p \in Position, SweepStaleConflict(n, p)  PROVE SoundStepOf(n)
  <2>1. PICK age \in ConflictAge, e \in EnvAt(p) : Update(n, SweepConflict(s, n, p, age, e))
    BY <1>8 DEF SweepStaleConflict, s, ConflictAge
  <2>2. Sound(Locks, n, SweepConflict(s, n, p, age, e))
    BY <1>t, <1>s, <1>e, SweepConflictSound
  <2> QED
    BY <2>1, <2>2, SoundStep DEF s
<1>9. ASSUME NEW m \in VoteMsg, HandleVote(n, m)  PROVE SoundStepOf(n)
  <2>0. Pos(m.block) \in Position
    BY BlockFacts DEF VoteMsg
  <2>1. PICK e \in EnvAt(Pos(m.block)) : Update(n, ReceiveVote(s, n, m, e))
    BY <1>9 DEF HandleVote, s
  <2>2. PICK k \in Node : m \in node[k].sent
    BY <1>9 DEF HandleVote, Network
  <2>3. m.final => Backed(Locks, m.rep, m.block)
    BY <2>2 DEF AgreementInv, NodeOK, SentOK
  <2>4. Sound(Locks, n, ReceiveVote(s, n, m, e))
    BY <1>t, <1>s, <1>l, <1>e, <2>0, <2>3, ReceiveVoteSound
  <2> QED
    BY <2>1, <2>4, SoundStep DEF s
<1>10. ASSUME Restart(n)  PROVE SoundStepOf(n)
  <2>1. Evolves(s, LoseMemory(s))
    BY <1>t, LoseMemoryType
  <2>2. NodeOK(Locks, s) => NodeOK(Locks, LoseMemory(s))
    BY <1>t DEF LoseMemory, NodeOK, StoreOK, LocksKept, NodeState
  <2> QED
    BY <1>10, <1>s, <1>l, <2>1, <2>2, SoundEvolvesStep DEF Restart, s
<1>11. ASSUME WriteBack(n)  PROVE SoundStepOf(n)
  <2>1. Sound(Locks, n, Sync(s))
    BY <1>t, <1>s, SyncSound
  <2> QED
    BY <1>11, <2>1, SoundStep DEF WriteBack, s
<1>12. ASSUME PowerFailure(n)  PROVE SoundStepOf(n)
  <2>1. Sound(Locks, n, NodeOn(s.disk, s.sent, s.substituted))
    BY <1>12, <1>t, <1>s, PowerFailureSound DEF PowerFailure
  <2> QED
    BY <1>12, <2>1, SoundStep DEF PowerFailure, s
<1> QED
  BY <1>1, <1>2, <1>3, <1>4, <1>5, <1>6, <1>7, <1>8, <1>9, <1>10, <1>11, <1>12

(* A sound step of a node preserves the invariant of all nodes.            *)
LEMMA AgreementInvStep ==
    ASSUME ~({"power", "sync"} \subseteq Faults), AgreementInv, Next
    PROVE  AgreementInv'
<1>1. TypeOK'
  BY NextStep DEF AgreementInv, StepOf, Update, TypeOK
<1>2. NoSubstitution' => NoSubstitution
  <2>1. PICK n \in Node, t \in NodeState :
          Update(n, t) /\ node[n].substituted \subseteq t.substituted
    BY NextStep DEF AgreementInv, StepOf
  <2> QED
    BY <2>1 DEF AgreementInv, TypeOK, Update, NoSubstitution
<1> SUFFICES ASSUME NoSubstitution, NoSubstitution'
             PROVE  LocksOK(Locks)' /\ \A k \in Node : NodeOK(Locks, node[k])'
  BY <1>1, <1>2 DEF AgreementInv
<1>3. PICK n \in Node, t \in NodeState : Update(n, t) /\ Sound(Locks, n, t)
  BY NextSound DEF SoundStepOf
<1>4. node \in [Node -> NodeState] /\ node' = [node EXCEPT ![n] = t]
  BY <1>3 DEF AgreementInv, TypeOK, Update
<1> DEFINE L2 == LocksWith(Locks, n, t)
<1>5. Locks' = L2
  BY <1>4 DEF Locks, LocksWith, Kept
<1>6. Locks \in LockTable /\ L2 \in LockTable
  BY LocksType, LocksWithType DEF AgreementInv
<1>7. t.substituted = {}
  BY <1>4 DEF NoSubstitution
<1>8. Extends(Locks, L2) /\ LocksOK(L2) /\ NodeOK(L2, t)
  BY <1>3, <1>7 DEF Sound
<1> HIDE DEF L2
<1>9. \A k \in Node : NodeOK(L2, node'[k])
  <2> TAKE k \in Node
  <2>1. CASE k = n
    BY <1>4, <1>8, <2>1
  <2>2. CASE k # n
    <3>1. node'[k] = node[k] /\ node[k] \in NodeState
      BY <1>4, <2>2
    <3>2. NodeOK(Locks, node[k])
      BY DEF AgreementInv
    <3> QED
      BY <1>6, <1>8, <3>1, <3>2, NodeOKGrows
  <2> QED
    BY <2>1, <2>2
<1>10. LocksOK(Locks')
  BY <1>5, <1>8
<1>11. \A k \in Node : NodeOK(Locks', node'[k])
  BY <1>5, <1>9
<1> QED
  BY <1>10, <1>11

(* The invariant holds initially.                                          *)
LEMMA AgreementInvInit ==
    ASSUME Init
    PROVE  AgreementInv
<1>1. TypeOK
  BY InitNodeType DEF Init, TypeOK
<1>2. \A r \in Node, p \in Position : Locks[r][p] = None
  BY DEF Init, Locks, Kept, InitNode, NodeOn, InitDisk
<1>3. LocksOK(Locks)
  BY <1>2 DEF LocksOK, LockOK
<1>4. \A n \in Node : NodeOK(Locks, node[n])
  <2> TAKE n \in Node
  <2> DEFINE s == node[n]
             d == InitDisk
  <2>1. /\ s.vote = d.vote /\ s.conflict = d.conflict /\ s.chain = d.chain
        /\ s.finalHeight = d.finalHeight /\ s.lock = d.lock /\ s.disk = d /\ s.sent = {}
    BY DEF Init, InitNode, NodeOn
  <2>2. /\ \A p \in Position, r \in Node : d.vote[p][r] = None
        /\ \A p \in Position : d.conflict[p] = {} /\ d.lock[p] = None
        /\ d.chain = {}
        /\ \A a \in Account : d.finalHeight[a] = 0
    BY DEF InitDisk
  <2> HIDE DEF s, d
  <2>3. StoreOK(Locks, d)
    BY <2>2 DEF StoreOK, VotesOK, ConflictOK, ChainOK, Closed, Linear, Capped, FinalOK, LockOK
  <2>4. StoreOK(Locks, s)
    BY <2>1, <2>3 DEF StoreOK
  <2>5. NodeOK(Locks, s)
    BY <2>1, <2>3, <2>4 DEF NodeOK, SentOK, LocksKept
  <2> QED
    BY <2>5 DEF s
<1> QED
  BY <1>1, <1>3, <1>4 DEF AgreementInv

(* The inductive invariant.                                                *)
THEOREM AgreementInvHolds ==
    ASSUME ~({"power", "sync"} \subseteq Faults)
    PROVE  Spec => []AgreementInv
<1>1. Init => AgreementInv
  BY AgreementInvInit
<1>2. AgreementInv /\ [Next]_vars => AgreementInv'
  <2>1. ASSUME AgreementInv, Next  PROVE AgreementInv'
    BY <2>1, AgreementInvStep
  <2>2. ASSUME AgreementInv, vars' = vars  PROVE AgreementInv'
    <3>1. node' = node
      BY <2>2 DEF vars
    <3>2. Locks' = Locks
      BY <3>1 DEF Locks, Kept
    <3>3. TypeOK' /\ (NoSubstitution' => NoSubstitution)
      BY <2>2, <3>1 DEF AgreementInv, TypeOK, NoSubstitution
    <3>4. ASSUME NoSubstitution
          PROVE  LocksOK(Locks') /\ \A n \in Node : NodeOK(Locks', node'[n])
      BY <2>2, <3>1, <3>2, <3>4 DEF AgreementInv
    <3> QED
      BY <3>3, <3>4 DEF AgreementInv
  <2> QED
    BY <2>1, <2>2
<1> QED
  BY <1>1, <1>2, PTL DEF Spec

(* Chosen among the locks that cannot be lost is chosen.                   *)
LEMMA ChosenKept ==
    ASSUME AgreementInv, NoSubstitution, NEW b \in Block, ChosenIn(Locks, b)
    PROVE  Chosen(b)
<1> DEFINE S == LockersOf(Locks, b)
           T == {r \in Node : node[r].lock[Pos(b)] = b}
<1>1. S \in SUBSET Node /\ T \in SUBSET Node /\ ThresholdMet(S)
  BY DEF LockersOf, ChosenIn
<1>2. S \subseteq T
  BY BlockFacts DEF LockersOf, Locks, Kept, AgreementInv, NodeOK, LocksKept
<1> HIDE DEF S, T
<1>3. ThresholdMet(T)
  BY <1>1, <1>2, ThresholdMonotone
<1> QED
  BY <1>3 DEF Chosen, T

(* Without power failures no lock can be lost.                             *)
LEMMA ChosenLocks ==
    ASSUME "power" \notin Faults, NEW b
    PROVE  ChosenIn(Locks, b) <=> Chosen(b)
BY DEF ChosenIn, LockersOf, Locks, Kept, Chosen

(* What any node finalizes, ancestors included, 67% of the weight is       *)
(* locked on (confirmConflict, core/quorum.go).                            *)
THEOREM OnlyChosenFinalized ==
    ASSUME ~({"power", "sync"} \subseteq Faults)
    PROVE  Spec => [](NoSubstitution => FinalizedIsChosen)
<1>1. AgreementInv => (NoSubstitution => FinalizedIsChosen)
  BY ChosenKept
     DEF AgreementInv, NodeOK, StoreOK, FinalOK, FinalizedIsChosen, Finalized, IsFinalized
<1> QED
  BY <1>1, AgreementInvHolds, PTL

(* Two nodes never finalize different blocks at one position: whatever     *)
(* happens to blocks and votes on the way, whichever writes fail, and      *)
(* whenever processes restart and machines lose power.                     *)
THEOREM AgreementHolds ==
    ASSUME ~({"power", "sync"} \subseteq Faults)
    PROVE  Spec => [](NoSubstitution => Agreement)
<1>1. AgreementInv => (NoSubstitution => Agreement)
  <2> SUFFICES ASSUME AgreementInv, NoSubstitution,
                      NEW n \in Node, NEW m \in Node,
                      NEW b \in Finalized(node[n]), NEW c \in Finalized(node[m]),
                      Pos(b) = Pos(c)
               PROVE  b = c
    BY DEF Agreement
  <2>1. b \in Block /\ c \in Block
    BY DEF Finalized
  <2>2. ChosenIn(Locks, b) /\ ChosenIn(Locks, c)
    BY DEF AgreementInv, NodeOK, StoreOK, FinalOK, Finalized, IsFinalized
  <2>3. Locks \in LockTable
    BY LocksType DEF AgreementInv
  <2> QED
    BY <2>1, <2>2, <2>3, ChosenUnique
<1> QED
  BY <1>1, AgreementInvHolds, PTL

(* A final vote on the wire is bound by its signer's lock or reaffirms a   *)
(* chosen block (emitFinalLocked, reaffirmFromState,                       *)
(* core/finalization.go).                                                  *)
THEOREM FinalVotesAreBound ==
    ASSUME ~({"power", "sync"} \subseteq Faults)
    PROVE  Spec => [](NoSubstitution => FinalVotesBound)
<1>1. AgreementInv => (NoSubstitution => FinalVotesBound)
  <2> SUFFICES ASSUME AgreementInv, NoSubstitution,
                      NEW n \in Node, NEW m \in node[n].sent, m.final
               PROVE  node[m.rep].lock[Pos(m.block)] = m.block \/ Chosen(m.block)
    BY DEF FinalVotesBound
  <2>1. Backed(Locks, m.rep, m.block) /\ m.rep \in Node /\ m.block \in Block
    BY DEF AgreementInv, NodeOK, SentOK, TypeOK, NodeState, VoteMsg
  <2>2. Locks[m.rep][Pos(m.block)] = m.block => node[m.rep].lock[Pos(m.block)] = m.block
    BY <2>1, BlockFacts DEF Locks, Kept, AgreementInv, NodeOK, LocksKept
  <2> QED
    BY <2>1, <2>2, ChosenKept DEF Backed
<1> QED
  BY <1>1, AgreementInvHolds, PTL

-----------------------------------------------------------------------------
(* The promise of FinalitySpec. *)

(* What ChosenAt picks, since at most one block of a position is chosen. *)
ChoicesAreChosen ==
    /\ \A p \in Position :
          \/ ChosenAt(p) = None
          \/ \E b \in Block : Pos(b) = p /\ Chosen(b) /\ ChosenAt(p) = b
    /\ \A b \in Block : Chosen(b) => ChosenAt(Pos(b)) = b

(* The choice of a position is its chosen block.                           *)
LEMMA ChosenAtFacts ==
    ASSUME "power" \notin Faults
    PROVE  TypeOK => ChoicesAreChosen
<1> SUFFICES ASSUME TypeOK  PROVE ChoicesAreChosen
  OBVIOUS
<1>1. Locks \in LockTable
  BY LocksType
<1>2. \A b, c \in Block : Pos(b) = Pos(c) /\ Chosen(b) /\ Chosen(c) => b = c
  BY <1>1, ChosenUnique, ChosenLocks
<1>3. ASSUME NEW p \in Position, NEW b \in Block, Pos(b) = p, Chosen(b)
      PROVE  ChosenAt(p) \in Block /\ Pos(ChosenAt(p)) = p /\ Chosen(ChosenAt(p))
  BY <1>3 DEF ChosenAt
<1>4. ASSUME NEW p \in Position
      PROVE  \/ ChosenAt(p) = None
             \/ \E b \in Block : Pos(b) = p /\ Chosen(b) /\ ChosenAt(p) = b
  <2>1. CASE \E b \in Block : Pos(b) = p /\ Chosen(b)
    BY <1>3, <2>1
  <2>2. CASE ~ \E b \in Block : Pos(b) = p /\ Chosen(b)
    BY <2>2 DEF ChosenAt
  <2> QED BY <2>1, <2>2
<1>5. ASSUME NEW b \in Block, Chosen(b)  PROVE ChosenAt(Pos(b)) = b
  BY <1>2, <1>3, <1>5, BlockFacts
<1> QED
  BY <1>4, <1>5 DEF ChoicesAreChosen

(* A node finalizes a block with those before it, and only chosen ones. *)
FinalRestsOnChosen ==
    /\ \A n \in Node : \A b \in Finalized(node[n]) :
          Chosen(b) /\ Anc[b] \subseteq Finalized(node[n])
    /\ \A b \in Block : Chosen(b) => \A d \in Parents(b) : d \in Block /\ Chosen(d)

(* Final blocks and what they rest on are chosen.                          *)
LEMMA FinalizedFacts ==
    ASSUME "power" \notin Faults
    PROVE  AgreementInv /\ NoSubstitution => FinalRestsOnChosen
<1> SUFFICES ASSUME AgreementInv, NoSubstitution  PROVE FinalRestsOnChosen
  OBVIOUS
<1>1. Locks \in LockTable /\ LocksOK(Locks) /\ \A n \in Node : NodeOK(Locks, node[n])
  BY LocksType DEF AgreementInv
<1>2. ASSUME NEW n \in Node, NEW b \in Finalized(node[n])
      PROVE  Chosen(b) /\ Anc[b] \subseteq Finalized(node[n])
  <2> DEFINE s == node[n]
  <2>1. /\ b \in Block /\ b \in s.chain /\ Height[b] <= s.finalHeight[Acct[b]]
        /\ s.finalHeight[Acct[b]] \in Nat
    BY BlockFacts DEF Finalized, IsFinalized, AgreementInv, TypeOK, NodeState
  <2>2. Chosen(b)
    BY <1>1, <2>1, ChosenLocks DEF NodeOK, StoreOK, FinalOK
  <2>3. Anc[b] \subseteq s.chain /\ Anc[b] \subseteq Block
    BY <1>1, <2>1, AncFacts DEF NodeOK, StoreOK, ChainOK, Closed
  <2>4. \A a \in Anc[b] : Acct[a] = Acct[b] /\ Height[a] < Height[b] /\ Height[a] \in Nat
    BY <2>1, <2>3, AncFacts, BlockFacts
  <2>5. Height[b] \in Nat
    BY <2>1, BlockFacts
  <2> HIDE DEF s
  <2>6. \A a \in Anc[b] : Height[a] <= s.finalHeight[Acct[a]]
    BY <2>1, <2>4, <2>5
  <2> QED
    BY <2>2, <2>3, <2>6 DEF Finalized, IsFinalized, s
<1>3. ASSUME NEW b \in Block, Chosen(b), NEW d \in Parents(b)
      PROVE  d \in Block /\ Chosen(d)
  <2>1. ChosenIn(Locks, b)
    BY <1>3, ChosenLocks
  <2>2. d \in Below[b] /\ d \in Block
    BY BelowFacts
  <2>3. ChosenIn(Locks, d)
    BY <1>1, <2>1, <2>2, ChosenAncestors
  <2> QED
    BY <2>2, <2>3, ChosenLocks
<1> QED
  BY <1>2, <1>3 DEF FinalRestsOnChosen

(* What was chosen or final stays so. *)
LEMMA ChoicesStay ==
    ASSUME "power" \notin Faults, TypeOK, Next
    PROVE  /\ \A b \in Block : Chosen(b) => Chosen(b)'
           /\ \A n \in Node : Finalized(node[n]) \subseteq Finalized(node'[n])
<1>1. PICK n \in Node, t \in NodeState : Update(n, t) /\ Advances(node[n], t)
  BY NextStep DEF StepOf
<1>2. node \in [Node -> NodeState] /\ node' = [node EXCEPT ![n] = t]
  BY <1>1 DEF TypeOK, Update
<1>3. \A k \in Node, p \in Position :
        node[k].lock[p] # None => node'[k].lock[p] = node[k].lock[p]
  BY <1>1, <1>2 DEF Advances
<1>4. ASSUME NEW b \in Block, Chosen(b)  PROVE Chosen(b)'
  <2> DEFINE S == {r \in Node : node[r].lock[Pos(b)] = b}
             T == {r \in Node : node'[r].lock[Pos(b)] = b}
  <2>1. S \in SUBSET Node /\ T \in SUBSET Node
    OBVIOUS
  <2>2. S \subseteq T
    BY <1>3, BlockFacts
  <2>3. ThresholdMet(S)
    BY <1>4 DEF Chosen
  <2> HIDE DEF S, T
  <2>4. ThresholdMet(T)
    BY <2>1, <2>2, <2>3, ThresholdMonotone
  <2> QED
    BY <2>4 DEF Chosen, T, ThresholdMet
<1>5. ASSUME NEW k \in Node  PROVE Finalized(node[k]) \subseteq Finalized(node'[k])
  <2>1. CASE k = n
    BY <1>1, <1>2, <2>1 DEF Advances, Keeps
  <2>2. CASE k # n
    BY <1>2, <2>2
  <2> QED BY <2>1, <2>2
<1> QED
  BY <1>4, <1>5

(* Each step of the protocol is a step of the promise, or leaves chosen    *)
(* and final blocks alone.                                                 *)
LEMMA PromiseStep ==
    ASSUME "power" \notin Faults, AgreementInv, AgreementInv',
           NoSubstitution', Next
    PROVE  Promise!Next
<1>1. /\ \A b \in Block : Chosen(b) => Chosen(b)'
      /\ \A n \in Node : Finalized(node[n]) \subseteq Finalized(node'[n])
  BY ChoicesStay DEF AgreementInv
<1>2. ChoicesAreChosen /\ TypeOK'
  BY ChosenAtFacts DEF AgreementInv
<1>3. ChoicesAreChosen' /\ FinalRestsOnChosen'
  BY <1>2, ChosenAtFacts, FinalizedFacts, PTL
<1> DEFINE chosen == [p \in Position |-> ChosenAt(p)]
           final  == [n \in Node |-> Finalized(node[n])]
<1>4. ASSUME NEW p \in Position
      PROVE  \/ chosen'[p] = chosen[p]
             \/ /\ chosen[p] = None
                /\ \E b \in Block : /\ Pos(b) = p /\ chosen'[p] = b
                                    /\ \A d \in Parents(b) : chosen'[Pos(d)] = d
  <2>1. CASE chosen[p] # None
    <3>1. PICK b \in Block : Pos(b) = p /\ Chosen(b) /\ ChosenAt(p) = b
      BY <1>2, <2>1 DEF ChoicesAreChosen
    <3>2. ChosenAt(p)' = b
      BY <1>1, <1>3, <3>1 DEF ChoicesAreChosen
    <3> QED BY <3>1, <3>2
  <2>2. CASE chosen'[p] # None /\ chosen[p] = None
    <3>1. PICK b \in Block : Pos(b) = p /\ Chosen(b)' /\ ChosenAt(p)' = b
      BY <1>3, <2>2 DEF ChoicesAreChosen
    <3>2. \A d \in Parents(b) : d \in Block /\ Chosen(d)'
      BY <1>3, <3>1 DEF FinalRestsOnChosen
    <3>3. \A d \in Parents(b) : Pos(d) \in Position /\ ChosenAt(Pos(d))' = d
      BY <1>3, <3>2, BlockFacts DEF ChoicesAreChosen
    <3> QED BY <2>2, <3>1, <3>3
  <2> QED BY <2>1, <2>2
<1>5. ASSUME NEW n \in Node
      PROVE  /\ final[n] \subseteq final'[n]
             /\ \A b \in final'[n] :
                   chosen'[Pos(b)] = b /\ Ancestors(b) \subseteq final'[n]
  <2>1. final'[n] = Finalized(node'[n]) /\ final'[n] \subseteq Block
    BY DEF Finalized
  <2>2. ASSUME NEW b \in final'[n]
        PROVE  chosen'[Pos(b)] = b /\ Ancestors(b) \subseteq final'[n]
    <3>1. b \in Block /\ Chosen(b)' /\ Anc[b] \subseteq final'[n]
      BY <1>3, <2>1 DEF FinalRestsOnChosen
    <3>2. ChosenAt(Pos(b))' = b /\ Pos(b) \in Position
      BY <1>3, <3>1, BlockFacts DEF ChoicesAreChosen
    <3> QED BY <3>1, <3>2 DEF Ancestors
  <2> QED BY <1>1, <2>1, <2>2
<1> QED
  BY <1>4, <1>5 DEF Promise!Next, Promise!Choose, Promise!Learn

(* Conflict detection, votes, locks and promotion implement the promise of *)
(* FinalitySpec, for every lattice and weight distribution: one choice per *)
(* position, over chosen blocks, that every node's final blocks follow.    *)
THEOREM PromiseKept ==
    ASSUME "power" \notin Faults
    PROVE  Spec /\ []NoSubstitution => ImplementsPromise
<1>1. Init => Promise!Init
  <2> SUFFICES ASSUME Init  PROVE Promise!Init
    OBVIOUS
  <2>1. \A n \in Node : node[n].chain = {} /\ \A p \in Position : node[n].lock[p] = None
    BY DEF Init, InitNode, NodeOn, InitDisk
  <2>2. \A b \in Block : ~Chosen(b)
    <3> SUFFICES ASSUME NEW b \in Block, Chosen(b)  PROVE FALSE
      OBVIOUS
    <3> DEFINE S == {r \in Node : node[r].lock[Pos(b)] = b}
    <3>1. S = {}
      BY <2>1, BlockFacts
    <3>2. S \in SUBSET Node /\ ThresholdMet(S)
      BY DEF Chosen
    <3> HIDE DEF S
    <3> QED BY <3>1, <3>2, ThresholdNonempty
  <2>3. \A p \in Position : ChosenAt(p) = None
    BY <2>2 DEF ChosenAt
  <2>4. \A n \in Node : Finalized(node[n]) = {}
    BY <2>1 DEF Finalized, IsFinalized
  <2> QED
    BY <2>3, <2>4 DEF Promise!Init
<1>2. ASSUME AgreementInv, AgreementInv', NoSubstitution', [Next]_vars
      PROVE  [Promise!Next]_<<[p \in Position |-> ChosenAt(p)],
                              [n \in Node |-> Finalized(node[n])]>>
  <2>1. CASE Next
    BY <1>2, <2>1, PromiseStep
  <2>2. CASE UNCHANGED vars
    BY <2>2 DEF vars, ChosenAt, Chosen, Finalized
  <2> QED BY <1>2, <2>1, <2>2
<1>3. Spec => []AgreementInv
  BY AgreementInvHolds
<1> QED
  BY <1>1, <1>2, <1>3, PTL DEF Spec, ImplementsPromise, Promise!Spec

-----------------------------------------------------------------------------
(* Locks that do not split. *)

(* Competing first blocks of an account rest on the same contested blocks, *)
(* on none for example. *)
OpeningsStand ==
    \A b, c \in Block :
        Pos(b) = Pos(c) /\ Prev[b] = Root =>
            \A d \in Below[b] \ Below[c], x \in Block : Pos(x) = Pos(d) => x = d

(* A block that can no longer be chosen: a node has finalized a sibling of *)
(* it, or of a block it rests on.                                          *)
Beaten(s, d) == \E c \in Finalized(s) : Pos(c) = Pos(d) /\ c # d

Dead(s, b) == \E d \in Below[b] \cup {b} : Beaten(s, d)

(* Every block a node holds is on a chain, on record or dead. *)
KnownOK(s) ==
    /\ s.chain \subseteq s.known
    /\ \A b \in s.known : Prev[b] = Root \/ Prev[b] \in s.known

UndoneOK(s) == \A b \in Undone(s) : Dead(s, b)

StagedOK(s) ==
    \A b \in s.staged : b \in s.conflict[Pos(b)] \/ b \in s.chain \/ Dead(s, b)

(* A conflict record has the chain block of the position, until it is      *)
(* final.                                                                  *)
RecordedOK(s) ==
    \A p \in Position :
        s.conflict[p] # {} =>
            \A c \in ChildAt(s, p) : c \in s.conflict[p] \/ IsFinalized(s, c)

RecordsOK(s) == KnownOK(s) /\ UndoneOK(s) /\ StagedOK(s) /\ RecordedOK(s)

(* A dead block stays dead.                                                *)
LEMMA DeadGrows ==
    ASSUME NEW s, NEW t, Finalized(s) \subseteq Finalized(t), NEW b, Dead(s, b)
    PROVE  Dead(t, b)
BY DEF Dead, Beaten

(* A block over chosen blocks is alive as long as no sibling of it is      *)
(* final.                                                                  *)
LEMMA OverChosenAlive ==
    ASSUME NEW lk \in LockTable, NEW s \in NodeState, NodeOK(lk, s), NEW b \in Block,
           \A a \in Below[b] : ChosenIn(lk, a),
           \A c \in Finalized(s) : Pos(c) = Pos(b) => c = b
    PROVE  ~Dead(s, b)
<1> SUFFICES ASSUME NEW d \in Below[b], NEW c \in Finalized(s), Pos(c) = Pos(d), c # d
             PROVE  FALSE
  BY DEF Dead, Beaten
<1>1. d \in Block /\ ChosenIn(lk, d)
  BY BelowFacts
<1>2. c \in Block /\ ChosenIn(lk, c)
  BY DEF Finalized, IsFinalized, NodeOK, StoreOK, FinalOK
<1> QED
  BY <1>1, <1>2, ChosenUnique

(* A chosen block is alive.                                                *)
LEMMA ChosenAlive ==
    ASSUME NEW lk \in LockTable, LocksOK(lk), NEW s \in NodeState, NodeOK(lk, s),
           NEW b \in Block, ChosenIn(lk, b)
    PROVE  ~Dead(s, b)
<1>1. \A a \in Below[b] : ChosenIn(lk, a)
  BY ChosenAncestors
<1>2. ASSUME NEW c \in Finalized(s), Pos(c) = Pos(b)  PROVE c = b
  <2>1. c \in Block /\ ChosenIn(lk, c)
    BY DEF Finalized, IsFinalized, NodeOK, StoreOK, FinalOK
  <2> QED
    BY <1>2, <2>1, ChosenUnique
<1> QED
  BY <1>1, <1>2, OverChosenAlive

(* What a step must show of the blocks it adds or moves.                   *)
LEMMA RecordsStep ==
    ASSUME NEW s, NEW t, RecordsOK(s), Finalized(s) \subseteq Finalized(t),
           t.chain \subseteq t.known, s.known \subseteq t.known,
           \A b \in t.known \ s.known :
              b \in t.chain /\ (Prev[b] = Root \/ Prev[b] \in t.known),
           \A b \in s.chain \ t.chain : Dead(t, b),
           \A b \in t.staged \ s.staged :
              b \in t.conflict[Pos(b)] \/ b \in t.chain \/ Dead(t, b),
           \A b \in t.staged :
              b \in s.conflict[Pos(b)] =>
                 b \in t.conflict[Pos(b)] \/ b \in t.chain \/ Dead(t, b),
           RecordedOK(t)
    PROVE  RecordsOK(t)
<1>1. KnownOK(t)
  BY DEF RecordsOK, KnownOK
<1>2. UndoneOK(t)
  BY DeadGrows DEF RecordsOK, UndoneOK, Undone
<1>3. StagedOK(t)
  BY DeadGrows DEF RecordsOK, StagedOK
<1> QED
  BY <1>1, <1>2, <1>3 DEF RecordsOK

(* Votes, locks and what only memory holds have no part in it.             *)
LEMMA RecordsSame ==
    ASSUME NEW s, NEW t, RecordsOK(s), t.chain = s.chain, t.known = s.known,
           t.staged = s.staged, t.conflict = s.conflict, t.finalHeight = s.finalHeight
    PROVE  RecordsOK(t)
<1>1. Finalized(t) = Finalized(s) /\ \A p : ChildAt(t, p) = ChildAt(s, p)
  BY DEF Finalized, IsFinalized, ChildAt
<1>2. \A c : IsFinalized(t, c) <=> IsFinalized(s, c)
  BY DEF IsFinalized
<1>3. RecordedOK(t)
  BY <1>1, <1>2 DEF RecordsOK, RecordedOK
<1>4. t.chain \subseteq t.known
  BY DEF RecordsOK, KnownOK
<1> QED
  BY <1>1, <1>3, <1>4, RecordsStep

(* A block that arrives on a chain.                                        *)
LEMMA AttachRecords ==
    ASSUME NEW s \in NodeState, RecordsOK(s), NEW b \in Block,
           FitsChain(s, s.chain, b), s.conflict[Pos(b)] = {}
    PROVE  RecordsOK(Attach(s, b))
<1> DEFINE t == Attach(s, b)
<1>1. /\ t.chain = s.chain \cup {b} /\ t.known = s.known \cup {b} /\ t.staged = s.staged
      /\ t.conflict = s.conflict /\ t.finalHeight = s.finalHeight
  BY DEF Attach, NodeState
<1> HIDE DEF t
<1>2. Finalized(s) \subseteq Finalized(t)
  BY <1>1 DEF Finalized, IsFinalized
<1>3. \A c : IsFinalized(s, c) => IsFinalized(t, c)
  BY <1>1 DEF IsFinalized
<1>4. RecordedOK(t)
  BY <1>1, <1>3 DEF RecordsOK, RecordedOK, ChildAt
<1>5. t.chain \subseteq t.known /\ (Prev[b] = Root \/ Prev[b] \in t.known)
  BY <1>1 DEF RecordsOK, KnownOK, FitsChain
<1>6. RecordsOK(t)
  BY <1>1, <1>2, <1>4, <1>5, RecordsStep
<1> QED
  BY <1>6 DEF t

(* A candidate that goes on record takes the chain block along.            *)
LEMMA RecordConflictRecords ==
    ASSUME NEW s \in NodeState, RecordsOK(s), NEW b \in Block
    PROVE  RecordsOK(RecordConflict(s, b))
<1> DEFINE p   == Pos(b)
           old == s.conflict[p]
           new == IF old = {} THEN ChildAt(s, p) \cup {b}
                  ELSE IF Cardinality(old) >= MaxHashes THEN old
                  ELSE old \cup {b}
           t   == RecordConflict(s, b)
<1>1. p \in Position /\ s.conflict \in [Position -> SUBSET Block]
  BY BlockFacts DEF NodeState
<1>2. /\ t.chain = s.chain /\ t.known = s.known /\ t.staged = s.staged
      /\ t.conflict = [s.conflict EXCEPT ![p] = new] /\ t.finalHeight = s.finalHeight
  BY DEF RecordConflict, NodeState
<1>3. old \subseteq new /\ (old = {} => ChildAt(s, p) \subseteq new)
  OBVIOUS
<1> HIDE DEF new, p, t
<1>4. \A q \in Position : t.conflict[q] = IF q = p THEN new ELSE s.conflict[q]
  BY <1>1, <1>2
<1>5. Finalized(t) = Finalized(s) /\ \A q : ChildAt(t, q) = ChildAt(s, q)
  BY <1>2 DEF Finalized, IsFinalized, ChildAt
<1>6. \A c : IsFinalized(t, c) <=> IsFinalized(s, c)
  BY <1>2 DEF IsFinalized
<1>7. RecordedOK(t)
  BY <1>1, <1>3, <1>4, <1>5, <1>6 DEF RecordsOK, RecordedOK
<1>8. \A c \in t.staged : c \in s.conflict[Pos(c)] => c \in t.conflict[Pos(c)]
  <2>1. \A c \in t.staged : Pos(c) \in Position
    BY <1>2, BlockFacts DEF NodeState
  <2> QED
    BY <1>3, <1>4, <2>1
<1>9. t.chain \subseteq t.known
  BY <1>2 DEF RecordsOK, KnownOK
<1>10. RecordsOK(t)
  BY <1>2, <1>5, <1>7, <1>8, <1>9, RecordsStep
<1> QED
  BY <1>10 DEF t

(* A body that is staged is on record or on a chain.                       *)
LEMMA StageRecords ==
    ASSUME NEW s \in NodeState, RecordsOK(s), NEW b,
           b \in s.conflict[Pos(b)] \/ b \in s.chain
    PROVE  RecordsOK([s EXCEPT !.staged = @ \cup {b}])
<1> DEFINE t == [s EXCEPT !.staged = @ \cup {b}]
<1>1. /\ t.chain = s.chain /\ t.known = s.known /\ t.staged = s.staged \cup {b}
      /\ t.conflict = s.conflict /\ t.finalHeight = s.finalHeight
  BY DEF NodeState
<1> HIDE DEF t
<1>2. Finalized(t) = Finalized(s) /\ \A q : ChildAt(t, q) = ChildAt(s, q)
  BY <1>1 DEF Finalized, IsFinalized, ChildAt
<1>3. \A c : IsFinalized(t, c) <=> IsFinalized(s, c)
  BY <1>1 DEF IsFinalized
<1>4. RecordedOK(t)
  BY <1>1, <1>2, <1>3 DEF RecordsOK, RecordedOK
<1>5. t.chain \subseteq t.known
  BY <1>1 DEF RecordsOK, KnownOK
<1>6. RecordsOK(t)
  BY <1>1, <1>2, <1>4, <1>5, RecordsStep
<1> QED
  BY <1>6 DEF t

(* What finalizing a winner changes.                                       *)
LEMMA FinalizeWinnerFacts ==
    ASSUME NEW s \in NodeState, NEW p \in Position, NEW w \in Block, NEW cands
    PROVE  LET t == FinalizeWinner(s, p, w, cands)
           IN  /\ t.chain = s.chain /\ t.known = s.known
               /\ t.staged = s.staged \ ({w} \cup cands)
               /\ t.conflict = [s.conflict EXCEPT ![p] = {}]
               /\ Finalized(s) \subseteq Finalized(t)
               /\ w \in s.chain => w \in Finalized(t)
<1> DEFINE a == AdvanceFinalHeight(s, w)
           t == FinalizeWinner(s, p, w, cands)
<1>1. Acct[w] \in Account /\ Height[w] \in Nat
  BY BlockFacts
<1>2. s.finalHeight \in [Account -> Nat]
  BY DEF NodeState
<1>3. /\ a \in NodeState /\ a.chain = s.chain /\ a.known = s.known
      /\ a.staged = s.staged /\ a.conflict = s.conflict
  BY AdvanceFinalHeightType DEF Evolves, AdvanceFinalHeight, NodeState
<1>4. w \in s.chain => Height[w] <= a.finalHeight[Acct[w]]
  BY <1>1, <1>2 DEF AdvanceFinalHeight, NodeState
<1> HIDE DEF a
<1>5. /\ t.chain = a.chain /\ t.known = a.known /\ t.finalHeight = a.finalHeight
      /\ t.staged = a.staged \ ({w} \cup cands)
      /\ t.conflict = [a.conflict EXCEPT ![p] = {}]
  BY <1>3 DEF FinalizeWinner, CleanupResolvedConflict, ClearVotes, NodeState, a
<1>6. Finalized(s) \subseteq Finalized(t)
  BY FinalizeWinnerType DEF Evolves, Keeps
<1>7. w \in s.chain => w \in Finalized(t)
  BY <1>3, <1>4, <1>5 DEF Finalized, IsFinalized
<1> QED
  BY <1>3, <1>5, <1>6, <1>7

(* A record that is closed: the bodies of its candidates go with it.       *)
LEMMA ClosedRecords ==
    ASSUME NEW s \in NodeState, RecordsOK(s), NEW p \in Position,
           NEW t, t.chain = s.chain, t.known = s.known,
           t.staged \subseteq s.staged \ s.conflict[p],
           t.conflict = [s.conflict EXCEPT ![p] = {}],
           Finalized(s) \subseteq Finalized(t)
    PROVE  RecordsOK(t)
<1>1. s.conflict \in [Position -> SUBSET Block] /\ s.chain \subseteq Block
  BY DEF NodeState
<1>2. \A q \in Position : t.conflict[q] = IF q = p THEN {} ELSE s.conflict[q]
  BY <1>1
<1>3. \A c \in s.chain : IsFinalized(s, c) => IsFinalized(t, c)
  BY <1>1 DEF Finalized
<1>4. RecordedOK(t)
  BY <1>1, <1>2, <1>3 DEF RecordsOK, RecordedOK, ChildAt
<1>5. \A b \in t.staged : b \in s.conflict[Pos(b)] => b \in t.conflict[Pos(b)]
  <2>1. \A b \in t.staged : Pos(b) \in Position
    BY BlockFacts DEF NodeState
  <2> QED
    BY <1>2, <2>1
<1>6. t.chain \subseteq t.known
  BY DEF RecordsOK, KnownOK
<1> QED
  BY <1>4, <1>5, <1>6, RecordsStep

(* A winner that is final or becomes so closes its record.                 *)
LEMMA FinalizeRecords ==
    ASSUME NEW s \in NodeState, RecordsOK(s), NEW p \in Position, NEW w \in Block,
           NEW cands, s.conflict[p] \subseteq cands
    PROVE  /\ RecordsOK(FinalizeWinner(s, p, w, cands))
           /\ RecordsOK(CleanupResolvedConflict(s, p, w, cands))
<1>1. RecordsOK(FinalizeWinner(s, p, w, cands))
  <2> DEFINE t == FinalizeWinner(s, p, w, cands)
  <2>1. /\ t.chain = s.chain /\ t.known = s.known
        /\ t.staged = s.staged \ ({w} \cup cands)
        /\ t.conflict = [s.conflict EXCEPT ![p] = {}]
        /\ Finalized(s) \subseteq Finalized(t)
    BY FinalizeWinnerFacts
  <2> HIDE DEF t
  <2>2. RecordsOK(t)
    BY <2>1, ClosedRecords
  <2> QED
    BY <2>2 DEF t
<1>2. RecordsOK(CleanupResolvedConflict(s, p, w, cands))
  <2> DEFINE t == CleanupResolvedConflict(s, p, w, cands)
  <2>1. /\ t.chain = s.chain /\ t.known = s.known
        /\ t.staged = s.staged \ ({w} \cup cands)
        /\ t.conflict = [s.conflict EXCEPT ![p] = {}]
    BY DEF CleanupResolvedConflict, ClearVotes, NodeState
  <2>2. Finalized(s) \subseteq Finalized(t)
    BY CleanupResolvedConflictType DEF Evolves, Keeps
  <2> HIDE DEF t
  <2>3. RecordsOK(t)
    BY <2>1, <2>2, ClosedRecords
  <2> QED
    BY <2>3 DEF t
<1> QED
  BY <1>1, <1>2

(* A winner is placed on its chain, at the cost of some blocks that are    *)
(* dead once it is final.                                                  *)
LEMMA PlacedRecords ==
    ASSUME NEW s \in NodeState, RecordsOK(s), NEW p \in Position, NEW w \in Block,
           Pos(w) = p, NEW lost, NEW x \in NodeState, NEW cands, s.conflict[p] \subseteq cands,
           x.chain = (s.chain \ lost) \cup {w}, x.known = s.known \cup {w},
           x.staged \subseteq s.staged \cup lost, x.conflict = s.conflict,
           Finalized(s) \subseteq Finalized(x),
           Prev[w] = Root \/ Prev[w] \in s.chain,
           \A b \in lost : \E d \in Below[b] \cup {b} : Pos(d) = p /\ d # w
    PROVE  RecordsOK(FinalizeWinner(x, p, w, cands))
<1> DEFINE t == FinalizeWinner(x, p, w, cands)
<1>1. /\ t.chain = x.chain /\ t.known = x.known
      /\ t.staged = x.staged \ ({w} \cup cands)
      /\ t.conflict = [x.conflict EXCEPT ![p] = {}]
      /\ Finalized(x) \subseteq Finalized(t)
      /\ w \in x.chain => w \in Finalized(t)
  BY FinalizeWinnerFacts
<1> HIDE DEF t
<1>2. s.conflict \in [Position -> SUBSET Block] /\ s.chain \subseteq Block
  BY DEF NodeState
<1>3. \A q \in Position : t.conflict[q] = IF q = p THEN {} ELSE s.conflict[q]
  BY <1>1, <1>2
<1>4. \A b \in lost : Dead(t, b)
  BY <1>1 DEF Dead, Beaten
<1>5. Finalized(s) \subseteq Finalized(t)
  BY <1>1
<1>6. \A c \in s.chain : IsFinalized(s, c) => IsFinalized(t, c)
  BY <1>2, <1>5 DEF Finalized
<1>7. RecordedOK(t)
  BY <1>1, <1>2, <1>3, <1>6 DEF RecordsOK, RecordedOK, ChildAt
<1>8. \A b \in t.staged : b \in s.conflict[Pos(b)] => b \in t.conflict[Pos(b)]
  <2>1. \A b \in t.staged : Pos(b) \in Position
    BY <1>1, BlockFacts DEF NodeState
  <2> QED
    BY <1>1, <1>3, <2>1
<1>9. t.chain \subseteq t.known /\ (Prev[w] = Root \/ Prev[w] \in t.known)
  BY <1>1 DEF RecordsOK, KnownOK
<1>10. RecordsOK(t)
  BY <1>1, <1>4, <1>5, <1>7, <1>8, <1>9, RecordsStep
<1> QED
  BY <1>10 DEF t

(* appendStagedWinner.                                                     *)
LEMMA AppendStagedWinnerRecords ==
    ASSUME NEW s \in NodeState, RecordsOK(s), NEW p \in Position, NEW w \in Block,
           Pos(w) = p, NEW cands, s.conflict[p] \subseteq cands
    PROVE  RecordsOK(AppendStagedWinner(s, p, w, cands))
<1> SUFFICES ASSUME FitsChain(s, s.chain, w), w \in FullyValid
             PROVE  RecordsOK(FinalizeWinner(Attach(s, w), p, w, cands))
  BY DEF AppendStagedWinner
<1> DEFINE x == Attach(s, w)
<1>1. x \in NodeState /\ Finalized(s) \subseteq Finalized(x)
  BY AppendType DEF Evolves, Keeps
<1>2. /\ x.chain = s.chain \cup {w} /\ x.known = s.known \cup {w}
      /\ x.staged = s.staged /\ x.conflict = s.conflict
  BY DEF Attach, NodeState
<1>3. Prev[w] = Root \/ Prev[w] \in s.chain
  BY DEF FitsChain
<1> HIDE DEF x
<1> PICK lost : lost = {}
  OBVIOUS
<1>4. /\ x.chain = (s.chain \ lost) \cup {w} /\ x.staged \subseteq s.staged \cup lost
      /\ \A b \in lost : \E d \in Below[b] \cup {b} : Pos(d) = p /\ d # w
  BY <1>2
<1>5. RecordsOK(FinalizeWinner(x, p, w, cands))
  BY <1>1, <1>2, <1>3, <1>4, PlacedRecords
<1> QED
  BY <1>5 DEF x

(* The swap of a winner against chain block l.                             *)
LEMMA SwapInWinnerRecords ==
    ASSUME NEW s \in NodeState, RecordsOK(s), NEW p \in Position, NEW w \in Block,
           Pos(w) = p, NEW l \in ChildAt(s, p), l # w,
           NEW cands, s.conflict[p] \subseteq cands
    PROVE  RecordsOK(SwapInWinner(s, p, l, w, cands))
<1> DEFINE t == [s EXCEPT !.staged = @ \cup {l}]
           q == [t EXCEPT !.quarantine = @ \cup {w}]
<1>0. l \in Block /\ l \in s.chain /\ Pos(l) = p
  BY DEF ChildAt, NodeState
<1>1. RecordsOK(t) /\ t \in NodeState /\ Finalized(s) \subseteq Finalized(t)
  BY <1>0, StageRecords, StageType DEF Evolves, Keeps
<1>2. /\ t.chain = s.chain /\ t.known = s.known /\ t.staged = s.staged \cup {l}
      /\ t.conflict = s.conflict
  BY DEF NodeState
<1> HIDE DEF t
<1>3. RecordsOK(q)
  BY <1>1, RecordsSame DEF NodeState
<1>4. ASSUME CanSwap(t, l, w), w \in FullyValid
      PROVE  RecordsOK(FinalizeWinner(Swap(t, l, w), p, w, cands))
  <2> DEFINE x    == Swap(t, l, w)
             lost == Tainted(t, l)
  <2>1. x \in NodeState /\ Finalized(t) \subseteq Finalized(x)
    BY <1>1, <1>4, SwapType DEF Evolves, Keeps
  <2>2. /\ x.chain = (s.chain \ lost) \cup {w} /\ x.known = s.known \cup {w}
        /\ x.staged = t.staged /\ x.conflict = s.conflict
    BY <1>1, <1>2 DEF Swap, NodeState
  <2>3. l \in lost
    BY <1>0, <1>2 DEF Tainted
  <2>4. \A b \in lost : \E d \in Below[b] \cup {b} : Pos(d) = p /\ d # w
    BY <1>0 DEF Tainted
  <2>5. Prev[w] = Root \/ Prev[w] \in s.chain
    BY <1>2, <1>4 DEF CanSwap, FitsChain
  <2> HIDE DEF x, lost
  <2>6. RecordsOK(FinalizeWinner(x, p, w, cands))
    BY <1>1, <1>2, <2>1, <2>2, <2>3, <2>4, <2>5, PlacedRecords
  <2> QED
    BY <2>6 DEF x
<1> QED
  BY <1>1, <1>3, <1>4 DEF SwapInWinner, t, q

(* All candidates of the position are there, or it is decided. *)
Gathered(s, p) ==
    FinalizedChild(s, p) # {} \/ \A b \in Block : Pos(b) = p => b \in Held(s)

(* A winner on its chain that is finalized decides its position.           *)
LEMMA FinalizeGathered ==
    ASSUME NEW s \in NodeState, NEW p \in Position, NEW w \in Block, Pos(w) = p,
           w \in s.chain, NEW cands
    PROVE  Gathered(FinalizeWinner(s, p, w, cands), p)
<1> DEFINE t == FinalizeWinner(s, p, w, cands)
<1>1. /\ t.chain = s.chain /\ t.known = s.known
      /\ t.staged = s.staged \ ({w} \cup cands)
      /\ t.conflict = [s.conflict EXCEPT ![p] = {}]
      /\ Finalized(s) \subseteq Finalized(t)
      /\ w \in s.chain => w \in Finalized(t)
  BY FinalizeWinnerFacts
<1> HIDE DEF t
<1>2. w \in FinalizedChild(t, p)
  BY <1>1 DEF FinalizedChild, ChildAt, Finalized
<1> QED
  BY <1>2 DEF Gathered, t

(* confirmConflict keeps the records in order and, the winner being        *)
(* chosen, drops the candidates only of a position it decides.             *)
LEMMA ConfirmConflictRecords ==
    ASSUME NEW lk \in LockTable, LocksOK(lk), NEW s \in NodeState, NodeOK(lk, s),
           RecordsOK(s), NEW p \in Position, NEW w \in Block, Pos(w) = p,
           ChosenIn(lk, w), w \in Held(s)
    PROVE  /\ RecordsOK(ConfirmConflict(s, p, w))
           /\ Gathered(s, p) => Gathered(ConfirmConflict(s, p, w), p)
<1> DEFINE cands  == CandidateSet(s, p)
           losers == (cands \ {w}) \cap ChildAt(s, p)
           l      == CHOOSE x \in losers : TRUE
<1>1. s.conflict[p] \subseteq cands
  BY DEF CandidateSet
<1>2. losers # {} => l \in ChildAt(s, p) /\ l # w
  OBVIOUS
<1> HIDE DEF cands, losers, l
<1>3. w \in s.staged \/ w \in s.chain
  BY ChosenAlive DEF Held, RecordsOK, UndoneOK, Undone
<1>4. /\ RecordsOK(CleanupResolvedConflict(s, p, w, cands))
      /\ RecordsOK(FinalizeWinner(s, p, w, cands))
  BY <1>1, FinalizeRecords
<1>5. IsFinalized(s, w) => Gathered(CleanupResolvedConflict(s, p, w, cands), p)
  BY DEF Gathered, FinalizedChild, ChildAt, IsFinalized, CleanupResolvedConflict,
     ClearVotes, NodeState
<1>6. w \in s.chain => Gathered(FinalizeWinner(s, p, w, cands), p)
  BY FinalizeGathered
<1>7. /\ RecordsOK(AppendStagedWinner(s, p, w, cands))
      /\ Gathered(s, p) => Gathered(AppendStagedWinner(s, p, w, cands), p)
  <2>1. ASSUME FitsChain(s, s.chain, w), w \in FullyValid
        PROVE  Gathered(FinalizeWinner(Attach(s, w), p, w, cands), p)
    <3>1. Attach(s, w) \in NodeState /\ w \in Attach(s, w).chain
      BY <2>1, AppendType DEF Evolves, Attach, NodeState
    <3> QED
      BY <3>1, FinalizeGathered
  <2> QED
    BY <1>1, <2>1, AppendStagedWinnerRecords DEF AppendStagedWinner
<1>8. ASSUME losers # {}
      PROVE  /\ RecordsOK(SwapInWinner(s, p, l, w, cands))
             /\ Gathered(s, p) => Gathered(SwapInWinner(s, p, l, w, cands), p)
  <2> DEFINE t == [s EXCEPT !.staged = @ \cup {l}]
             q == [t EXCEPT !.quarantine = @ \cup {w}]
  <2>1. RecordsOK(SwapInWinner(s, p, l, w, cands))
    BY <1>1, <1>2, <1>8, SwapInWinnerRecords
  <2>2. t \in NodeState
    BY <1>2, <1>8, ChildAtType, StageType DEF Evolves
  <2>3. Gathered(s, p) => Gathered(t, p)
    BY DEF Gathered, FinalizedChild, ChildAt, IsFinalized, Held, NodeState
  <2> HIDE DEF t
  <2>4. Gathered(t, p) => Gathered(q, p)
    BY <2>2 DEF Gathered, FinalizedChild, ChildAt, IsFinalized, Held, NodeState
  <2>5. ASSUME CanSwap(t, l, w), w \in FullyValid
        PROVE  Gathered(FinalizeWinner(Swap(t, l, w), p, w, cands), p)
    <3>1. Swap(t, l, w) \in NodeState /\ w \in Swap(t, l, w).chain
      BY <2>2, <2>5, SwapType DEF Evolves, Swap, NodeState
    <3> QED
      BY <3>1, FinalizeGathered
  <2> QED
    BY <2>1, <2>3, <2>4, <2>5 DEF SwapInWinner, t, q
<1> QED
  BY <1>3, <1>4, <1>5, <1>6, <1>7, <1>8 DEF ConfirmConflict, cands, losers, l

(* Who wins a tally that substitutes nothing: a block of the position      *)
(* whose body is there and that the locks have chosen.                     *)
LEMMA RetallyWinner ==
    ASSUME NEW lk \in LockTable, NEW s \in NodeState, VotesOK(lk, s.vote),
           NEW p \in Position, Retally(s, p).substituted = {}
    PROVE  \/ Retally(s, p) = s
           \/ \E w \in Block : /\ Pos(w) = p /\ w \in Held(s) /\ ChosenIn(lk, w)
                               /\ Retally(s, p) = ConfirmConflict(s, p, w)
<1> DEFINE w == FinalTally(s, p)
           t == NoteSubstitution(s, p, w)
<1>1. w \in Block \cup {None}
  BY FinalTallyType
<1>2. Retally(s, p) = IF w = None THEN s ELSE ConfirmConflict(t, p, w)
  BY DEF Retally
<1> HIDE DEF w
<1> SUFFICES ASSUME w # None
             PROVE  \E x \in Block : /\ Pos(x) = p /\ x \in Held(s) /\ ChosenIn(lk, x)
                                     /\ Retally(s, p) = ConfirmConflict(s, p, x)
  BY <1>2
<1>3. t \in NodeState
  BY NoteSubstitutionType DEF Evolves
<1>4. t.substituted = {}
  <2>1. Evolves(t, ConfirmConflict(t, p, w))
    BY <1>1, <1>3, ConfirmConflictType
  <2> QED
    BY <1>2, <2>1 DEF Evolves
<1>5. w \in QuorumBlocks(s, p) /\ t = s
  BY <1>4 DEF NoteSubstitution, NodeState
<1>6. ChosenIn(lk, w)
  BY <1>5, QuorumChosen
<1>7. Pos(w) = p /\ w \in Held(s)
  BY <1>5 DEF QuorumBlocks
<1> QED
  BY <1>1, <1>2, <1>5, <1>6, <1>7

(* conflictOrphanedByRollback: the bodies that a dropped record leaves are *)
(* dead.  Above a parent the rollback has killed them all; the first       *)
(* blocks of an account need not all rest on what was rolled back, hence   *)
(* OpeningsStand.                                                          *)
LEMMA OrphansDead ==
    ASSUME OpeningsStand, NEW s \in NodeState, RecordsOK(s), ConflictOK(s.conflict),
           NEW p \in Position, ConflictOrphaned(s, p), NEW b \in s.conflict[p]
    PROVE  Dead(s, b)
<1>0. s.conflict[p] \subseteq Block /\ s.known \subseteq Block /\ s.chain \subseteq Block
  BY DEF NodeState
<1>1. PICK c \in s.conflict[p] : c \in s.known /\ c \notin s.chain /\ Dead(s, c)
  BY DEF ConflictOrphaned, Undone, RecordsOK, UndoneOK
<1>2. c \in Block /\ b \in Block /\ Pos(c) = p /\ Pos(b) = p
  BY <1>0 DEF ConflictOK
<1>3. p = <<Acct[c], Prev[c]>> /\ p = <<Acct[b], Prev[b]>>
  BY <1>2 DEF Pos
<1>4. Acct[c] = p[1] /\ Prev[c] = p[2] /\ Prev[b] = p[2]
  BY <1>3
<1>5. CASE p[2] = Root
  <2>1. \A d \in Below[c] \ Below[b], x \in Block : Pos(x) = Pos(d) => x = d
    BY <1>2, <1>4, <1>5 DEF OpeningsStand
  <2>2. PICK d \in Below[c] \cup {c}, x \in Finalized(s) : Pos(x) = Pos(d) /\ x # d
    BY <1>1 DEF Dead, Beaten
  <2>3. x \in Block /\ x \in s.chain
    BY DEF Finalized, IsFinalized
  <2>4. CASE d \in Below[b]
    BY <2>2, <2>4 DEF Dead, Beaten
  <2>5. CASE d \notin Below[b]
    <3>1. d = c
      BY <2>1, <2>2, <2>3, <2>5
    <3>2. Acct[x] = p[1]
      BY <1>2, <2>2, <3>1 DEF Pos
    <3> QED
      BY <1>5, <2>3, <3>2 DEF ConflictOrphaned
  <2> QED
    BY <2>4, <2>5
<1>6. CASE p[2] # Root
  <2> DEFINE a == p[2]
  <2>1. a \in s.known /\ a \notin s.chain
    BY <1>1, <1>4, <1>6 DEF RecordsOK, KnownOK, ConflictOrphaned
  <2>2. a \in Block /\ Dead(s, a)
    BY <1>0, <2>1 DEF RecordsOK, UndoneOK, Undone
  <2>3. a \in Parents(b)
    BY <1>4, <1>6, <2>2, BlockAssumption DEF Parents
  <2> HIDE DEF a
  <2>4. Below[a] \cup {a} \subseteq Below[b]
    BY <1>2, <2>3, BelowFacts
  <2> QED
    BY <2>2, <2>4 DEF Dead
<1> QED
  BY <1>5, <1>6

(* A record that is dropped, bodies and all: its candidates are dead, or   *)
(* one of them is final.                                                   *)
LEMMA DropOrphanedRecords ==
    ASSUME NEW s \in NodeState, RecordsOK(s), NEW p \in Position,
           \A b \in s.conflict[p] : b \in s.chain \/ Dead(s, b)
    PROVE  RecordsOK(DropOrphaned(s, p))
<1> DEFINE t == DropOrphaned(s, p)
<1>1. /\ t.chain = s.chain /\ t.known = s.known /\ t.staged = s.staged
      /\ t.conflict = [s.conflict EXCEPT ![p] = {}] /\ t.finalHeight = s.finalHeight
  BY DEF DropOrphaned, ClearVotes, NodeState
<1> HIDE DEF t
<1>2. \A q \in Position : t.conflict[q] = IF q = p THEN {} ELSE s.conflict[q]
  BY <1>1 DEF NodeState
<1>3. Finalized(t) = Finalized(s) /\ \A q : ChildAt(t, q) = ChildAt(s, q)
  BY <1>1 DEF Finalized, IsFinalized, ChildAt
<1>4. \A c : IsFinalized(t, c) <=> IsFinalized(s, c)
  BY <1>1 DEF IsFinalized
<1>5. RecordedOK(t)
  BY <1>2, <1>3, <1>4 DEF RecordsOK, RecordedOK
<1>6. \A b \in t.staged :
        b \in s.conflict[Pos(b)] =>
           b \in t.conflict[Pos(b)] \/ b \in t.chain \/ Dead(t, b)
  <2>1. \A b \in t.staged : Pos(b) \in Position
    BY <1>1, BlockFacts DEF NodeState
  <2> QED
    BY <1>1, <1>2, <1>3, <2>1, DeadGrows
<1>7. t.chain \subseteq t.known
  BY <1>1 DEF RecordsOK, KnownOK
<1>8. RecordsOK(t)
  BY <1>1, <1>3, <1>5, <1>6, <1>7, RecordsStep
<1> QED
  BY <1>8 DEF t

(* Phantoms leave a record: blocks that are held stay on it.               *)
LEMMA EvictedRecords ==
    ASSUME NEW s \in NodeState, RecordsOK(s), NEW p \in Position,
           NEW kept, s.conflict[p] \cap Held(s) \subseteq kept, kept \subseteq s.conflict[p]
    PROVE  RecordsOK([s EXCEPT !.conflict[p] = kept])
<1> DEFINE t == [s EXCEPT !.conflict[p] = kept]
<1>1. /\ t.chain = s.chain /\ t.known = s.known /\ t.staged = s.staged
      /\ t.conflict = [s.conflict EXCEPT ![p] = kept] /\ t.finalHeight = s.finalHeight
  BY DEF NodeState
<1> HIDE DEF t
<1>2. \A q \in Position : t.conflict[q] = IF q = p THEN kept ELSE s.conflict[q]
  BY <1>1 DEF NodeState
<1>3. Finalized(t) = Finalized(s) /\ \A q : ChildAt(t, q) = ChildAt(s, q)
  BY <1>1 DEF Finalized, IsFinalized, ChildAt
<1>4. \A c : IsFinalized(t, c) <=> IsFinalized(s, c)
  BY <1>1 DEF IsFinalized
<1>5. RecordedOK(t)
  BY <1>2, <1>3, <1>4 DEF RecordsOK, RecordedOK, KnownOK, ChildAt, Held
<1>6. \A b \in t.staged : b \in s.conflict[Pos(b)] => b \in t.conflict[Pos(b)]
  <2>1. \A b \in t.staged : Pos(b) \in Position
    BY <1>1, BlockFacts DEF NodeState
  <2> QED
    BY <1>1, <1>2, <2>1 DEF Held
<1>7. t.chain \subseteq t.known
  BY <1>1 DEF RecordsOK, KnownOK
<1>8. RecordsOK(t)
  BY <1>1, <1>3, <1>5, <1>6, <1>7, RecordsStep
<1> QED
  BY <1>8 DEF t

(* A block that rests on one whose sibling is chosen cannot be chosen. *)
Doomed(lk, a) ==
    \E d \in Below[a], c \in Block : Pos(c) = Pos(d) /\ c # d /\ ChosenIn(lk, c)

LowTarget(lk, p, b) == \A a \in Block : Pos(a) = p /\ a < b => Doomed(lk, a)

(* A node's locks are on the lowest block of their position that is not    *)
(* doomed. *)
LowLocks(lk, lock) ==
    \A p \in Position : lock[p] # None => LowTarget(lk, p, lock[p])

(* What a node has in its store, or on disk: records in order, locks low. *)
Tidy(lk, d) == RecordsOK(d) /\ LowLocks(lk, d.lock)

(* The node is sound, and its store and its disk are tidy. *)
Orderly(lk, n, s) ==
    /\ Sound(lk, n, s)
    /\ s.substituted = {} =>
         /\ Tidy(LocksWith(lk, n, s), s)
         /\ Tidy(LocksWith(lk, n, s), s.disk)

(* What is doomed stays doomed when locks are added.                       *)
LEMMA LowTargetGrows ==
    ASSUME NEW lk \in LockTable, NEW l2 \in LockTable, Extends(lk, l2),
           NEW p, NEW b, LowTarget(lk, p, b)
    PROVE  LowTarget(l2, p, b)
BY ChosenGrows DEF LowTarget, Doomed

(* What is tidy stays so when locks are added.                             *)
LEMMA TidyGrows ==
    ASSUME NEW lk \in LockTable, NEW l2 \in LockTable, Extends(lk, l2),
           NEW d, Tidy(lk, d)
    PROVE  Tidy(l2, d)
BY LowTargetGrows DEF Tidy, LowLocks

(* A copy of a tidy store is tidy.                                         *)
LEMMA TidyCopy ==
    ASSUME NEW lk, NEW s, NEW t, Tidy(lk, s), t.chain = s.chain, t.known = s.known,
           t.staged = s.staged, t.conflict = s.conflict, t.finalHeight = s.finalHeight,
           t.lock = s.lock
    PROVE  Tidy(lk, t)
BY RecordsSame DEF Tidy

(* A step that sets no lock is orderly if it keeps the records in order.   *)
LEMMA OrderlyEvolves ==
    ASSUME NEW lk, NEW n, NEW s, NEW t, Orderly(lk, n, s), Evolves(s, t), Sound(lk, n, t),
           s.substituted = {} /\ t.substituted = {} /\ RecordsOK(s) => RecordsOK(t)
    PROVE  Orderly(lk, n, t)
<1>1. LocksWith(lk, n, t) = LocksWith(lk, n, s)
  BY DEF LocksWith, Evolves, Kept
<1>2. (t.substituted = {} => s.substituted = {}) /\ t.lock = s.lock /\ t.disk = s.disk
  BY DEF Evolves
<1> QED
  BY <1>1, <1>2 DEF Orderly, Tidy

(* A step that touches neither chains nor records is orderly.              *)
LEMMA OrderlySame ==
    ASSUME NEW lk, NEW n, NEW s, NEW t, Orderly(lk, n, s), Evolves(s, t), Sound(lk, n, t),
           t.chain = s.chain, t.known = s.known, t.staged = s.staged,
           t.conflict = s.conflict, t.finalHeight = s.finalHeight
    PROVE  Orderly(lk, n, t)
BY OrderlyEvolves, RecordsSame

(* Retally is orderly and keeps candidates together.                       *)
LEMMA RetallyOrderly ==
    ASSUME NEW lk \in LockTable, NEW n \in Node, NEW s, Orderly(lk, n, s), NEW p \in Position
    PROVE  /\ Orderly(lk, n, Retally(s, p))
           /\ Gathered(s, p) /\ Retally(s, p).substituted = {} => Gathered(Retally(s, p), p)
<1> DEFINE t == Retally(s, p)
           L == LocksWith(lk, n, s)
<1>1. s \in NodeState /\ L \in LockTable
  BY LocksWithType DEF Orderly, Sound
<1>2. Evolves(s, t) /\ Sound(lk, n, t)
  BY <1>1, RetallyType, RetallySound DEF Orderly
<1>3. ASSUME t.substituted = {}
      PROVE  RecordsOK(t) /\ (Gathered(s, p) => Gathered(t, p))
  <2>1. s.substituted = {}
    BY <1>2, <1>3 DEF Evolves
  <2>2. LocksOK(L) /\ NodeOK(L, s) /\ RecordsOK(s)
    BY <2>1 DEF Orderly, Sound, Tidy
  <2> HIDE DEF L
  <2>3. CASE t = s
    BY <2>2, <2>3
  <2>4. CASE t # s
    <3>1. PICK w \in Block : /\ Pos(w) = p /\ w \in Held(s) /\ ChosenIn(L, w)
                             /\ t = ConfirmConflict(s, p, w)
      BY <1>1, <1>3, <2>2, <2>4, RetallyWinner DEF NodeOK, StoreOK
    <3> QED
      BY <1>1, <2>2, <3>1, ConfirmConflictRecords
  <2> QED BY <2>3, <2>4
<1> HIDE DEF t, L
<1>4. Orderly(lk, n, t)
  BY <1>2, <1>3, OrderlyEvolves
<1> QED
  BY <1>3, <1>4 DEF t

(* Storing and sending votes is orderly.                                   *)
LEMMA PutVoteOrderly ==
    ASSUME NEW lk \in LockTable, NEW n \in Node, NEW s, Orderly(lk, n, s),
           NEW p \in Position, NEW r \in Node, NEW b \in Block, NEW final \in BOOLEAN,
           Sound(lk, n, PutVote(s, p, r, b, final))
    PROVE  /\ Orderly(lk, n, PutVote(s, p, r, b, final))
           /\ Gathered(s, p) => Gathered(PutVote(s, p, r, b, final), p)
<1> DEFINE t == PutVote(s, p, r, b, final)
<1>1. s \in NodeState
  BY DEF Orderly, Sound
<1>2. Evolves(s, t)
  BY <1>1, PutVoteType
<1>3. /\ t.chain = s.chain /\ t.known = s.known /\ t.staged = s.staged
      /\ t.conflict = s.conflict /\ t.finalHeight = s.finalHeight
  BY <1>1 DEF PutVote, NodeState
<1> HIDE DEF t
<1>4. Orderly(lk, n, t)
  BY <1>2, <1>3, OrderlySame DEF t
<1>5. Gathered(s, p) => Gathered(t, p)
  BY <1>3 DEF Gathered, FinalizedChild, ChildAt, IsFinalized, Held
<1> QED
  BY <1>4, <1>5 DEF t

(* Sending a vote is orderly.                                              *)
LEMMA EmitOrderly ==
    ASSUME NEW lk \in LockTable, NEW n \in Node, NEW s, Orderly(lk, n, s),
           NEW b \in Block, NEW final \in BOOLEAN, Sound(lk, n, Emit(s, n, b, final))
    PROVE  Orderly(lk, n, Emit(s, n, b, final))
<1> DEFINE t == Emit(s, n, b, final)
<1>1. s \in NodeState
  BY DEF Orderly, Sound
<1>2. Evolves(s, t)
  BY <1>1, EmitType
<1>3. /\ t.chain = s.chain /\ t.known = s.known /\ t.staged = s.staged
      /\ t.conflict = s.conflict /\ t.finalHeight = s.finalHeight
  BY <1>1 DEF Emit, NodeState
<1> HIDE DEF t
<1>4. Orderly(lk, n, t)
  BY <1>2, <1>3, OrderlySame DEF t
<1> QED
  BY <1>4 DEF t

(* The lowest of some hashes is no higher than any of them.                *)
LEMMA LowestLeast ==
    ASSUME NEW S \in SUBSET Nat, NEW g \in S
    PROVE  Lowest(S) <= g
<1>1. PICK m \in S : \A k \in S : <<k, m>> \notin OpToRel(<, Nat)
  BY WFMin, NatLessThanWellFounded, Zenon
<1>2. \A k \in S : ~(k < m)
  BY <1>1, Zenon DEF OpToRel
<1>3. \A k \in S : m <= k
  BY <1>2
<1> QED
  BY <1>3 DEF Lowest

(* A position with a final block on it is resolved.                        *)
LEMMA FinalResolves ==
    ASSUME NEW s \in NodeState, ChainOK(s.chain, s.finalHeight), NEW p \in Position,
           FinalizedChild(s, p) # {}
    PROVE  PositionResolved(s, p)
<1>1. PICK c \in s.chain : Pos(c) = p /\ Height[c] <= s.finalHeight[Acct[c]]
  BY DEF FinalizedChild, ChildAt, IsFinalized
<1>2. c \in Block /\ s.finalHeight[Acct[c]] \in Nat /\ Height[c] \in Nat
  BY BlockFacts DEF NodeState
<1>3. Height[c] > 0
  BY <1>2, LineageAssumption
<1>4. p[1] = Acct[c] /\ p[2] = Prev[c]
  BY <1>1 DEF Pos
<1>5. CASE Prev[c] = Root
  BY <1>1, <1>2, <1>3, <1>4, <1>5 DEF PositionResolved, OnChain
<1>6. CASE Prev[c] # Root
  <2>1. Prev[c] \in Anc[c]
    BY <1>2, <1>6, AncFacts
  <2>2. Prev[c] \in s.chain /\ Height[Prev[c]] < Height[c] /\ Height[Prev[c]] \in Nat
    BY <1>2, <2>1, AncFacts, BlockFacts DEF ChainOK, Closed
  <2> QED
    BY <1>1, <1>2, <1>4, <1>6, <2>2 DEF PositionResolved, OnChain
<1> QED
  BY <1>5, <1>6

(* No two blocks of a chain have the same parent.                          *)
LEMMA OneChild ==
    ASSUME NEW chain \in SUBSET Block, Linear(chain), NEW b \in chain, NEW c \in chain,
           Pos(b) = Pos(c)
    PROVE  b = c
<1>1. Acct[b] = Acct[c] /\ Prev[b] = Prev[c]
  BY DEF Pos
<1>2. ASSUME NEW x \in chain, NEW y \in chain, Prev[x] = Prev[y]  PROVE x \notin Anc[y]
  <2> SUFFICES ASSUME x \in Anc[y]  PROVE FALSE
    OBVIOUS
  <2> PICK a : a = Prev[y]
    OBVIOUS
  <2>1. Prev[x] = a /\ Prev[y] = a /\ x \in Block /\ y \in Block
    BY <1>2
  <2>2. /\ Anc[x] = IF a = Root THEN {} ELSE {a} \cup Anc[a]
        /\ Anc[y] = IF a = Root THEN {} ELSE {a} \cup Anc[a]
    BY <2>1, AncFacts
  <2>3. x \in Anc[x]
    BY <2>2
  <2>4. Height[x] < Height[x] /\ Height[x] \in Nat
    BY <2>1, <2>3, AncFacts, BlockFacts
  <2> QED
    BY <2>4
<1>3. Height[b] \in Nat /\ Height[c] \in Nat
  BY BlockFacts
<1> QED
  BY <1>1, <1>2, <1>3 DEF Linear

(* With all candidates at hand, the lowest eligible one is the lowest that *)
(* can still be chosen: those below it are dead, for a dead sibling of an  *)
(* ancestor that is final.                                                 *)
LEMMA PreferenceLow ==
    ASSUME NEW lk \in LockTable, LocksOK(lk), NEW s \in NodeState, NodeOK(lk, s),
           RecordsOK(s), NEW p \in Position, Gathered(s, p), ~PositionResolved(s, p),
           NEW eligible \in SUBSET Block, NEW pref, pref = Lowest(eligible),
           pref \in eligible, pref \in Held(s), Pos(pref) = p, DepsFinalized(s, pref),
           s.conflict[p] \subseteq eligible
    PROVE  LowTarget(lk, p, pref)
<1>1. FinalizedChild(s, p) = {}
  BY FinalResolves DEF NodeOK, StoreOK
<1>2. \A c \in Finalized(s) : Pos(c) # p
  BY <1>1 DEF FinalizedChild, ChildAt, Finalized, IsFinalized
<1>3. ~Dead(s, pref)
  BY <1>2, DepsChosen, OverChosenAlive
<1> SUFFICES ASSUME NEW a \in Block, Pos(a) = p, a < pref
             PROVE  Doomed(lk, a)
  BY DEF LowTarget
<1>4. a \notin eligible
  BY LowestLeast, BlockAssumption
<1>5. a \in Held(s) /\ a \notin s.conflict[p]
  BY <1>1, <1>4 DEF Gathered
<1>6. a \notin s.chain
  <2> SUFFICES ASSUME a \in s.chain  PROVE FALSE
    OBVIOUS
  <2>1. pref \notin s.chain
    BY <1>4, OneChild DEF NodeOK, StoreOK, ChainOK, NodeState
  <2>2. pref \in s.conflict[p]
    BY <1>3, <2>1 DEF Held, RecordsOK, UndoneOK, Undone, StagedOK
  <2>3. a \in ChildAt(s, p)
    BY DEF ChildAt
  <2>4. IsFinalized(s, a)
    BY <1>5, <2>2, <2>3 DEF RecordsOK, RecordedOK
  <2> QED
    BY <1>2, <2>4 DEF Finalized
<1>7. Dead(s, a)
  BY <1>5, <1>6 DEF Held, RecordsOK, UndoneOK, Undone, StagedOK
<1>8. PICK d \in Below[a], c \in Finalized(s) : Pos(c) = Pos(d) /\ c # d
  BY <1>2, <1>7 DEF Dead, Beaten
<1>9. c \in Block /\ ChosenIn(lk, c)
  BY DEF Finalized, IsFinalized, NodeOK, StoreOK, FinalOK
<1> QED
  BY <1>8, <1>9 DEF Doomed

(* Adding to the locks that cannot be lost leaves what is tidy tidy.       *)
LEMMA KeptGrows ==
    ASSUME NEW lk \in LockTable, NEW n \in Node, NEW s \in NodeState, NEW t \in NodeState,
           \A p \in Position : Kept(s)[p] # None => Kept(t)[p] = Kept(s)[p],
           NEW d, Tidy(LocksWith(lk, n, s), d)
    PROVE  Tidy(LocksWith(lk, n, t), d)
<1> DEFINE L  == LocksWith(lk, n, s)
           L2 == LocksWith(lk, n, t)
<1>1. L \in LockTable /\ L2 \in LockTable /\ L[n] = Kept(s) /\ L2[n] = Kept(t)
  BY LocksWithType
<1>2. \A r \in Node \ {n} : L2[r] = L[r]
  BY DEF LocksWith, LockTable
<1> HIDE DEF L, L2
<1>3. Extends(L, L2)
  BY <1>1, <1>2 DEF Extends
<1>4. Tidy(L2, d)
  BY <1>1, <1>3, TidyGrows DEF L
<1> QED
  BY <1>4 DEF L2

(* A low lock is orderly.                                                  *)
LEMMA LockOrderly ==
    ASSUME NEW lk \in LockTable, NEW n \in Node, NEW s, Orderly(lk, n, s),
           NEW p \in Position, NEW b \in Block, Sound(lk, n, PutFinalVoteIfAbsent(s, p, b)),
           s.substituted = {} /\ s.lock[p] = None => LowTarget(LocksWith(lk, n, s), p, b)
    PROVE  Orderly(lk, n, PutFinalVoteIfAbsent(s, p, b))
<1> SUFFICES ASSUME s.lock[p] = None, Sound(lk, n, [s EXCEPT !.lock[p] = b])
             PROVE  Orderly(lk, n, [s EXCEPT !.lock[p] = b])
  BY DEF PutFinalVoteIfAbsent
<1> DEFINE t  == [s EXCEPT !.lock[p] = b]
           L  == LocksWith(lk, n, s)
           L2 == LocksWith(lk, n, t)
<1>1. s \in NodeState /\ t \in NodeState
  BY DEF Orderly, Sound
<1>2. /\ t.chain = s.chain /\ t.known = s.known /\ t.staged = s.staged
      /\ t.conflict = s.conflict /\ t.finalHeight = s.finalHeight
      /\ t.substituted = s.substituted /\ t.disk = s.disk
      /\ t.lock = [s.lock EXCEPT ![p] = b]
  BY <1>1 DEF NodeState
<1>3. \A q \in Position : t.lock[q] = IF q = p THEN b ELSE s.lock[q]
  BY <1>1, <1>2 DEF NodeState
<1> HIDE DEF t, L2
<1>4. ASSUME t.substituted = {}  PROVE Tidy(L2, t) /\ Tidy(L2, t.disk)
  <2>1. Tidy(L, s) /\ Tidy(L, s.disk) /\ LowTarget(L, p, b)
    BY <1>2, <1>4 DEF Orderly
  <2> HIDE DEF L
  <2>2. RecordsOK(t)
    BY <1>2, <2>1, RecordsSame DEF Tidy
  <2>3. LowLocks(L, t.lock)
    BY <1>3, <2>1 DEF Tidy, LowLocks
  <2>4. Tidy(L, t) /\ Tidy(L, t.disk)
    BY <1>2, <2>1, <2>2, <2>3 DEF Tidy
  <2>5. \A q \in Position : Kept(s)[q] # None => Kept(t)[q] = Kept(s)[q]
    BY <1>2, <1>3 DEF Kept
  <2> QED
    BY <1>1, <2>4, <2>5, KeptGrows DEF L, L2
<1> QED
  BY <1>4 DEF Orderly, t, L2

(* Writing the store of an orderly node to disk is orderly, and so is      *)
(* leaving the disk as it is.                                              *)
LEMMA WrittenOrderly ==
    ASSUME NEW lk \in LockTable, NEW n \in Node, NEW s, Orderly(lk, n, s),
           NEW t, Sound(lk, n, t), t.substituted = s.substituted,
           t.chain = s.chain, t.known = s.known, t.staged = s.staged,
           t.conflict = s.conflict, t.finalHeight = s.finalHeight, t.lock = s.lock,
           Kept(t) = s.lock,
           \/ t.disk = s.disk
           \/ /\ t.disk.chain = s.chain /\ t.disk.known = s.known
              /\ t.disk.staged = s.staged /\ t.disk.conflict = s.conflict
              /\ t.disk.finalHeight = s.finalHeight /\ t.disk.lock = s.lock
    PROVE  Orderly(lk, n, t)
<1>1. s \in NodeState /\ t \in NodeState
  BY DEF Orderly, Sound
<1>2. ASSUME t.substituted = {}
      PROVE  Tidy(LocksWith(lk, n, t), t) /\ Tidy(LocksWith(lk, n, t), t.disk)
  <2> DEFINE L == LocksWith(lk, n, s)
  <2>1. Tidy(L, s) /\ Tidy(L, s.disk) /\ NodeOK(L, s)
    BY <1>2 DEF Orderly, Sound
  <2>2. \A p \in Position : Kept(s)[p] # None => Kept(t)[p] = Kept(s)[p]
    BY <2>1 DEF Kept, NodeOK, LocksKept
  <2> HIDE DEF L
  <2>3. Tidy(L, t)
    BY <2>1, TidyCopy
  <2>4. Tidy(L, t.disk)
    BY <2>1, TidyCopy
  <2> QED
    BY <1>1, <2>2, <2>3, <2>4, KeptGrows DEF L
<1> QED
  BY <1>2 DEF Orderly

(* What a sync copies.                                                     *)
LEMMA SyncCopies ==
    ASSUME NEW s \in NodeState
    PROVE  LET t == Sync(s)
           IN  /\ t.chain = s.chain /\ t.known = s.known /\ t.staged = s.staged
               /\ t.conflict = s.conflict /\ t.finalHeight = s.finalHeight
               /\ t.lock = s.lock /\ Kept(t) = s.lock /\ t.substituted = s.substituted
               /\ \/ t.disk = s.disk
                  \/ /\ t.disk.chain = s.chain /\ t.disk.known = s.known
                     /\ t.disk.staged = s.staged /\ t.disk.conflict = s.conflict
                     /\ t.disk.finalHeight = s.finalHeight /\ t.disk.lock = s.lock
<1>1. CASE "power" \notin Faults
  BY <1>1 DEF Sync, Kept
<1>2. CASE "power" \in Faults
  <2> PICK d : d = Store(s)
    OBVIOUS
  <2>1. /\ d.chain = s.chain /\ d.known = s.known /\ d.staged = s.staged
        /\ d.conflict = s.conflict /\ d.finalHeight = s.finalHeight /\ d.lock = s.lock
    BY DEF Store
  <2>2. Sync(s) = [s EXCEPT !.disk = d]
    BY <1>2 DEF Sync
  <2> QED
    BY <1>2, <2>1, <2>2 DEF Kept, NodeState
<1> QED
  BY <1>1, <1>2

(* A sync is orderly.                                                      *)
LEMMA SyncOrderly ==
    ASSUME NEW lk \in LockTable, NEW n \in Node, NEW s, Orderly(lk, n, s)
    PROVE  Orderly(lk, n, Sync(s))
<1>1. s \in NodeState /\ Sound(lk, n, s)
  BY DEF Orderly, Sound
<1>2. Sound(lk, n, Sync(s))
  BY <1>1, SyncSound
<1> PICK t : t = Sync(s)
  OBVIOUS
<1>3. /\ t.chain = s.chain /\ t.known = s.known /\ t.staged = s.staged
      /\ t.conflict = s.conflict /\ t.finalHeight = s.finalHeight
      /\ t.lock = s.lock /\ Kept(t) = s.lock /\ t.substituted = s.substituted
      /\ \/ t.disk = s.disk
         \/ /\ t.disk.chain = s.chain /\ t.disk.known = s.known
            /\ t.disk.staged = s.staged /\ t.disk.conflict = s.conflict
            /\ t.disk.finalHeight = s.finalHeight /\ t.disk.lock = s.lock
  BY <1>1, SyncCopies
<1> QED
  BY <1>2, <1>3, WrittenOrderly

(* A final vote for the locked block that is stored and synced is orderly. *)
LEMMA SyncedVoteOrderly ==
    ASSUME NEW lk \in LockTable, NEW n \in Node, NEW s, Orderly(lk, n, s),
           NEW p \in Position, s.lock[p] # None
    PROVE  Orderly(lk, n, Sync(PutVote(s, p, n, s.lock[p], TRUE)))
<1> DEFINE b == s.lock[p]
           v == PutVote(s, p, n, b, TRUE)
<1>1. s \in NodeState /\ Sound(lk, n, s) /\ b \in Block
  BY DEF Orderly, Sound, NodeState
<1>2. Sound(lk, n, Sync(v))
  BY <1>1, SyncedVoteSound
<1> HIDE DEF b
<1>3. v \in NodeState
  BY <1>1, PutVoteType DEF Evolves
<1>4. /\ v.chain = s.chain /\ v.known = s.known /\ v.staged = s.staged
      /\ v.conflict = s.conflict /\ v.finalHeight = s.finalHeight
      /\ v.lock = s.lock /\ v.substituted = s.substituted /\ v.disk = s.disk
  BY <1>1 DEF PutVote, NodeState
<1> HIDE DEF v
<1> PICK t : t = Sync(v)
  OBVIOUS
<1>5. /\ t.chain = v.chain /\ t.known = v.known /\ t.staged = v.staged
      /\ t.conflict = v.conflict /\ t.finalHeight = v.finalHeight
      /\ t.lock = v.lock /\ Kept(t) = v.lock /\ t.substituted = v.substituted
      /\ \/ t.disk = v.disk
         \/ /\ t.disk.chain = v.chain /\ t.disk.known = v.known
            /\ t.disk.staged = v.staged /\ t.disk.conflict = v.conflict
            /\ t.disk.finalHeight = v.finalHeight /\ t.disk.lock = v.lock
  BY <1>3, SyncCopies
<1>6. Orderly(lk, n, t)
  BY <1>2, <1>4, <1>5, WrittenOrderly
<1> QED
  BY <1>6 DEF v, b

(* emitFinalLocked is orderly for a target that can be chosen and is the   *)
(* lowest of its kind.                                                     *)
LEMMA EmitFinalLockedOrderly ==
    ASSUME NEW lk \in LockTable, NEW n \in Node, NEW s, Orderly(lk, n, s),
           NEW p \in Position, NEW target \in Block,
           NEW e, e.io = "sync" => "power" \notin Faults,
           s.substituted = {} =>
             /\ Pos(target) = p
             /\ \A a \in Below[target] : ChosenIn(LocksWith(lk, n, s), a),
           s.substituted = {} /\ s.lock[p] = None =>
             LowTarget(LocksWith(lk, n, s), p, target)
    PROVE  Orderly(lk, n, EmitFinalLocked(s, n, p, target, e))
<1> DEFINE t == PutFinalVoteIfAbsent(s, p, target)
           b == t.lock[p]
           v == PutVote(t, p, n, b, TRUE)
           w == Sync(v)
           u == Retally(w, p)
           f == EmitFinalLocked(s, n, p, target, e)
<1>1. s \in NodeState /\ Sound(lk, n, s)
  BY DEF Orderly, Sound
<1>2. t \in NodeState /\ b \in Block /\ b # None
  BY <1>1, PutFinalVoteIfAbsentType, BlockFacts DEF Advances
<1>3. Sound(lk, n, t)
  BY <1>1, LockSound
<1>4. Orderly(lk, n, t)
  BY <1>3, LockOrderly
<1>5. e.io = "sync" => w = v
  BY DEF Sync
<1>6. Sound(lk, n, f)
  BY <1>1, EmitFinalLockedSound
<1>7. f \in {t, Emit(u, n, b, TRUE)} \/ (e.io = "sync" /\ f = v)
  BY DEF EmitFinalLocked
<1> HIDE DEF t
<1>8. Orderly(lk, n, w)
  BY <1>2, <1>4, SyncedVoteOrderly
<1> HIDE DEF b, f, w
<1>9. Orderly(lk, n, u)
  BY <1>8, RetallyOrderly
<1> HIDE DEF u, v
<1>10. f = Emit(u, n, b, TRUE) => Orderly(lk, n, f)
  BY <1>2, <1>6, <1>9, EmitOrderly
<1>11. Orderly(lk, n, f)
  BY <1>4, <1>5, <1>7, <1>8, <1>10
<1> QED
  BY <1>11 DEF f

(* Noting candidates is orderly.                                           *)
LEMMA NoteHeldCandidatesOrderly ==
    ASSUME NEW lk \in LockTable, NEW n \in Node, NEW s, Orderly(lk, n, s),
           NEW p \in Position, NEW cands
    PROVE  Orderly(lk, n, NoteHeldCandidates(s, p, cands))
<1> DEFINE t == NoteHeldCandidates(s, p, cands)
<1>1. s \in NodeState /\ Sound(lk, n, s)
  BY DEF Orderly, Sound
<1>2. Evolves(s, t) /\ Sound(lk, n, t)
  BY <1>1, NoteHeldCandidatesType, NoteHeldCandidatesSound
<1>3. /\ t.chain = s.chain /\ t.known = s.known /\ t.staged = s.staged
      /\ t.conflict = s.conflict /\ t.finalHeight = s.finalHeight
  BY <1>1 DEF NoteHeldCandidates, NodeState
<1> HIDE DEF t
<1>4. Orderly(lk, n, t)
  BY <1>2, <1>3, OrderlySame
<1> QED
  BY <1>4 DEF t

(* A converging vote is orderly.                                           *)
LEMMA ConvergeOrderly ==
    ASSUME NEW lk \in LockTable, NEW n \in Node, NEW s, Orderly(lk, n, s),
           NEW p \in Position, NEW pref \in Block, NEW e,
           s.substituted = {} => Pos(pref) = p
    PROVE  Orderly(lk, n, Converge(s, n, p, pref, e))
<1> DEFINE v == PutVote(s, p, n, pref, FALSE)
           u == Retally(v, p)
<1>0. Sound(lk, n, s)
  BY DEF Orderly
<1>1. Sound(lk, n, v)
  BY <1>0, PutVoteSound
<1>2. Orderly(lk, n, v)
  BY <1>1, PutVoteOrderly
<1> HIDE DEF v
<1>3. Orderly(lk, n, u)
  BY <1>2, RetallyOrderly
<1> HIDE DEF u
<1>4. Sound(lk, n, Emit(u, n, pref, FALSE))
  BY <1>3, EmitSound DEF Orderly
<1>5. Orderly(lk, n, Emit(u, n, pref, FALSE))
  BY <1>3, <1>4, EmitOrderly
<1> QED
  BY <1>5 DEF Converge, v, u

(* Voting freely is orderly where the window has passed only over all      *)
(* candidates: the preference is then the lowest that can be chosen.       *)
LEMMA VoteFreelyOrderly ==
    ASSUME NEW lk \in LockTable, NEW n \in Node, NEW s, Orderly(lk, n, s),
           NEW p \in Position, NEW seed \in SUBSET Block, \A b \in seed : Pos(b) = p, NEW e,
           e.io = "sync" => "power" \notin Faults,
           ~PositionResolved(s, p), s.substituted = {} /\ e.window => Gathered(s, p)
    PROVE  Orderly(lk, n, VoteFreely(s, n, p, seed, e))
<1> DEFINE cands    == GatherCandidates(s, p, seed)
           t        == NoteHeldCandidates(s, p, cands)
           stable   == e.window /\ NewCandidates(s, p, cands) = {}
           eligible == cands \cap (Held(s) \cup s.conflict[p])
           pref     == Lowest(eligible)
           c        == Converge(t, n, p, pref, e)
           u        == MaybeLock(c, n, p, pref, stable, e)
           L        == LocksWith(lk, n, s)
<1>0. s \in NodeState /\ Sound(lk, n, s)
  BY DEF Orderly, Sound
<1>1. eligible \subseteq Block /\ s.conflict[p] \subseteq eligible
  BY <1>0, CandidateType DEF GatherCandidates, NodeState
<1>2. s.substituted = {} => \A b \in eligible : Pos(b) = p
  BY <1>0 DEF Sound, NodeOK, StoreOK, VotesOK, ConflictOK, GatherCandidates, VotedBlocks
<1>3. Orderly(lk, n, t)
  BY NoteHeldCandidatesOrderly
<1>4. Evolves(s, t) /\ t \in NodeState
  BY <1>0, NoteHeldCandidatesType DEF Evolves
<1>5. VoteFreely(s, n, p, seed, e) # t =>
        /\ eligible # {} /\ DepsFinalized(s, pref) /\ pref \in Held(s)
        /\ VoteFreely(s, n, p, seed, e) = u
  BY DEF VoteFreely
<1>6. stable => e.window
  OBVIOUS
<1> HIDE DEF cands, eligible, t, stable
<1>7. ASSUME eligible # {}, DepsFinalized(s, pref), pref \in Held(s)
      PROVE  Orderly(lk, n, u)
  <2>1. pref \in eligible /\ pref \in Block
    BY <1>1, <1>7, LowestIn, BlockAssumption
  <2>2. s.substituted = {} => Pos(pref) = p /\ \A a \in Below[pref] : ChosenIn(L, a)
    BY <1>0, <1>2, <1>7, <2>1, DepsChosen, LocksWithType DEF Sound
  <2>3. ASSUME s.substituted = {}, stable  PROVE LowTarget(L, p, pref)
    <3>1. L \in LockTable /\ LocksOK(L) /\ NodeOK(L, s) /\ RecordsOK(s)
      BY <1>0, <2>3, LocksWithType DEF Orderly, Sound, Tidy
    <3>2. Gathered(s, p) /\ Pos(pref) = p
      BY <1>6, <2>2, <2>3
    <3>3. eligible \in SUBSET Block
      BY <1>1
    <3>4. \E x : x = Lowest(eligible) /\ x = pref
      OBVIOUS
    <3> HIDE DEF L, pref
    <3> QED
      BY <1>0, <1>1, <1>7, <2>1, <3>1, <3>2, <3>3, <3>4, PreferenceLow
  <2> HIDE DEF pref, L
  <2>4. t.substituted = {} => s.substituted = {}
    BY <1>4 DEF Evolves
  <2>5. Orderly(lk, n, c)
    BY <1>3, <2>1, <2>2, <2>4, ConvergeOrderly
  <2>6. Evolves(s, c)
    BY <1>4, <2>1, ConvergeType, EvolvesTrans
  <2> HIDE DEF c
  <2>7. LocksWith(lk, n, c) = L
    BY <2>6 DEF LocksWith, Evolves, Kept, L
  <2>8. c.substituted = {} =>
          Pos(pref) = p /\ \A a \in Below[pref] : ChosenIn(LocksWith(lk, n, c), a)
    BY <2>2, <2>6, <2>7 DEF Evolves
  <2>9. c.substituted = {} /\ stable => LowTarget(LocksWith(lk, n, c), p, pref)
    BY <2>3, <2>6, <2>7 DEF Evolves
  <2>10. stable => Orderly(lk, n, EmitFinalLocked(c, n, p, pref, e))
    BY <2>1, <2>5, <2>8, <2>9, EmitFinalLockedOrderly
  <2> QED
    BY <2>5, <2>10 DEF MaybeLock
<1> QED
  BY <1>3, <1>5, <1>7

(* CastVote is orderly.                                                    *)
LEMMA CastVoteOrderly ==
    ASSUME NEW lk \in LockTable, NEW n \in Node, NEW s, Orderly(lk, n, s),
           NEW p \in Position, NEW seed \in SUBSET Block, \A b \in seed : Pos(b) = p, NEW e,
           e.io = "sync" => "power" \notin Faults,
           s.substituted = {} /\ e.window => Gathered(s, p)
    PROVE  Orderly(lk, n, CastVote(s, n, p, seed, e))
<1>0. s \in NodeState /\ Sound(lk, n, s)
  BY DEF Orderly, Sound
<1>1. ASSUME OwnFinal(s, n, p)  PROVE Orderly(lk, n, ReEmitFinal(s, n, p, e))
  <2> DEFINE b == s.vote[p][n].block
             t == Sync(s)
  <2>1. b \in Block
    BY <1>0, <1>1, VotedBlockType DEF OwnFinal
  <2>2. Orderly(lk, n, t)
    BY SyncOrderly
  <2>3. t.vote = s.vote /\ t.substituted = s.substituted
    BY <1>0, SyncFacts
  <2>4. t.substituted = {} => Backed(LocksWith(lk, n, t), n, b)
    BY <1>1, <2>2, <2>3 DEF OwnFinal, Orderly, Sound, NodeOK, StoreOK, VotesOK
  <2> HIDE DEF b, t
  <2>5. Sound(lk, n, Emit(t, n, b, TRUE))
    BY <2>1, <2>2, <2>4, EmitSound DEF Orderly
  <2>6. Orderly(lk, n, Emit(t, n, b, TRUE))
    BY <2>1, <2>2, <2>5, EmitOrderly
  <2> QED
    BY <2>6 DEF ReEmitFinal, b, t
<1>2. ASSUME s.lock[p] # None  PROVE Orderly(lk, n, EmitFinalLocked(s, n, p, s.lock[p], e))
  <2> DEFINE b == s.lock[p]
  <2>1. b \in Block
    BY <1>0, <1>2 DEF NodeState
  <2>2. s.substituted = {} =>
          Pos(b) = p /\ \A a \in Below[b] : ChosenIn(LocksWith(lk, n, s), a)
    BY <1>0, <1>2 DEF Sound, NodeOK, StoreOK, LockOK
  <2> HIDE DEF b
  <2>3. Orderly(lk, n, EmitFinalLocked(s, n, p, b, e))
    BY <1>2, <2>1, <2>2, EmitFinalLockedOrderly
  <2> QED
    BY <2>3 DEF b
<1>3. ~PositionResolved(s, p) => Orderly(lk, n, VoteFreely(s, n, p, seed, e))
  BY VoteFreelyOrderly
<1> QED
  BY <1>1, <1>2, <1>3 DEF CastVote

(* Reaffirming what is final is orderly.                                   *)
LEMMA ReaffirmFromStateOrderly ==
    ASSUME NEW lk \in LockTable, NEW n \in Node, NEW s, Orderly(lk, n, s),
           NEW p \in Position, NEW due
    PROVE  Orderly(lk, n, ReaffirmFromState(s, n, p, due))
<1> DEFINE c == CHOOSE x \in FinalizedChild(s, p) : TRUE
<1>0. s \in NodeState /\ Sound(lk, n, s)
  BY DEF Orderly, Sound
<1>1. FinalizedChild(s, p) # {} => c \in Block
  BY <1>0, ChildAtType
<1>2. Sound(lk, n, ReaffirmFromState(s, n, p, due))
  BY <1>0, ReaffirmFromStateSound
<1>3. \/ ReaffirmFromState(s, n, p, due) = s
      \/ FinalizedChild(s, p) # {} /\ ReaffirmFromState(s, n, p, due) = Emit(s, n, c, TRUE)
  BY DEF ReaffirmFromState
<1> HIDE DEF c
<1> QED
  BY <1>1, <1>2, <1>3, EmitOrderly

(* Receiving a backed vote is orderly.                                     *)
LEMMA ReceiveVoteOrderly ==
    ASSUME NEW lk \in LockTable, NEW n \in Node, NEW s, Orderly(lk, n, s),
           NEW m \in VoteMsg, NEW e \in Env, e.io = "sync" => "power" \notin Faults,
           s.substituted = {} /\ m.final => Backed(LocksWith(lk, n, s), m.rep, m.block),
           e.window => Gathered(s, Pos(m.block))
    PROVE  Orderly(lk, n, ReceiveVote(s, n, m, e))
<1> DEFINE p == Pos(m.block)
           d == [e EXCEPT !.due = @ \/ ~OwnFinal(s, m.rep, p)]
           v == PutVote(s, p, m.rep, m.block, m.final)
           t == ReceiveVoteInner(s, m)
<1>0. Sound(lk, n, s)
  BY DEF Orderly
<1>1. m.rep \in Node /\ m.block \in Block /\ m.final \in BOOLEAN /\ p \in Position
  BY BlockFacts DEF VoteMsg
<1>2. Sound(lk, n, v)
  BY <1>0, <1>1, PutVoteSound
<1>3. /\ Orderly(lk, n, v)
      /\ Gathered(s, p) => Gathered(v, p)
  BY <1>1, <1>2, PutVoteOrderly
<1> HIDE DEF v
<1>4. /\ Orderly(lk, n, Retally(v, p))
      /\ Gathered(v, p) /\ Retally(v, p).substituted = {} => Gathered(Retally(v, p), p)
  BY <1>1, <1>3, RetallyOrderly
<1>5. t \in {s, Retally(v, p)}
  BY DEF ReceiveVoteInner, v
<1>6. d.window = e.window /\ d.io = e.io
  BY DEF Env
<1> HIDE DEF p, d, t
<1>7. t.substituted = {} /\ d.window => Gathered(t, p)
  BY <1>3, <1>4, <1>5, <1>6 DEF p
<1>8. Orderly(lk, n, t)
  BY <1>4, <1>5
<1>9. Orderly(lk, n, CastVote(t, n, p, {}, d))
  BY <1>1, <1>6, <1>7, <1>8, CastVoteOrderly
<1>10. Orderly(lk, n, ReaffirmFromState(s, n, p, e.due))
  BY <1>1, ReaffirmFromStateOrderly
<1> QED
  BY <1>9, <1>10 DEF ReceiveVote, p, d, t

(* Answering a vote pull is orderly.                                       *)
LEMMA VotesForPositionOrderly ==
    ASSUME NEW lk \in LockTable, NEW n \in Node, NEW s, Orderly(lk, n, s), NEW p \in Position
    PROVE  Orderly(lk, n, VotesForPosition(s, n, p))
<1> DEFINE own == IF s.vote[p][n] = None THEN s
                  ELSE Emit(s, n, s.vote[p][n].block, s.vote[p][n].final)
<1>0. s \in NodeState /\ Sound(lk, n, s)
  BY DEF Orderly, Sound
<1>1. Orderly(lk, n, own)
  <2> SUFFICES ASSUME s.vote[p][n] # None
               PROVE  Orderly(lk, n, Emit(s, n, s.vote[p][n].block, s.vote[p][n].final))
    OBVIOUS
  <2>1. s.vote[p][n].block \in Block /\ s.vote[p][n].final \in BOOLEAN
    BY <1>0, VotedBlockType
  <2>2. s.substituted = {} /\ s.vote[p][n].final =>
          Backed(LocksWith(lk, n, s), n, s.vote[p][n].block)
    BY <1>0 DEF Sound, NodeOK, StoreOK, VotesOK
  <2>3. Sound(lk, n, Emit(s, n, s.vote[p][n].block, s.vote[p][n].final))
    BY <1>0, <2>1, <2>2, EmitSound
  <2> QED
    BY <2>1, <2>3, EmitOrderly
<1> HIDE DEF own
<1>2. Orderly(lk, n, ReaffirmFromState(own, n, p, TRUE))
  BY <1>1, ReaffirmFromStateOrderly
<1> QED
  BY <1>1, <1>2 DEF VotesForPosition, own

(* Dropping a resolved record, and one that a rollback orphaned, is        *)
(* orderly.                                                                *)
LEMMA CleanupOrderly ==
    ASSUME OpeningsStand,
           NEW lk \in LockTable, NEW n \in Node, NEW s, Orderly(lk, n, s), NEW p \in Position
    PROVE  /\ FinalizedChild(s, p) # {} => Orderly(lk, n, DropResolved(s, p))
           /\ ConflictOrphaned(s, p) => Orderly(lk, n, DropOrphaned(s, p))
<1> DEFINE w == CHOOSE c \in FinalizedChild(s, p) : TRUE
<1>0. s \in NodeState /\ Sound(lk, n, s)
  BY DEF Orderly, Sound
<1>1. /\ Sound(lk, n, DropResolved(s, p))
      /\ Sound(lk, n, DropOrphaned(s, p))
  BY <1>0, CleanupSound
<1>2. ASSUME FinalizedChild(s, p) # {}  PROVE Orderly(lk, n, DropResolved(s, p))
  <2>1. w \in Block
    BY <1>0, <1>2, ChildAtType
  <2>2. DropResolved(s, p) = CleanupResolvedConflict(s, p, w, s.conflict[p])
    BY DEF DropResolved
  <2> HIDE DEF w
  <2>3. Evolves(s, DropResolved(s, p))
    BY <1>0, <2>2, CleanupResolvedConflictType
  <2>4. RecordsOK(s) => RecordsOK(DropResolved(s, p))
    BY <1>0, <2>1, <2>2, FinalizeRecords
  <2> QED
    BY <1>1, <2>3, <2>4, OrderlyEvolves
<1>3. ASSUME ConflictOrphaned(s, p)  PROVE Orderly(lk, n, DropOrphaned(s, p))
  <2>1. Evolves(s, DropOrphaned(s, p))
    BY <1>0, DropOrphanedType
  <2>2. ASSUME s.substituted = {}, RecordsOK(s)  PROVE RecordsOK(DropOrphaned(s, p))
    <3>1. ConflictOK(s.conflict)
      BY <1>0, <2>2 DEF Sound, NodeOK, StoreOK
    <3>2. \A b \in s.conflict[p] : Dead(s, b)
      BY <1>0, <1>3, <2>2, <3>1, OrphansDead
    <3> QED
      BY <1>0, <2>2, <3>2, DropOrphanedRecords
  <2> QED
    BY <1>1, <2>1, <2>2, OrderlyEvolves
<1> QED
  BY <1>2, <1>3

(* evictPhantomsAndResolve is orderly.                                     *)
LEMMA EvictPhantomsOrderly ==
    ASSUME NEW lk \in LockTable, NEW n \in Node, NEW s, Orderly(lk, n, s),
           NEW p \in Position, NEW timedOut
    PROVE  Orderly(lk, n, EvictPhantomsAndResolve(s, p, timedOut))
<1> DEFINE real == s.conflict[p] \cap Held(s)
           kept == real \cup RetainedPhantoms(s, p, timedOut)
           t    == [s EXCEPT !.conflict[p] = kept]
<1>1. s \in NodeState /\ Sound(lk, n, s)
  BY DEF Orderly, Sound
<1>2. kept \subseteq s.conflict[p] /\ s.conflict[p] \cap Held(s) \subseteq kept
  BY DEF RetainedPhantoms, Phantoms
<1> HIDE DEF kept
<1>3. Evolves(s, t) /\ Sound(lk, n, t)
  BY <1>1, <1>2, EvictedSound
<1>6. RecordsOK(s) => RecordsOK(t)
  BY <1>1, <1>2, EvictedRecords
<1> HIDE DEF t
<1>7. Orderly(lk, n, t)
  BY <1>3, <1>6, OrderlyEvolves
<1>8. Orderly(lk, n, Retally(t, p))
  BY <1>7, RetallyOrderly
<1>9. ASSUME \E b \in real : IsFinalized(s, b)  PROVE Orderly(lk, n, DropOrphaned(s, p))
  <2>1. Evolves(s, DropOrphaned(s, p)) /\ Sound(lk, n, DropOrphaned(s, p))
    BY <1>1, DropOrphanedType, CleanupSound
  <2>2. ASSUME s.substituted = {}, RecordsOK(s)  PROVE RecordsOK(DropOrphaned(s, p))
    <3>1. PICK c \in Finalized(s) : c \in s.conflict[p]
      BY <1>1, <1>9 DEF Finalized, NodeState
    <3>2. \A b \in s.conflict[p] : Pos(b) = Pos(c)
      BY <1>1, <2>2, <3>1 DEF Sound, NodeOK, StoreOK, ConflictOK
    <3>3. \A b \in s.conflict[p] : b \in s.chain \/ Dead(s, b)
      BY <3>1, <3>2 DEF Dead, Beaten, Finalized, IsFinalized
    <3> QED
      BY <1>1, <2>2, <3>3, DropOrphanedRecords
  <2> QED
    BY <2>1, <2>2, OrderlyEvolves
<1> QED
  BY <1>7, <1>8, <1>9 DEF EvictPhantomsAndResolve, kept, t

(* A sweep over a stale conflict is orderly.                               *)
LEMMA SweepConflictOrderly ==
    ASSUME OpeningsStand,
           NEW lk \in LockTable, NEW n \in Node, NEW s, Orderly(lk, n, s),
           NEW p \in Position, NEW age, NEW e,
           e.io = "sync" => "power" \notin Faults, e.window => Gathered(s, p)
    PROVE  Orderly(lk, n, SweepConflict(s, n, p, age, e))
<1> DEFINE evict == age # "stale" /\ Phantoms(s, p) # {}
           late  == age = "expired"
           t     == IF evict THEN EvictPhantomsAndResolve(s, p, late) ELSE s
           c     == CastVote(t, n, p, {}, e)
<1>0. s \in NodeState /\ Sound(lk, n, s)
  BY DEF Orderly, Sound
<1>1. Orderly(lk, n, t)
  BY EvictPhantomsOrderly
<1>2. Evolves(s, t)
  BY <1>0, EvictPhantomsType, EvolvesSelf
<1>3. ASSUME FinalizedChild(s, p) = {}, t.substituted = {}, e.window  PROVE Gathered(t, p)
  <2>1. s.substituted = {}
    BY <1>2, <1>3 DEF Evolves
  <2>2. \A b \in s.conflict[p] : b \in Block /\ Pos(b) = p
    BY <1>0, <2>1 DEF Sound, NodeOK, StoreOK, ConflictOK, NodeState
  <2>3. Phantoms(s, p) = {}
    BY <1>3, <2>2 DEF Gathered, Phantoms
  <2> QED
    BY <1>3, <2>3
<1> HIDE DEF t
<1>4. FinalizedChild(s, p) = {} => Orderly(lk, n, c)
  BY <1>1, <1>3, CastVoteOrderly
<1> HIDE DEF c
<1>5. FinalizedChild(s, p) = {} => Orderly(lk, n, Retally(c, p))
  BY <1>4, RetallyOrderly
<1> QED
  BY <1>1, <1>5, CleanupOrderly DEF SweepConflict, t, c

(* Recording and staging a candidate are orderly.                          *)
LEMMA StageCandidateOrderly ==
    ASSUME NEW lk \in LockTable, NEW n \in Node, NEW s, Orderly(lk, n, s), NEW b \in Block
    PROVE  /\ Orderly(lk, n, RecordConflict(s, b))
           /\ Orderly(lk, n, StageCandidate(s, b))
<1> DEFINE t == RecordConflict(s, b)
           x == StageCandidate(s, b)
<1>0. s \in NodeState /\ Sound(lk, n, s)
  BY DEF Orderly, Sound
<1>1. Evolves(s, t) /\ Evolves(s, x) /\ t \in NodeState
  BY <1>0, RecordConflictType, StageCandidateType DEF Evolves
<1>2. Sound(lk, n, t) /\ Sound(lk, n, x)
  BY <1>0, StageCandidateSound
<1>3. RecordsOK(s) => RecordsOK(t)
  BY <1>0, RecordConflictRecords
<1>4. x = IF b \in t.conflict[Pos(b)] THEN [t EXCEPT !.staged = @ \cup {b}] ELSE t
  BY DEF StageCandidate
<1> HIDE DEF t, x
<1>5. RecordsOK(s) => RecordsOK(x)
  BY <1>1, <1>3, <1>4, StageRecords
<1>6. Orderly(lk, n, t) /\ Orderly(lk, n, x)
  BY <1>1, <1>2, <1>3, <1>5, OrderlyEvolves
<1> QED
  BY <1>6 DEF t, x

-----------------------------------------------------------------------------
(* The inductive invariant of locks that do not split. *)
SplitInv ==
    /\ AgreementInv
    /\ NoSubstitution =>
         \A n \in Node : Tidy(Locks, node[n]) /\ Tidy(Locks, node[n].disk)

(* The step of a node leaves it orderly, given the locks before the step. *)
OrderlyStepOf(n) == \E t \in NodeState : Update(n, t) /\ Orderly(Locks, n, t)

(* An orderly handler is an orderly step.                                  *)
LEMMA OrderlyStep ==
    ASSUME NEW n \in Node, NEW t, Update(n, t), Orderly(Locks, n, t)
    PROVE  OrderlyStepOf(n)
BY DEF OrderlyStepOf, Orderly, Sound

(* A handler that evolves its node in order is an orderly step.            *)
LEMMA OrderlyEvolvesStep ==
    ASSUME NEW n \in Node, NEW t, Update(n, t), Orderly(Locks, n, node[n]),
           Evolves(node[n], t),
           NodeOK(LocksWith(Locks, n, node[n]), node[n]) =>
             NodeOK(LocksWith(Locks, n, node[n]), t),
           RecordsOK(node[n]) => RecordsOK(t)
    PROVE  OrderlyStepOf(n)
<1>1. Sound(Locks, n, t)
  BY SoundEvolves DEF Orderly
<1>2. Orderly(Locks, n, t)
  BY <1>1, OrderlyEvolves
<1> QED
  BY <1>2, OrderlyStep

(* A machine that comes back with what is on disk is orderly.              *)
LEMMA PowerFailureOrderly ==
    ASSUME NEW lk \in LockTable, NEW n \in Node, NEW s, Orderly(lk, n, s), "power" \in Faults
    PROVE  Orderly(lk, n, NodeOn(s.disk, s.sent, s.substituted))
<1> DEFINE t == NodeOn(s.disk, s.sent, s.substituted)
<1>1. Sound(lk, n, t)
  BY PowerFailureSound DEF Orderly
<1>2. /\ t.chain = s.disk.chain /\ t.known = s.disk.known /\ t.staged = s.disk.staged
      /\ t.conflict = s.disk.conflict /\ t.finalHeight = s.disk.finalHeight
      /\ t.lock = s.disk.lock /\ t.disk = s.disk /\ t.substituted = s.substituted
  BY DEF NodeOn
<1> HIDE DEF t
<1>3. LocksWith(lk, n, t) = LocksWith(lk, n, s)
  BY <1>2 DEF LocksWith, Kept
<1>4. ASSUME s.substituted = {}
      PROVE  /\ Tidy(LocksWith(lk, n, s), t)
             /\ Tidy(LocksWith(lk, n, s), t.disk)
  BY <1>2, <1>4, TidyCopy DEF Orderly
<1>5. Orderly(lk, n, t)
  BY <1>1, <1>2, <1>3, <1>4 DEF Orderly
<1> QED
  BY <1>5 DEF t

(* Every step is an orderly step of one node.                              *)
LEMMA NextOrderly ==
    ASSUME Synchronous, ~({"power", "sync"} \subseteq Faults), OpeningsStand,
           SplitInv, NoSubstitution, Next
    PROVE  \E n \in Node : OrderlyStepOf(n)
<1> PICK n \in Node :
      \/ \E b \in Block : \/ AppendBlock(n, b)
                          \/ StageBlock(n, b)
                          \/ StageBlockFails(n, b)
                          \/ QuarantineExpires(n, b)
      \/ \E p \in Position : \/ CastVoteOn(n, p)
                             \/ AnswerVotePull(n, p)
                             \/ PullFrontierVotes(n, p)
                             \/ SweepStaleConflict(n, p)
      \/ \E m \in VoteMsg : HandleVote(n, m)
      \/ Restart(n)
      \/ WriteBack(n)
      \/ PowerFailure(n)
  BY Zenon DEF Next
<1> DEFINE s == node[n]
<1>t. s \in NodeState /\ Locks \in LockTable
  BY LocksType DEF SplitInv, AgreementInv, TypeOK
<1>l. LocksWith(Locks, n, s) = Locks
  BY <1>t DEF LocksWith, Locks, LockTable
<1>s. Sound(Locks, n, s)
  BY <1>t, <1>l DEF Sound, SplitInv, AgreementInv, Extends
<1>o. Orderly(Locks, n, s)
  BY <1>l, <1>s DEF Orderly, SplitInv
<1>e. \A p \in Position : \A e \in EnvAt(p) :
        /\ e \in Env /\ (e.io = "sync" => "power" \notin Faults)
        /\ e.window => Gathered(s, p)
  BY DEF EnvAt, CandidatesEverywhere, Gathered
<1> HIDE DEF s
<1> SUFFICES OrderlyStepOf(n)
  OBVIOUS
<1>1. ASSUME NEW b \in Block, AppendBlock(n, b)  PROVE OrderlyStepOf(n)
  <2>1. /\ FitsChain(s, s.chain, b) /\ b \in FullyValid /\ Update(n, Attach(s, b))
        /\ \A p \in Position : p[1] = Acct[b] => s.conflict[p] = {}
    BY <1>1 DEF AppendBlock, CanAppend, s
  <2>2. NodeOK(Locks, s) => NodeOK(Locks, Attach(s, b))
    BY <1>t, <2>1, AppendOK
  <2>3. Evolves(s, Attach(s, b))
    BY <1>t, <2>1, AppendType
  <2>4. s.conflict[Pos(b)] = {}
    BY <2>1, BlockFacts DEF Pos
  <2>5. RecordsOK(s) => RecordsOK(Attach(s, b))
    BY <1>t, <2>1, <2>4, AttachRecords
  <2> QED
    BY <1>o, <1>l, <2>1, <2>2, <2>3, <2>5, OrderlyEvolvesStep DEF s
<1>2. ASSUME NEW b \in Block, StageBlock(n, b)  PROVE OrderlyStepOf(n)
  <2>1. Orderly(Locks, n, StageCandidate(s, b))
    BY <1>t, <1>o, StageCandidateOrderly
  <2> QED
    BY <1>2, <2>1, OrderlyStep DEF StageBlock, s
<1>3. ASSUME NEW b \in Block, StageBlockFails(n, b)  PROVE OrderlyStepOf(n)
  <2>1. Orderly(Locks, n, RecordConflict(s, b))
    BY <1>t, <1>o, StageCandidateOrderly
  <2> QED
    BY <1>3, <2>1, OrderlyStep DEF StageBlockFails, s
<1>4. ASSUME NEW b \in Block, QuarantineExpires(n, b)  PROVE OrderlyStepOf(n)
  <2> DEFINE X == s.quarantine \ {b}
  <2>1. Evolves(s, [s EXCEPT !.quarantine = X])
    BY <1>t, QuarantineType
  <2>2. NodeOK(Locks, s) => NodeOK(Locks, [s EXCEPT !.quarantine = X])
    BY <1>t, StageOK
  <2>3. RecordsOK(s) => RecordsOK([s EXCEPT !.quarantine = X])
    BY <1>t, RecordsSame DEF NodeState
  <2> QED
    BY <1>4, <1>o, <1>l, <2>1, <2>2, <2>3, OrderlyEvolvesStep DEF QuarantineExpires, s
<1>5. ASSUME NEW p \in Position, CastVoteOn(n, p)  PROVE OrderlyStepOf(n)
  <2>1. PICK seed \in VoteSeeds(s, p), e \in EnvAt(p) : Update(n, CastVote(s, n, p, seed, e))
    BY <1>5 DEF CastVoteOn, s
  <2>2. seed \subseteq Block /\ \A b \in seed : Pos(b) = p
    BY <1>t, <2>1 DEF VoteSeeds, NodeState
  <2>3. Orderly(Locks, n, CastVote(s, n, p, seed, e))
    BY <1>t, <1>o, <1>e, <2>2, CastVoteOrderly
  <2> QED
    BY <2>1, <2>3, OrderlyStep DEF s
<1>6. ASSUME NEW p \in Position, AnswerVotePull(n, p)  PROVE OrderlyStepOf(n)
  <2>1. Orderly(Locks, n, VotesForPosition(s, n, p))
    BY <1>t, <1>o, VotesForPositionOrderly
  <2> QED
    BY <1>6, <2>1, OrderlyStep DEF AnswerVotePull, s
<1>7. ASSUME NEW p \in Position, PullFrontierVotes(n, p)  PROVE OrderlyStepOf(n)
  <2>1. Orderly(Locks, n, Retally(s, p))
    BY <1>t, <1>o, RetallyOrderly
  <2> QED
    BY <1>7, <2>1, OrderlyStep DEF PullFrontierVotes, s
<1>8. ASSUME NEW p \in Position, SweepStaleConflict(n, p)  PROVE OrderlyStepOf(n)
  <2>1. PICK age \in ConflictAge, e \in EnvAt(p) : Update(n, SweepConflict(s, n, p, age, e))
    BY <1>8 DEF SweepStaleConflict, s, ConflictAge
  <2>2. Orderly(Locks, n, SweepConflict(s, n, p, age, e))
    BY <1>t, <1>o, <1>e, SweepConflictOrderly
  <2> QED
    BY <2>1, <2>2, OrderlyStep DEF s
<1>9. ASSUME NEW m \in VoteMsg, HandleVote(n, m)  PROVE OrderlyStepOf(n)
  <2>0. Pos(m.block) \in Position
    BY BlockFacts DEF VoteMsg
  <2>1. PICK e \in EnvAt(Pos(m.block)) : Update(n, ReceiveVote(s, n, m, e))
    BY <1>9 DEF HandleVote, s
  <2>2. PICK k \in Node : m \in node[k].sent
    BY <1>9 DEF HandleVote, Network
  <2>3. m.final => Backed(Locks, m.rep, m.block)
    BY <2>2 DEF SplitInv, AgreementInv, NodeOK, SentOK
  <2>4. Orderly(Locks, n, ReceiveVote(s, n, m, e))
    BY <1>t, <1>o, <1>l, <1>e, <2>0, <2>3, ReceiveVoteOrderly
  <2> QED
    BY <2>1, <2>4, OrderlyStep DEF s
<1>10. ASSUME Restart(n)  PROVE OrderlyStepOf(n)
  <2>1. Evolves(s, LoseMemory(s))
    BY <1>t, LoseMemoryType
  <2>2. NodeOK(Locks, s) => NodeOK(Locks, LoseMemory(s))
    BY <1>t DEF LoseMemory, NodeOK, StoreOK, LocksKept, NodeState
  <2>3. RecordsOK(s) => RecordsOK(LoseMemory(s))
    BY <1>t, RecordsSame DEF LoseMemory, NodeState
  <2> QED
    BY <1>10, <1>o, <1>l, <2>1, <2>2, <2>3, OrderlyEvolvesStep DEF Restart, s
<1>11. ASSUME WriteBack(n)  PROVE OrderlyStepOf(n)
  <2>1. Orderly(Locks, n, Sync(s))
    BY <1>t, <1>o, SyncOrderly
  <2> QED
    BY <1>11, <2>1, OrderlyStep DEF WriteBack, s
<1>12. ASSUME PowerFailure(n)  PROVE OrderlyStepOf(n)
  <2>1. Orderly(Locks, n, NodeOn(s.disk, s.sent, s.substituted))
    BY <1>12, <1>t, <1>o, PowerFailureOrderly DEF PowerFailure
  <2> QED
    BY <1>12, <2>1, OrderlyStep DEF PowerFailure, s
<1> QED
  BY <1>1, <1>2, <1>3, <1>4, <1>5, <1>6, <1>7, <1>8, <1>9, <1>10, <1>11, <1>12

(* An orderly step of a node preserves the invariant of all nodes.         *)
LEMMA SplitInvStep ==
    ASSUME Synchronous, ~({"power", "sync"} \subseteq Faults), OpeningsStand, SplitInv, Next
    PROVE  SplitInv'
<1>1. AgreementInv'
  BY AgreementInvStep DEF SplitInv
<1>2. NoSubstitution' => NoSubstitution
  <2>1. PICK n \in Node, t \in NodeState :
          Update(n, t) /\ node[n].substituted \subseteq t.substituted
    BY NextStep DEF SplitInv, AgreementInv, StepOf
  <2> QED
    BY <2>1 DEF SplitInv, AgreementInv, TypeOK, Update, NoSubstitution
<1> SUFFICES ASSUME NoSubstitution, NoSubstitution'
             PROVE  \A k \in Node : Tidy(Locks', node'[k]) /\ Tidy(Locks', node'[k].disk)
  BY <1>1, <1>2 DEF SplitInv
<1>3. PICK n \in Node, t \in NodeState : Update(n, t) /\ Orderly(Locks, n, t)
  BY NextOrderly DEF OrderlyStepOf
<1>4. /\ node \in [Node -> NodeState] /\ node' = [node EXCEPT ![n] = t]
      /\ node'[n] = t
  BY <1>3 DEF SplitInv, AgreementInv, TypeOK, Update
<1> DEFINE L2 == LocksWith(Locks, n, t)
<1>5. Locks' = L2
  BY <1>4 DEF Locks, LocksWith
<1>6. t.substituted = {}
  BY <1>4 DEF NoSubstitution
<1>7. Tidy(L2, t) /\ Tidy(L2, t.disk) /\ Extends(Locks, L2)
  BY <1>3, <1>6 DEF Orderly, Sound
<1>8. Locks \in LockTable /\ L2 \in LockTable
  BY LocksType, LocksWithType DEF SplitInv, AgreementInv
<1> HIDE DEF L2
<1>9. ASSUME NEW k \in Node  PROVE Tidy(L2, node'[k]) /\ Tidy(L2, node'[k].disk)
  <2>1. CASE k = n
    BY <1>4, <1>7, <2>1
  <2>2. CASE k # n
    <3>1. node'[k] = node[k] /\ Tidy(Locks, node[k]) /\ Tidy(Locks, node[k].disk)
      BY <1>4, <2>2 DEF SplitInv
    <3> QED
      BY <1>7, <1>8, <3>1, TidyGrows
  <2> QED
    BY <2>1, <2>2
<1> QED
  BY <1>5, <1>9

(* Initially there are no blocks, no records and no locks.                 *)
LEMMA SplitInvInit ==
    ASSUME Init
    PROVE  SplitInv
<1>1. AgreementInv
  BY AgreementInvInit
<1>2. ASSUME NEW d, d.chain = {}, d.known = {}, d.staged = {},
             \A p \in Position : d.conflict[p] = {} /\ d.lock[p] = None
      PROVE  Tidy(Locks, d)
  BY <1>2 DEF Tidy, LowLocks, RecordsOK, KnownOK, UndoneOK, Undone, StagedOK, RecordedOK
<1>3. \A n \in Node : Tidy(Locks, node[n]) /\ Tidy(Locks, node[n].disk)
  <2> TAKE n \in Node
  <2> DEFINE d == InitDisk
             s == node[n]
  <2>1. /\ s.chain = d.chain /\ s.known = d.known /\ s.staged = d.staged
        /\ s.conflict = d.conflict /\ s.finalHeight = d.finalHeight
        /\ s.lock = d.lock /\ s.disk = d
    BY DEF Init, InitNode, NodeOn
  <2>2. /\ d.chain = {} /\ d.known = {} /\ d.staged = {}
        /\ \A p \in Position : d.conflict[p] = {} /\ d.lock[p] = None
    BY DEF InitDisk
  <2> HIDE DEF s, d
  <2>3. Tidy(Locks, d)
    BY <1>2, <2>2
  <2>4. Tidy(Locks, s) /\ Tidy(Locks, s.disk)
    BY <2>1, <2>3, TidyCopy
  <2> QED
    BY <2>4 DEF s
<1> QED
  BY <1>1, <1>3 DEF SplitInv

(* Where candidates spread within the stability window, no two nodes lock  *)
(* different candidates of a position (castVoteLocked, maybeLockLocked and *)
(* emitFinalLocked, core/finalization.go): a lock is on the lowest         *)
(* candidate that can still be chosen, and the node has seen them all.     *)
THEOREM LocksNeverSplit ==
    ASSUME Synchronous, ~({"power", "sync"} \subseteq Faults), OpeningsStand
    PROVE  Spec => [](NoSubstitution => NoLockSplit)
<1>1. Init => SplitInv
  BY SplitInvInit
<1>2. SplitInv /\ [Next]_vars => SplitInv'
  <2>1. ASSUME SplitInv, Next  PROVE SplitInv'
    BY <2>1, SplitInvStep
  <2>2. ASSUME SplitInv, vars' = vars  PROVE SplitInv'
    <3>1. node' = node
      BY <2>2 DEF vars
    <3>2. Locks' = Locks
      BY <3>1 DEF Locks, Kept
    <3>3. TypeOK' /\ (NoSubstitution' => NoSubstitution)
      BY <2>2, <3>1 DEF SplitInv, AgreementInv, TypeOK, NoSubstitution
    <3>4. ASSUME NoSubstitution
          PROVE  /\ LocksOK(Locks')
                 /\ \A n \in Node : /\ NodeOK(Locks', node'[n])
                                    /\ Tidy(Locks', node'[n]) /\ Tidy(Locks', node'[n].disk)
      BY <2>2, <3>1, <3>2, <3>4 DEF SplitInv, AgreementInv
    <3> QED
      BY <3>3, <3>4 DEF SplitInv, AgreementInv
  <2> QED
    BY <2>1, <2>2
<1>3. SplitInv => (NoSubstitution => NoLockSplit)
  <2> SUFFICES ASSUME SplitInv, NoSubstitution, NEW n \in Node, NEW m \in Node,
                      NEW p \in Position, node[n].lock[p] # None, node[m].lock[p] # None,
                      node[n].lock[p] # node[m].lock[p]
               PROVE  FALSE
    BY DEF NoLockSplit
  <2>1. Locks \in LockTable
    BY LocksType DEF SplitInv, AgreementInv
  <2>2. \A k \in Node : /\ node[k].lock \in [Position -> Block \cup {None}]
                        /\ LockOK(Locks, node[k].lock) /\ LowLocks(Locks, node[k].lock)
    BY DEF SplitInv, AgreementInv, TypeOK, NodeState, NodeOK, StoreOK, Tidy
  <2>3. ASSUME NEW k \in Node, NEW j \in Node,
               node[k].lock[p] # None, node[j].lock[p] # None
        PROVE  ~(node[k].lock[p] < node[j].lock[p])
    <3> DEFINE a == node[k].lock[p]
               b == node[j].lock[p]
    <3> SUFFICES ASSUME a < b  PROVE FALSE
      OBVIOUS
    <3>1. a \in Block /\ Pos(a) = p /\ \A d \in Below[a] : ChosenIn(Locks, d)
      BY <2>2, <2>3 DEF LockOK
    <3>2. LowTarget(Locks, p, b)
      BY <2>2, <2>3 DEF LowLocks
    <3> HIDE DEF a, b
    <3>3. PICK d \in Below[a], c \in Block : Pos(c) = Pos(d) /\ c # d /\ ChosenIn(Locks, c)
      BY <3>1, <3>2 DEF LowTarget, Doomed
    <3>4. d \in Block
      BY <3>1, BelowFacts
    <3> QED
      BY <2>1, <3>1, <3>3, <3>4, ChosenUnique
  <2>4. node[n].lock[p] \in Nat /\ node[m].lock[p] \in Nat
    BY <2>2, BlockAssumption
  <2> QED
    BY <2>3, <2>4
<1> QED
  BY <1>1, <1>2, <1>3, PTL DEF Spec
=============================================================================
