--------------------------- MODULE FinalityTypes ---------------------------
(***************************************************************************)
(* Type correctness of Finality and the shape of its chains, for every     *)
(* lattice, weight distribution and choice of faults.                      *)
(*                                                                         *)
(* One lemma per operator says that it evolves a node: it takes a          *)
(* well-typed state to a well-typed state, keeps its chains good (valid    *)
(* blocks, each with its parents, none sharing a position or a source),    *)
(* leaves the final-vote locks and the disk alone and forgets no           *)
(* substitution.  Only the operators that may lock or sync                 *)
(* (EmitFinalLocked, ReEmitFinal and their callers) are exempt from the    *)
(* part on locks and disk.  The lemmas serve the proof of agreement as     *)
(* well.                                                                   *)
(***************************************************************************)
EXTENDS Finality, TLAPS, WellFoundedInduction

(* The lowest of some hashes is one of them.                               *)
LEMMA LowestIn ==
    ASSUME NEW S \in SUBSET Nat, S # {}
    PROVE  Lowest(S) \in S
<1>1. PICK m \in S : \A k \in S : <<k, m>> \notin OpToRel(<, Nat)
  BY WFMin, NatLessThanWellFounded, Zenon
<1>2. \A k \in S : ~(k < m)
  BY <1>1, Zenon DEF OpToRel
<1>3. \A k \in S : m <= k
  BY <1>2
<1> QED
  BY <1>3 DEF Lowest

(* What the assumptions say of a block.                                    *)
LEMMA BlockFacts ==
    ASSUME NEW b \in Block
    PROVE  /\ b \in Nat
           /\ b # None
           /\ Acct[b] \in Account
           /\ Height[b] \in Nat
           /\ Pos(b) \in Position
BY BlockAssumption, LineageAssumption DEF Position

(* Chains of valid blocks in which every block has its parents and shares  *)
(* neither its position nor its source with another.                       *)
Good(chain) ==
    /\ chain \subseteq FullyValid
    /\ \A b \in chain :
          /\ Parents(b) \subseteq chain
          /\ \A c \in chain \ {b} :
                Pos(b) # Pos(c) /\ (Src[b] = None \/ Src[b] # Src[c])

(* So are the chains of the node, and the ones that are safely on disk. *)
Clean(s) == Good(s.chain) /\ Good(s.disk.chain)

Keeps(s, t) ==
    /\ Clean(s) => Clean(t)
    /\ Finalized(s) \subseteq Finalized(t)

Evolves(s, t) ==
    /\ t \in NodeState
    /\ t.lock = s.lock
    /\ t.disk = s.disk
    /\ s.substituted \subseteq t.substituted
    /\ Keeps(s, t)

(* A step that leaves chains, final heights and disk alone keeps them.     *)
LEMMA KeepsSame ==
    ASSUME NEW s, NEW t, t.chain = s.chain, t.finalHeight = s.finalHeight, t.disk = s.disk
    PROVE  Keeps(s, t)
BY DEF Keeps, Clean, Finalized, IsFinalized

(* A node that does nothing evolves.                                       *)
LEMMA EvolvesSelf ==
    ASSUME NEW s \in NodeState
    PROVE  Evolves(s, s)
BY KeepsSame DEF Evolves

(* Steps of a node compose.                                                *)
LEMMA EvolvesTrans ==
    ASSUME NEW s, NEW t, NEW u, Evolves(s, t), Evolves(t, u)
    PROVE  Evolves(s, u)
BY DEF Evolves, Keeps

-----------------------------------------------------------------------------
(* BlockLattice *)

(* A valid block that fits the chains leaves them good. *)
LEMMA GoodExtended ==
    ASSUME NEW s, NEW chain \in SUBSET Block, Good(chain), NEW b \in FullyValid,
           FitsChain(s, chain, b)
    PROVE  Good(chain \cup {b})
<1>1. b \in Block /\ Src[b] \in Block \cup {None} /\ Prev[b] \in Block \cup {Root}
  BY BlockAssumption
<1>2. Parents(b) \subseteq chain
  BY <1>1 DEF FitsChain, IsPending, Parents
<1>3. \A c \in chain : Pos(c) # Pos(b) /\ (Src[b] = None \/ Src[c] # Src[b])
  BY DEF FitsChain, IsPending
<1> QED
  BY <1>2, <1>3 DEF Good

(* A rollback takes every block with it that rests on one it takes. *)
LEMMA GoodUnwound ==
    ASSUME NEW s \in NodeState, Good(s.chain), NEW l
    PROVE  Good(s.chain \ Tainted(s, l))
<1>1. ASSUME NEW b \in s.chain \ Tainted(s, l), NEW d \in Parents(b)
      PROVE  d \in s.chain \ Tainted(s, l)
  <2>1. b \in Block /\ d \in s.chain /\ b # l /\ l \notin Below[b]
    BY DEF NodeState, Good, Tainted
  <2>2. d \in Below[b] /\ Below[d] \subseteq Below[b]
    BY <1>1, <2>1, BelowAssumption
  <2> QED
    BY <2>1, <2>2 DEF Tainted
<1> QED
  BY <1>1 DEF Good

(* Appending a block (addBlock) evolves a node.                            *)
LEMMA AppendType ==
    ASSUME NEW s \in NodeState, NEW b \in FullyValid, FitsChain(s, s.chain, b)
    PROVE  Evolves(s, Attach(s, b))
<1>1. b \in Block /\ s.chain \in SUBSET Block
  BY BlockAssumption DEF NodeState
<1>2. /\ Attach(s, b) \in NodeState /\ Attach(s, b).lock = s.lock
      /\ Attach(s, b).substituted = s.substituted
      /\ Attach(s, b).chain = s.chain \cup {b} /\ Attach(s, b).disk = s.disk
      /\ Attach(s, b).finalHeight = s.finalHeight
  BY <1>1 DEF Attach, NodeState
<1>3. Good(s.chain) => Good(s.chain \cup {b})
  BY <1>1, GoodExtended
<1> QED
  BY <1>2, <1>3 DEF Evolves, Keeps, Clean, Finalized, IsFinalized

(* Swapping a winner in (swapBlockLocked) evolves a node.                  *)
LEMMA SwapType ==
    ASSUME NEW s \in NodeState, NEW l, NEW w \in FullyValid, CanSwap(s, l, w)
    PROVE  Evolves(s, Swap(s, l, w))
<1> DEFINE chain == s.chain \ Tainted(s, l)
           t     == Swap(s, l, w)
<1>1. w \in Block /\ chain \in SUBSET Block
  BY BlockAssumption DEF NodeState
<1>2. /\ t \in NodeState /\ t.lock = s.lock /\ t.substituted = s.substituted
      /\ t.chain = chain \cup {w} /\ t.disk = s.disk /\ t.finalHeight = s.finalHeight
  BY <1>1 DEF Swap, NodeState
<1>3. Good(s.chain) => Good(chain \cup {w})
  BY <1>1, GoodUnwound, GoodExtended DEF CanSwap
<1>4. Finalized(s) \subseteq chain
  BY DEF CanSwap, CanUnwind, Finalized, IsFinalized
<1>5. Finalized(s) \subseteq Finalized(t)
  BY <1>2, <1>4 DEF Finalized, IsFinalized
<1> QED
  BY <1>2, <1>3, <1>5 DEF Evolves, Keeps, Clean

(* What occupies a position is a block.                                    *)
LEMMA ChildAtType ==
    ASSUME NEW s \in NodeState, NEW p
    PROVE  /\ ChildAt(s, p) \subseteq Block
           /\ FinalizedChild(s, p) \subseteq Block
BY DEF ChildAt, FinalizedChild, NodeState

(* Recording a conflict evolves a node.                                    *)
LEMMA RecordConflictType ==
    ASSUME NEW s \in NodeState, NEW b \in Block
    PROVE  Evolves(s, RecordConflict(s, b))
<1> DEFINE p   == Pos(b)
           old == s.conflict[p]
           new == IF old = {} THEN ChildAt(s, p) \cup {b}
                  ELSE IF Cardinality(old) >= MaxHashes THEN old
                  ELSE old \cup {b}
<1>1. p \in Position
  BY BlockFacts
<1>2. old \subseteq Block
  BY <1>1 DEF NodeState
<1>3. new \subseteq Block
  BY <1>2, ChildAtType
<1> HIDE DEF new, p
<1>4. Evolves(s, [s EXCEPT !.conflict[p] = new])
  BY <1>1, <1>3 DEF NodeState, Evolves, Keeps, Clean,
     Finalized, IsFinalized
<1> QED
  BY <1>4 DEF RecordConflict, new, p

(* Storing a staged body evolves a node.                                   *)
LEMMA StageType ==
    ASSUME NEW s \in NodeState, NEW b \in Block
    PROVE  Evolves(s, [s EXCEPT !.staged = @ \cup {b}])
BY DEF NodeState, Evolves, Keeps, Clean,
   Finalized, IsFinalized

(* Staging a candidate evolves a node.                                     *)
LEMMA StageCandidateType ==
    ASSUME NEW s \in NodeState, NEW b \in Block
    PROVE  Evolves(s, StageCandidate(s, b))
<1> DEFINE t == RecordConflict(s, b)
<1>1. Evolves(s, t) /\ t \in NodeState
  BY RecordConflictType DEF Evolves
<1> HIDE DEF t
<1>2. Evolves(t, [t EXCEPT !.staged = @ \cup {b}])
  BY <1>1, StageType
<1>3. StageCandidate(s, b) \in {t, [t EXCEPT !.staged = @ \cup {b}]}
  BY DEF StageCandidate, t
<1> QED
  BY <1>1, <1>2, <1>3, EvolvesTrans

-----------------------------------------------------------------------------
(* QuorumManager *)
LEMMA CandidateType ==
    ASSUME NEW s \in NodeState, NEW p \in Position
    PROVE  /\ VotedBlocks(s, p) \subseteq Block
           /\ CandidateSet(s, p) \subseteq Block
           /\ QuorumBlocks(s, p) \subseteq Block
<1>1. \A r \in Node : s.vote[p][r] # None => s.vote[p][r].block \in Block
  BY DEF NodeState, Vote
<1> QED
  BY <1>1 DEF VotedBlocks, CandidateSet, QuorumBlocks, NodeState

(* Dropping the votes of a position evolves a node.                        *)
LEMMA ClearVotesType ==
    ASSUME NEW s \in NodeState, NEW p \in Position
    PROVE  Evolves(s, ClearVotes(s, p))
BY DEF ClearVotes, NodeState, Evolves, Keeps, Clean,
   Finalized, IsFinalized

(* cleanupResolvedConflict evolves a node.                                 *)
LEMMA CleanupResolvedConflictType ==
    ASSUME NEW s \in NodeState, NEW p \in Position, NEW w, NEW cands
    PROVE  Evolves(s, CleanupResolvedConflict(s, p, w, cands))
<1> DEFINE t == ClearVotes(s, p)
<1>1. Evolves(s, t) /\ t \in NodeState
  BY ClearVotesType DEF Evolves
<1> HIDE DEF t
<1>2. Evolves(t, [t EXCEPT !.staged = @ \ ({w} \cup cands), !.conflict[p] = {}])
  BY <1>1 DEF NodeState, Evolves, Keeps, Clean,
     Finalized, IsFinalized
<1> QED
  BY <1>1, <1>2, EvolvesTrans DEF CleanupResolvedConflict, t

(* Raising a final height evolves a node: heights never fall.              *)
LEMMA AdvanceFinalHeightType ==
    ASSUME NEW s \in NodeState, NEW w \in Block
    PROVE  Evolves(s, AdvanceFinalHeight(s, w))
<1>1. Acct[w] \in Account /\ Height[w] \in Nat
  BY BlockFacts
<1> DEFINE t == [s EXCEPT !.finalHeight[Acct[w]] = Height[w]]
<1>2. /\ t \in NodeState /\ t.lock = s.lock /\ t.substituted = s.substituted
      /\ t.chain = s.chain /\ t.disk = s.disk
      /\ t.finalHeight = [s.finalHeight EXCEPT ![Acct[w]] = Height[w]]
      /\ s.finalHeight \in [Account -> Nat] /\ s.chain \subseteq Block
  BY <1>1 DEF NodeState
<1> HIDE DEF t
<1>3. ASSUME Height[w] > s.finalHeight[Acct[w]]  PROVE Evolves(s, t)
  <2>1. \A a \in Account : t.finalHeight[a] >= s.finalHeight[a]
    BY <1>1, <1>2, <1>3
  <2>2. \A b \in Block : Acct[b] \in Account /\ Height[b] \in Nat
    BY BlockFacts
  <2>3. \A a \in Account : t.finalHeight[a] \in Nat /\ s.finalHeight[a] \in Nat
    BY <1>1, <1>2
  <2>4. Finalized(s) \subseteq Finalized(t)
    BY <1>2, <2>1, <2>2, <2>3 DEF Finalized, IsFinalized
  <2> QED
    BY <1>2, <2>4 DEF Evolves, Keeps, Clean
<1> QED
  BY <1>3, EvolvesSelf DEF AdvanceFinalHeight, t

(* Finalizing a winner that is on the chain evolves a node.                *)
LEMMA FinalizeWinnerType ==
    ASSUME NEW s \in NodeState, NEW p \in Position, NEW w \in Block, NEW cands
    PROVE  Evolves(s, FinalizeWinner(s, p, w, cands))
<1>1. AdvanceFinalHeight(s, w) \in NodeState
  BY AdvanceFinalHeightType DEF Evolves
<1> QED
  BY <1>1, AdvanceFinalHeightType, CleanupResolvedConflictType, EvolvesTrans
     DEF FinalizeWinner

(* Appending a staged winner evolves a node.                               *)
LEMMA AppendStagedWinnerType ==
    ASSUME NEW s \in NodeState, NEW p \in Position, NEW w \in Block, NEW cands
    PROVE  Evolves(s, AppendStagedWinner(s, p, w, cands))
<1>1. ASSUME FitsChain(s, s.chain, w), w \in FullyValid
      PROVE  Evolves(s, Attach(s, w)) /\ Attach(s, w) \in NodeState
  BY <1>1, AppendType DEF Evolves
<1> QED
  BY <1>1, FinalizeWinnerType, EvolvesTrans, EvolvesSelf DEF AppendStagedWinner

(* Promoting a winner evolves a node, whether the swap succeeds or not.    *)
LEMMA SwapInWinnerType ==
    ASSUME NEW s \in NodeState, NEW p \in Position,
           NEW l \in Block, NEW w \in Block, NEW cands
    PROVE  Evolves(s, SwapInWinner(s, p, l, w, cands))
<1> DEFINE t == [s EXCEPT !.staged = @ \cup {l}]
<1>1. Evolves(s, t) /\ t \in NodeState
  BY StageType DEF Evolves
<1> HIDE DEF t
<1>2. Evolves(t, [t EXCEPT !.quarantine = @ \cup {w}])
  BY <1>1 DEF NodeState, Evolves, Keeps, Clean,
     Finalized, IsFinalized
<1>3. ASSUME CanSwap(t, l, w), w \in FullyValid
      PROVE  Evolves(t, Swap(t, l, w)) /\ Swap(t, l, w) \in NodeState
  BY <1>1, <1>3, SwapType DEF Evolves
<1>4. ASSUME CanSwap(t, l, w), w \in FullyValid
      PROVE  Evolves(t, FinalizeWinner(Swap(t, l, w), p, w, cands))
  BY <1>3, <1>4, FinalizeWinnerType, EvolvesTrans
<1> QED
  BY <1>1, <1>2, <1>4, EvolvesTrans DEF SwapInWinner, t

(* confirmConflict evolves a node.                                         *)
LEMMA ConfirmConflictType ==
    ASSUME NEW s \in NodeState, NEW p \in Position, NEW w \in Block
    PROVE  Evolves(s, ConfirmConflict(s, p, w))
<1> DEFINE cands  == CandidateSet(s, p)
           losers == (cands \ {w}) \cap ChildAt(s, p)
           l      == CHOOSE x \in losers : TRUE
<1>1. losers # {} => l \in Block
  BY ChildAtType
<1> HIDE DEF cands, losers, l
<1>2. losers # {} => Evolves(s, SwapInWinner(s, p, l, w, cands))
  BY <1>1, SwapInWinnerType
<1>3. /\ Evolves(s, CleanupResolvedConflict(s, p, w, cands))
      /\ Evolves(s, FinalizeWinner(s, p, w, cands))
      /\ Evolves(s, AppendStagedWinner(s, p, w, cands))
  BY CleanupResolvedConflictType, FinalizeWinnerType, AppendStagedWinnerType
<1> QED
  BY <1>2, <1>3, EvolvesSelf DEF ConfirmConflict, cands, losers, l

(* The tally yields a block or nothing.                                    *)
LEMMA FinalTallyType ==
    ASSUME NEW s \in NodeState, NEW p \in Position
    PROVE  FinalTally(s, p) \in Block \cup {None}
<1> DEFINE winners == {h \in QuorumBlocks(s, p) : PickWinner(s, p, h) # None}
<1>1. \A S \in SUBSET Block : S # {} => Lowest(S) \in Block
  BY LowestIn, BlockAssumption
<1>2. \A h \in Block : PickWinner(s, p, h) \in Block \cup {None}
  <2> TAKE h \in Block
  <2> DEFINE others == {c \in CandidateSet(s, p) : Promotable(s, c)}
  <2>1. others \subseteq Block
    BY CandidateType
  <2> HIDE DEF others
  <2>2. others # {} => Lowest(others) \in Block
    BY <1>1, <2>1
  <2> QED
    BY <2>2 DEF PickWinner, others
<1>3. winners \subseteq Block
  BY CandidateType
<1> HIDE DEF winners
<1>4. winners # {} => Lowest(winners) \in Block
  BY <1>1, <1>3
<1> QED
  BY <1>2, <1>4 DEF FinalTally, winners

(* Substitutions are remembered.                                           *)
LEMMA NoteSubstitutionType ==
    ASSUME NEW s \in NodeState, NEW p \in Position, NEW w
    PROVE  Evolves(s, NoteSubstitution(s, p, w))
<1>1. Evolves(s, [s EXCEPT !.substituted = @ \cup {p}])
  BY DEF NodeState, Evolves, Keeps, Clean,
     Finalized, IsFinalized
<1> QED
  BY <1>1, EvolvesSelf DEF NoteSubstitution

(* Retally evolves a node.                                                 *)
LEMMA RetallyType ==
    ASSUME NEW s \in NodeState, NEW p \in Position
    PROVE  Evolves(s, Retally(s, p))
<1> DEFINE w == FinalTally(s, p)
           t == NoteSubstitution(s, p, w)
<1>1. w \in Block \cup {None}
  BY FinalTallyType
<1> HIDE DEF w
<1>2. Evolves(s, t) /\ t \in NodeState
  BY NoteSubstitutionType DEF Evolves
<1>3. w # None => Evolves(s, ConfirmConflict(t, p, w))
  BY <1>1, <1>2, ConfirmConflictType, EvolvesTrans
<1> QED
  BY <1>3, EvolvesSelf DEF Retally, w

(* Dropping an orphaned record evolves a node.                             *)
LEMMA DropOrphanedType ==
    ASSUME NEW s \in NodeState, NEW p \in Position
    PROVE  Evolves(s, DropOrphaned(s, p))
<1> DEFINE t == ClearVotes(s, p)
<1>1. Evolves(s, t) /\ t \in NodeState
  BY ClearVotesType DEF Evolves
<1> HIDE DEF t
<1>2. Evolves(t, [t EXCEPT !.conflict[p] = {}])
  BY <1>1 DEF NodeState, Evolves, Keeps, Clean,
     Finalized, IsFinalized
<1> QED
  BY <1>1, <1>2, EvolvesTrans DEF DropOrphaned, t

(* evictPhantomsAndResolve evolves a node.                                 *)
LEMMA EvictPhantomsType ==
    ASSUME NEW s \in NodeState, NEW p \in Position, NEW timedOut
    PROVE  Evolves(s, EvictPhantomsAndResolve(s, p, timedOut))
<1> DEFINE real == s.conflict[p] \cap Held(s)
           kept == real \cup RetainedPhantoms(s, p, timedOut)
           t    == [s EXCEPT !.conflict[p] = kept]
<1>1. kept \subseteq Block
  BY CandidateType DEF RetainedPhantoms, NodeState
<1> HIDE DEF kept
<1>2. Evolves(s, t) /\ t \in NodeState
  BY <1>1 DEF NodeState, Evolves, Keeps, Clean,
     Finalized, IsFinalized
<1>3. Evolves(s, Retally(t, p))
  BY <1>2, RetallyType, EvolvesTrans
<1> QED
  BY <1>2, <1>3, DropOrphanedType DEF EvictPhantomsAndResolve, kept

-----------------------------------------------------------------------------
(* VoteManager *)

(* A step that may lock or sync: a lock that is set stays. *)
Advances(s, t) ==
    /\ t \in NodeState
    /\ \A p \in Position : s.lock[p] # None => t.lock[p] = s.lock[p]
    /\ s.substituted \subseteq t.substituted
    /\ Keeps(s, t)

(* To evolve is to advance without a new lock or a sync.                   *)
LEMMA EvolvesAdvances ==
    ASSUME NEW s, NEW t, Evolves(s, t)
    PROVE  Advances(s, t)
BY DEF Evolves, Advances

(* Steps of a node that may lock or sync compose.                          *)
LEMMA AdvancesTrans ==
    ASSUME NEW s, NEW t, NEW u, Advances(s, t), Advances(t, u)
    PROVE  Advances(s, u)
BY DEF Advances, Keeps

(* Storing a vote evolves a node.                                          *)
LEMMA PutVoteType ==
    ASSUME NEW s \in NodeState, NEW p \in Position, NEW r \in Node,
           NEW b \in Block, NEW final \in BOOLEAN
    PROVE  Evolves(s, PutVote(s, p, r, b, final))
<1> DEFINE votes == [s.vote EXCEPT ![p][r] = [block |-> b, final |-> final]]
<1>1. votes \in [Position -> [Node -> Vote \cup {None}]]
  BY DEF NodeState, Vote
<1>2. PutVote(s, p, r, b, final) = [s EXCEPT !.vote = votes]
  BY DEF PutVote
<1> HIDE DEF votes
<1> QED
  BY <1>1, <1>2, KeepsSame DEF NodeState, Evolves

(* Sending a vote evolves a node.                                          *)
LEMMA EmitType ==
    ASSUME NEW s \in NodeState, NEW n \in Node, NEW b \in Block, NEW final \in BOOLEAN
    PROVE  Evolves(s, Emit(s, n, b, final))
<1> DEFINE m == [rep |-> n, block |-> b, final |-> final]
<1>1. m \in VoteMsg
  BY DEF VoteMsg
<1> HIDE DEF m
<1>2. Evolves(s, [s EXCEPT !.sent = @ \cup {m}])
  BY <1>1 DEF NodeState, Evolves, Keeps, Clean,
     Finalized, IsFinalized
<1> QED
  BY <1>2 DEF Emit, m

(* Syncing the store advances a node.                                      *)
LEMMA SyncType ==
    ASSUME NEW s \in NodeState
    PROVE  Advances(s, Sync(s))
<1>1. Store(s) \in Disk
  BY DEF Store, NodeState, Disk
<1> DEFINE t == [s EXCEPT !.disk = Store(s)]
<1>a. /\ t \in NodeState /\ t.lock = s.lock /\ t.substituted = s.substituted
      /\ t.chain = s.chain /\ t.finalHeight = s.finalHeight /\ t.disk = Store(s)
  BY <1>1 DEF NodeState
<1>b. Store(s).chain = s.chain
  BY DEF Store
<1>2. Advances(s, t)
  BY <1>a, <1>b DEF Advances, Keeps, Clean, Finalized, IsFinalized
<1> QED
  BY <1>2, EvolvesSelf, EvolvesAdvances DEF Sync

(* Remembering the candidates held evolves a node.                         *)
LEMMA NoteHeldCandidatesType ==
    ASSUME NEW s \in NodeState, NEW p \in Position, NEW cands
    PROVE  Evolves(s, NoteHeldCandidates(s, p, cands))
<1>1. NewCandidates(s, p, cands) \subseteq Block
  BY DEF NewCandidates, Held, NodeState
<1> QED
  BY <1>1 DEF NoteHeldCandidates, NodeState, Evolves, Keeps, Clean,
     Finalized, IsFinalized

(* A lock is set once, and afterwards there is one.                        *)
LEMMA PutFinalVoteIfAbsentType ==
    ASSUME NEW s \in NodeState, NEW p \in Position, NEW b \in Block
    PROVE  /\ Advances(s, PutFinalVoteIfAbsent(s, p, b))
           /\ PutFinalVoteIfAbsent(s, p, b).lock[p] \in Block
BY BlockAssumption DEF PutFinalVoteIfAbsent, NodeState, Advances, Keeps, Clean,
   Finalized, IsFinalized

(* emitFinalLocked advances a node.                                        *)
LEMMA EmitFinalLockedType ==
    ASSUME NEW s \in NodeState, NEW n \in Node, NEW p \in Position,
           NEW target \in Block, NEW e
    PROVE  Advances(s, EmitFinalLocked(s, n, p, target, e))
<1> DEFINE t == PutFinalVoteIfAbsent(s, p, target)
           b == t.lock[p]
           v == PutVote(t, p, n, b, TRUE)
           u == Retally(Sync(v), p)
<1>1. Advances(s, t) /\ t \in NodeState /\ b \in Block
  BY PutFinalVoteIfAbsentType DEF Advances
<1> HIDE DEF t, b
<1>2. Evolves(t, v) /\ v \in NodeState
  BY <1>1, PutVoteType DEF Evolves
<1> HIDE DEF v
<1>3. Advances(v, Sync(v)) /\ Sync(v) \in NodeState
  BY <1>2, SyncType DEF Advances
<1>4. Evolves(Sync(v), u) /\ u \in NodeState
  BY <1>3, RetallyType DEF Evolves
<1> HIDE DEF u
<1>5. Evolves(u, Emit(u, n, b, TRUE))
  BY <1>1, <1>4, EmitType
<1>6. Advances(Sync(v), Emit(u, n, b, TRUE))
  BY <1>4, <1>5, EvolvesTrans, EvolvesAdvances
<1>7. Advances(s, v)
  BY <1>1, <1>2, EvolvesAdvances, AdvancesTrans
<1>8. Advances(s, Emit(u, n, b, TRUE))
  BY <1>3, <1>6, <1>7, AdvancesTrans
<1> QED
  BY <1>1, <1>7, <1>8 DEF EmitFinalLocked, t, b, v, u

(* A converging vote evolves a node.                                       *)
LEMMA ConvergeType ==
    ASSUME NEW s \in NodeState, NEW n \in Node, NEW p \in Position,
           NEW pref \in Block, NEW e
    PROVE  Evolves(s, Converge(s, n, p, pref, e))
<1> DEFINE v == PutVote(s, p, n, pref, FALSE)
           u == Retally(v, p)
<1>1. Evolves(s, v) /\ v \in NodeState
  BY PutVoteType DEF Evolves
<1> HIDE DEF v
<1>2. Evolves(v, u) /\ u \in NodeState
  BY <1>1, RetallyType DEF Evolves
<1> HIDE DEF u
<1>3. Evolves(u, Emit(u, n, pref, FALSE))
  BY <1>2, EmitType
<1>4. Evolves(s, Emit(u, n, pref, FALSE))
  BY <1>1, <1>2, <1>3, EvolvesTrans
<1> QED
  BY <1>4, EvolvesSelf DEF Converge, v, u

(* Locking when the vote is stable advances a node.                        *)
LEMMA MaybeLockType ==
    ASSUME NEW s \in NodeState, NEW n \in Node, NEW p \in Position,
           NEW pref \in Block, NEW stable, NEW e
    PROVE  Advances(s, MaybeLock(s, n, p, pref, stable, e))
BY EmitFinalLockedType, EvolvesSelf, EvolvesAdvances DEF MaybeLock

(* What a stored vote holds.                                               *)
LEMMA VotedBlockType ==
    ASSUME NEW s \in NodeState, NEW p \in Position, NEW r \in Node, s.vote[p][r] # None
    PROVE  s.vote[p][r].block \in Block /\ s.vote[p][r].final \in BOOLEAN
BY DEF NodeState, Vote

(* Sending a final vote again advances a node.                             *)
LEMMA ReEmitFinalType ==
    ASSUME NEW s \in NodeState, NEW n \in Node, NEW p \in Position,
           OwnFinal(s, n, p), NEW e
    PROVE  Advances(s, ReEmitFinal(s, n, p, e))
<1> DEFINE b == s.vote[p][n].block
<1>1. b \in Block
  BY VotedBlockType DEF OwnFinal
<1> HIDE DEF b
<1>2. Advances(s, Sync(s)) /\ Sync(s) \in NodeState
  BY SyncType DEF Advances
<1>3. Advances(s, Emit(Sync(s), n, b, TRUE))
  BY <1>1, <1>2, EmitType, EvolvesAdvances, AdvancesTrans
<1> QED
  BY <1>3, EvolvesSelf, EvolvesAdvances DEF ReEmitFinal, b

(* Voting without an own final vote advances a node.                       *)
LEMMA VoteFreelyType ==
    ASSUME NEW s \in NodeState, NEW n \in Node, NEW p \in Position,
           NEW seed \in SUBSET Block, NEW e
    PROVE  Advances(s, VoteFreely(s, n, p, seed, e))
<1> DEFINE cands    == GatherCandidates(s, p, seed)
           t        == NoteHeldCandidates(s, p, cands)
           stable   == e.window /\ NewCandidates(s, p, cands) = {}
           eligible == cands \cap (Held(s) \cup s.conflict[p])
           pref     == Lowest(eligible)
           c        == Converge(t, n, p, pref, e)
           u        == MaybeLock(c, n, p, pref, stable, e)
<1>1. eligible \subseteq Block
  BY CandidateType DEF GatherCandidates, NodeState
<1>2. eligible # {} => pref \in Block
  <2> HIDE DEF eligible
  <2> QED  BY <1>1, LowestIn, BlockAssumption
<1>3. Evolves(s, t) /\ t \in NodeState
  BY NoteHeldCandidatesType DEF Evolves
<1> HIDE DEF cands, eligible, t, pref, stable
<1>4. ASSUME eligible # {}  PROVE Advances(s, u)
  <2>1. Evolves(t, c) /\ c \in NodeState
    BY <1>2, <1>3, <1>4, ConvergeType DEF Evolves
  <2>2. Advances(c, u)
    BY <1>2, <1>4, <2>1, MaybeLockType
  <2> QED
    BY <1>3, <2>1, <2>2, EvolvesAdvances, AdvancesTrans
<1>5. VoteFreely(s, n, p, seed, e) = t \/ (eligible # {} /\ VoteFreely(s, n, p, seed, e) = u)
  BY DEF VoteFreely, cands, eligible, t, pref, stable
<1> QED
  BY <1>3, <1>4, <1>5, EvolvesAdvances

(* CastVote advances a node.                                               *)
LEMMA CastVoteType ==
    ASSUME NEW s \in NodeState, NEW n \in Node, NEW p \in Position,
           NEW seed \in SUBSET Block, NEW e
    PROVE  Advances(s, CastVote(s, n, p, seed, e))
<1>1. s.lock[p] # None => s.lock[p] \in Block
  BY DEF NodeState
<1>2. s.lock[p] # None => Advances(s, EmitFinalLocked(s, n, p, s.lock[p], e))
  BY <1>1, EmitFinalLockedType
<1>3. OwnFinal(s, n, p) => Advances(s, ReEmitFinal(s, n, p, e))
  BY ReEmitFinalType
<1> QED
  BY <1>2, <1>3, VoteFreelyType, EvolvesSelf, EvolvesAdvances DEF CastVote

(* reaffirmFromState evolves a node.                                       *)
LEMMA ReaffirmFromStateType ==
    ASSUME NEW s \in NodeState, NEW n \in Node, NEW p \in Position, NEW due
    PROVE  Evolves(s, ReaffirmFromState(s, n, p, due))
<1> DEFINE c == CHOOSE x \in FinalizedChild(s, p) : TRUE
<1>1. FinalizedChild(s, p) # {} => c \in Block
  BY ChildAtType
<1> HIDE DEF c
<1>2. FinalizedChild(s, p) # {} => Evolves(s, Emit(s, n, c, TRUE))
  BY <1>1, EmitType
<1> QED
  BY <1>2, EvolvesSelf DEF ReaffirmFromState, c

(* Storing and tallying a received vote evolves a node.                    *)
LEMMA ReceiveVoteInnerType ==
    ASSUME NEW s \in NodeState, NEW m \in VoteMsg
    PROVE  Evolves(s, ReceiveVoteInner(s, m))
<1> DEFINE p == Pos(m.block)
           v == PutVote(s, p, m.rep, m.block, m.final)
<1>1. m.rep \in Node /\ m.block \in Block /\ m.final \in BOOLEAN /\ p \in Position
  BY BlockFacts DEF VoteMsg
<1> HIDE DEF p
<1>2. Evolves(s, v) /\ v \in NodeState
  BY <1>1, PutVoteType DEF Evolves
<1>3. Evolves(s, Retally(v, p))
  BY <1>1, <1>2, RetallyType, EvolvesTrans
<1> QED
  BY <1>3, EvolvesSelf DEF ReceiveVoteInner, p

(* ReceiveVote advances a node.                                            *)
LEMMA ReceiveVoteType ==
    ASSUME NEW s \in NodeState, NEW n \in Node, NEW m \in VoteMsg, NEW e
    PROVE  Advances(s, ReceiveVote(s, n, m, e))
<1> DEFINE p == Pos(m.block)
           d == [e EXCEPT !.due = @ \/ ~OwnFinal(s, m.rep, p)]
           t == ReceiveVoteInner(s, m)
<1>1. p \in Position
  BY BlockFacts DEF VoteMsg
<1>2. Evolves(s, t) /\ t \in NodeState
  BY ReceiveVoteInnerType DEF Evolves
<1> HIDE DEF p, t, d
<1>3. Advances(t, CastVote(t, n, p, {}, d))
  BY <1>1, <1>2, CastVoteType
<1>4. Advances(s, CastVote(t, n, p, {}, d))
  BY <1>2, <1>3, EvolvesAdvances, AdvancesTrans
<1>5. Advances(s, ReaffirmFromState(s, n, p, e.due))
  BY <1>1, ReaffirmFromStateType, EvolvesAdvances
<1> QED
  BY <1>4, <1>5 DEF ReceiveVote, p, t, d

(* Answering a vote pull evolves a node.                                   *)
LEMMA VotesForPositionType ==
    ASSUME NEW s \in NodeState, NEW n \in Node, NEW p \in Position
    PROVE  Evolves(s, VotesForPosition(s, n, p))
<1> DEFINE own == IF s.vote[p][n] = None THEN s
                  ELSE Emit(s, n, s.vote[p][n].block, s.vote[p][n].final)
<1>1. Evolves(s, own) /\ own \in NodeState
  BY VotedBlockType, EmitType, EvolvesSelf DEF Evolves
<1> HIDE DEF own
<1>2. Evolves(s, ReaffirmFromState(own, n, p, TRUE))
  BY <1>1, ReaffirmFromStateType, EvolvesTrans
<1> QED
  BY <1>1, <1>2 DEF VotesForPosition, own

(* A sweep over a stale conflict advances a node.                          *)
LEMMA SweepConflictType ==
    ASSUME NEW s \in NodeState, NEW n \in Node, NEW p \in Position, NEW age, NEW e
    PROVE  Advances(s, SweepConflict(s, n, p, age, e))
<1> DEFINE evict == age # "stale" /\ Phantoms(s, p) # {}
           late  == age = "expired"
           t     == IF evict THEN EvictPhantomsAndResolve(s, p, late) ELSE s
           c     == CastVote(t, n, p, {}, e)
<1>1. Evolves(s, t) /\ t \in NodeState
  BY EvictPhantomsType, EvolvesSelf DEF Evolves
<1> HIDE DEF t
<1>2. Advances(t, c)
  BY <1>1, CastVoteType
<1> HIDE DEF c
<1>3. c \in NodeState
  BY <1>2 DEF Advances
<1>4. Advances(c, Retally(c, p))
  BY <1>3, RetallyType, EvolvesAdvances
<1>5. Advances(s, t) /\ Advances(s, Retally(c, p))
  BY <1>1, <1>2, <1>4, EvolvesAdvances, AdvancesTrans
<1>6. Advances(s, DropResolved(s, p))
  BY CleanupResolvedConflictType, EvolvesAdvances DEF DropResolved
<1>7. Advances(s, DropOrphaned(s, p))
  BY DropOrphanedType, EvolvesAdvances
<1> QED
  BY <1>5, <1>6, <1>7 DEF SweepConflict, t, c

-----------------------------------------------------------------------------
(* A node that starts from its disk is well typed.                         *)
LEMMA NodeOnType ==
    ASSUME NEW d \in Disk, NEW sent \in SUBSET VoteMsg,
           NEW substituted \in SUBSET Position
    PROVE  /\ NodeOn(d, sent, substituted) \in NodeState
           /\ NodeOn(d, sent, substituted).substituted = substituted
           /\ NodeOn(d, sent, substituted).chain = d.chain
           /\ NodeOn(d, sent, substituted).disk = d
BY DEF NodeOn, NodeState, Disk

(* An empty node is well typed.                                            *)
LEMMA InitNodeType == InitNode \in NodeState
<1>1. InitDisk \in Disk
  BY DEF InitDisk, Disk
<1> QED
  BY <1>1, NodeOnType DEF InitNode

(* A restart evolves a node.                                               *)
LEMMA LoseMemoryType ==
    ASSUME NEW s \in NodeState
    PROVE  Evolves(s, LoseMemory(s))
<1>1. InitNode.seen \in [Position -> SUBSET Block]
  BY InitNodeType DEF NodeState
<1> HIDE DEF InitNode
<1> QED
  BY <1>1 DEF LoseMemory, NodeState, Evolves, Keeps, Clean,
     Finalized, IsFinalized

(* The end of a quarantine evolves a node.                                 *)
LEMMA QuarantineType ==
    ASSUME NEW s \in NodeState, NEW b
    PROVE  Evolves(s, [s EXCEPT !.quarantine = @ \ {b}])
BY DEF NodeState, Evolves, Keeps, Clean,
   Finalized, IsFinalized

(* Every step is one node's.  It forgets no substitution, keeps the chains *)
(* clean and, unless power may fail, every lock and every final block.     *)
StepOf(n) ==
    \E t \in NodeState :
        /\ Update(n, t)
        /\ node[n].substituted \subseteq t.substituted
        /\ Clean(node[n]) => Clean(t)
        /\ "power" \notin Faults => Advances(node[n], t)

(* A handler that advances its node is a step of that node.                *)
LEMMA AdvancesStep ==
    ASSUME NEW n \in Node, NEW t, Advances(node[n], t), Update(n, t)
    PROVE  StepOf(n)
BY DEF StepOf, Advances, Keeps

(* A handler that evolves its node is a step of that node.                 *)
LEMMA EvolvesStep ==
    ASSUME NEW n \in Node, NEW t, Evolves(node[n], t), Update(n, t)
    PROVE  StepOf(n)
BY EvolvesAdvances, AdvancesStep

(* Every step is a step of one node.                                       *)
LEMMA NextStep ==
    ASSUME TypeOK, Next
    PROVE  \E n \in Node : StepOf(n)
<1> PICK n \in Node :
      \/ \E b \in Block : \/ AppendBlock(n, b)
                          \/ StageBlock(n, b)
                          \/ StageBlockFails(n, b)
                          \/ QuarantineExpires(n, b)
      \/ \E p \in Position : \/ CastVoteOn(n, p)
                             \/ AnswerVotePull(n, p)
                             \/ PullFrontierVotes(n, p)
                             \/ SweepStaleConflict(n, p)
      \/ \E m \in VoteMsg : HandleVote(n, m)
      \/ Restart(n)
      \/ WriteBack(n)
      \/ PowerFailure(n)
  BY Zenon DEF Next
<1> DEFINE s == node[n]
<1>s. s \in NodeState
  BY DEF TypeOK
<1> HIDE DEF s
<1> SUFFICES StepOf(n)
  OBVIOUS
<1>1. ASSUME NEW b \in Block, AppendBlock(n, b)  PROVE StepOf(n)
  BY <1>1, <1>s, AppendType, EvolvesStep DEF AppendBlock, CanAppend, s
<1>2. ASSUME NEW b \in Block, StageBlock(n, b)  PROVE StepOf(n)
  BY <1>2, <1>s, StageCandidateType, EvolvesStep DEF StageBlock, s
<1>3. ASSUME NEW b \in Block, StageBlockFails(n, b)  PROVE StepOf(n)
  BY <1>3, <1>s, RecordConflictType, EvolvesStep DEF StageBlockFails, s
<1>4. ASSUME NEW b \in Block, QuarantineExpires(n, b)  PROVE StepOf(n)
  BY <1>4, <1>s, QuarantineType, EvolvesStep DEF QuarantineExpires, s
<1>5. ASSUME NEW p \in Position, CastVoteOn(n, p)  PROVE StepOf(n)
  <2>1. PICK seed \in VoteSeeds(s, p), e \in EnvAt(p) : Update(n, CastVote(s, n, p, seed, e))
    BY <1>5 DEF CastVoteOn, s
  <2>2. seed \subseteq Block
    BY <1>s, <2>1 DEF VoteSeeds, NodeState
  <2>3. Advances(s, CastVote(s, n, p, seed, e))
    BY <1>s, <2>2, CastVoteType
  <2> QED
    BY <2>1, <2>3, AdvancesStep DEF s
<1>6. ASSUME NEW p \in Position, AnswerVotePull(n, p)  PROVE StepOf(n)
  BY <1>6, <1>s, VotesForPositionType, EvolvesStep DEF AnswerVotePull, s
<1>7. ASSUME NEW p \in Position, PullFrontierVotes(n, p)  PROVE StepOf(n)
  BY <1>7, <1>s, RetallyType, EvolvesStep DEF PullFrontierVotes, s
<1>8. ASSUME NEW p \in Position, SweepStaleConflict(n, p)  PROVE StepOf(n)
  <2>1. PICK age \in ConflictAge, e \in EnvAt(p) : Update(n, SweepConflict(s, n, p, age, e))
    BY <1>8 DEF SweepStaleConflict, s, ConflictAge
  <2> QED
    BY <1>s, <2>1, SweepConflictType, AdvancesStep DEF s
<1>9. ASSUME NEW m \in VoteMsg, HandleVote(n, m)  PROVE StepOf(n)
  <2>1. PICK e \in EnvAt(Pos(m.block)) : Update(n, ReceiveVote(s, n, m, e))
    BY <1>9 DEF HandleVote, s
  <2> QED
    BY <1>s, <2>1, ReceiveVoteType, AdvancesStep DEF s
<1>10. ASSUME Restart(n)  PROVE StepOf(n)
  BY <1>10, <1>s, LoseMemoryType, EvolvesStep DEF Restart, s
<1>11. ASSUME WriteBack(n)  PROVE StepOf(n)
  BY <1>11, <1>s, SyncType, AdvancesStep DEF WriteBack, s
<1>12. ASSUME PowerFailure(n)  PROVE StepOf(n)
  <2>1. s.disk \in Disk /\ s.sent \subseteq VoteMsg /\ s.substituted \subseteq Position
    BY <1>s DEF NodeState
  <2> DEFINE t == NodeOn(s.disk, s.sent, s.substituted)
  <2>2. t \in NodeState /\ t.substituted = s.substituted /\ (Clean(s) => Clean(t))
    BY <2>1, NodeOnType DEF Clean
  <2> HIDE DEF t
  <2> QED
    BY <1>12, <2>2 DEF PowerFailure, StepOf, s, t
<1> QED
  BY <1>1, <1>2, <1>3, <1>4, <1>5, <1>6, <1>7, <1>8, <1>9, <1>10, <1>11, <1>12

(* Every state the protocol reaches is well typed, whatever the lattice,   *)
(* the weights and the faults: no handler leaves a vote entry, a record or *)
(* a lock that the next handler cannot read.                               *)
THEOREM TypeCorrect == Spec => []TypeOK
<1>1. Init => TypeOK
  BY InitNodeType DEF Init, TypeOK
<1>2. TypeOK /\ [Next]_vars => TypeOK'
  <2>1. ASSUME TypeOK, Next  PROVE TypeOK'
    BY <2>1, NextStep DEF StepOf, Update, TypeOK
  <2> QED
    BY <2>1 DEF TypeOK, vars
<1> QED
  BY <1>1, <1>2, PTL DEF Spec

-----------------------------------------------------------------------------
(* Power failures included, every node's chains stay clean. *)
LatticeInv == TypeOK /\ \A n \in Node : Clean(node[n])

(* Chains stay good, on disk and in memory.                                *)
LEMMA LatticeInvHolds == Spec => []LatticeInv
<1>1. Init => LatticeInv
  <2> SUFFICES ASSUME Init  PROVE LatticeInv
    OBVIOUS
  <2>1. InitDisk \in Disk /\ InitDisk.chain = {}
    BY DEF InitDisk, Disk
  <2>2. InitNode.chain = {} /\ InitNode.disk.chain = {}
    BY <2>1, NodeOnType DEF InitNode
  <2>3. Clean(InitNode)
    BY <2>2 DEF Clean, Good
  <2> QED
    BY <2>3, InitNodeType DEF Init, LatticeInv, TypeOK
<1>2. LatticeInv /\ [Next]_vars => LatticeInv'
  <2>1. ASSUME LatticeInv, Next  PROVE LatticeInv'
    BY <2>1, NextStep DEF LatticeInv, StepOf, Update, TypeOK
  <2> QED
    BY <2>1 DEF LatticeInv, TypeOK, vars
<1> QED
  BY <1>1, <1>2, PTL DEF Spec

(* The chains of every node are chains after every cascade of rollbacks,   *)
(* swap, failed write, restart and power failure: each block has its       *)
(* parent and its source, no position is taken twice and no send received  *)
(* twice (swapBlockLocked, core/rollback.go).                              *)
THEOREM LatticeStaysWellFormed == Spec => []LatticeWellFormed
<1>1. LatticeInv => LatticeWellFormed
  BY DEF LatticeInv, Clean, Good, LatticeWellFormed
<1> QED
  BY <1>1, LatticeInvHolds, PTL

(* No quorum of final votes, however it came about, makes a block final    *)
(* that full validation refuses.                                           *)
THEOREM InvalidNeverFinal == Spec => []OnlyValidFinalized
<1>1. LatticeInv => OnlyValidFinalized
  BY DEF LatticeInv, Clean, Good, OnlyValidFinalized, Finalized, IsFinalized
<1> QED
  BY <1>1, LatticeInvHolds, PTL
=============================================================================
