---------------------------- MODULE BlockLattice ----------------------------
(***************************************************************************)
(* The part of a node's ledger that consensus works on: the account chains *)
(* with their staged conflict candidates, pending sends and final heights  *)
(* (core/ledger.go, core/conflict.go, core/rollback.go).                   *)
(*                                                                         *)
(* A block is its hash.  A hash commits to the block's account, its parent *)
(* (Previous) and, for a receive, the send it consumes (Source), so these  *)
(* are constants.  Since a block has one parent, an account chain is       *)
(* determined by the set of its blocks, and the height of a block on any   *)
(* chain that holds it is the constant Height.  A node's chains are        *)
(* therefore one set of blocks.                                            *)
(*                                                                         *)
(* Abstracted: amounts and balances (a block that passes staged validation *)
(* but would fail full validation is one outside FullyValid), signatures,  *)
(* proof of work, and the block types beyond "consumes a send" and "does   *)
(* not".  Representative weights do not change during a run.               *)
(***************************************************************************)
EXTENDS Integers, FiniteSets

CONSTANTS
    Node,        \* the nodes, each with one representative key
    Account,     \* the accounts
    Block,       \* block hashes: naturals, ordered as hashes are
    None,        \* no block, no vote
    Root,        \* the Previous ("0") of an account's first block
    Acct,        \* Acct[b]: the account whose chain b extends
    Prev,        \* Prev[b]: b's parent, or Root
    Src,         \* Src[b]: the send b receives, or None
    Height,      \* Height[b]: b's position on its chain, from 1
    Anc,         \* Anc[b]: b's proper ancestors on its account chain
    Below,       \* Below[b]: all blocks b rests on, by Previous or Source
    FullyValid,  \* blocks that pass the validation done on commit
    WeightOf,    \* WeightOf[S]: delegated weight of the representatives in S
    MaxHashes    \* most candidates one conflict record holds

Parents(b) == {Prev[b], Src[b]} \ {Root, None}

ASSUME BlockAssumption ==
    /\ Block \subseteq Nat
    /\ FullyValid \subseteq Block
    /\ None \notin Block
    /\ Root \notin Block
    /\ MaxHashes \in Nat
    /\ Acct \in [Block -> Account]
    /\ Prev \in [Block -> Block \cup {Root}]
    /\ Src \in [Block -> Block \cup {None}]

(* The hash links form a forest per account, and no block rests on itself. *)
ASSUME LineageAssumption ==
    /\ Height \in [Block -> Nat \ {0}]
    /\ Anc \in [Block -> SUBSET Block]
    /\ \A b \in Block :
         /\ Anc[b] = IF Prev[b] = Root THEN {} ELSE {Prev[b]} \cup Anc[Prev[b]]
         /\ \A a \in Anc[b] : Acct[a] = Acct[b] /\ Height[a] < Height[b]
         /\ \E d \in Anc[b] \cup {b} : Prev[d] = Root
         /\ \A a \in Anc[b] : \E d \in Anc[b] \cup {b} : Prev[d] = a

ASSUME BelowAssumption ==
    /\ Below \in [Block -> SUBSET Block]
    /\ \A b \in Block :
         /\ Below[b] = Parents(b) \cup UNION {Below[d] : d \in Parents(b)}
         /\ Anc[b] \subseteq Below[b]
         /\ b \notin Below[b]
         /\ \A d \in Below[b] : Below[d] \subseteq Below[b]

ASSUME WeightAssumption ==
    /\ WeightOf \in [SUBSET Node -> Nat]
    /\ WeightOf[Node] > 0
    /\ \A S, T \in SUBSET Node :
         S \cap T = {} => WeightOf[S \cup T] = WeightOf[S] + WeightOf[T]

-----------------------------------------------------------------------------
(* A position is the key (account, previous) that siblings compete for. *)
Pos(b) == <<Acct[b], Prev[b]>>

Position == {Pos(b) : b \in Block}

Vote == [block : Block, final : BOOLEAN]

VoteMsg == [rep : Node, block : Block, final : BOOLEAN]

(* What is left of the store when the machine loses power. *)
Disk ==
    [chain       : SUBSET Block,
     known       : SUBSET Block,
     staged      : SUBSET Block,
     conflict    : [Position -> SUBSET Block],
     vote        : [Position -> [Node -> Vote \cup {None}]],
     lock        : [Position -> Block \cup {None}],
     finalHeight : [Account -> Nat]]

(* One node: its store, the part of it that is safely on disk, what it has *)
(* told the others, and what only memory holds.                            *)
NodeState ==
    [chain       : SUBSET Block,                  \* blocks on account chains
     known       : SUBSET Block,                  \* blocks ever committed
     staged      : SUBSET Block,                  \* staged candidate bodies
     conflict    : [Position -> SUBSET Block],    \* {}: no conflict record
     vote        : [Position -> [Node -> Vote \cup {None}]],
     lock        : [Position -> Block \cup {None}],  \* the final-vote lock
     finalHeight : [Account -> Nat],
     disk        : Disk,              \* the store as last synced
     sent        : SUBSET VoteMsg,    \* every vote that left the node
     substituted : SUBSET Position,   \* resolved by another than the voted block
     seen        : [Position -> SUBSET Block],    \* memory: held candidates
     quarantine  : SUBSET Block]                  \* memory: failedPromotions

InitDisk ==
    [chain       |-> {},
     known       |-> {},
     staged      |-> {},
     conflict    |-> [p \in Position |-> {}],
     vote        |-> [p \in Position |-> [r \in Node |-> None]],
     lock        |-> [p \in Position |-> None],
     finalHeight |-> [a \in Account |-> 0]]

(* A node that runs on the store d and has sent the votes in `sent'. *)
NodeOn(d, sent, substituted) ==
    [chain       |-> d.chain,
     known       |-> d.known,
     staged      |-> d.staged,
     conflict    |-> d.conflict,
     vote        |-> d.vote,
     lock        |-> d.lock,
     finalHeight |-> d.finalHeight,
     disk        |-> d,
     sent        |-> sent,
     substituted |-> substituted,
     seen        |-> [p \in Position |-> {}],
     quarantine  |-> {}]

InitNode == NodeOn(InitDisk, {}, {})

(* The store of a node, as a sync writes it. *)
Store(s) ==
    [chain       |-> s.chain,
     known       |-> s.known,
     staged      |-> s.staged,
     conflict    |-> s.conflict,
     vote        |-> s.vote,
     lock        |-> s.lock,
     finalHeight |-> s.finalHeight]

-----------------------------------------------------------------------------
(* GetBlockOrStaged: the bodies a node has, rolled back ones included. *)
Held(s) == s.known \cup s.staged

(* Blocks a rollback took off the chain; their status is "rejected". *)
Undone(s) == s.known \ s.chain

OnChain(s, prev) == prev = Root \/ prev \in s.chain

IsFinalized(s, b) == b \in s.chain /\ Height[b] <= s.finalHeight[Acct[b]]

Finalized(s) == {b \in Block : IsFinalized(s, b)}

(* positionResolved: the final height has passed the position. *)
PositionResolved(s, p) ==
    /\ OnChain(s, p[2])
    /\ s.finalHeight[p[1]] > (IF p[2] = Root THEN 0 ELSE Height[p[2]])

(* The chain block at a position, as a set of at most one. *)
ChildAt(s, p) == {c \in s.chain : Pos(c) = p}

FinalizedChild(s, p) == {c \in ChildAt(s, p) : IsFinalized(s, c)}

(* A send awaits its receive as long as no chain block consumes it. *)
IsPending(chain, b) == b \in chain /\ ~ \E r \in chain : Src[r] = b

Contested(s, b) == s.conflict[Pos(b)] # {}

(* Mutant: a block is voted on before what it rests on is final. *)
DepsIgnored(s, b) == TRUE

DepsFinalized(s, b) == \A d \in Parents(b) : IsFinalized(s, d)

-----------------------------------------------------------------------------
(* ValidateStagedBlock: what a candidate needs to be staged or promoted. *)
ValidateStagedBlock(s, b) == Src[b] # None => IsPending(s.chain, Src[b])

(* dispatchValidateAndAdd on the chains `chain`: b extends the frontier of *)
(* its account, and the send it receives is pending and uncontested.  A    *)
(* failure of these conjuncts is a retryable error.                        *)
FitsChain(s, chain, b) ==
    /\ Prev[b] = Root \/ Prev[b] \in chain
    /\ ~ \E c \in chain : Pos(c) = Pos(b)
    /\ Src[b] # None => IsPending(chain, Src[b]) /\ ~Contested(s, Src[b])

Attach(s, b) ==
    [s EXCEPT !.chain = @ \cup {b}, !.known = @ \cup {b}]

(* Mutant: the rollback stops at the end of the account's own chain. *)
OwnChainOnly(s, l) == {b \in s.chain : b = l \/ l \in Anc[b]}

(* The blocks that a rollback of l takes with it: l's descendants, the     *)
(* receives of their sends, what was built on those, and so on.            *)
Tainted(s, l) == {b \in s.chain : b = l \/ l \in Below[b]}

(* swapBlockLocked replaces chain block l by w in one commit.              *)
CanUnwind(s, l) == Tainted(s, l) \cap Finalized(s) = {}

CanSwap(s, l, w) ==
    CanUnwind(s, l) /\ FitsChain(s, s.chain \ Tainted(s, l), w)

Swap(s, l, w) ==
    [s EXCEPT !.chain = (@ \ Tainted(s, l)) \cup {w},
              !.known = @ \cup {w}]

-----------------------------------------------------------------------------
(* addBlock when no chain block has b's position: b is appended, unless    *)
(* some position of the account is contested.                              *)
CanAppend(s, b) ==
    /\ b \notin s.known
    /\ ChildAt(s, Pos(b)) = {}
    /\ \A p \in Position : p[1] = Acct[b] => s.conflict[p] = {}
    /\ b \in FullyValid
    /\ FitsChain(s, s.chain, b)

(* addBlock when an unfinalized sibling of b is on the chain: the conflict *)
(* is recorded and b's body staged.                                        *)
CanStage(s, b) ==
    /\ b \notin s.known
    /\ ChildAt(s, Pos(b)) # {}
    /\ FinalizedChild(s, Pos(b)) = {}
    /\ ValidateStagedBlock(s, b)

RecordConflict(s, b) ==
    LET p   == Pos(b)
        old == s.conflict[p]
        new == IF old = {} THEN ChildAt(s, p) \cup {b}
               ELSE IF Cardinality(old) >= MaxHashes THEN old
               ELSE old \cup {b}
    IN  [s EXCEPT !.conflict[p] = new]

StageCandidate(s, b) ==
    LET t == RecordConflict(s, b)
    IN  IF b \in t.conflict[Pos(b)] THEN [t EXCEPT !.staged = @ \cup {b}] ELSE t
=============================================================================
