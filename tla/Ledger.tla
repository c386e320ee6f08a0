------------------------------- MODULE Ledger -------------------------------
(***************************************************************************)
(* The ledger of one node as its threads see it (core/ledger.go,           *)
(* core/rollback.go, core/cascade_commit.go, core/mint.go,                 *)
(* core/multisig.go, core/repeligibility.go, core/spendable.go):           *)
(* transfers, burns, mints and multisig accounts, the balances, weights    *)
(* and keysets it keeps in memory beside the store, the account locks, and *)
(* the promotion of a conflict's winner, which undoes whatever rests on    *)
(* the loser.                                                              *)
(*                                                                         *)
(* A block is its hash; Body holds what the hash commits to.  Signatures,  *)
(* proof of work, timestamps and memos are taken to be right.  Which       *)
(* sibling the votes favour is decided elsewhere (module Finality) and is  *)
(* a constant here; leases are in module Lease.                            *)
(***************************************************************************)
EXTENDS Integers, FiniteSets, Sequences, SequencesExt, FiniteSetsExt

CONSTANTS
    Account,      \* naturals, ordered as the addresses are
    Rep,          \* representatives
    Block,        \* block hashes, as naturals
    Body,         \* Body[b]: the contents of b
    Below,        \* Below[b]: the blocks b rests on, by Previous or Source
    GenesisBlock, \* on the chain from the start, and final
    None,         \* no block, account, representative or keyset
    Root,         \* the Previous ("0") of an account's first block
    Minter,       \* accounts of sys.minters
    Favoured,     \* blocks that votes may finalize
    Adder,        \* threads that add blocks
    MaxUint,      \* largest uint64
    MaxRestarts   \* bound: restarts of the process

Asset == {"XE", "XUSD"}

BlockType == {"genesis", "send", "receive", "burn", "mint",
              "multisig_open", "multisig_update"}

NoKeyset == [keys |-> {}, threshold |-> 0]

ValidateKeyset(ks) == ks.threshold \in 1..Cardinality(ks.keys)

Position == {<<Body[b].account, Body[b].prev>> : b \in Block}

Pos(b) == <<Body[b].account, Body[b].prev>>

(* blockDependencies: only a receive depends on its source. *)
Parents(b) ==
    ({Body[b].prev} \cup IF Body[b].type = "receive" THEN {Body[b].source} ELSE {})
      \ {Root, None}

(* The thread that promotes the winners of conflicts. *)
Promoter == "promoter"

ASSUME LedgerAssumption ==
    /\ Account \subseteq Nat /\ IsFiniteSet(Account)
    /\ Block \subseteq Nat /\ IsFiniteSet(Block)
    /\ IsFiniteSet(Rep)
    /\ {None, Root} \cap Block = {} /\ None \notin Account \cup Rep
    /\ {None, Promoter} \cap Adder = {} /\ None # Promoter
    /\ GenesisBlock \in Block
    /\ Body[GenesisBlock].type = "genesis"
    /\ Minter \subseteq Account
    /\ Favoured \subseteq Block
    /\ MaxUint \in Nat
    /\ MaxRestarts \in Nat
    /\ \A b \in Block :
         /\ Below[b] = Parents(b) \cup UNION {Below[c] : c \in Parents(b)}
         /\ Below[b] \subseteq Block \ {b}
    /\ \A b \in Block :
         /\ Body[b].type \in BlockType
         /\ Body[b].account \in Account
         /\ Body[b].prev \in Block \cup {Root}
         /\ Body[b].source \in Block \cup {None}
         /\ Body[b].dest \in Account \cup {None}
         /\ Body[b].asset \in Asset
         /\ Body[b].amount \in 0..MaxUint
         /\ Body[b].balance \in 0..MaxUint
         /\ Body[b].rep \in Rep \cup {None}

VARIABLES
    store,     \* the store, written in transactions
    mem,       \* what Ledger keeps beside it
    lock,      \* account locks: the thread that holds each
    call,      \* per adder: the AddBlock under way
    swap,      \* the promotion under way
    cascade,   \* activeCascade, read by every thread
    missed,    \* history: sends whose pending entry a commit did not find
    restarts

vars == <<store, mem, lock, call, swap, cascade, missed, restarts>>

-----------------------------------------------------------------------------
(* Chains *)

Frontier(chain) == IF chain = <<>> THEN Root ELSE Last(chain)

AssetBalanceOnChain(chain, asset) ==
    LET i == SelectLastInSeq(chain, LAMBDA b : Body[b].asset = asset)
    IN IF i = 0 THEN 0 ELSE Body[chain[i]].balance

RepOnChain(chain) ==
    LET i == SelectLastInSeq(chain, LAMBDA b : Body[b].rep # None)
    IN IF i = 0 THEN None ELSE Body[chain[i]].rep

SetsKeyset(b) == Body[b].type \in {"multisig_open", "multisig_update"}

KeysetOnChain(chain) ==
    LET i == SelectLastInSeq(chain, SetsKeyset)
    IN IF i = 0 THEN NoKeyset ELSE Body[chain[i]].keyset

(* Blocks on the chain up to and including prev. *)
UpTo(chain, prev) ==
    IF prev = Root THEN <<>>
    ELSE SubSeq(chain, 1, SelectInSeq(chain, LAMBDA b : b = prev))

HeightOf(chain, b) == SelectInSeq(chain, LAMBDA c : c = b)

OnChain(s, b) == b \in ToSet(s.chain[Body[b].account])

IsFinalized(s, b) ==
    /\ OnChain(s, b)
    /\ HeightOf(s.chain[Body[b].account], b) <= s.finalHeight[Body[b].account]

(* detectConflictSibling *)
Sibling(s, b) ==
    LET found == {c \in ToSet(s.chain[Body[b].account]) : Body[c].prev = Body[b].prev}
    IN IF found = {} THEN None ELSE CHOOSE c \in found : TRUE

HasConflict(s, a) == \E p \in Position : p[1] = a /\ s.conflict[p] # {}

(* Sums of uint64 wrap around. *)
Plus(x, y) == (x + y) % (MaxUint + 1)

-----------------------------------------------------------------------------
(* The overlay: while a cascade is active every read of a chain, a pending *)
(* send, a balance or a delegation goes through it.                        *)

NoCascade == [winner |-> None, undos |-> <<>>, chains |-> <<>>,
              added |-> {}, deleted |-> {}]

ViewChain(a) ==
    IF a \in DOMAIN cascade.chains THEN cascade.chains[a] ELSE store.chain[a]

ViewPending(send) ==
    \/ send \in cascade.added
    \/ send \notin cascade.deleted /\ send \in store.pending

ViewBalance(a, asset) ==
    IF a \in DOMAIN cascade.chains
    THEN AssetBalanceOnChain(cascade.chains[a], asset)
    ELSE mem.balance[a][asset]

ViewRep(a) ==
    IF a \in DOMAIN cascade.chains THEN RepOnChain(cascade.chains[a]) ELSE mem.rep[a]

(* getKeysetOverlay *)
ViewKeyset(a) ==
    IF \E u \in ToSet(cascade.undos) :
          Body[u.block].account = a /\ Body[u.block].type = "multisig_open"
    THEN NoKeyset ELSE mem.keyset[a]

-----------------------------------------------------------------------------
(* Validation *)

IsSpendingOp(type) ==
    type \in {"send", "burn", "mint", "multisig_open", "multisig_update"}

(* resolveMissingKeyset: memory first, then the chain. *)
KeysetOf(b) ==
    IF Body[b].type = "multisig_open" THEN Body[b].keyset
    ELSE IF mem.keyset[Body[b].account] # NoKeyset THEN mem.keyset[Body[b].account]
    ELSE KeysetOnChain(store.chain[Body[b].account])

(* verifyBlockCredential: spending takes the threshold of signatures, any  *)
(* one key may receive.                                                    *)
Credential(b) ==
    LET signers == Body[b].signers
        ks      == KeysetOf(b)
    IN IF signers = {} THEN mem.keyset[Body[b].account] = NoKeyset
       ELSE IF IsSpendingOp(Body[b].type)
       THEN signers \subseteq ks.keys /\ Cardinality(signers) >= ks.threshold
                                      /\ ks # NoKeyset
       ELSE signers \cap ks.keys # {}

Extends(b) == Body[b].prev = Frontier(ViewChain(Body[b].account))

Opened(b) == ViewChain(Body[b].account) # <<>>

OldBalance(b) == ViewBalance(Body[b].account, Body[b].asset)

(* The block's balance is what it takes away from, or adds to, old. *)
Debits(b, old) ==
    /\ Body[b].amount \in 1..old
    /\ Body[b].balance = old - Body[b].amount

Credits(b, amount, old) ==
    /\ Plus(old, amount) >= old
    /\ Body[b].balance = Plus(old, amount)

ValidSend(b) ==
    /\ Opened(b) /\ Extends(b) /\ Debits(b, OldBalance(b))
    /\ Body[b].dest \notin {None, Body[b].account}

ValidBurn(b) ==
    /\ Body[b].asset = "XE" /\ Body[b].dest = None /\ Body[b].source = None
    /\ Opened(b) /\ Extends(b) /\ Debits(b, OldBalance(b))

ValidReceive(b) ==
    LET send == Body[b].source IN
    /\ send # None
    /\ ViewPending(send)
    /\ Body[send].dest = Body[b].account
    /\ store.conflict[Pos(send)] = {}
    /\ Body[b].asset = Body[send].asset
    /\ Extends(b) /\ Credits(b, Body[send].amount, OldBalance(b))

ValidMint(b) ==
    /\ Body[b].asset = "XUSD" /\ Body[b].account \in Minter
    /\ Body[b].dest = None /\ Body[b].source = None /\ Body[b].amount > 0
    /\ Extends(b) /\ Credits(b, Body[b].amount, OldBalance(b))

ValidMultisigOpen(b) ==
    /\ ValidateKeyset(Body[b].keyset)
    /\ ~Opened(b) /\ Body[b].prev = Root /\ Body[b].balance = 0

ValidMultisigUpdate(b) ==
    /\ ValidateKeyset(Body[b].keyset)
    /\ ViewKeyset(Body[b].account) # NoKeyset
    /\ Opened(b) /\ Extends(b) /\ Body[b].balance = OldBalance(b)

(* dispatchValidateAndAdd.  A genesis block is refused: the ledger has one. *)
Valid(b) ==
    /\ Credential(b)
    /\ CASE Body[b].type = "send"            -> ValidSend(b)
         [] Body[b].type = "burn"            -> ValidBurn(b)
         [] Body[b].type = "receive"         -> ValidReceive(b)
         [] Body[b].type = "mint"            -> ValidMint(b)
         [] Body[b].type = "multisig_open"   -> ValidMultisigOpen(b)
         [] Body[b].type = "multisig_update" -> ValidMultisigUpdate(b)
         [] Body[b].type = "genesis"         -> FALSE

(* ValidateStagedBlock looks at less: the balance at the parent. *)
ValidStaged(b) ==
    LET chain == store.chain[Body[b].account]
        old   == AssetBalanceOnChain(UpTo(chain, Body[b].prev), Body[b].asset)
        send  == Body[b].source
    IN /\ Credential(b)
       /\ CASE Body[b].type = "send" ->
                 Debits(b, old) /\ Body[b].dest \notin {None, Body[b].account}
            [] Body[b].type = "burn" -> Body[b].asset = "XE" /\ Debits(b, old)
            [] Body[b].type = "receive" ->
                 /\ send \in store.pending /\ Body[send].dest = Body[b].account
                 /\ Credits(b, Body[send].amount, old)
            [] Body[b].type = "mint" ->
                 /\ Body[b].asset = "XUSD" /\ Body[b].account \in Minter
                 /\ Body[b].amount > 0 /\ Credits(b, Body[b].amount, old)
            [] Body[b].type = "multisig_update" -> Body[b].balance = old
            [] OTHER -> FALSE

-----------------------------------------------------------------------------
(* What a block changes in the store, and what its undo does.  A pending   *)
(* entry that is to be deleted and is not there is passed over.            *)

CommitBlock(s, b) ==
    LET a == Body[b].account
        sends == IF Body[b].type = "send" THEN {b} ELSE {}
        consumed == IF Body[b].type = "receive" THEN {Body[b].source} ELSE {}
    IN [s EXCEPT !.chain[a] = Append(@, b),
                 !.known = @ \cup {b},
                 !.pending = (@ \cup sends) \ consumed,
                 !.rep[a] = IF Body[b].rep # None THEN Body[b].rep ELSE ViewRep(a)]

MissedBy(s, b) ==
    IF Body[b].type = "receive" THEN {Body[b].source} \ s.pending ELSE {}

(* Mutant: the send of a receive that is undone is not pending again. *)
UndoForgetsPending(s, u) ==
    [s EXCEPT !.chain[Body[u.block].account] = u.chain,
              !.rep[Body[u.block].account] = RepOnChain(u.chain),
              !.pending = @ \ {u.block}]

(* An undo is a block and the chain without it. *)
CommitUndo(s, u) ==
    LET a == Body[u.block].account
        restored == IF Body[u.block].type = "receive" THEN {Body[u.block].source} ELSE {}
        deleted == IF Body[u.block].type = "send" THEN {u.block} ELSE {}
    IN [s EXCEPT !.chain[a] = u.chain,
                 !.rep[a] = RepOnChain(u.chain),
                 !.pending = (@ \ deleted) \cup restored]

(* The store after each of the undos. *)
CommitUndos(s, undos) ==
    LET f[i \in 0..Len(undos)] == IF i = 0 THEN s ELSE CommitUndo(f[i - 1], undos[i])
    IN f

(* Sends that are undone though something took them that is not. *)
MissedByUndos(s, plan) ==
    {b \in ToSet(plan) :
        /\ Body[b].type = "send" /\ b \notin s.pending
        /\ \A c \in ToSet(plan) : Body[c].type = "receive" => Body[c].source # b}

-----------------------------------------------------------------------------
(* The same in memory.  A weight that would fall below zero is set to 0.   *)

Less(w, x) == IF x > w THEN 0 ELSE w - x

MoveWeight(weight, oldRep, oldBalance, newRep, newBalance) ==
    LET w == [r \in Rep |-> IF r = oldRep THEN Less(weight[r], oldBalance)
                            ELSE weight[r]]
    IN [r \in Rep |-> IF r = newRep THEN w[r] + newBalance ELSE w[r]]

(* setAssetBalance, updateDelegation and setKeyset *)
ApplyBlock(m, b) ==
    LET a       == Body[b].account
        balance == [m.balance[a] EXCEPT ![Body[b].asset] = Body[b].balance]
        rep     == IF Body[b].rep # None THEN Body[b].rep ELSE m.rep[a]
    IN [balance |-> [m.balance EXCEPT ![a] = balance],
        rep     |-> [m.rep EXCEPT ![a] = rep],
        weight  |-> MoveWeight(m.weight, m.rep[a], m.balance[a]["XE"], rep, balance["XE"]),
        keyset  |-> [m.keyset EXCEPT ![a] = IF SetsKeyset(b) THEN Body[b].keyset ELSE @]]

Zero == [x \in Asset |-> 0]

(* The balances when a block of an account is gone; the account goes with  *)
(* its first block.                                                        *)
BalancesWithout(balance, u) ==
    IF u.chain = <<>> THEN Zero
    ELSE [balance EXCEPT ![Body[u.block].asset] =
                           AssetBalanceOnChain(u.chain, Body[u.block].asset)]

(* Mutant: the weight goes back to the representative that has it now. *)
UndoKeepsRep(m, u) ==
    LET a == Body[u.block].account
    IN [m EXCEPT
          !.balance[a] = BalancesWithout(@, u),
          !.rep[a] = RepOnChain(u.chain),
          !.weight = MoveWeight(@, m.rep[a],
                                AssetBalanceOnChain(Append(u.chain, u.block), "XE"),
                                m.rep[a], AssetBalanceOnChain(u.chain, "XE"))]

(* The closure that buildBlockUndo returns. *)
ApplyUndo(m, u) ==
    LET a == Body[u.block].account
    IN [balance |-> [m.balance EXCEPT ![a] = BalancesWithout(@, u)],
        rep     |-> [m.rep EXCEPT ![a] = RepOnChain(u.chain)],
        weight  |-> MoveWeight(m.weight, m.rep[a],
                               AssetBalanceOnChain(Append(u.chain, u.block), "XE"),
                               RepOnChain(u.chain), AssetBalanceOnChain(u.chain, "XE")),
        keyset  |-> [m.keyset EXCEPT ![a] =
                       IF Body[u.block].type = "multisig_open" THEN NoKeyset ELSE @]]

(* memApplies: the memory after each of the undos. *)
ApplyUndos(m, undos) ==
    LET f[i \in 0..Len(undos)] == IF i = 0 THEN m ELSE ApplyUndo(f[i - 1], undos[i])
    IN f

SumOf(f, S) == MapThenSumSet(LAMBDA x : f[x], S)

BalancesOf(s, asset) == [a \in Account |-> AssetBalanceOnChain(s.chain[a], asset)]

Weights(s) ==
    [r \in Rep |-> SumOf(BalancesOf(s, "XE"), {a \in Account : s.rep[a] = r})]

(* rebuildDelegation, rebuildAssetBalances and rebuildKeysets *)
Rebuild(s) ==
    [balance |-> [a \in Account |->
                    [x \in Asset |-> AssetBalanceOnChain(s.chain[a], x)]],
     rep     |-> s.rep,
     weight  |-> Weights(s),
     keyset  |-> [a \in Account |-> KeysetOnChain(s.chain[a])]]

InitStore ==
    LET a == Body[GenesisBlock].account IN
    [chain       |-> [x \in Account |-> IF x = a THEN <<GenesisBlock>> ELSE <<>>],
     known       |-> {GenesisBlock},
     pending     |-> {},
     rep         |-> [x \in Account |-> IF x = a THEN Body[GenesisBlock].rep ELSE None],
     staged      |-> {},
     conflict    |-> [p \in Position |-> {}],
     finalHeight |-> [x \in Account |-> IF x = a THEN 1 ELSE 0]]

IdleCall == [phase |-> "idle", block |-> None]

IdleSwap == [phase |-> "idle", winner |-> None, plan |-> <<>>, need |-> <<>>]

Unlocked == [a \in Account |-> None]

Init ==
    /\ store = InitStore
    /\ mem = Rebuild(InitStore)
    /\ lock = Unlocked
    /\ call = [t \in Adder |-> IdleCall]
    /\ swap = IdleSwap
    /\ cascade = NoCascade
    /\ missed = {}
    /\ restarts = 0

-----------------------------------------------------------------------------
(* AddBlock *)

Acquire(t, a) == lock[a] = None /\ lock' = [lock EXCEPT ![a] = t]

(* A sibling of a block on the chain is checked, recorded and staged. *)
Stage(b) ==
    LET sibling == Sibling(store, b) IN
    /\ lock[Body[b].account] = None
    /\ b \notin store.known \cup store.staged /\ sibling # None
    /\ ~IsFinalized(store, sibling)
    /\ ValidStaged(b)
    /\ store' = [store EXCEPT !.conflict[Pos(b)] = @ \cup {sibling, b},
                              !.staged = @ \cup {b}]
    /\ UNCHANGED <<mem, lock, call, swap, cascade, missed, restarts>>

(* Any other block is validated under the lock of its account. *)
Validate(t, b) ==
    /\ call[t].phase = "idle"
    /\ b \notin store.known
    /\ Sibling(store, b) = None /\ ~HasConflict(store, Body[b].account)
    /\ Valid(b)
    /\ Acquire(t, Body[b].account)
    /\ call' = [call EXCEPT ![t] = [phase |-> "validated", block |-> b]]
    /\ UNCHANGED <<store, mem, swap, cascade, missed, restarts>>

(* commitBlockWrite: one transaction, then memory. *)
Commit(t) ==
    /\ call[t].phase = "validated"
    /\ store' = CommitBlock(store, call[t].block)
    /\ missed' = missed \cup MissedBy(store, call[t].block)
    /\ call' = [call EXCEPT ![t].phase = "committed"]
    /\ UNCHANGED <<mem, lock, swap, cascade, restarts>>

Return(t) ==
    /\ call[t].phase = "committed"
    /\ mem' = ApplyBlock(mem, call[t].block)
    /\ lock' = [lock EXCEPT ![Body[call[t].block].account] = None]
    /\ call' = [call EXCEPT ![t] = IdleCall]
    /\ UNCHANGED <<store, swap, cascade, missed, restarts>>

-----------------------------------------------------------------------------
(* Promotion of the winner of a conflict (confirmConflict).  The quorum    *)
(* manager has one at a time, and holds the lock of the account to its end.*)

Owner(b) == Body[b].account

(* Votes wait until the blocks a block rests on are final. *)
DepsFinalized(s, b) ==
    \A c \in Parents(b) : IsFinalized(s, c)

OnChains(s) == UNION {ToSet(s.chain[a]) : a \in Account}

(* The members of S in the order of the relation R. *)
Sorted(S, R) ==
    [i \in 1..Cardinality(S) |->
        CHOOSE x \in S : Cardinality({y \in S : <<y, x>> \in R}) = i - 1]

RestsOnMore ==
    {p \in Block \X Block :
        LET m == Cardinality(Below[p[1]])
            n == Cardinality(Below[p[2]])
        IN m > n \/ (m = n /\ p[1] < p[2])}

Lower == {p \in Account \X Account : p[1] < p[2]}

(* planCascade: the loser and what rests on it, on every account, whatever *)
(* rests on most first.                                                    *)
PlanCascade(s, loser) ==
    Sorted({b \in OnChains(s) : b = loser \/ loser \in Below[b]}, RestsOnMore)

(* Only transfers, burns and mints are rolled back, and nothing final. *)
CanPlan(s, loser) ==
    \A b \in ToSet(PlanCascade(s, loser)) \ {loser} :
        /\ Body[b].type \in {"send", "receive", "burn", "mint"}
        /\ ~IsFinalized(s, b)

Owners(plan) == {Owner(b) : b \in ToSet(plan)}

(* Mutant: the account of the conflict is locked a second time. *)
LocksAll(plan, own) == Sorted(Owners(plan), Lower)

Foreign(plan, own) == Sorted(Owners(plan) \ {own}, Lower)

Promotes(w) ==
    /\ swap = IdleSwap
    /\ w \in Favoured \cap store.staged /\ ~OnChain(store, w)
    /\ Sibling(store, w) # None /\ ~IsFinalized(store, Sibling(store, w))
    /\ DepsFinalized(store, w)
    /\ ValidStaged(w)
    /\ lock[Owner(w)] = None

(* The loser's body is staged before the rollback is planned. *)
Demote(loser) == [store EXCEPT !.staged = @ \cup {loser}]

SwapBlock(w) ==
    LET loser == Sibling(store, w)
        plan  == PlanCascade(store, loser)
    IN
    /\ Promotes(w) /\ CanPlan(store, loser)
    /\ store' = Demote(loser)
    /\ lock' = [lock EXCEPT ![Owner(w)] = Promoter]
    /\ swap' = [phase |-> "locking", winner |-> w, plan |-> plan,
                need |-> Foreign(plan, Owner(w))]
    /\ UNCHANGED <<mem, call, cascade, missed, restarts>>

(* Something that cannot be rolled back rests on the loser. *)
SwapRefused(w) ==
    /\ Promotes(w) /\ ~CanPlan(store, Sibling(store, w))
    /\ store' = Demote(Sibling(store, w))
    /\ UNCHANGED <<mem, lock, call, swap, cascade, missed, restarts>>

(* The locks of the other accounts, in the order of their addresses. *)
LockForeign ==
    /\ swap.phase = "locking" /\ swap.need # <<>>
    /\ Acquire(Promoter, Head(swap.need))
    /\ swap' = [swap EXCEPT !.need = Tail(@)]
    /\ UNCHANGED <<store, mem, call, cascade, missed, restarts>>

Release == [a \in Account |-> IF lock[a] = Promoter THEN None ELSE lock[a]]

(* The chains that are unwound, from the store, and after each step of the *)
(* plan.                                                                   *)
ChainsOf(plan) == [a \in Owners(plan) |-> store.chain[a]]

Pop(chains, b) == [chains EXCEPT ![Owner(b)] = Front(@)]

Snapshots(chains, plan) ==
    LET f[i \in 0..Len(plan)] ==
          IF i = 0 THEN chains ELSE Pop(f[i - 1], plan[i])
    IN f

(* buildBlockUndo: each block is the frontier when its turn comes, so the  *)
(* chains have not grown since they were read for the plan.                *)
CanBuild(chains, plan) ==
    \A i \in 1..Len(plan) :
        /\ Frontier(Snapshots(chains, plan)[i - 1][Owner(plan[i])]) = plan[i]
        /\ Body[plan[i]].type # "multisig_update"

(* addUndo *)
BuildCascade(w, chains, plan) ==
    LET snapshots == Snapshots(chains, plan)
        undone == ToSet(plan)
        sends  == {b \in undone : Body[b].type = "send"}
        taken  == {Body[b].source : b \in {c \in undone : Body[c].type = "receive"}}
    IN [winner |-> w,
        undos |-> [i \in 1..Len(plan) |->
                     [block |-> plan[i], chain |-> snapshots[i][Owner(plan[i])]]],
        chains |-> snapshots[Len(plan)],
        added |-> taken \ sends, deleted |-> sends]

ActivateCascade ==
    /\ swap.phase = "locking" /\ swap.need = <<>>
    /\ CanBuild(ChainsOf(swap.plan), swap.plan)
    /\ cascade' = BuildCascade(swap.winner, ChainsOf(swap.plan), swap.plan)
    /\ swap' = [swap EXCEPT !.phase = "active"]
    /\ UNCHANGED <<store, mem, lock, call, missed, restarts>>

(* A chain changed under the cascade. *)
CascadeFails ==
    /\ swap.phase = "locking" /\ swap.need = <<>>
    /\ ~CanBuild(ChainsOf(swap.plan), swap.plan)
    /\ lock' = Release
    /\ swap' = IdleSwap
    /\ UNCHANGED <<store, mem, call, cascade, missed, restarts>>

(* Undos and winner are one transaction. *)
CommitCascade ==
    LET s == CommitUndos(store, cascade.undos)[Len(cascade.undos)] IN
    /\ swap.phase = "active" /\ Valid(swap.winner)
    /\ store' = CommitBlock(s, swap.winner)
    /\ missed' = missed \cup MissedByUndos(store, swap.plan)
                        \cup MissedBy(s, swap.winner)
    /\ swap' = [swap EXCEPT !.phase = "committed"]
    /\ UNCHANGED <<mem, lock, call, cascade, restarts>>

(* ErrWinnerFullValidation: the loser stays. *)
WinnerRejected ==
    /\ swap.phase = "active" /\ ~Valid(swap.winner)
    /\ cascade' = NoCascade
    /\ lock' = Release
    /\ swap' = IdleSwap
    /\ UNCHANGED <<store, mem, call, missed, restarts>>

(* Mutant: heights are counted from zero when the final height is set. *)
ResolveOffByOne(s, b) ==
    [s EXCEPT !.finalHeight[Owner(b)] = HeightOf(s.chain[Owner(b)], b) + 1,
              !.staged = @ \ s.conflict[Pos(b)],
              !.conflict[Pos(b)] = {}]

(* cleanupResolvedConflict, and the block is final. *)
Resolve(s, b) ==
    [s EXCEPT !.finalHeight[Owner(b)] = HeightOf(s.chain[Owner(b)], b),
              !.staged = @ \ s.conflict[Pos(b)],
              !.conflict[Pos(b)] = {}]

FinishSwap ==
    /\ swap.phase = "committed"
    /\ mem' = ApplyBlock(ApplyUndos(mem, cascade.undos)[Len(cascade.undos)], swap.winner)
    /\ store' = Resolve(store, swap.winner)
    /\ cascade' = NoCascade
    /\ lock' = Release
    /\ swap' = IdleSwap
    /\ UNCHANGED <<call, missed, restarts>>

(* Votes finalize a block that is on the chain. *)
Finalize(b) ==
    /\ swap = IdleSwap
    /\ b \in Favoured /\ OnChain(store, b) /\ ~IsFinalized(store, b)
    /\ DepsFinalized(store, b)
    /\ lock[Owner(b)] = None
    /\ store' = Resolve(store, b)
    /\ UNCHANGED <<mem, lock, call, swap, cascade, missed, restarts>>

(* NewLedger rebuilds from the store what was in memory. *)
Restart ==
    /\ restarts < MaxRestarts
    /\ restarts' = restarts + 1
    /\ mem' = Rebuild(store)
    /\ lock' = Unlocked
    /\ call' = [t \in Adder |-> IdleCall]
    /\ swap' = IdleSwap
    /\ cascade' = NoCascade
    /\ UNCHANGED <<store, missed>>

Next ==
    \/ \E b \in Block : Stage(b) \/ SwapBlock(b) \/ SwapRefused(b) \/ Finalize(b)
    \/ \E t \in Adder : (\E b \in Block : Validate(t, b)) \/ Commit(t) \/ Return(t)
    \/ LockForeign \/ ActivateCascade \/ CascadeFails
    \/ CommitCascade \/ WinnerRejected \/ FinishSwap
    \/ Restart

(* The steps of a promotion that wait for no lock. *)
Proceed ==
    ActivateCascade \/ CascadeFails \/ CommitCascade \/ WinnerRejected \/ FinishSwap

(* A thread that can go on does (weak fairness), and who waits for a mutex *)
(* that is released time and again gets it (strong fairness).              *)
Fairness ==
    /\ \A t \in Adder :
         []<>(call[t].phase = "idle") \/ []<><<Commit(t) \/ Return(t)>>_vars
    /\ []<>(swap.phase = "idle" \/ swap.need # <<>>) \/ []<><<Proceed>>_vars
    /\ <>[](swap.need = <<>> \/ lock[Head(swap.need)] # None)
         \/ []<><<LockForeign>>_vars

Spec == Init /\ [][Next]_vars /\ Fairness

-----------------------------------------------------------------------------
(* What others read of the ledger. *)

(* Mutant: what is received and not final can be spent. *)
SpendableAtOnce(s, a, asset) == AssetBalanceOnChain(s.chain[a], asset)

(* SpendableBalances: what it has for an asset after i blocks, the last    *)
(* balance up to the final height less what went out above it.             *)
SpendableUpTo(chain, limit, asset) ==
    LET prev(i) == AssetBalanceOnChain(SubSeq(chain, 1, i - 1), asset)
        out[i \in 0..Len(chain)] ==
          IF i = 0 THEN 0
          ELSE IF Body[chain[i]].asset # asset THEN out[i - 1]
          ELSE IF i <= limit THEN Body[chain[i]].balance
          ELSE Less(out[i - 1], Less(prev(i), Body[chain[i]].balance))
    IN out

Spendable(s, a, asset) ==
    IF s.finalHeight[a] = 0 THEN 0
    ELSE SpendableUpTo(s.chain[a], s.finalHeight[a], asset)[Len(s.chain[a])]

(* termsFromChain: what blocks of a type put in or took out. *)
Term == [b \in Block |-> IF Body[b].type = "genesis" THEN Body[b].balance
                         ELSE Body[b].amount]

Total(s, type, asset) ==
    SumOf(Term, {b \in OnChains(s) : Body[b].type = type /\ Body[b].asset = asset})

Circulating(s, asset) ==
    SumOf(BalancesOf(s, asset), Account)
    + SumOf(Term, {b \in s.pending : Body[b].asset = asset})

-----------------------------------------------------------------------------
(* The types of the store, of what is in memory and of the locks: no       *)
(* balance, weight or final height is out of its range.                    *)
LedgerTypeOK ==
    /\ \A a \in Account :
         /\ store.chain[a] \in Seq(Block)
         /\ store.finalHeight[a] \in 0..Len(store.chain[a])
         /\ store.rep[a] \in Rep \cup {None} /\ mem.rep[a] \in Rep \cup {None}
         /\ lock[a] \in Adder \cup {Promoter, None}
         /\ \A x \in Asset : mem.balance[a][x] \in 0..MaxUint
    /\ store.pending \cup store.staged \cup missed \subseteq Block
    /\ \A r \in Rep : mem.weight[r] \in Nat
    /\ \A t \in Adder : call[t].block \in Block \cup {None}
    /\ swap.winner \in Block \cup {None}
    /\ restarts \in 0..MaxRestarts

(* When no thread is between its transaction and its return, memory holds  *)
(* what a restart would compute from the store: balances, representatives, *)
(* weights and keysets, after any cascade (buildBlockUndo's closures).     *)
MemoryMatchesStore ==
    (/\ \A t \in Adder : call[t].phase # "committed"
     /\ swap.phase # "committed") => mem = Rebuild(store)

(* Transfers, burns, mints and their undos conserve each asset: what the   *)
(* chains and pending sends hold is what genesis and mints put in, less    *)
(* what was burned, unless a receive raced with the undo of its send.      *)
SupplyConserved ==
    missed = {} =>
        \A x \in Asset :
            Circulating(store, x) + Total(store, "burn", x)
              = Total(store, "genesis", x) + Total(store, "mint", x)

(* What an account may spend (docs/api.md: final and less its own          *)
(* outflows) falls only when a block of its own joins its chain, whatever  *)
(* conflict of another account is resolved against a send it received.     *)
SpendableStays ==
    [][\A a \in Account, x \in Asset :
          Spendable(store', a, x) < Spendable(store, a, x)
            => ToSet(store'.chain[a]) \ ToSet(store.chain[a]) # {}]_vars

(* Every call returns and every promotion ends: locks that a promotion     *)
(* takes one by one while adders hold others never close a circle.         *)
CallsReturn ==
    /\ \A t \in Adder : call[t].phase # "idle" ~> call[t].phase = "idle"
    /\ swap # IdleSwap ~> swap = IdleSwap
=============================================================================
