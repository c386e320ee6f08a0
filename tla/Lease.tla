------------------------------- MODULE Lease -------------------------------
(***************************************************************************)
(* One compute lease in the ledger of one node: the consumer's and the     *)
(* provider's account chains, the lease record and its escrow (all in the  *)
(* badger store, db), the balances kept in memory (balance), the operation *)
(* each account lock is held for (op), the archiver of the settle loop     *)
(* (arch) and the clock.                                                   *)
(*                                                                         *)
(* addBlock is two steps: validate under the account lock (and, for the    *)
(* state transitions, the lease lock), then one store transaction that     *)
(* re-checks the lease by compare-and-swap.  SwapBlock, which replaces an  *)
(* unfinalized block by the winner of a vote, takes the account lock but   *)
(* not the lease lock, and while it runs every reader sees its overlay.    *)
(*                                                                         *)
(* The provider's stake is left out: LeaseStakeDivisor is the constant 0.  *)
(* Certificates, attestation signatures and machine dimensions are taken   *)
(* as valid; a block is represented by what the ledger compares.           *)
(***************************************************************************)
EXTENDS Integers, Sequences, SequencesExt, FiniteSetsExt

CONSTANTS
    None,               \* no lease, no block, nothing staged
    Funds,              \* the consumer's XUSD when the model starts
    Gas,                \* the XE each account starts with
    Price,              \* XUSD per unit of time
    Duration,           \* of the lease block
    RenewDuration,      \* of every renewal
    LeaseMaxDuration, LeaseSettleGrace, LeaseForceSettleGap,
    LeaseEscrowExpiry, LeaseArchiveGap, MaxAttestationSkew,
    RateAt(_),          \* locked_r of the emission epoch at a time, in milli
    Habits,             \* what the parties may do: see habit
    MaxBlocks,          \* bound: blocks on one chain
    MaxTime             \* bound: the clock

(* core/genesis.go, validateGenesisLeaseTiming *)
ASSUME TimingAssumption ==
    /\ {Duration, RenewDuration, LeaseSettleGrace, MaxAttestationSkew,
        LeaseArchiveGap, Price} \subseteq Nat \ {0}
    /\ {Funds, Gas, LeaseMaxDuration, LeaseForceSettleGap,
        LeaseEscrowExpiry, MaxBlocks, MaxTime} \subseteq Nat
    /\ Habits \subseteq SUBSET {"renew", "fork"}
    /\ Duration <= LeaseMaxDuration
    /\ LeaseForceSettleGap > 2 * MaxAttestationSkew
    /\ LeaseEscrowExpiry > LeaseSettleGrace + LeaseForceSettleGap
    /\ MaxAttestationSkew < MaxTime
    /\ \A t \in 0..(MaxTime + MaxAttestationSkew) : RateAt(t) \in Nat \ {0}

Consumer == "consumer"
Provider == "provider"
Account  == {Consumer, Provider}

VARIABLES
    db,           \* [chain, lease, escrow]: one badger transaction changes it
    balance,      \* per account and asset: Ledger.assetBalances, in memory
    finalHeight,  \* per account
    staged,       \* the conflicting block staged against an account's frontier
    op,           \* per account: the write prepared under its lock
    cancel,       \* a cancellation about to unwind the provider's accept
    arch,         \* the archiver: [pc, lease]
    now,          \* the node's clock
    habit         \* what the parties do in this behaviour: "renew" the lease,
                  \* "fork" (sign two blocks on one predecessor)

vars == <<db, balance, finalHeight, staged, op, cancel, arch, now, habit>>

-----------------------------------------------------------------------------
(* Records. *)

Created == "created"
Accepted == "accepted"
Settled == "settled"
Cancelled == "cancelled"
Unfulfilled == "unfulfilled"
Expired == "expired"

LeaseState == {Created, Accepted, Settled, Cancelled, Unfulfilled, Expired}

LeaseRecord ==
    [state : LeaseState, settled : BOOLEAN, startTime : Nat, lockedR : Nat,
     renewals : Seq(Nat)]

ASSUME NoneAssumption == None \notin LeaseState \cup LeaseRecord

BlockType == {"receive", "burn", "lease", "lease_accept", "lease_renew",
              "lease_settle", "lease_cancel", "lease_force_settle"}

(* What the ledger compares of a block; `time' is its timestamp and, where *)
(* it carries attestations, their median.                                  *)
Block(type, asset, amount, after, time) ==
    [type |-> type, asset |-> asset, amount |-> amount, balance |-> after,
     time |-> time]

(* Types added under the lease lock (isLeaseStateTransition).              *)
LeaseStateTransition ==
    {"lease_accept", "lease_settle", "lease_cancel", "lease_force_settle"}

NewLease ==
    [state |-> Created, settled |-> FALSE, startTime |-> 0, lockedR |-> 0,
     renewals |-> <<>>]            \* renewals: the rate locked by each

(* For the dimensions of this lease and in whole units of billing time,    *)
(* where the code's roundings cancel out.                                  *)
LeaseCost(duration) == Price * duration

EffectiveDurationSecs(lease) == Duration + RenewDuration * Len(lease.renewals)

EffectiveExpiry(lease) == lease.startTime + EffectiveDurationSecs(lease)

CeilDiv(a, b) == IF a = 0 THEN 0 ELSE ((a - 1) \div b) + 1

LeaseEmission(cost, r) ==
    IF CeilDiv(cost * r, 1000) = 0 THEN 1 ELSE CeilDiv(cost * r, 1000)

LeaseTotalEmission(lease) ==
    LET paid == [i \in DOMAIN lease.renewals |->
                   LeaseEmission(LeaseCost(RenewDuration), lease.renewals[i])]
    IN  LeaseEmission(LeaseCost(Duration), lease.lockedR)
          + MapThenSumSet(LAMBDA i : paid[i], DOMAIN lease.renewals)

(* escrowPendingOf: the escrow as the lease block and the record tell it.  *)
EscrowPendingOf(lease) ==
    LeaseCost(Duration) + LeaseCost(RenewDuration) * Len(lease.renewals)

AssetBalanceOnChain(chain, asset) ==
    LET i == SelectLastInSeq(chain, LAMBDA b : b.asset = asset)
    IN  IF i = 0 THEN 0 ELSE chain[i].balance

AssetBalancesOnChain(chain) ==
    [asset \in {"XE", "XUSD"} |-> AssetBalanceOnChain(chain, asset)]

-----------------------------------------------------------------------------
(* Undo: buildBlockUndo and applyUndoTxn.                                  *)

PriorLease(lease, target) ==
    [lease EXCEPT
        !.state = target,
        !.settled = FALSE,
        !.startTime = IF target = Created THEN 0 ELSE @,
        !.lockedR   = IF target = Created THEN 0 ELSE @]

RestoreLease(lease, type) ==
    CASE type \in {"lease_accept", "lease_cancel"} -> PriorLease(lease, Created)
      [] type \in {"lease_settle", "lease_force_settle"} -> PriorLease(lease, Accepted)
      [] type = "lease_renew" -> [lease EXCEPT !.renewals = Front(@)]
      [] type = "lease" -> None
      [] OTHER -> lease

(* The undo of the frontier block of account a, computed from the store d: *)
(* the record to write, and what happens to the escrow.                    *)
BlockUndo(d, a) ==
    LET b == Last(d.chain[a]) IN
    [account |-> a,
     block   |-> b,
     writes  |-> b.type \notin {"receive", "burn"},
     lease   |-> IF d.lease = None THEN None ELSE RestoreLease(d.lease, b.type),
     escrow  |-> IF d.lease = None THEN 0 ELSE EscrowPendingOf(d.lease)]

CanBuildUndo(d, a) ==
    LET type == Last(d.chain[a]).type IN
    /\ type \in LeaseStateTransition \cup {"lease_renew"} => d.lease # None
    /\ type = "lease_renew" => d.lease.renewals # <<>>

CanApplyUndo(d, u) ==
    u.block.type = "lease_renew" => d.escrow # 0 /\ d.escrow >= u.block.amount

(* Mutant: an undone lease block leaves its escrow behind.                 *)
ApplyUndoKeepsEscrow(d, u) ==
    [chain  |-> [d.chain EXCEPT ![u.account] = Front(@)],
     lease  |-> IF u.writes THEN u.lease ELSE d.lease,
     escrow |-> CASE u.block.type = "lease_renew" -> d.escrow - u.block.amount
                  [] u.block.type \in LeaseStateTransition \ {"lease_accept"} -> u.escrow
                  [] OTHER -> d.escrow]

ApplyUndo(d, u) ==
    [chain  |-> [d.chain EXCEPT ![u.account] = Front(@)],
     lease  |-> IF u.writes THEN u.lease ELSE d.lease,
     escrow |-> CASE u.block.type = "lease" -> 0
                  [] u.block.type = "lease_renew" -> d.escrow - u.block.amount
                  [] u.block.type \in LeaseStateTransition \ {"lease_accept"} -> u.escrow
                  [] OTHER -> d.escrow]

(* Mutant: the undo forgets the balance in memory.                         *)
UndoBalanceForgotten(bal, u, d) == bal

(* The closure of buildBlockUndo, run once the undo is in the store.       *)
UndoBalance(bal, u, d) ==
    [bal EXCEPT ![u.account][u.block.asset] =
        AssetBalanceOnChain(Front(d.chain[u.account]), u.block.asset)]

-----------------------------------------------------------------------------
(* Validation.  v is what the validator reads: [chain, lease, escrow,      *)
(* balance].  The ledger computes a block's amount and balance itself and  *)
(* compares; the block of a type that passes that comparison:              *)

Amount(v, type) ==
    CASE type = "lease"              -> LeaseCost(Duration)
      [] type = "lease_renew"        -> LeaseCost(RenewDuration)
      [] type = "lease_cancel"       -> LeaseCost(Duration)
      [] type = "lease_accept"       -> 0
      [] type = "lease_settle"       -> LeaseTotalEmission(v.lease)
      [] type = "lease_force_settle" -> v.escrow
      [] type = "receive"            -> v.escrow
      [] type = "burn"               -> 1

AssetOf(type) == IF type \in {"burn", "lease_settle"} THEN "XE" ELSE "XUSD"

Debits(type) == type \in {"lease", "lease_renew", "burn"}

MakeBlock(v, a, type, t) ==
    LET old == v.balance[a][AssetOf(type)]
        amt == Amount(v, type)
    IN  Block(type, AssetOf(type), amt,
              IF Debits(type) THEN old - amt ELSE old + amt, t)

Live(lease) == lease # None /\ lease.state \in {Created, Accepted}

ValidLease(v) ==
    /\ v.lease = None
    /\ \A a \in Account : \A i \in DOMAIN v.chain[a] :
           v.chain[a][i].type \in {"receive", "burn"}

ValidLeaseAccept(v) == v.lease # None /\ v.lease.state = Created

ValidLeaseRenew(v, t) ==
    /\ v.lease # None /\ ~v.lease.settled /\ v.lease.state = Accepted
    /\ EffectiveDurationSecs(v.lease) + RenewDuration <= LeaseMaxDuration
    /\ v.lease.startTime <= t /\ t < EffectiveExpiry(v.lease)
    /\ v.escrow # 0

ValidLeaseSettle(v, t) ==
    /\ v.lease # None /\ ~v.lease.settled /\ v.lease.state = Accepted
    /\ EffectiveExpiry(v.lease) <= t
    /\ t <= EffectiveExpiry(v.lease) + LeaseSettleGrace
    /\ v.escrow # 0

ValidLeaseCancel(v) ==
    v.lease # None /\ v.lease.state = Created /\ v.escrow # 0

(* Mutant: the consumer may claim as soon as the provider's grace is over. *)
ForceSettleWithoutGap(v, t) ==
    /\ v.lease # None /\ ~v.lease.settled /\ v.lease.state = Accepted
    /\ t >= EffectiveExpiry(v.lease) + LeaseSettleGrace
    /\ t < EffectiveExpiry(v.lease) + LeaseEscrowExpiry
    /\ v.escrow # 0

ValidLeaseForceSettle(v, t) ==
    /\ v.lease # None /\ ~v.lease.settled /\ v.lease.state = Accepted
    /\ t >= EffectiveExpiry(v.lease) + LeaseSettleGrace + LeaseForceSettleGap
    /\ t < EffectiveExpiry(v.lease) + LeaseEscrowExpiry
    /\ v.escrow # 0

(* The provider is the destination of the escrow, so only the lease record *)
(* keeps it from being received like a send.                               *)
ValidReceive(v) == v.escrow # 0 /\ ~Live(v.lease)

TypesOf(a) ==
    IF a = Consumer
    THEN {"lease", "lease_renew", "lease_cancel", "lease_force_settle", "burn"}
    ELSE {"lease_accept", "lease_settle", "receive", "burn"}

(* The conditions of the block's type on the lease and its times.          *)
ValidFor(v, b) ==
    CASE b.type = "lease"              -> ValidLease(v)
      [] b.type = "lease_accept"       -> ValidLeaseAccept(v)
      [] b.type = "lease_renew"        -> ValidLeaseRenew(v, b.time)
      [] b.type = "lease_settle"       -> ValidLeaseSettle(v, b.time)
      [] b.type = "lease_cancel"       -> ValidLeaseCancel(v)
      [] b.type = "lease_force_settle" -> ValidLeaseForceSettle(v, b.time)
      [] b.type = "receive"            -> ValidReceive(v)
      [] OTHER                         -> TRUE

(* Mutant: a debit is not checked against the balance.                     *)
ValidUnfunded(v, a, b) ==
    /\ b.type \in TypesOf(a)
    /\ ValidFor(v, b)
    /\ b = MakeBlock(v, a, b.type, b.time)

Valid(v, a, b) ==
    /\ b.type \in TypesOf(a)
    /\ ValidFor(v, b)
    /\ Debits(b.type) => b.amount <= v.balance[a][b.asset]
    /\ b = MakeBlock(v, a, b.type, b.time)

-----------------------------------------------------------------------------
(* Commit: what a validator leaves to the store transaction.               *)

BlockCommit(v, a, b) ==
    [account   |-> a,
     block     |-> b,
     expect    |-> CASE b.type \in {"lease_accept", "lease_cancel"} -> Created
                     [] b.type \in {"lease_renew", "lease_settle",
                                    "lease_force_settle"} -> Accepted
                     [] OTHER -> None,
     expectDur |-> IF b.type \in {"lease_renew", "lease_settle", "lease_force_settle"}
                   THEN EffectiveDurationSecs(v.lease) ELSE 0,
     putLease  |-> CASE b.type = "lease" -> NewLease
                     [] b.type = "lease_accept" ->
                            [NewLease EXCEPT !.state = Accepted,
                                             !.startTime = b.time,
                                             !.lockedR = RateAt(b.time)]
                     [] b.type = "lease_renew" ->
                            [v.lease EXCEPT !.renewals = Append(@, RateAt(b.time))]
                     [] OTHER -> None]

(* Mutant: the compare-and-swap looks at the state only, so a renewal that *)
(* commits between the two halves of a settlement goes unnoticed.          *)
ExpectState(d, c) ==
    c.expect # None => d.lease # None /\ d.lease.state = c.expect

ExpectLease(d, c) ==
    c.expect # None =>
        /\ d.lease # None
        /\ d.lease.state = c.expect
        /\ c.expectDur # 0 => EffectiveDurationSecs(d.lease) = c.expectDur

CanCommit(d, c) ==
    ExpectLease(d, c) /\ (c.block.type = "lease_renew" => d.escrow # 0)

Ended(lease, type) ==
    CASE type = "lease_settle" -> [lease EXCEPT !.state = Settled, !.settled = TRUE]
      [] type = "lease_cancel" -> [lease EXCEPT !.state = Cancelled]
      [] type = "lease_force_settle" ->
             [lease EXCEPT !.state = Unfulfilled, !.settled = TRUE]
      [] OTHER -> lease

(* Mutant: the refund of a force-settlement leaves the escrow pending.     *)
RefundKeepsEscrow(d, c) ==
    [chain  |-> [d.chain EXCEPT ![c.account] = Append(@, c.block)],
     lease  |-> IF c.putLease # None THEN c.putLease ELSE Ended(d.lease, c.block.type),
     escrow |-> CASE c.block.type = "lease" -> c.block.amount
                  [] c.block.type = "lease_renew" -> d.escrow + c.block.amount
                  [] c.block.type \in {"lease_settle", "lease_cancel", "receive"} -> 0
                  [] OTHER -> d.escrow]

ApplyCommit(d, c) ==
    [chain  |-> [d.chain EXCEPT ![c.account] = Append(@, c.block)],
     lease  |-> IF c.putLease # None THEN c.putLease ELSE Ended(d.lease, c.block.type),
     escrow |-> CASE c.block.type = "lease" -> c.block.amount
                  [] c.block.type = "lease_renew" -> d.escrow + c.block.amount
                  [] c.block.type \in {"lease_settle", "lease_cancel",
                                       "lease_force_settle", "receive"} -> 0
                  [] OTHER -> d.escrow]

CommitBalance(bal, c) ==
    [bal EXCEPT ![c.account][c.block.asset] = c.block.balance]

-----------------------------------------------------------------------------
(* Locks and overlay. *)

(* The account lock of a is free. *)
Idle(a) == op[a] = None /\ (a = Consumer => cancel = None)

(* The undo of the swap that holds the lock of a, if one does.             *)
UndoOf(a) ==
    IF op[a] # None THEN op[a].undo
    ELSE IF a = Consumer /\ cancel # None THEN cancel.undo ELSE None

Swapping == {a \in Account : UndoOf(a) # None}

(* addBlock's lease lock: SwapBlock and lease_renew do not take it.        *)
LeaseLockFree ==
    /\ cancel # None => cancel.undo # None
    /\ \A a \in Account \ Swapping :
          op[a] # None => op[a].commit.block.type \notin LeaseStateTransition

View(d, bal) ==
    [chain |-> d.chain, lease |-> d.lease, escrow |-> d.escrow, balance |-> bal]

(* cascadeBuild: the undo as validators see it before it is committed.  It *)
(* holds escrows restored or deleted, not the reduction of a renewal's.    *)
OverlayOn(d, bal, u) ==
    LET undone == ApplyUndo(d, u)
        e == IF u.block.type = "lease_renew" THEN d.escrow ELSE undone.escrow
    IN  View([undone EXCEPT !.escrow = e],
             [bal EXCEPT ![u.account] =
                 AssetBalancesOnChain(undone.chain[u.account])])

Overlay(u) == OverlayOn(db, balance, u)

(* What a validator reads: the store, or, while a swap is in flight, the   *)
(* swap's overlay on it (activeCascadeFor is per ledger, not per caller).  *)
ReadView ==
    IF Swapping = {} THEN View(db, balance)
    ELSE Overlay(UndoOf(CHOOSE a \in Swapping : TRUE))

(* The attested times a live block may carry (ValidateAttestations).       *)
Times(type) ==
    IF type \in {"lease_accept", "lease_renew", "lease_settle", "lease_force_settle"}
    THEN (now - MaxAttestationSkew)..(now + MaxAttestationSkew)
    ELSE {0}

LeaseBlockFinal ==
    \E i \in 1..finalHeight[Consumer] : db.chain[Consumer][i].type = "lease"

(* A vote waits for the finality of the block's source.                    *)
SourceFinal(b) ==
    b.type \in LeaseStateTransition \cup {"lease_renew"} => LeaseBlockFinal

-----------------------------------------------------------------------------
(* addBlock, first half: the block is valid and its write is prepared.     *)
Validate(a, type, t) ==
    LET b == MakeBlock(ReadView, a, type, t) IN
    /\ Idle(a) /\ staged[a] = None
    /\ type \in LeaseStateTransition => LeaseLockFree
    /\ Len(db.chain[a]) < MaxBlocks
    /\ type = "lease_renew" => "renew" \in habit
    /\ type \in {"lease_settle", "lease_renew"} => ReadView.lease # None
    /\ Valid(ReadView, a, b)
    /\ op' = [op EXCEPT ![a] = [commit |-> BlockCommit(ReadView, a, b), undo |-> None]]
    /\ UNCHANGED <<db, balance, finalHeight, staged, cancel, arch, now, habit>>

(* Mutant: a finalized accept is unwound like any other.                   *)
UnwindFinalAccept(lease) ==
    /\ lease # None /\ lease.state = Accepted
    /\ Last(db.chain[Provider]).type = "lease_accept"

(* resolveCancelWinsOverAccept, up to its lock: the lease read is accepted *)
(* by the block at the provider's frontier, and that is not final.         *)
CanUnwindAccept(lease) ==
    /\ lease # None /\ lease.state = Accepted
    /\ Last(db.chain[Provider]).type = "lease_accept"
    /\ Len(db.chain[Provider]) > finalHeight[Provider]

(* What is carried from those reads to the lock: the chain and the final   *)
(* height; also the undo of the swap the cancel is the winner of, or None, *)
(* and whether its predecessor is the frontier, looked at after all this.  *)
PendingCancel(undo, inOrder) ==
    [chain |-> db.chain[Provider], final |-> finalHeight[Provider],
     undo |-> undo, inOrder |-> inOrder]

(* addBlock of a lease_cancel for an accepted lease.                       *)
CancelWins(inOrder) ==
    /\ Idle(Consumer) /\ staged[Consumer] = None /\ LeaseLockFree
    /\ Len(db.chain[Consumer]) < MaxBlocks
    /\ CanUnwindAccept(ReadView.lease)
    /\ cancel' = PendingCancel(None, inOrder)
    /\ UNCHANGED <<db, balance, finalHeight, staged, op, arch, now, habit>>

(* swapBlockLocked whose winner is a lease_cancel of an accepted lease.    *)
SwapCancelWins ==
    LET u == BlockUndo(db, Consumer) IN
    /\ staged[Consumer] # None /\ Idle(Consumer) /\ Swapping = {}
    /\ staged[Consumer].block.type = "lease_cancel"
    /\ staged[Consumer].height = Len(db.chain[Consumer])
    /\ finalHeight[Consumer] = Len(db.chain[Consumer]) - 1
    /\ LeaseBlockFinal
    /\ CanBuildUndo(db, Consumer)
    /\ CanUnwindAccept(Overlay(u).lease)
    /\ cancel' = PendingCancel(u, TRUE)
    /\ UNCHANGED <<db, balance, finalHeight, staged, op, arch, now, habit>>

(* The rest of validateAndAddLeaseCancel, whose lease is as read before.   *)
FinishCancel(v) ==
    LET b == IF cancel.undo = None THEN MakeBlock(v, Consumer, "lease_cancel", 0)
             ELSE staged[Consumer].block
    IN
    op' = IF /\ cancel.inOrder /\ v.escrow # 0
             /\ b = MakeBlock(v, Consumer, "lease_cancel", 0)
          THEN [op EXCEPT ![Consumer] = [commit |-> BlockCommit(v, Consumer, b),
                                         undo |-> cancel.undo]]
          ELSE op

(* resolveCancelWinsOverAccept under the provider's lock: the accept is    *)
(* unwound in a transaction of its own if it is the frontier still, final  *)
(* or not, and stays unwound when the cancel then fails.                   *)
UnwindAccept ==
    LET u == BlockUndo(db, Provider) IN
    /\ cancel # None
    /\ cancel' = None
    /\ IF Idle(Provider) /\ db.chain[Provider] = cancel.chain /\ CanBuildUndo(db, Provider)
       THEN /\ db' = ApplyUndo(db, u)
            /\ balance' = UndoBalance(balance, u, db)
            /\ FinishCancel(IF cancel.undo = None THEN View(db', balance')
                            ELSE OverlayOn(db', balance', cancel.undo))
       ELSE UNCHANGED <<db, balance, op>>
    /\ UNCHANGED <<finalHeight, staged, arch, now, habit>>

(* addBlock, second half: the transaction, then the memory.                *)
CommitBlock(a) ==
    /\ op[a] # None /\ op[a].undo = None
    /\ op' = [op EXCEPT ![a] = None]
    /\ IF CanCommit(db, op[a].commit)
       THEN /\ db' = ApplyCommit(db, op[a].commit)
            /\ balance' = CommitBalance(balance, op[a].commit)
       ELSE UNCHANGED <<db, balance>>
    /\ UNCHANGED <<finalHeight, staged, cancel, arch, now, habit>>

(* ValidateStagedBlock: it compares with the store's escrow as it is now.  *)
ValidStaged(b, parentBalance) ==
    CASE b.type \in {"lease", "lease_accept", "burn"} ->
            b.amount <= parentBalance /\ b.balance = parentBalance - b.amount
      [] b.type = "lease_settle" ->
            db.escrow # 0 /\ b.balance = parentBalance + b.amount
      [] b.type \in {"lease_cancel", "lease_force_settle"} ->
            db.escrow # 0 /\ b.balance = parentBalance + db.escrow
      [] b.type = "receive" ->
            /\ db.escrow # 0 /\ ~Live(db.lease)
            /\ b.balance = parentBalance + db.escrow
      [] OTHER -> FALSE

(* addBlock of a block whose predecessor already has a child: the block an *)
(* account signed instead of its unfinalized frontier is staged.           *)
Stage(a, type, t) ==
    LET v == Overlay(BlockUndo(db, a))
        b == MakeBlock(v, a, type, t)
    IN
    /\ "fork" \in habit
    /\ Idle(a) /\ staged[a] = None
    /\ type \in LeaseStateTransition => LeaseLockFree
    /\ Len(db.chain[a]) > finalHeight[a]
    /\ CanBuildUndo(db, a) /\ CanApplyUndo(db, BlockUndo(db, a))
    /\ type = "lease_settle" => v.lease # None
    /\ type # Last(db.chain[a]).type
    /\ ValidStaged(b, v.balance[a][b.asset])
    /\ staged' = [staged EXCEPT ![a] = [block |-> b, height |-> Len(db.chain[a])]]
    /\ UNCHANGED <<db, balance, finalHeight, op, cancel, arch, now, habit>>

(* swapBlockLocked, first half: the vote chose the staged block; the undo  *)
(* of the frontier is built and the winner validated against the overlay.  *)
SwapBlock(a) ==
    LET u == BlockUndo(db, a) IN
    /\ staged[a] # None /\ Idle(a) /\ Swapping = {}
    /\ staged[a].height = Len(db.chain[a])
    /\ finalHeight[a] = Len(db.chain[a]) - 1
    /\ SourceFinal(staged[a].block)
    /\ CanBuildUndo(db, a)
    /\ Valid(Overlay(u), a, staged[a].block)
    /\ op' = [op EXCEPT ![a] =
                 [commit |-> BlockCommit(Overlay(u), a, staged[a].block), undo |-> u]]
    /\ UNCHANGED <<db, balance, finalHeight, staged, cancel, arch, now, habit>>

(* Second half: CommitCascade, undo and winner in one transaction, and the *)
(* winner's position is final.                                             *)
CommitCascade(a) ==
    /\ op[a] # None /\ op[a].undo # None
    /\ op' = [op EXCEPT ![a] = None]
    /\ LET u == op[a].undo
           c == op[a].commit
       IN  IF CanApplyUndo(db, u) /\ CanCommit(ApplyUndo(db, u), c)
           THEN /\ db' = ApplyCommit(ApplyUndo(db, u), c)
                /\ balance' = CommitBalance(UndoBalance(balance, u, db), c)
                /\ finalHeight' = [finalHeight EXCEPT ![a] = Len(db.chain[a])]
                /\ staged' = [staged EXCEPT ![a] = None]
           ELSE UNCHANGED <<db, balance, finalHeight, staged>>
    /\ UNCHANGED <<cancel, arch, now, habit>>

(* The block at the next height is final; a conflict there is over.  The   *)
(* votes that let a swap begin have decided its position.                  *)
Finalize(a) ==
    LET h == finalHeight[a] + 1 IN
    /\ a \notin Swapping
    /\ h <= Len(db.chain[a])
    /\ SourceFinal(db.chain[a][h])
    /\ finalHeight' = [finalHeight EXCEPT ![a] = h]
    /\ staged' = IF staged[a] # None /\ staged[a].height = h
                 THEN [staged EXCEPT ![a] = None] ELSE staged
    /\ UNCHANGED <<db, balance, op, cancel, arch, now, habit>>

-----------------------------------------------------------------------------
(* The archiver of the settle loop: it reads the accepted leases, and then *)
(* deletes the escrow and writes the record it read, in two transactions   *)
(* and under no lock.                                                      *)
ShouldArchiveExpiredLease(lease) ==
    /\ lease # None /\ ~lease.settled /\ lease.state = Accepted
    /\ now >= EffectiveExpiry(lease) + LeaseEscrowExpiry + LeaseArchiveGap

Archive ==
    /\ \/ /\ arch.pc = "scan"
          /\ ShouldArchiveExpiredLease(db.lease)
          /\ arch' = [pc |-> "delete", lease |-> db.lease]
          /\ UNCHANGED db
       \/ /\ arch.pc = "delete"
          /\ db' = [db EXCEPT !.escrow = 0]
          /\ arch' = [arch EXCEPT !.pc = "put"]
       \/ /\ arch.pc = "put"
          /\ db' = [db EXCEPT !.lease = [arch.lease EXCEPT !.state = Expired,
                                                           !.settled = TRUE]]
          /\ arch' = [pc |-> "scan", lease |-> None]
    /\ UNCHANGED <<balance, finalHeight, staged, op, cancel, now, habit>>

(* A unit of time is long against the handling of a block.                 *)
Tick ==
    /\ now < MaxTime
    /\ \A a \in Account : Idle(a)
    /\ arch.pc = "scan"
    /\ now' = now + 1
    /\ UNCHANGED <<db, balance, finalHeight, staged, op, cancel, arch, habit>>

(* rebuildAssetBalances, from the store.                                   *)
RebuildAssetBalances(d) == [a \in Account |-> AssetBalancesOnChain(d.chain[a])]

Restart ==
    /\ balance' = RebuildAssetBalances(db)
    /\ op' = [a \in Account |-> None]
    /\ cancel' = None
    /\ arch' = [pc |-> "scan", lease |-> None]
    /\ UNCHANGED <<db, finalHeight, staged, now, habit>>

-----------------------------------------------------------------------------
OpeningChain(xusd) ==
    <<Block("receive", "XE", Gas, Gas, 0)>> \o
    (IF xusd = 0 THEN <<>> ELSE <<Block("receive", "XUSD", xusd, xusd, 0)>>)

InitDb ==
    [chain  |-> [a \in Account |-> OpeningChain(IF a = Consumer THEN Funds ELSE 0)],
     lease  |-> None,
     escrow |-> 0]

Init ==
    /\ db = InitDb
    /\ balance = RebuildAssetBalances(InitDb)
    /\ finalHeight = [a \in Account |-> Len(InitDb.chain[a])]
    /\ staged = [a \in Account |-> None]
    /\ op = [a \in Account |-> None]
    /\ cancel = None
    /\ arch = [pc |-> "scan", lease |-> None]
    /\ now = MaxAttestationSkew + 1
    /\ habit \in Habits

Next ==
    \/ \E a \in Account :
          \/ \E type \in TypesOf(a) : \E t \in Times(type) :
                Validate(a, type, t) \/ Stage(a, type, t)
          \/ CommitBlock(a) \/ SwapBlock(a) \/ CommitCascade(a) \/ Finalize(a)
    \/ \E inOrder \in BOOLEAN : CancelWins(inOrder)
    \/ SwapCancelWins \/ UnwindAccept \/ Archive \/ Tick \/ Restart

Spec == Init /\ [][Next]_vars

-----------------------------------------------------------------------------
(* Properties. *)

BlockRecord ==
    [type : BlockType, asset : {"XE", "XUSD"}, amount : Nat, balance : Nat,
     time : Nat]

(* Type invariant: no amount or balance (uint64 in core/types.go) falls    *)
(* below zero, and no final height lies beyond its chain, but for the one  *)
(* block of the provider that resolveCancelWinsOverAccept may unwind.      *)
LeaseTypeOK ==
    /\ \A a \in Account : db.chain[a] \in Seq(BlockRecord)
    /\ db.lease \in LeaseRecord \cup {None}
    /\ db.escrow \in Nat
    /\ balance \in [Account -> [{"XE", "XUSD"} -> Nat]]
    /\ finalHeight[Consumer] \in 1..Len(db.chain[Consumer])
    /\ finalHeight[Provider] \in 1..(Len(db.chain[Provider]) + 1)
    /\ now \in Nat
    /\ habit \in Habits

(* The blocks of both chains that took the escrow out of pending.          *)
EscrowUses ==
    {u \in Account \X (1..MaxBlocks) :
        /\ u[2] > Len(InitDb.chain[u[1]]) /\ u[2] <= Len(db.chain[u[1]])
        /\ db.chain[u[1]][u[2]].type \in {"lease_settle", "lease_cancel",
                                          "lease_force_settle", "receive"}}

(* An escrow has one end: of settlement, cancellation, refund and receive  *)
(* at most one stands on the two chains, however the two halves of         *)
(* addBlock, the unwinding of an accept (resolveCancelWinsOverAccept), the *)
(* archiver (archiveExpiredLease) and restarts interleave.  Accounts that  *)
(* fork are left out: a swap that undoes an accept brings the lease back   *)
(* although it has ended meanwhile.                                        *)
EscrowPaidOnce == "fork" \notin habit => \A x, y \in EscrowUses : x = y

(* The provider of a settled lease was paid for the lease and for every    *)
(* renewal the record holds (leaseTotalEmission), though lease_renew takes *)
(* no lease lock and may commit between the halves of the settlement.      *)
SettlePaysEverySegment ==
    db.lease # None /\ db.lease.state = Settled =>
        \A i \in DOMAIN db.chain[Provider] :
            db.chain[Provider][i].type = "lease_settle" =>
                db.chain[Provider][i].amount = LeaseTotalEmission(db.lease)

(* At no moment could attestors whose clocks differ by the allowed skew    *)
(* let the provider settle (validateAndAddLeaseSettle) and the consumer    *)
(* claim the refund (validateAndAddLeaseForceSettle) of the same lease.    *)
WindowsApart ==
    \A t1, t2 \in (now - MaxAttestationSkew)..(now + MaxAttestationSkew) :
        ~ ( /\ ValidLeaseSettle(View(db, balance), t1)
            /\ ValidLeaseForceSettle(View(db, balance), t2) )

(* Leasing creates no XUSD: what the accounts hold and what is in escrow   *)
(* never exceeds what there was at first, through every commit, undo       *)
(* (applyUndoTxn), swap and restart.                                       *)
XUSDNeverInflated ==
    balance[Consumer]["XUSD"] + balance[Provider]["XUSD"] + db.escrow <= Funds

(* The balances in memory are those a restart computes from the store      *)
(* (rebuildAssetBalances), after every commit, undo and cascade.           *)
BalancesSurviveRestart == balance = RebuildAssetBalances(db)

(* The block at height i of account a stays where it is in this step.      *)
BlockStays(a, i) ==
    i \in DOMAIN db'.chain[a] /\ db'.chain[a][i] = db.chain[a][i]

(* No swap, undo or restart changes a block at or below its chain's final  *)
(* height.  The one that may go is an accept under a cancellation that had *)
(* read a lower final height (resolveCancelWinsOverAccept).                *)
FinalizedBlocksStay ==
    [][\A a \in Account : \A i \in 1..finalHeight[a] \cap DOMAIN db.chain[a] :
          \/ BlockStays(a, i)
          \/ /\ a = Provider /\ cancel # None /\ cancel' = None
             /\ cancel.final < i]_vars

(* Finalized funds are irreversible (docs/api.md): no step changes a block *)
(* at or below the final height of its chain.  The code does not keep this.*)
FinalIsIrreversible ==
    [][\A a \in Account : \A i \in 1..finalHeight[a] \cap DOMAIN db.chain[a] :
          BlockStays(a, i)]_vars
=============================================================================
