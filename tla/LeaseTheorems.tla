--------------------------- MODULE LeaseTheorems ---------------------------
(***************************************************************************)
(* Theorems about Lease, for every value of its constants.                 *)
(*                                                                         *)
(* LeaseInv is inductive for all behaviours: types, final heights at most  *)
(* one beyond their chains, a prepared swap that still undoes the frontier *)
(* it was built for, a cancellation under way that read a final height     *)
(* below the accept it will unwind, and balances in memory equal to those  *)
(* of the chains.  From it follow LeaseTypes, BalancesMatch,               *)
(* WindowsNeverMeet and FinalizedStay.                                     *)
(*                                                                         *)
(* NoForkInv is inductive for the behaviours in which no account signs two *)
(* blocks on one predecessor: an escrow is pending only while the lease    *)
(* may still end, each prepared write knows enough of the store for its    *)
(* compare-and-swap to suffice, and while a cancellation is under way no   *)
(* other block can end the lease (CancelAlone).  From it follow            *)
(* EscrowEndsOnce, HonestNeverInflate and SettlementPaysAll.               *)
(***************************************************************************)
EXTENDS Lease, FiniteInduction

Asset == {"XE", "XUSD"}

BlockT ==
    [type : BlockType, asset : Asset, amount : Nat, balance : Nat,
     time : 0..(MaxTime + MaxAttestationSkew)]

Db == [chain : [Account -> Seq(BlockT)], lease : LeaseRecord \cup {None}, escrow : Nat]

Balances == [Account -> [Asset -> Nat]]

(* The constants' types, from the assumptions.                             *)
LEMMA Constants ==
    /\ Duration \in Nat /\ RenewDuration \in Nat /\ Price \in Nat
    /\ Duration > 0 /\ RenewDuration > 0 /\ Price > 0
    /\ LeaseSettleGrace \in Nat /\ MaxAttestationSkew \in Nat /\ LeaseArchiveGap \in Nat
    /\ MaxAttestationSkew > 0 /\ LeaseArchiveGap > 0
    /\ Funds \in Nat /\ Gas \in Nat /\ LeaseMaxDuration \in Nat
    /\ LeaseForceSettleGap \in Nat /\ LeaseEscrowExpiry \in Nat
    /\ MaxBlocks \in Nat /\ MaxTime \in Nat
    /\ MaxAttestationSkew < MaxTime
    /\ LeaseForceSettleGap > 2 * MaxAttestationSkew
    /\ LeaseEscrowExpiry > LeaseSettleGrace + LeaseForceSettleGap
    /\ \A t \in 0..(MaxTime + MaxAttestationSkew) : RateAt(t) \in Nat
    /\ None \notin LeaseState /\ None \notin LeaseRecord
BY TimingAssumption, NoneAssumption

-----------------------------------------------------------------------------
(* Chains *)

(* The balance is that of the last block of the asset. *)
LEMMA BalanceIs ==
    ASSUME NEW chain \in Seq(BlockT), NEW x \in Asset,
           NEW I, I = {i \in 1..Len(chain) : chain[i].asset = x}
    PROVE  /\ I = {} => AssetBalanceOnChain(chain, x) = 0
           /\ I # {} => \E m \in I : /\ \A k \in I : k <= m
                                     /\ AssetBalanceOnChain(chain, x) = chain[m].balance
<1> DEFINE i == SelectLastInSeq(chain, LAMBDA b : b.asset = x)
<1>1. Len(chain) \in Nat /\ I \in SUBSET (0..Len(chain)) /\ 0 \notin I
  OBVIOUS
<1>2. i = IF I # {} THEN Max(I) ELSE 0
  BY DEF SelectLastInSeq
<1>3. AssetBalanceOnChain(chain, x) = IF i = 0 THEN 0 ELSE chain[i].balance
  BY DEF AssetBalanceOnChain
<1> HIDE DEF i
<1>4. ASSUME I # {} PROVE Max(I) \in I /\ \A k \in I : k <= Max(I)
  <2>1. PICK m \in I : \A k \in I : k <= m
    BY <1>1, <1>4, Greatest
  <2>2. \A k \in I : m >= k
    BY <1>1, <2>1
  <2>3. Max(I) \in I /\ \A k \in I : Max(I) >= k
    BY <2>2 DEF Max
  <2> QED BY <1>1, <2>3
<1> QED BY <1>1, <1>2, <1>3, <1>4

(* A balance read off a chain is a natural number.                         *)
LEMMA BalanceType ==
    ASSUME NEW chain \in Seq(BlockT), NEW x \in Asset
    PROVE  AssetBalanceOnChain(chain, x) \in Nat
<1>1. PICK I : I = {i \in 1..Len(chain) : chain[i].asset = x}
  OBVIOUS
<1>2. \A m \in 1..Len(chain) : chain[m] \in BlockT
  OBVIOUS
<1>3. \A b \in BlockT : b.balance \in Nat
  BY DEF BlockT
<1> QED BY <1>1, <1>2, <1>3, BalanceIs

(* An appended block sets the balance of its own asset only.               *)
LEMMA BalanceAppend ==
    ASSUME NEW chain \in Seq(BlockT), NEW b \in BlockT, NEW x \in Asset
    PROVE  AssetBalanceOnChain(Append(chain, b), x) =
             IF b.asset = x THEN b.balance ELSE AssetBalanceOnChain(chain, x)
<1> DEFINE n == Len(chain) + 1
<1>0. Append(chain, b) \in Seq(BlockT)
  OBVIOUS
<1>1. PICK c : c = Append(chain, b) /\ c \in Seq(BlockT)
  BY <1>0
<1>2. Len(c) = n /\ c[n] = b /\ \A i \in 1..Len(chain) : c[i] = chain[i]
  BY <1>1
<1>3. Len(chain) \in Nat /\ n \in Nat
  OBVIOUS
<1>4. PICK I : I = {i \in 1..Len(chain) : chain[i].asset = x}
  OBVIOUS
<1>5. PICK J : J = {i \in 1..Len(c) : c[i].asset = x}
  OBVIOUS
<1>6. J = I \cup IF b.asset = x THEN {n} ELSE {}
  BY <1>2, <1>3, <1>4, <1>5
<1>7. CASE b.asset = x
  <2>0. J # {}
    BY <1>6, <1>7
  <2>1. PICK m \in J : (\A k \in J : k <= m) /\ AssetBalanceOnChain(c, x) = c[m].balance
    BY <1>1, <1>5, <2>0, BalanceIs
  <2>2. m = n
    BY <1>2, <1>3, <1>4, <1>5, <1>6, <1>7, <2>1
  <2> QED BY <1>1, <1>2, <1>7, <2>1, <2>2
<1>8. CASE b.asset # x
  <2>1. J = I
    BY <1>6, <1>8
  <2>2. CASE I = {}
    <3>1. AssetBalanceOnChain(c, x) = 0 /\ AssetBalanceOnChain(chain, x) = 0
      BY <1>1, <1>4, <1>5, <2>1, <2>2, BalanceIs
    <3> QED BY <1>1, <1>8, <3>1
  <2>3. CASE I # {}
    <3>0. J # {}
      BY <2>1, <2>3
    <3>p. PICK m \in J : (\A k \in J : k <= m) /\ AssetBalanceOnChain(c, x) = c[m].balance
      BY <1>1, <1>5, <3>0, BalanceIs
    <3>1. m \in I /\ (\A k \in I : k <= m) /\ AssetBalanceOnChain(c, x) = c[m].balance
      BY <2>1, <3>p
    <3>2. PICK k \in I : (\A l \in I : l <= k) /\ AssetBalanceOnChain(chain, x) = chain[k].balance
      BY <1>4, <2>3, BalanceIs
    <3>3. m = k
      BY <1>3, <1>4, <3>1, <3>2
    <3> QED BY <1>1, <1>2, <1>4, <1>8, <3>1, <3>2, <3>3
  <2> QED BY <2>2, <2>3
<1> QED BY <1>7, <1>8

(* A chain is its front with its last block. *)
LEMMA FrontLast ==
    ASSUME NEW S, NEW chain \in Seq(S), Len(chain) > 0
    PROVE  /\ Front(chain) \in Seq(S) /\ Last(chain) \in S
           /\ Len(Front(chain)) = Len(chain) - 1
           /\ \A i \in 1..(Len(chain) - 1) : Front(chain)[i] = chain[i]
           /\ Append(Front(chain), Last(chain)) = chain
<1>1. Len(chain) \in Nat /\ Len(chain) - 1 \in Nat
  OBVIOUS
<1>2. /\ Front(chain) \in Seq(S) /\ Last(chain) \in S
      /\ Len(Front(chain)) = Len(chain) - 1
      /\ \A i \in 1..(Len(chain) - 1) : Front(chain)[i] = chain[i]
  <2>1. PICK k : k = Len(chain) - 1
    OBVIOUS
  <2>2. \A i \in 1..k : chain[i] \in S
    BY <1>1, <2>1
  <2>3. SubSeq(chain, 1, k) \in Seq(S)
    BY <1>1, <2>1, <2>2
  <2>4. Len(SubSeq(chain, 1, k)) = k /\ \A i \in 1..k : SubSeq(chain, 1, k)[i] = chain[i]
    BY <1>1, <2>1
  <2>5. chain[Len(chain)] \in S
    BY <1>1
  <2> QED BY <2>1, <2>3, <2>4, <2>5 DEF Front, Last
<1>3. PICK f \in Seq(S) : f = Front(chain)
  BY <1>2
<1>4. PICK l \in S : l = Last(chain)
  BY <1>2
<1>5. Append(f, l) = chain
  <2>1. Len(Append(f, l)) = Len(chain) /\ Append(f, l) \in Seq(S)
    BY <1>1, <1>2, <1>3
  <2>2. \A i \in 1..Len(chain) : Append(f, l)[i] = chain[i]
    BY <1>1, <1>2, <1>3, <1>4 DEF Last
  <2> QED BY <2>1, <2>2
<1> QED BY <1>2, <1>3, <1>4, <1>5

(* Dropping the last block changes the balance of its asset only.          *)
LEMMA BalanceFront ==
    ASSUME NEW chain \in Seq(BlockT), Len(chain) > 0, NEW x \in Asset, Last(chain).asset # x
    PROVE  AssetBalanceOnChain(Front(chain), x) = AssetBalanceOnChain(chain, x)
<1>1. /\ Front(chain) \in Seq(BlockT) /\ Last(chain) \in BlockT
      /\ Append(Front(chain), Last(chain)) = chain
  BY FrontLast
<1>2. PICK f : f = Front(chain) /\ f \in Seq(BlockT)
  BY <1>1
<1>3. PICK l : l = Last(chain) /\ l \in BlockT
  BY <1>1
<1>4. AssetBalanceOnChain(Append(f, l), x) = AssetBalanceOnChain(f, x)
  BY <1>2, <1>3, BalanceAppend
<1> QED BY <1>1, <1>2, <1>3, <1>4

-----------------------------------------------------------------------------
(* The types of what the ledger prepares *)

CommitT ==
    [account : Account, block : BlockT, expect : LeaseState \cup {None},
     expectDur : Nat, putLease : LeaseRecord \cup {None}]

UndoT ==
    [account : Account, block : BlockT, writes : BOOLEAN,
     lease : LeaseRecord \cup {None}, escrow : Nat]

ViewT ==
    [chain : [Account -> Seq(BlockT)], lease : LeaseRecord \cup {None}, escrow : Nat,
     balance : Balances]

(* The lease state that a commit compares with. *)
Expects(c) ==
    /\ c.block.type \in {"lease_accept", "lease_cancel"} => c.expect = Created
    /\ c.block.type \in {"lease_renew", "lease_settle", "lease_force_settle"}
          => c.expect = Accepted

(* An emission is a natural number.                                        *)
LEMMA EmissionType ==
    ASSUME NEW cost \in Nat, NEW r \in Nat
    PROVE  LeaseEmission(cost, r) \in Nat
<1>1. PICK p \in Nat : p = cost * r
  OBVIOUS
<1>2. CeilDiv(p, 1000) \in Nat
  BY DEF CeilDiv
<1> QED BY <1>1, <1>2 DEF LeaseEmission

(* The emission of all segments is a natural number.                       *)
LEMMA TotalEmissionType ==
    ASSUME NEW lease \in LeaseRecord
    PROVE  LeaseTotalEmission(lease) \in Nat
<1> DEFINE paid == [i \in DOMAIN lease.renewals |->
                      LeaseEmission(LeaseCost(RenewDuration), lease.renewals[i])]
<1>1. /\ lease.renewals \in Seq(Nat) /\ lease.lockedR \in Nat
  BY DEF LeaseRecord
<1>2. DOMAIN lease.renewals = 1..Len(lease.renewals) /\ Len(lease.renewals) \in Nat
  BY <1>1
<1>3. LeaseCost(Duration) \in Nat /\ LeaseCost(RenewDuration) \in Nat
  BY Constants DEF LeaseCost
<1>4. \A i \in DOMAIN lease.renewals : paid[i] \in Nat
  <2> SUFFICES ASSUME NEW i \in DOMAIN lease.renewals PROVE paid[i] \in Nat
    OBVIOUS
  <2>1. PICK r \in Nat : r = lease.renewals[i]
    BY <1>1, <1>2
  <2>2. PICK c \in Nat : c = LeaseCost(RenewDuration)
    BY <1>3
  <2>3. LeaseEmission(c, r) \in Nat
    BY EmissionType
  <2> QED BY <2>1, <2>2, <2>3
<1>5. PICK D : D = DOMAIN lease.renewals
  OBVIOUS
<1>6. PICK f : f = paid
  OBVIOUS
<1>7. IsFiniteSet(D) /\ \A x \in D : f[x] \in Nat /\ f[x] \in Int
  <2>1. PICK k \in Nat : k = Len(lease.renewals)
    BY <1>2
  <2>2. IsFiniteSet(1..k)
    BY FS_Interval
  <2>3. D = 1..k
    BY <1>2, <1>5, <2>1
  <2>4. \A x \in D : f[x] \in Nat
    <3> HIDE DEF paid
    <3> QED BY <1>4, <1>5, <1>6
  <2> QED BY <2>2, <2>3, <2>4
<1>8. SumOver(f, D) \in Nat
  BY <1>7, SumType
<1>9. LeaseTotalEmission(lease) =
        LeaseEmission(LeaseCost(Duration), lease.lockedR) + SumOver(paid, DOMAIN lease.renewals)
  BY DEF LeaseTotalEmission, SumOver
<1>10. LeaseEmission(LeaseCost(Duration), lease.lockedR) \in Nat
  BY <1>1, <1>3, EmissionType
<1> HIDE DEF paid
<1>11. SumOver(paid, DOMAIN lease.renewals) = SumOver(f, D)
  BY <1>5, <1>6
<1> QED BY <1>8, <1>9, <1>10, <1>11

(* The amount the ledger computes for a block.                             *)
LEMMA AmountType ==
    ASSUME NEW v \in ViewT, NEW type \in BlockType, type = "lease_settle" => v.lease # None
    PROVE  Amount(v, type) \in Nat /\ AssetOf(type) \in Asset
<1>1. LeaseCost(Duration) \in Nat /\ LeaseCost(RenewDuration) \in Nat
  BY Constants DEF LeaseCost
<1>2. type = "lease_settle" => LeaseTotalEmission(v.lease) \in Nat
  BY TotalEmissionType DEF ViewT
<1>3. v.escrow \in Nat
  BY DEF ViewT
<1> QED BY <1>1, <1>2, <1>3 DEF Amount, AssetOf, Asset, BlockType

(* The block the ledger computes, when a debit is funded.                  *)
LEMMA MakeBlockType ==
    ASSUME NEW v \in ViewT, NEW a \in Account, NEW type \in BlockType,
           NEW t \in 0..(MaxTime + MaxAttestationSkew),
           type = "lease_settle" => v.lease # None,
           Debits(type) => Amount(v, type) <= v.balance[a][AssetOf(type)]
    PROVE  /\ MakeBlock(v, a, type, t) \in BlockT
           /\ MakeBlock(v, a, type, t).type = type
           /\ MakeBlock(v, a, type, t).asset = AssetOf(type)
           /\ MakeBlock(v, a, type, t).amount = Amount(v, type)
           /\ MakeBlock(v, a, type, t).time = t
           /\ MakeBlock(v, a, type, t).balance =
                IF Debits(type) THEN v.balance[a][AssetOf(type)] - Amount(v, type)
                ELSE v.balance[a][AssetOf(type)] + Amount(v, type)
<1>1. Amount(v, type) \in Nat /\ AssetOf(type) \in Asset
  BY AmountType
<1>2. v.balance[a][AssetOf(type)] \in Nat
  BY <1>1 DEF ViewT, Balances
<1>3. PICK amt, old, x : /\ amt = Amount(v, type) /\ x = AssetOf(type)
                         /\ old = v.balance[a][AssetOf(type)]
  OBVIOUS
<1>4. (IF Debits(type) THEN old - amt ELSE old + amt) \in Nat
  BY <1>1, <1>2, <1>3
<1> QED BY <1>1, <1>2, <1>3, <1>4 DEF MakeBlock, Block, BlockT

(* A lease put back into an earlier state.                                 *)
LEMMA PriorLeaseType ==
    ASSUME NEW lease \in LeaseRecord, NEW target \in LeaseState
    PROVE  /\ PriorLease(lease, target) \in LeaseRecord
           /\ PriorLease(lease, target).state = target
           /\ PriorLease(lease, target).renewals = lease.renewals
BY DEF PriorLease, LeaseRecord

(* The escrow as the record tells it.                                      *)
LEMMA PendingType ==
    ASSUME NEW lease \in LeaseRecord
    PROVE  EscrowPendingOf(lease) \in Nat
<1>1. Len(lease.renewals) \in Nat
  BY DEF LeaseRecord
<1>2. PICK k \in Nat : k = Len(lease.renewals)
  BY <1>1
<1>3. PICK c \in Nat : c = LeaseCost(RenewDuration)
  BY Constants DEF LeaseCost
<1>4. LeaseCost(Duration) \in Nat /\ c * k \in Nat
  BY Constants DEF LeaseCost
<1> QED BY <1>2, <1>3, <1>4 DEF EscrowPendingOf

(* The undo of a frontier block.                                           *)
LEMMA BlockUndoType ==
    ASSUME NEW d \in Db, NEW a \in Account, Len(d.chain[a]) > 0, CanBuildUndo(d, a)
    PROVE  /\ BlockUndo(d, a) \in UndoT
           /\ BlockUndo(d, a).account = a
           /\ BlockUndo(d, a).block = Last(d.chain[a])
           /\ BlockUndo(d, a).writes = (Last(d.chain[a]).type \notin {"receive", "burn"})
           /\ BlockUndo(d, a).lease =
                IF d.lease = None THEN None ELSE RestoreLease(d.lease, Last(d.chain[a]).type)
<1>1. PICK b : b = Last(d.chain[a]) /\ b \in BlockT
  BY FrontLast DEF Db
<1>2. d.lease \in LeaseRecord \cup {None}
  BY DEF Db
<1>3. ASSUME d.lease # None PROVE RestoreLease(d.lease, b.type) \in LeaseRecord \cup {None}
  <2>1. d.lease \in LeaseRecord
    BY <1>2, <1>3
  <2>2. b.type = "lease_renew" => [d.lease EXCEPT !.renewals = Front(@)] \in LeaseRecord
    <3> SUFFICES ASSUME b.type = "lease_renew"
                 PROVE  [d.lease EXCEPT !.renewals = Front(@)] \in LeaseRecord
      OBVIOUS
    <3>1. d.lease.renewals \in Seq(Nat) /\ d.lease.renewals # <<>>
      BY <1>1, <2>1 DEF CanBuildUndo, LeaseRecord
    <3>2. Len(d.lease.renewals) > 0
      BY <3>1
    <3>3. Front(d.lease.renewals) \in Seq(Nat)
      BY <3>1, <3>2, FrontLast
    <3> QED BY <2>1, <3>3 DEF LeaseRecord
  <2>3. PriorLease(d.lease, Created) \in LeaseRecord /\ PriorLease(d.lease, Accepted) \in LeaseRecord
    BY <2>1, PriorLeaseType DEF LeaseState
  <2> QED BY <2>1, <2>2, <2>3 DEF RestoreLease
<1>4. d.lease # None => EscrowPendingOf(d.lease) \in Nat
  BY <1>2, PendingType
<1> QED BY <1>1, <1>2, <1>3, <1>4 DEF BlockUndo, UndoT

(* The store after an undo.                                                *)
LEMMA ApplyUndoType ==
    ASSUME NEW d \in Db, NEW u \in UndoT, Len(d.chain[u.account]) > 0
    PROVE  /\ ApplyUndo(d, u).chain = [d.chain EXCEPT ![u.account] = Front(@)]
           /\ ApplyUndo(d, u).chain \in [Account -> Seq(BlockT)]
           /\ ApplyUndo(d, u).lease = IF u.writes THEN u.lease ELSE d.lease
           /\ ApplyUndo(d, u).lease \in LeaseRecord \cup {None}
           /\ u.block.type # "lease_renew" => ApplyUndo(d, u).escrow \in Nat
           /\ CanApplyUndo(d, u) => ApplyUndo(d, u) \in Db
<1>1. d.chain \in [Account -> Seq(BlockT)] /\ u.account \in Account
  BY DEF Db, UndoT
<1>2. Front(d.chain[u.account]) \in Seq(BlockT)
  BY <1>1, FrontLast
<1>3. /\ ApplyUndo(d, u).chain = [d.chain EXCEPT ![u.account] = Front(@)]
      /\ ApplyUndo(d, u).chain \in [Account -> Seq(BlockT)]
  BY <1>1, <1>2 DEF ApplyUndo
<1>4. /\ ApplyUndo(d, u).lease = IF u.writes THEN u.lease ELSE d.lease
      /\ ApplyUndo(d, u).lease \in LeaseRecord \cup {None}
  BY DEF ApplyUndo, Db, UndoT
<1>5. d.escrow \in Nat /\ u.escrow \in Nat /\ u.block.amount \in Nat
  BY DEF Db, UndoT, BlockT
<1>6. u.block.type # "lease_renew" => ApplyUndo(d, u).escrow \in Nat
  BY <1>5 DEF ApplyUndo
<1>7. CanApplyUndo(d, u) => ApplyUndo(d, u).escrow \in Nat
  BY <1>5 DEF ApplyUndo, CanApplyUndo
<1>8. ApplyUndo(d, u) = [chain |-> ApplyUndo(d, u).chain, lease |-> ApplyUndo(d, u).lease,
                         escrow |-> ApplyUndo(d, u).escrow]
  BY DEF ApplyUndo
<1> QED BY <1>3, <1>4, <1>6, <1>7, <1>8 DEF Db

(* A view of the store.                                                    *)
LEMMA ViewType ==
    ASSUME NEW d \in Db, NEW bal \in Balances
    PROVE  /\ View(d, bal) \in ViewT
           /\ View(d, bal).chain = d.chain /\ View(d, bal).lease = d.lease
           /\ View(d, bal).escrow = d.escrow /\ View(d, bal).balance = bal
BY DEF View, ViewT, Db

(* The balances read off a chain.                                          *)
LEMMA OnChainType ==
    ASSUME NEW chain \in Seq(BlockT)
    PROVE  AssetBalancesOnChain(chain) \in [Asset -> Nat]
BY BalanceType DEF AssetBalancesOnChain, Asset

(* The overlay of a swap is well typed.                                    *)
LEMMA OverlayOnType ==
    ASSUME NEW d0 \in Db, NEW bal0 \in Balances, NEW u \in UndoT, Len(d0.chain[u.account]) > 0
    PROVE  OverlayOn(d0, bal0, u) \in ViewT
<1> DEFINE d == ApplyUndo(d0, u)
           e == IF u.block.type = "lease_renew" THEN d0.escrow ELSE d.escrow
           bal == [bal0 EXCEPT ![u.account] = AssetBalancesOnChain(d.chain[u.account])]
<1>1. /\ d = [chain |-> d.chain, lease |-> d.lease, escrow |-> d.escrow]
      /\ d.chain \in [Account -> Seq(BlockT)] /\ d.lease \in LeaseRecord \cup {None}
  <2>1. d = [chain |-> d.chain, lease |-> d.lease, escrow |-> d.escrow]
    BY DEF ApplyUndo
  <2>2. d.chain \in [Account -> Seq(BlockT)] /\ d.lease \in LeaseRecord \cup {None}
    BY ApplyUndoType
  <2> QED BY <2>1, <2>2
<1>2. e \in Nat
  BY ApplyUndoType DEF Db
<1>3. u.account \in Account
  BY DEF UndoT
<1> HIDE DEF d
<1>4. bal \in Balances
  BY <1>1, <1>3, OnChainType DEF Balances
<1>5. [d EXCEPT !.escrow = e] \in Db
  <2> HIDE DEF e
  <2> QED BY <1>1, <1>2 DEF Db
<1>6. OverlayOn(d0, bal0, u) = View([d EXCEPT !.escrow = e], bal)
  BY DEF OverlayOn, d
<1> QED BY <1>4, <1>5, <1>6, ViewType

(* The overlay on the store as it is.                                      *)
LEMMA OverlayType ==
    ASSUME db \in Db, balance \in Balances, NEW u \in UndoT, Len(db.chain[u.account]) > 0
    PROVE  Overlay(u) \in ViewT
BY OverlayOnType DEF Overlay

(* A lease's duration and expiry are natural numbers.                      *)
LEMMA DurationType ==
    ASSUME NEW lease \in LeaseRecord
    PROVE  EffectiveDurationSecs(lease) \in Nat /\ EffectiveExpiry(lease) \in Nat
<1>1. PICK k \in Nat : k = Len(lease.renewals)
  BY DEF LeaseRecord
<1>2. RenewDuration * k \in Nat
  BY Constants
<1>3. lease.startTime \in Nat
  BY DEF LeaseRecord
<1> QED BY <1>1, <1>2, <1>3, Constants DEF EffectiveDurationSecs, EffectiveExpiry

(* The record of a new lease.                                              *)
LEMMA NewLeaseType == NewLease \in LeaseRecord /\ NewLease.state = Created
BY DEF NewLease, LeaseRecord, LeaseState, Created

(* The write prepared for a valid block.                                   *)
LEMMA BlockCommitType ==
    ASSUME NEW v \in ViewT, NEW a \in Account, NEW b \in BlockT,
           ValidFor(v, b) \/ b.type = "lease_cancel"
    PROVE  /\ BlockCommit(v, a, b) \in CommitT
           /\ BlockCommit(v, a, b).account = a
           /\ BlockCommit(v, a, b).block = b
           /\ Expects(BlockCommit(v, a, b))
<1> DEFINE c == BlockCommit(v, a, b)
<1>0. b.type \in BlockType /\ b.time \in 0..(MaxTime + MaxAttestationSkew)
  BY DEF BlockT
<1>1. b.type \in {"lease_renew", "lease_settle", "lease_force_settle"} => v.lease # None
  BY DEF ValidFor, ValidLeaseRenew, ValidLeaseSettle, ValidLeaseForceSettle
<1>2. v.lease # None => v.lease \in LeaseRecord
  BY DEF ViewT
<1>3. c.account = a /\ c.block = b
  BY DEF BlockCommit
<1>4. Expects(c) /\ c.expect \in LeaseState \cup {None}
  BY <1>0, <1>3 DEF BlockCommit, Expects, LeaseState, BlockType
<1>5. c.expectDur \in Nat
  BY <1>1, <1>2, DurationType DEF BlockCommit
<1>6. b.time \in Nat /\ RateAt(b.time) \in Nat
  BY <1>0, Constants
<1>7. [NewLease EXCEPT !.state = Accepted, !.startTime = b.time, !.lockedR = RateAt(b.time)]
         \in LeaseRecord
  BY <1>6, NewLeaseType DEF LeaseRecord, LeaseState
<1>8. b.type = "lease_renew" =>
         [v.lease EXCEPT !.renewals = Append(@, RateAt(b.time))] \in LeaseRecord
  <2> SUFFICES ASSUME b.type = "lease_renew"
               PROVE  [v.lease EXCEPT !.renewals = Append(@, RateAt(b.time))] \in LeaseRecord
    OBVIOUS
  <2>1. PICK r \in Nat : r = RateAt(b.time)
    BY <1>6
  <2>2. PICK l \in LeaseRecord : l = v.lease
    BY <1>1, <1>2
  <2>3. l.renewals \in Seq(Nat)
    BY DEF LeaseRecord
  <2>4. Append(l.renewals, r) \in Seq(Nat)
    BY <2>3
  <2>5. [l EXCEPT !.renewals = Append(@, r)] \in LeaseRecord
    BY <2>4 DEF LeaseRecord
  <2> QED BY <2>1, <2>2, <2>5
<1>9. c.putLease \in LeaseRecord \cup {None}
  BY <1>7, <1>8, NewLeaseType DEF BlockCommit
<1> QED BY <1>3, <1>4, <1>5, <1>9 DEF CommitT, BlockCommit

(* The store after a commit.                                               *)
LEMMA ApplyCommitType ==
    ASSUME NEW d \in Db, NEW c \in CommitT, Expects(c), CanCommit(d, c)
    PROVE  /\ ApplyCommit(d, c) \in Db
           /\ ApplyCommit(d, c).chain = [d.chain EXCEPT ![c.account] = Append(@, c.block)]
           /\ ApplyCommit(d, c).lease =
                IF c.putLease # None THEN c.putLease ELSE Ended(d.lease, c.block.type)
<1> DEFINE e == ApplyCommit(d, c)
<1>1. /\ d.chain \in [Account -> Seq(BlockT)] /\ c.account \in Account /\ c.block \in BlockT
      /\ d.lease \in LeaseRecord \cup {None} /\ d.escrow \in Nat
      /\ c.putLease \in LeaseRecord \cup {None}
  BY DEF Db, CommitT
<1>2. Append(d.chain[c.account], c.block) \in Seq(BlockT)
  BY <1>1
<1>3. /\ e.chain = [d.chain EXCEPT ![c.account] = Append(@, c.block)]
      /\ e.chain \in [Account -> Seq(BlockT)]
  BY <1>1, <1>2 DEF ApplyCommit
<1>4. c.block.type \in {"lease_settle", "lease_cancel", "lease_force_settle"} => d.lease # None
  BY Constants DEF CanCommit, ExpectLease, Expects, LeaseState
<1>5. Ended(d.lease, c.block.type) \in LeaseRecord \cup {None}
  BY <1>1, <1>4 DEF Ended, LeaseRecord, LeaseState
<1>6. e.lease = (IF c.putLease # None THEN c.putLease ELSE Ended(d.lease, c.block.type))
  BY DEF ApplyCommit
<1>7. e.escrow \in Nat
  BY <1>1 DEF ApplyCommit, BlockT
<1>8. e = [chain |-> e.chain, lease |-> e.lease, escrow |-> e.escrow]
  BY DEF ApplyCommit
<1> QED BY <1>1, <1>3, <1>5, <1>6, <1>7, <1>8 DEF Db

-----------------------------------------------------------------------------
(* The invariant *)

StagedT == [block : BlockT, height : Nat]

OpT == [commit : CommitT, undo : UndoT \cup {None}]

ArchT == [pc : {"scan", "delete", "put"}, lease : LeaseRecord \cup {None}]

CancelT ==
    [chain : Seq(BlockT), final : Nat, undo : UndoT \cup {None}, inOrder : BOOLEAN]

(* What is prepared under an account's lock is still what the account's    *)
(* chain asks for when it is written.                                      *)
OpOK(a) ==
    op[a] # None =>
        /\ op[a].commit.account = a
        /\ Expects(op[a].commit)
        /\ op[a].undo # None =>
              /\ op[a].undo.account = a
              /\ op[a].undo.block = Last(db.chain[a])
              /\ finalHeight[a] = Len(db.chain[a]) - 1

(* A cancellation about to unwind the accept holds the consumer's lock and *)
(* read a final height below the frontier of the chain it read.            *)
CancelOK ==
    cancel # None =>
        /\ op[Consumer] = None
        /\ 1 <= cancel.final /\ cancel.final < Len(cancel.chain)
        /\ Last(cancel.chain).type = "lease_accept"
        /\ finalHeight[Provider] <= Len(db.chain[Provider])
        /\ cancel.undo # None =>
              /\ cancel.undo.account = Consumer
              /\ cancel.undo.block = Last(db.chain[Consumer])
              /\ finalHeight[Consumer] = Len(db.chain[Consumer]) - 1

Types ==
    /\ db \in Db
    /\ balance \in Balances
    /\ finalHeight \in [Account -> Nat]
    /\ staged \in [Account -> StagedT \cup {None}]
    /\ op \in [Account -> OpT \cup {None}]
    /\ cancel \in CancelT \cup {None}
    /\ arch \in ArchT /\ (arch.pc # "scan" => arch.lease # None)
    /\ now \in (MaxAttestationSkew + 1)..MaxTime
    /\ habit \in Habits

Heights ==
    /\ \A a \in Account : /\ 1 <= finalHeight[a] /\ finalHeight[a] <= Len(db.chain[a]) + 1
                         /\ Len(db.chain[a]) > 0
    /\ finalHeight[Consumer] <= Len(db.chain[Consumer])

LeaseInv ==
    /\ Types
    /\ Heights
    /\ \A a \in Account : OpOK(a)
    /\ CancelOK
    /\ BalancesSurviveRestart

(* The balances of a ledger whose chain of account a changes. *)
LEMMA BalanceStep ==
    ASSUME NEW d \in Db, NEW bal \in Balances, bal = RebuildAssetBalances(d),
           NEW e \in Db, NEW a \in Account,
           \A x \in Account : x # a => e.chain[x] = d.chain[x],
           NEW new \in Balances, new[a] = AssetBalancesOnChain(e.chain[a]),
           \A x \in Account : x # a => new[x] = bal[x]
    PROVE  new = RebuildAssetBalances(e)
<1>1. \A x \in Account : new[x] = AssetBalancesOnChain(e.chain[x])
  BY DEF RebuildAssetBalances
<1>2. new = [x \in Account |-> new[x]]
  BY DEF Balances
<1> QED BY <1>1, <1>2 DEF RebuildAssetBalances

(* Setting the balance of the block's asset is enough after a commit ... *)
LEMMA CommitBalanceIs ==
    ASSUME NEW d \in Db, NEW bal \in Balances, bal = RebuildAssetBalances(d),
           NEW c \in CommitT
    PROVE  CommitBalance(bal, c) =
             [bal EXCEPT ![c.account] = AssetBalancesOnChain(Append(d.chain[c.account], c.block))]
<1>1. PICK a \in Account : a = c.account
  BY DEF CommitT
<1>2. PICK b \in BlockT : b = c.block
  BY DEF CommitT
<1>3. PICK chain \in Seq(BlockT) : chain = d.chain[a]
  BY DEF Db
<1>4. bal[a] = AssetBalancesOnChain(chain) /\ bal[a] \in [Asset -> Nat]
  BY <1>3 DEF RebuildAssetBalances, Balances
<1>5. b.asset \in Asset
  BY DEF BlockT
<1>6. [bal[a] EXCEPT ![b.asset] = b.balance] = AssetBalancesOnChain(Append(chain, b))
  <2> DEFINE f == [bal[a] EXCEPT ![b.asset] = b.balance]
             g == AssetBalancesOnChain(Append(chain, b))
  <2>1. \A x \in Asset : bal[a][x] = AssetBalanceOnChain(chain, x)
    BY <1>4 DEF AssetBalancesOnChain, Asset
  <2>2. \A x \in Asset : g[x] = AssetBalanceOnChain(Append(chain, b), x)
    BY DEF AssetBalancesOnChain, Asset
  <2>3. \A x \in Asset : f[x] = g[x]
    BY <1>4, <1>5, <2>1, <2>2, BalanceAppend
  <2>4. f = [x \in Asset |-> f[x]]
    BY <1>4
  <2>5. g = [x \in Asset |-> g[x]]
    BY DEF AssetBalancesOnChain, Asset
  <2> QED BY <2>3, <2>4, <2>5
<1>7. CommitBalance(bal, c) = [bal EXCEPT ![a] = [bal[a] EXCEPT ![b.asset] = b.balance]]
  BY <1>1, <1>2 DEF CommitBalance, Balances
<1> QED BY <1>1, <1>2, <1>3, <1>6, <1>7

(* ... and after an undo. *)
LEMMA UndoBalanceIs ==
    ASSUME NEW d \in Db, NEW bal \in Balances, bal = RebuildAssetBalances(d),
           NEW u \in UndoT, Len(d.chain[u.account]) > 0, u.block = Last(d.chain[u.account])
    PROVE  UndoBalance(bal, u, d) =
             [bal EXCEPT ![u.account] = AssetBalancesOnChain(Front(d.chain[u.account]))]
<1>1. PICK a \in Account : a = u.account
  BY DEF UndoT
<1>2. PICK b \in BlockT : b = u.block
  BY DEF UndoT
<1>3. PICK chain \in Seq(BlockT) : chain = d.chain[a]
  BY DEF Db
<1>4. bal[a] = AssetBalancesOnChain(chain) /\ bal[a] \in [Asset -> Nat]
  BY <1>3 DEF RebuildAssetBalances, Balances
<1>5. b.asset \in Asset /\ Len(chain) > 0 /\ b = Last(chain)
  BY <1>1, <1>2, <1>3 DEF BlockT
<1>6. [bal[a] EXCEPT ![b.asset] = AssetBalanceOnChain(Front(chain), b.asset)]
         = AssetBalancesOnChain(Front(chain))
  <2> DEFINE f == [bal[a] EXCEPT ![b.asset] = AssetBalanceOnChain(Front(chain), b.asset)]
             g == AssetBalancesOnChain(Front(chain))
  <2>1. \A x \in Asset : bal[a][x] = AssetBalanceOnChain(chain, x)
    BY <1>4 DEF AssetBalancesOnChain, Asset
  <2>2. \A x \in Asset : g[x] = AssetBalanceOnChain(Front(chain), x)
    BY DEF AssetBalancesOnChain, Asset
  <2>3. \A x \in Asset : x # b.asset => AssetBalanceOnChain(Front(chain), x) = AssetBalanceOnChain(chain, x)
    BY <1>5, BalanceFront
  <2>4. \A x \in Asset : f[x] = g[x]
    BY <1>4, <1>5, <2>1, <2>2, <2>3
  <2>5. f = [x \in Asset |-> f[x]]
    BY <1>4
  <2>6. g = [x \in Asset |-> g[x]]
    BY DEF AssetBalancesOnChain, Asset
  <2> QED BY <2>4, <2>5, <2>6
<1>7. UndoBalance(bal, u, d) =
        [bal EXCEPT ![a] = [bal[a] EXCEPT ![b.asset] = AssetBalanceOnChain(Front(chain), b.asset)]]
  BY <1>1, <1>2, <1>3 DEF UndoBalance, Balances
<1> QED BY <1>1, <1>3, <1>6, <1>7
(* A commit leaves in memory what a restart would compute ... *)
LEMMA CommitKeeps ==
    ASSUME NEW d \in Db, NEW bal \in Balances, bal = RebuildAssetBalances(d),
           NEW c \in CommitT, Expects(c), CanCommit(d, c)
    PROVE  /\ CommitBalance(bal, c) \in Balances
           /\ CommitBalance(bal, c) = RebuildAssetBalances(ApplyCommit(d, c))
           /\ Len(ApplyCommit(d, c).chain[c.account]) = Len(d.chain[c.account]) + 1
<1>1. PICK a \in Account : a = c.account
  BY DEF CommitT
<1>2. PICK e \in Db : /\ e = ApplyCommit(d, c)
                      /\ e.chain = [d.chain EXCEPT ![a] = Append(@, c.block)]
  BY <1>1, ApplyCommitType
<1>3. d.chain \in [Account -> Seq(BlockT)] /\ c.block \in BlockT
  BY DEF Db, CommitT
<1>4. e.chain[a] = Append(d.chain[a], c.block)
  BY <1>2, <1>3
<1>o. \A x \in Account : x # a => e.chain[x] = d.chain[x]
  BY <1>2, <1>3
<1>5. Len(e.chain[a]) = Len(d.chain[a]) + 1
  BY <1>3, <1>4
<1>6. AssetBalancesOnChain(e.chain[a]) \in [Asset -> Nat]
  BY OnChainType DEF Db
<1>7. PICK new : new = CommitBalance(bal, c)
  OBVIOUS
<1>8. new = [bal EXCEPT ![a] = AssetBalancesOnChain(e.chain[a])]
  BY <1>1, <1>4, <1>7, CommitBalanceIs
<1>9. /\ new \in Balances /\ new[a] = AssetBalancesOnChain(e.chain[a])
      /\ \A x \in Account : x # a => new[x] = bal[x]
  BY <1>6, <1>8 DEF Balances
<1>10. new = RebuildAssetBalances(e)
  BY <1>o, <1>9, BalanceStep
<1> QED BY <1>1, <1>2, <1>5, <1>7, <1>9, <1>10

(* ... and so does an undo. *)
LEMMA UndoKeeps ==
    ASSUME NEW d \in Db, NEW bal \in Balances, bal = RebuildAssetBalances(d),
           NEW u \in UndoT, Len(d.chain[u.account]) > 0, u.block = Last(d.chain[u.account]),
           CanApplyUndo(d, u)
    PROVE  /\ UndoBalance(bal, u, d) \in Balances
           /\ UndoBalance(bal, u, d) = RebuildAssetBalances(ApplyUndo(d, u))
           /\ Len(ApplyUndo(d, u).chain[u.account]) = Len(d.chain[u.account]) - 1
<1>1. PICK a \in Account : a = u.account
  BY DEF UndoT
<1>2. PICK e \in Db : /\ e = ApplyUndo(d, u)
                      /\ e.chain = [d.chain EXCEPT ![a] = Front(@)]
  BY <1>1, ApplyUndoType
<1>3. d.chain \in [Account -> Seq(BlockT)]
  BY DEF Db
<1>4. /\ e.chain[a] = Front(d.chain[a])
      /\ \A x \in Account : x # a => e.chain[x] = d.chain[x]
  BY <1>2, <1>3
<1>5. Len(e.chain[a]) = Len(d.chain[a]) - 1
  <2>1. PICK s \in Seq(BlockT) : s = d.chain[a] /\ Len(s) > 0
    BY <1>1, <1>3
  <2>2. Len(Front(s)) = Len(s) - 1
    BY <2>1, FrontLast
  <2> QED BY <1>4, <2>1, <2>2
<1>6. AssetBalancesOnChain(e.chain[a]) \in [Asset -> Nat]
  BY OnChainType DEF Db
<1>7. PICK new : new = UndoBalance(bal, u, d)
  OBVIOUS
<1>8. new = [bal EXCEPT ![a] = AssetBalancesOnChain(e.chain[a])]
  BY <1>1, <1>4, <1>7, UndoBalanceIs
<1>9. /\ new \in Balances /\ new[a] = AssetBalancesOnChain(e.chain[a])
      /\ \A x \in Account : x # a => new[x] = bal[x]
  BY <1>6, <1>8 DEF Balances
<1>10. new = RebuildAssetBalances(e)
  BY <1>4, <1>9, BalanceStep
<1> QED BY <1>1, <1>2, <1>5, <1>7, <1>9, <1>10

-----------------------------------------------------------------------------
(* Steps *)

(* What a validator reads is well typed, the overlay of a swap included.   *)
LEMMA ReadViewType == ASSUME LeaseInv PROVE ReadView \in ViewT
<1> USE DEF LeaseInv, Types
<1>1. CASE Swapping = {}
  BY <1>1, ViewType DEF ReadView
<1>2. CASE Swapping # {}
  <2>1. PICK a \in Account : a = (CHOOSE x \in Swapping : TRUE) /\ a \in Swapping
    BY <1>2 DEF Swapping
  <2>2. UndoOf(a) # None
    BY <2>1 DEF Swapping
  <2>3. PICK u \in UndoT : u = UndoOf(a) /\ u.account = a
    <3>1. CASE op[a] # None
      <4>1. op[a] \in OpT /\ UndoOf(a) = op[a].undo /\ OpOK(a)
        BY <3>1 DEF UndoOf
      <4>2. op[a].undo \in UndoT
        BY <2>2, <4>1 DEF OpT
      <4> QED BY <2>2, <3>1, <4>1, <4>2 DEF OpOK
    <3>2. CASE op[a] = None
      <4>1. a = Consumer /\ cancel # None /\ UndoOf(a) = cancel.undo
        BY <2>2, <3>2 DEF UndoOf
      <4> QED BY <2>2, <4>1 DEF CancelT, CancelOK
    <3> QED BY <3>1, <3>2
  <2>4. u.account = a
    BY <2>3
  <2>5. Len(db.chain[a]) > 0
    BY DEF Heights, Db
  <2>6. Overlay(u) \in ViewT
    BY <2>4, <2>5, OverlayType
  <2> QED BY <1>2, <2>1, <2>3, <2>6 DEF ReadView
<1> QED BY <1>1, <1>2

(* A block that passes validation and the write it leaves to be committed. *)
LEMMA ValidatedType ==
    ASSUME NEW v \in ViewT, NEW a \in Account, NEW type \in TypesOf(a),
           NEW t \in 0..(MaxTime + MaxAttestationSkew),
           type = "lease_settle" => v.lease # None,
           NEW b, b = MakeBlock(v, a, type, t), Valid(v, a, b)
    PROVE  /\ b \in BlockT /\ b.type = type
           /\ BlockCommit(v, a, b) \in CommitT
           /\ BlockCommit(v, a, b).account = a
           /\ BlockCommit(v, a, b).block = b
           /\ Expects(BlockCommit(v, a, b))
<1>1. type \in BlockType
  BY DEF TypesOf, BlockType
<1>2. b.type = type /\ b.amount = Amount(v, type) /\ b.asset = AssetOf(type)
  BY DEF MakeBlock, Block
<1>3. Debits(type) => Amount(v, type) <= v.balance[a][AssetOf(type)]
  BY <1>2 DEF Valid
<1>4. b \in BlockT
  BY <1>1, <1>3, MakeBlockType
<1>5. ValidFor(v, b)
  BY DEF Valid
<1> QED BY <1>2, <1>4, <1>5, BlockCommitType

(* The times a live block may carry lie within the bounds. *)
LEMMA TimesType ==
    ASSUME LeaseInv, NEW type, NEW t \in Times(type)
    PROVE  t \in 0..(MaxTime + MaxAttestationSkew)
BY Constants DEF LeaseInv, Types, Times

(* Preparing a write keeps the invariant. *)
LEMMA OpStep ==
    ASSUME LeaseInv, NEW a \in Account, Idle(a),
           NEW c \in CommitT, c.account = a, Expects(c),
           NEW u \in UndoT \cup {None},
           u # None => /\ u.account = a /\ u.block = Last(db.chain[a])
                       /\ finalHeight[a] = Len(db.chain[a]) - 1,
           op' = [op EXCEPT ![a] = [commit |-> c, undo |-> u]],
           UNCHANGED <<db, balance, finalHeight, staged, cancel, arch, now, habit>>
    PROVE  LeaseInv'
<1>1. [commit |-> c, undo |-> u] \in OpT
  BY DEF OpT
<1>2. Types' /\ Heights' /\ BalancesSurviveRestart'
  BY <1>1 DEF LeaseInv, Types, Heights, BalancesSurviveRestart
<1>3. ASSUME NEW x \in Account PROVE OpOK(x)'
  <2>1. CASE x = a
    BY <2>1 DEF OpOK, LeaseInv, Types
  <2>2. CASE x # a
    BY <2>2 DEF OpOK, LeaseInv, Types
  <2> QED BY <2>1, <2>2
<1>4. CancelOK'
  BY DEF LeaseInv, Types, CancelOK, Idle, Account
<1> QED BY <1>2, <1>3, <1>4 DEF LeaseInv

(* The first half of addBlock keeps LeaseInv.                              *)
LEMMA ValidateOK ==
    ASSUME LeaseInv, NEW a \in Account, NEW type \in TypesOf(a), NEW t \in Times(type),
           Validate(a, type, t)
    PROVE  LeaseInv'
<1>1. PICK v \in ViewT : v = ReadView
  BY ReadViewType
<1>2. PICK b : b = MakeBlock(v, a, type, t)
  OBVIOUS
<1>3. /\ Valid(v, a, b) /\ (type = "lease_settle" => v.lease # None) /\ Idle(a)
      /\ op' = [op EXCEPT ![a] = [commit |-> BlockCommit(v, a, b), undo |-> None]]
      /\ UNCHANGED <<db, balance, finalHeight, staged, cancel, arch, now, habit>>
  BY <1>1, <1>2 DEF Validate
<1>4. t \in 0..(MaxTime + MaxAttestationSkew)
  BY TimesType
<1>5. PICK c \in CommitT : c = BlockCommit(v, a, b) /\ c.account = a /\ Expects(c)
  BY <1>2, <1>3, <1>4, ValidatedType
<1> QED BY <1>3, <1>5, OpStep

(* Staging a fork keeps LeaseInv.                                          *)
LEMMA StageOK ==
    ASSUME LeaseInv, NEW a \in Account, NEW type \in TypesOf(a), NEW t \in Times(type),
           Stage(a, type, t)
    PROVE  LeaseInv'
<1> USE DEF LeaseInv, Types
<1>1. /\ CanBuildUndo(db, a) /\ CanApplyUndo(db, BlockUndo(db, a))
      /\ UNCHANGED <<db, balance, finalHeight, op, cancel, arch, now, habit>>
  BY DEF Stage
<1>2. Len(db.chain[a]) > 0 /\ Len(db.chain[a]) \in Nat
  BY DEF Heights, Db
<1>3. PICK u \in UndoT : u = BlockUndo(db, a) /\ u.account = a
  BY <1>1, <1>2, BlockUndoType
<1>4. PICK v \in ViewT : v = Overlay(u)
  BY <1>2, <1>3, OverlayType
<1>5. PICK b : b = MakeBlock(v, a, type, t)
  OBVIOUS
<1>6. /\ type = "lease_settle" => v.lease # None
      /\ ValidStaged(b, v.balance[a][b.asset])
      /\ staged' = [staged EXCEPT ![a] = [block |-> b, height |-> Len(db.chain[a])]]
  BY <1>3, <1>4, <1>5 DEF Stage
<1>7. t \in 0..(MaxTime + MaxAttestationSkew)
  BY TimesType
<1>8. type \in BlockType
  BY DEF TypesOf, BlockType
<1>9. b.type = type /\ b.amount = Amount(v, type) /\ b.asset = AssetOf(type)
  BY <1>5 DEF MakeBlock, Block
<1>10. Debits(type) => Amount(v, type) <= v.balance[a][AssetOf(type)]
  BY <1>6, <1>9 DEF ValidStaged, Debits
<1>11. b \in BlockT
  BY <1>5, <1>6, <1>7, <1>8, <1>10, MakeBlockType
<1>12. [block |-> b, height |-> Len(db.chain[a])] \in StagedT
  BY <1>2, <1>11 DEF StagedT
<1>13. staged' \in [Account -> StagedT \cup {None}]
  BY <1>6, <1>12
<1>14. \A x \in Account : OpOK(x)'
  BY <1>1 DEF OpOK
<1>15. CancelOK'
  BY <1>1 DEF CancelOK
<1> QED BY <1>1, <1>13, <1>14, <1>15 DEF Heights, BalancesSurviveRestart

(* The first half of a swap keeps LeaseInv.                                *)
LEMMA SwapBlockOK ==
    ASSUME LeaseInv, NEW a \in Account, SwapBlock(a)
    PROVE  LeaseInv'
<1>0. db \in Db /\ balance \in Balances /\ staged \in [Account -> StagedT \cup {None}]
  BY DEF LeaseInv, Types
<1>1. /\ CanBuildUndo(db, a) /\ staged[a] # None /\ Idle(a)
      /\ finalHeight[a] = Len(db.chain[a]) - 1
      /\ UNCHANGED <<db, balance, finalHeight, staged, cancel, arch, now, habit>>
  BY DEF SwapBlock
<1>2. Len(db.chain[a]) > 0
  BY <1>0 DEF LeaseInv, Heights, Types, Db
<1>3. PICK u \in UndoT : u = BlockUndo(db, a) /\ u.account = a /\ u.block = Last(db.chain[a])
  BY <1>0, <1>1, <1>2, BlockUndoType
<1>4. PICK v \in ViewT : v = Overlay(u)
  BY <1>0, <1>2, <1>3, OverlayType
<1>5. PICK b \in BlockT : b = staged[a].block
  BY <1>0, <1>1 DEF StagedT
<1>6. Valid(v, a, b) /\ op' = [op EXCEPT ![a] = [commit |-> BlockCommit(v, a, b), undo |-> u]]
  BY <1>3, <1>4, <1>5 DEF SwapBlock
<1>7. PICK c \in CommitT : c = BlockCommit(v, a, b) /\ c.account = a /\ Expects(c)
  BY <1>6, BlockCommitType DEF Valid
<1> QED BY <1>1, <1>3, <1>6, <1>7, OpStep

(* A cancellation that reads the accept and its final height.              *)
LEMMA PendingCancelOK ==
    ASSUME LeaseInv, NEW lease, CanUnwindAccept(lease), Idle(Consumer),
           NEW inOrder \in BOOLEAN, NEW u \in UndoT \cup {None},
           u # None => /\ u.account = Consumer /\ u.block = Last(db.chain[Consumer])
                       /\ finalHeight[Consumer] = Len(db.chain[Consumer]) - 1,
           cancel' = PendingCancel(u, inOrder),
           UNCHANGED <<db, balance, finalHeight, staged, op, arch, now, habit>>
    PROVE  LeaseInv'
<1>0. db.chain[Provider] \in Seq(BlockT) /\ finalHeight[Provider] \in Nat
      /\ 1 <= finalHeight[Provider]
  BY DEF LeaseInv, Types, Heights, Db, Account
<1>1. PICK s \in Seq(BlockT) : s = db.chain[Provider]
  BY <1>0
<1>2. PICK f \in Nat : f = finalHeight[Provider] /\ 1 <= f
  BY <1>0
<1>3. cancel' = [chain |-> s, final |-> f, undo |-> u, inOrder |-> inOrder]
  BY <1>1, <1>2 DEF PendingCancel
<1>4. cancel' \in CancelT
  BY <1>3 DEF CancelT
<1>5. f < Len(s) /\ Last(s).type = "lease_accept" /\ Len(s) \in Nat
  BY <1>1, <1>2 DEF CanUnwindAccept
<1>6. CancelOK'
  BY <1>1, <1>2, <1>3, <1>5 DEF CancelOK, Idle
<1>7. \A x \in Account : OpOK(x)'
  BY DEF LeaseInv, OpOK
<1> QED BY <1>4, <1>6, <1>7 DEF LeaseInv, Types, Heights, BalancesSurviveRestart

(* A cancellation that begins keeps LeaseInv ...                           *)
LEMMA CancelWinsOK ==
    ASSUME LeaseInv, NEW inOrder \in BOOLEAN, CancelWins(inOrder)
    PROVE  LeaseInv'
<1>1. PICK lease : CanUnwindAccept(lease)
  BY DEF CancelWins
<1> QED BY <1>1, PendingCancelOK DEF CancelWins

(* ... and so does one that is the winner of a vote.                       *)
LEMMA SwapCancelWinsOK ==
    ASSUME LeaseInv, SwapCancelWins
    PROVE  LeaseInv'
<1>0. db \in Db /\ Consumer \in Account /\ Len(db.chain[Consumer]) > 0
  BY DEF LeaseInv, Types, Heights, Account
<1>1. /\ CanBuildUndo(db, Consumer) /\ Idle(Consumer)
      /\ finalHeight[Consumer] = Len(db.chain[Consumer]) - 1
      /\ UNCHANGED <<db, balance, finalHeight, staged, op, arch, now, habit>>
  BY DEF SwapCancelWins
<1>2. PICK u \in UndoT : /\ u = BlockUndo(db, Consumer) /\ u.account = Consumer
                         /\ u.block = Last(db.chain[Consumer])
  BY <1>0, <1>1, BlockUndoType
<1>3. PICK lease : CanUnwindAccept(lease)
  BY DEF SwapCancelWins
<1>4. cancel' = PendingCancel(u, TRUE)
  BY <1>2 DEF SwapCancelWins
<1> QED BY <1>1, <1>2, <1>3, <1>4, PendingCancelOK

(* The step that unwinds the accept does so.                               *)
Unwinds ==
    Idle(Provider) /\ db.chain[Provider] = cancel.chain /\ CanBuildUndo(db, Provider)

(* Unwinding an accept takes the provider's frontier, which was above the  *)
(* final height that was read.                                             *)
LEMMA UnwindFacts ==
    ASSUME LeaseInv, UnwindAccept, Unwinds
    PROVE  /\ db' \in Db /\ balance' \in Balances
           /\ db'.chain = [db.chain EXCEPT ![Provider] = Front(@)]
           /\ Len(db'.chain[Provider]) = Len(db.chain[Provider]) - 1
           /\ Len(db'.chain[Provider]) > 0
           /\ cancel.final < Len(db.chain[Provider])
           /\ finalHeight[Provider] <= Len(db'.chain[Provider]) + 1
           /\ BalancesSurviveRestart'
           /\ balance'[Consumer] = balance[Consumer]
           /\ db'.escrow = db.escrow
           /\ db.lease # None
           /\ db'.lease = PriorLease(db.lease, Created)
<1>0. db \in Db /\ balance \in Balances /\ balance = RebuildAssetBalances(db)
  BY DEF LeaseInv, Types, BalancesSurviveRestart
<1>a. Provider \in Account /\ Consumer # Provider
  BY DEF Account, Consumer, Provider
<1>1. /\ CanBuildUndo(db, Provider) /\ db.chain[Provider] = cancel.chain
      /\ Last(db.chain[Provider]).type = "lease_accept"
      /\ 1 <= cancel.final /\ cancel.final < Len(db.chain[Provider])
      /\ finalHeight[Provider] <= Len(db.chain[Provider])
  BY DEF Unwinds, UnwindAccept, LeaseInv, CancelOK
<1>2. Len(db.chain[Provider]) > 1 /\ Len(db.chain[Provider]) \in Nat
      /\ finalHeight[Provider] \in Nat
  <2>1. cancel.final \in Nat
    BY DEF UnwindAccept, LeaseInv, Types, CancelT
  <2> QED BY <1>0, <1>a, <1>1, <2>1 DEF LeaseInv, Types, Db
<1>3. PICK u \in UndoT : /\ u = BlockUndo(db, Provider) /\ u.account = Provider
                         /\ u.block = Last(db.chain[Provider])
                         /\ u.writes
                         /\ u.lease = IF db.lease = None THEN None
                                      ELSE RestoreLease(db.lease, "lease_accept")
  <2>1. PICK u : u = BlockUndo(db, Provider)
    OBVIOUS
  <2>2. /\ u \in UndoT /\ u.account = Provider /\ u.block = Last(db.chain[Provider])
        /\ u.writes = (Last(db.chain[Provider]).type \notin {"receive", "burn"})
        /\ u.lease = IF db.lease = None THEN None
                     ELSE RestoreLease(db.lease, Last(db.chain[Provider]).type)
    BY <1>0, <1>a, <1>1, <1>2, <2>1, BlockUndoType
  <2>3. u.writes
    BY <1>1, <2>2
  <2> QED BY <1>1, <2>1, <2>2, <2>3
<1>4. db' = ApplyUndo(db, u) /\ balance' = UndoBalance(balance, u, db)
  BY <1>3 DEF UnwindAccept, Unwinds
<1>5. CanApplyUndo(db, u)
  BY <1>1, <1>3 DEF CanApplyUndo
<1>6. /\ db' \in Db /\ db'.chain = [db.chain EXCEPT ![Provider] = Front(@)]
      /\ db'.lease = u.lease
  BY <1>0, <1>2, <1>3, <1>4, <1>5, ApplyUndoType
<1>7. db'.escrow = db.escrow
  BY <1>1, <1>3, <1>4 DEF ApplyUndo, LeaseStateTransition
<1>8. db.lease # None
  BY <1>1 DEF CanBuildUndo, LeaseStateTransition
<1>9. db'.lease = PriorLease(db.lease, Created)
  BY <1>3, <1>6, <1>8 DEF RestoreLease
<1>10. /\ balance' \in Balances /\ balance' = RebuildAssetBalances(db')
       /\ Len(db'.chain[Provider]) = Len(db.chain[Provider]) - 1
  BY <1>0, <1>2, <1>3, <1>4, <1>5, UndoKeeps
<1>11. balance'[Consumer] = balance[Consumer]
  BY <1>0, <1>a, <1>3, <1>4 DEF UndoBalance, Balances, Account
<1> QED BY <1>1, <1>2, <1>6, <1>7, <1>8, <1>9, <1>10, <1>11 DEF BalancesSurviveRestart

(* What the rest of the cancellation leaves prepared.                      *)
LEMMA FinishFacts ==
    ASSUME LeaseInv, UnwindAccept, Unwinds
    PROVE  /\ op' \in [Account -> OpT \cup {None}]
           /\ op'[Provider] = None
           /\ op'[Consumer] # None => /\ op'[Consumer].commit.account = Consumer
                                      /\ Expects(op'[Consumer].commit)
                                      /\ op'[Consumer].undo = cancel.undo
<1>1. /\ db' \in Db /\ balance' \in Balances
      /\ db'.chain = [db.chain EXCEPT ![Provider] = Front(@)]
  BY UnwindFacts
<1>2. /\ cancel \in CancelT /\ op \in [Account -> OpT \cup {None}]
      /\ op[Consumer] = None /\ op[Provider] = None
      /\ Consumer \in Account /\ Provider \in Account /\ Consumer # Provider
  BY DEF UnwindAccept, Unwinds, Idle, LeaseInv, Types, CancelOK, Account, Consumer, Provider
<1>3. db'.chain[Consumer] = db.chain[Consumer] /\ Len(db.chain[Consumer]) > 0
  BY <1>1, <1>2 DEF LeaseInv, Types, Db, Heights
<1>4. PICK v \in ViewT : v = IF cancel.undo = None THEN View(db', balance')
                             ELSE OverlayOn(db', balance', cancel.undo)
  <2>1. CASE cancel.undo = None
    BY <1>1, <2>1, ViewType
  <2>2. CASE cancel.undo # None
    <3>1. PICK u \in UndoT : u = cancel.undo /\ u.account = Consumer
      BY <1>2, <2>2 DEF CancelT, UnwindAccept, LeaseInv, CancelOK
    <3>2. PICK d \in Db : d = db'
      BY <1>1
    <3>3. PICK bal \in Balances : bal = balance'
      BY <1>1
    <3>4. OverlayOn(d, bal, u) \in ViewT
      BY <1>3, <3>1, <3>2, OverlayOnType
    <3> QED BY <2>2, <3>1, <3>2, <3>3, <3>4
  <2> QED BY <2>1, <2>2
<1>5. PICK m : m = MakeBlock(v, Consumer, "lease_cancel", 0)
  OBVIOUS
<1>6. PICK b : b = IF cancel.undo = None THEN m ELSE staged[Consumer].block
  OBVIOUS
<1>7. op' = IF cancel.inOrder /\ v.escrow # 0 /\ b = m
            THEN [op EXCEPT ![Consumer] = [commit |-> BlockCommit(v, Consumer, b),
                                           undo |-> cancel.undo]]
            ELSE op
  BY <1>4, <1>5, <1>6 DEF UnwindAccept, Unwinds, FinishCancel
<1>8. CASE cancel.inOrder /\ v.escrow # 0 /\ b = m
  <2>1. 0 \in 0..(MaxTime + MaxAttestationSkew) /\ "lease_cancel" \in BlockType
    BY Constants DEF BlockType
  <2>2. ~Debits("lease_cancel")
    BY DEF Debits
  <2>3. m \in BlockT /\ m.type = "lease_cancel"
    BY <1>2, <1>5, <2>1, <2>2, MakeBlockType
  <2>4. PICK c \in CommitT : c = BlockCommit(v, Consumer, m) /\ c.account = Consumer /\ Expects(c)
    BY <1>2, <2>3, BlockCommitType
  <2>5. PICK u \in UndoT \cup {None} : u = cancel.undo
    BY <1>2 DEF CancelT
  <2>6. [commit |-> c, undo |-> u] \in OpT
    BY DEF OpT
  <2>7. op' = [op EXCEPT ![Consumer] = [commit |-> c, undo |-> u]]
    BY <1>7, <1>8, <2>4, <2>5
  <2> QED BY <1>2, <2>4, <2>5, <2>6, <2>7
<1>9. CASE ~(cancel.inOrder /\ v.escrow # 0 /\ b = m)
  BY <1>2, <1>7, <1>9
<1> QED BY <1>8, <1>9

(* Unwinding an accept keeps LeaseInv.                                     *)
LEMMA UnwindOK ==
    ASSUME LeaseInv, UnwindAccept
    PROVE  LeaseInv'
<1>0. /\ cancel' = None /\ cancel # None
      /\ UNCHANGED <<finalHeight, staged, arch, now, habit>>
  BY DEF UnwindAccept
<1>1. CancelOK'
  BY <1>0 DEF CancelOK
<1>2. CASE ~Unwinds
  <2>1. UNCHANGED <<db, balance, op>>
    BY <1>2 DEF UnwindAccept, Unwinds
  <2>2. \A x \in Account : OpOK(x)'
    BY <1>0, <2>1 DEF LeaseInv, OpOK
  <2> QED BY <1>0, <1>1, <2>1, <2>2 DEF LeaseInv, Types, Heights, BalancesSurviveRestart
<1>3. CASE Unwinds
  <2>1. /\ db' \in Db /\ balance' \in Balances
        /\ db'.chain = [db.chain EXCEPT ![Provider] = Front(@)]
        /\ finalHeight[Provider] <= Len(db'.chain[Provider]) + 1
        /\ Len(db'.chain[Provider]) > 0
        /\ BalancesSurviveRestart'
    BY <1>3, UnwindFacts
  <2>2. db \in Db
    BY DEF LeaseInv, Types
  <2>3. /\ db'.chain[Consumer] = db.chain[Consumer] /\ Consumer # Provider
        /\ Account = {Consumer, Provider}
    BY <2>1, <2>2 DEF Db, Account, Consumer, Provider
  <2>4. /\ op' \in [Account -> OpT \cup {None}]
        /\ op'[Provider] = None
        /\ op'[Consumer] # None => /\ op'[Consumer].commit.account = Consumer
                                   /\ Expects(op'[Consumer].commit)
                                   /\ op'[Consumer].undo = cancel.undo
    BY <1>3, FinishFacts
  <2>5. Types'
    BY <1>0, <2>1, <2>4 DEF LeaseInv, Types
  <2>6. Heights'
    BY <1>0, <2>1, <2>3 DEF LeaseInv, Heights
  <2>7. OpOK(Consumer)'
    BY <1>0, <2>3, <2>4 DEF OpOK, LeaseInv, CancelOK
  <2>8. OpOK(Provider)'
    BY <2>4 DEF OpOK
  <2> QED BY <1>1, <2>1, <2>3, <2>5, <2>6, <2>7, <2>8 DEF LeaseInv
<1> QED BY <1>2, <1>3

(* The second half of addBlock keeps LeaseInv.                             *)
LEMMA CommitBlockOK ==
    ASSUME LeaseInv, NEW a \in Account, CommitBlock(a)
    PROVE  LeaseInv'
<1>0. /\ db \in Db /\ balance \in Balances /\ balance = RebuildAssetBalances(db)
      /\ op \in [Account -> OpT \cup {None}]
  BY DEF LeaseInv, Types, BalancesSurviveRestart
<1>1. /\ op[a] # None /\ op' = [op EXCEPT ![a] = None]
      /\ UNCHANGED <<finalHeight, staged, cancel, arch, now, habit>>
  BY DEF CommitBlock
<1>2. PICK c \in CommitT : c = op[a].commit /\ c.account = a /\ Expects(c)
  BY <1>0, <1>1 DEF OpT, LeaseInv, OpOK
<1>3. op' \in [Account -> OpT \cup {None}] /\ op'[a] = None /\ \A x \in Account : x # a => op'[x] = op[x]
  BY <1>0, <1>1
<1>4. CASE CanCommit(db, c)
  <2>1. db' = ApplyCommit(db, c) /\ balance' = CommitBalance(balance, c)
    BY <1>2, <1>4 DEF CommitBlock
  <2>2. db' \in Db /\ db'.chain = [db.chain EXCEPT ![a] = Append(@, c.block)]
    BY <1>0, <1>2, <1>4, <2>1, ApplyCommitType
  <2>3. /\ balance' \in Balances /\ balance' = RebuildAssetBalances(db')
        /\ Len(db'.chain[a]) = Len(db.chain[a]) + 1
    BY <1>0, <1>2, <1>4, <2>1, CommitKeeps
  <2>4. \A x \in Account : x # a => db'.chain[x] = db.chain[x]
    BY <1>0, <2>2 DEF Db
  <2>7. Types'
    BY <1>1, <1>3, <2>2, <2>3 DEF LeaseInv, Types
  <2>8. Heights'
    <3>1. ASSUME NEW x \in Account
          PROVE  Len(db'.chain[x]) >= Len(db.chain[x]) /\ Len(db.chain[x]) \in Nat
                 /\ Len(db'.chain[x]) \in Nat /\ finalHeight[x] \in Nat
      <4>1. Len(db.chain[x]) \in Nat /\ finalHeight[x] \in Nat
        BY <1>0 DEF Db, LeaseInv, Types
      <4>2. CASE x = a
        BY <2>3, <4>1, <4>2
      <4>3. CASE x # a
        BY <2>4, <4>1, <4>3
      <4> QED BY <4>1, <4>2, <4>3
    <3>2. Consumer \in Account
      BY DEF Account
    <3>3. ASSUME NEW x \in Account
          PROVE  /\ 1 <= finalHeight'[x] /\ finalHeight'[x] <= Len(db'.chain[x]) + 1
                 /\ Len(db'.chain[x]) > 0
                 /\ x = Consumer => finalHeight'[x] <= Len(db'.chain[x])
      <4>1. /\ 1 <= finalHeight[x] /\ finalHeight[x] <= Len(db.chain[x]) + 1
            /\ Len(db.chain[x]) > 0 /\ (x = Consumer => finalHeight[x] <= Len(db.chain[x]))
        BY DEF LeaseInv, Heights
      <4>2. finalHeight'[x] = finalHeight[x]
        BY <1>1
      <4> QED BY <3>1, <4>1, <4>2
    <3> QED BY <3>2, <3>3 DEF Heights
  <2>9. \A x \in Account : OpOK(x)'
    BY <1>1, <1>3, <2>4 DEF LeaseInv, OpOK
  <2>10. CancelOK'
    <3> SUFFICES ASSUME cancel # None PROVE CancelOK'
      BY <1>1 DEF CancelOK
    <3>1. a = Provider /\ Consumer # Provider /\ Consumer \in Account /\ Provider \in Account
      BY <1>1 DEF LeaseInv, CancelOK, Account, Consumer, Provider
    <3>2. Len(db.chain[Provider]) \in Nat /\ finalHeight[Provider] \in Nat
      BY <1>0, <3>1 DEF Db, LeaseInv, Types
    <3>3. finalHeight[Provider] <= Len(db'.chain[Provider])
      BY <2>3, <3>1, <3>2 DEF LeaseInv, CancelOK
    <3>4. op'[Consumer] = op[Consumer] /\ db'.chain[Consumer] = db.chain[Consumer]
      BY <1>3, <2>4, <3>1
    <3> QED BY <1>1, <3>3, <3>4 DEF LeaseInv, CancelOK
  <2> QED BY <2>3, <2>7, <2>8, <2>9, <2>10 DEF LeaseInv, BalancesSurviveRestart
<1>5. CASE ~CanCommit(db, c)
  <2>1. UNCHANGED <<db, balance>>
    BY <1>2, <1>5 DEF CommitBlock
  <2>2. \A x \in Account : OpOK(x)'
    BY <1>1, <1>3, <2>1 DEF LeaseInv, OpOK
  <2>3. CancelOK'
    BY <1>1, <1>3, <2>1 DEF LeaseInv, CancelOK, Account
  <2> QED BY <1>1, <1>3, <2>1, <2>2, <2>3 DEF LeaseInv, Types, Heights, BalancesSurviveRestart
<1> QED BY <1>4, <1>5

(* The second half of a swap keeps LeaseInv.                               *)
LEMMA CommitCascadeOK ==
    ASSUME LeaseInv, NEW a \in Account, CommitCascade(a)
    PROVE  LeaseInv'
<1>0. /\ db \in Db /\ balance \in Balances /\ balance = RebuildAssetBalances(db)
      /\ op \in [Account -> OpT \cup {None}] /\ finalHeight \in [Account -> Nat]
      /\ staged \in [Account -> StagedT \cup {None}]
  BY DEF LeaseInv, Types, BalancesSurviveRestart
<1>1. /\ op[a] # None /\ op[a].undo # None /\ op' = [op EXCEPT ![a] = None]
      /\ UNCHANGED <<cancel, arch, now, habit>>
  BY DEF CommitCascade
<1>2. PICK c \in CommitT : c = op[a].commit /\ c.account = a /\ Expects(c)
  BY <1>0, <1>1 DEF OpT, LeaseInv, OpOK
<1>3. PICK u \in UndoT : u = op[a].undo /\ u.account = a /\ u.block = Last(db.chain[a])
  BY <1>0, <1>1 DEF OpT, LeaseInv, OpOK
<1>4. Len(db.chain[a]) > 0 /\ Len(db.chain[a]) \in Nat
  BY <1>0 DEF LeaseInv, Types, Heights, Db
<1>5. op' \in [Account -> OpT \cup {None}] /\ op'[a] = None /\ \A x \in Account : x # a => op'[x] = op[x]
  BY <1>0, <1>1
<1>6. CASE CanApplyUndo(db, u) /\ CanCommit(ApplyUndo(db, u), c)
  <2>0. Len(db.chain[u.account]) > 0 /\ u.block = Last(db.chain[u.account])
    BY <1>3, <1>4
  <2>1. PICK d \in Db : d = ApplyUndo(db, u) /\ d.chain = [db.chain EXCEPT ![a] = Front(@)]
    <3>1. /\ ApplyUndo(db, u) \in Db
          /\ ApplyUndo(db, u).chain = [db.chain EXCEPT ![u.account] = Front(@)]
      BY <1>0, <1>6, <2>0, ApplyUndoType
    <3> QED BY <1>3, <3>1
  <2>2. PICK bal \in Balances : /\ bal = UndoBalance(balance, u, db)
                                /\ bal = RebuildAssetBalances(d)
                                /\ Len(d.chain[a]) = Len(db.chain[a]) - 1
    <3>1. /\ UndoBalance(balance, u, db) \in Balances
          /\ UndoBalance(balance, u, db) = RebuildAssetBalances(ApplyUndo(db, u))
          /\ Len(ApplyUndo(db, u).chain[u.account]) = Len(db.chain[u.account]) - 1
      BY <1>0, <1>6, <2>0, UndoKeeps
    <3> QED BY <1>3, <2>1, <3>1
  <2>3. /\ db' = ApplyCommit(d, c) /\ balance' = CommitBalance(bal, c)
        /\ finalHeight' = [finalHeight EXCEPT ![a] = Len(db.chain[a])]
        /\ staged' = [staged EXCEPT ![a] = None]
    BY <1>2, <1>3, <1>6, <2>1, <2>2 DEF CommitCascade
  <2>4. db' \in Db /\ db'.chain = [d.chain EXCEPT ![a] = Append(@, c.block)]
    BY <1>2, <1>6, <2>1, <2>3, ApplyCommitType
  <2>5. /\ balance' \in Balances /\ balance' = RebuildAssetBalances(db')
        /\ Len(db'.chain[a]) = Len(d.chain[a]) + 1
    BY <1>2, <1>6, <2>1, <2>2, <2>3, CommitKeeps
  <2>6. \A x \in Account : x # a => db'.chain[x] = db.chain[x]
    BY <1>0, <2>1, <2>4 DEF Db
  <2>7. /\ finalHeight'[a] = Len(db.chain[a]) /\ finalHeight' \in [Account -> Nat]
        /\ \A x \in Account : x # a => finalHeight'[x] = finalHeight[x]
    BY <1>0, <1>4, <2>3
  <2>8. Types'
    BY <1>0, <1>1, <1>5, <2>3, <2>4, <2>5, <2>7 DEF LeaseInv, Types
  <2>9. Heights'
    <3>1. Len(db'.chain[a]) = Len(db.chain[a]) /\ finalHeight'[a] = Len(db'.chain[a])
      BY <1>4, <2>2, <2>5, <2>7
    <3>2. Consumer \in Account
      BY DEF Account
    <3>3. ASSUME NEW x \in Account
          PROVE  /\ 1 <= finalHeight'[x] /\ finalHeight'[x] <= Len(db'.chain[x]) + 1
                 /\ Len(db'.chain[x]) > 0
                 /\ x = Consumer => finalHeight'[x] <= Len(db'.chain[x])
      <4>1. CASE x = a
        BY <1>4, <3>1, <4>1
      <4>2. CASE x # a
        BY <2>6, <2>7, <4>2 DEF LeaseInv, Heights
      <4> QED BY <4>1, <4>2
    <3> QED BY <3>2, <3>3 DEF Heights
  <2>10. \A x \in Account : OpOK(x)'
    BY <1>1, <1>5, <2>6, <2>7 DEF LeaseInv, OpOK
  <2>11. CancelOK'
    <3> SUFFICES ASSUME cancel # None PROVE CancelOK'
      BY <1>1 DEF CancelOK
    <3>1. a = Provider /\ Consumer # Provider /\ Consumer \in Account
      BY <1>1 DEF LeaseInv, CancelOK, Account, Consumer, Provider
    <3>2. finalHeight'[Provider] <= Len(db'.chain[Provider])
      BY <1>4, <2>2, <2>5, <2>7, <3>1
    <3>3. /\ op'[Consumer] = op[Consumer] /\ db'.chain[Consumer] = db.chain[Consumer]
          /\ finalHeight'[Consumer] = finalHeight[Consumer]
      BY <1>5, <2>6, <2>7, <3>1
    <3> QED BY <1>1, <3>2, <3>3 DEF LeaseInv, CancelOK
  <2> QED BY <2>5, <2>8, <2>9, <2>10, <2>11 DEF LeaseInv, BalancesSurviveRestart
<1>7. CASE ~(CanApplyUndo(db, u) /\ CanCommit(ApplyUndo(db, u), c))
  <2>1. UNCHANGED <<db, balance, finalHeight, staged>>
    BY <1>2, <1>3, <1>7 DEF CommitCascade
  <2>2. \A x \in Account : OpOK(x)'
    BY <1>1, <1>5, <2>1 DEF LeaseInv, OpOK
  <2>3. CancelOK'
    BY <1>1, <1>5, <2>1 DEF LeaseInv, CancelOK, Account
  <2> QED BY <1>1, <1>5, <2>1, <2>2, <2>3 DEF LeaseInv, Types, Heights, BalancesSurviveRestart
<1> QED BY <1>6, <1>7

(* Finalizing a block keeps LeaseInv.                                      *)
LEMMA FinalizeOK ==
    ASSUME LeaseInv, NEW a \in Account, Finalize(a)
    PROVE  LeaseInv'
<1>0. /\ finalHeight \in [Account -> Nat] /\ db \in Db
      /\ staged \in [Account -> StagedT \cup {None}] /\ op \in [Account -> OpT \cup {None}]
  BY DEF LeaseInv, Types
<1>1. /\ a \notin Swapping /\ finalHeight[a] + 1 <= Len(db.chain[a])
      /\ finalHeight' = [finalHeight EXCEPT ![a] = finalHeight[a] + 1]
      /\ staged' \in [Account -> StagedT \cup {None}]
      /\ UNCHANGED <<db, balance, op, cancel, arch, now, habit>>
  BY <1>0 DEF Finalize
<1>2. /\ finalHeight' \in [Account -> Nat] /\ finalHeight'[a] = finalHeight[a] + 1
      /\ \A x \in Account : x # a => finalHeight'[x] = finalHeight[x]
  BY <1>0, <1>1
<1>a. Len(db.chain[a]) \in Nat /\ finalHeight[a] \in Nat /\ Consumer \in Account
      /\ Provider \in Account /\ Consumer # Provider
  BY <1>0 DEF Db, Account, Consumer, Provider
<1>3. Heights'
  BY <1>0, <1>1, <1>2, <1>a DEF LeaseInv, Heights
<1>4. \A x \in Account : OpOK(x)'
  BY <1>1, <1>2 DEF LeaseInv, OpOK, Swapping, UndoOf
<1>5. Types'
  BY <1>1, <1>2 DEF LeaseInv, Types
<1>6. CancelOK'
  <2> SUFFICES ASSUME cancel # None PROVE CancelOK'
    BY <1>1 DEF CancelOK
  <2>1. finalHeight'[Provider] <= Len(db'.chain[Provider])
    BY <1>1, <1>2, <1>a DEF LeaseInv, CancelOK
  <2>2. cancel.undo # None => finalHeight'[Consumer] = finalHeight[Consumer]
    BY <1>1, <1>2, <1>a DEF LeaseInv, CancelOK, Swapping, UndoOf
  <2> QED BY <1>1, <2>1, <2>2 DEF LeaseInv, CancelOK
<1> QED BY <1>1, <1>3, <1>4, <1>5, <1>6 DEF LeaseInv, BalancesSurviveRestart

(* The archiver keeps LeaseInv.                                            *)
LEMMA ArchiveOK == ASSUME LeaseInv, Archive PROVE LeaseInv'
<1>0. /\ db \in Db /\ arch \in ArchT /\ (arch.pc # "scan" => arch.lease # None)
  BY DEF LeaseInv, Types
<1>1. UNCHANGED <<balance, finalHeight, staged, op, cancel, now, habit>>
  BY DEF Archive
<1>2. /\ db' \in Db /\ db'.chain = db.chain
      /\ arch' \in ArchT /\ (arch'.pc # "scan" => arch'.lease # None)
  <2>1. CASE arch.pc = "scan" /\ ShouldArchiveExpiredLease(db.lease)
             /\ arch' = [pc |-> "delete", lease |-> db.lease] /\ UNCHANGED db
    BY <1>0, <2>1 DEF ShouldArchiveExpiredLease, ArchT, Db
  <2>2. CASE arch.pc = "delete" /\ db' = [db EXCEPT !.escrow = 0]
             /\ arch' = [arch EXCEPT !.pc = "put"]
    BY <1>0, <2>2 DEF ArchT, Db
  <2>3. CASE arch.pc = "put" /\ arch' = [pc |-> "scan", lease |-> None]
             /\ db' = [db EXCEPT !.lease = [arch.lease EXCEPT !.state = Expired, !.settled = TRUE]]
    <3>1. PICK l \in LeaseRecord : l = arch.lease
      BY <1>0, <2>3 DEF ArchT
    <3>2. [l EXCEPT !.state = Expired, !.settled = TRUE] \in LeaseRecord
      BY DEF LeaseRecord, LeaseState
    <3> QED BY <1>0, <2>3, <3>1, <3>2 DEF ArchT, Db
  <2> QED BY <2>1, <2>2, <2>3 DEF Archive
<1>3. Types'
  BY <1>1, <1>2 DEF LeaseInv, Types
<1>4. \A x \in Account : OpOK(x)'
  BY <1>1, <1>2 DEF LeaseInv, OpOK
<1>5. CancelOK' /\ Heights'
  BY <1>1, <1>2 DEF LeaseInv, CancelOK, Heights
<1> QED BY <1>1, <1>2, <1>3, <1>4, <1>5 DEF LeaseInv, BalancesSurviveRestart, RebuildAssetBalances

(* Time keeps LeaseInv.                                                    *)
LEMMA TickOK == ASSUME LeaseInv, Tick PROVE LeaseInv'
<1>1. now' \in (MaxAttestationSkew + 1)..MaxTime
  BY Constants DEF Tick, LeaseInv, Types
<1>2. UNCHANGED <<db, balance, finalHeight, staged, op, cancel, arch, habit>>
  BY DEF Tick
<1>3. CancelOK' /\ \A x \in Account : OpOK(x)'
  BY <1>2 DEF LeaseInv, OpOK, CancelOK
<1> QED BY <1>1, <1>2, <1>3 DEF LeaseInv, Types, Heights, BalancesSurviveRestart

(* A restart keeps LeaseInv.                                               *)
LEMMA RestartOK == ASSUME LeaseInv, Restart PROVE LeaseInv'
<1>1. balance' = balance
  BY DEF Restart, LeaseInv, BalancesSurviveRestart
<1>2. UNCHANGED <<db, finalHeight, staged, now, habit>>
  BY DEF Restart
<1>3. arch' \in ArchT /\ arch'.pc = "scan" /\ op' \in [Account -> OpT \cup {None}]
  BY DEF Restart, ArchT
<1>4. cancel' = None /\ CancelOK' /\ \A x \in Account : OpOK(x)'
  BY DEF Restart, OpOK, CancelOK
<1> QED BY <1>1, <1>2, <1>3, <1>4 DEF LeaseInv, Types, Heights, BalancesSurviveRestart

(* What the accounts start with. *)
LEMMA InitDbType == InitDb \in Db /\ \A a \in Account : Len(InitDb.chain[a]) \in {1, 2}
<1>1. \A x \in Nat : /\ OpeningChain(x) \in Seq(BlockT)
                     /\ Len(OpeningChain(x)) \in {1, 2}
  <2> SUFFICES ASSUME NEW x \in Nat PROVE /\ OpeningChain(x) \in Seq(BlockT)
                                          /\ Len(OpeningChain(x)) \in {1, 2}
    OBVIOUS
  <2>0. /\ Block("receive", "XE", Gas, Gas, 0) \in BlockT
        /\ Block("receive", "XUSD", x, x, 0) \in BlockT
    BY Constants DEF Block, BlockT, BlockType, Asset
  <2>1. PICK b \in BlockT : b = Block("receive", "XE", Gas, Gas, 0)
    BY <2>0
  <2>2. PICK e \in BlockT : e = Block("receive", "XUSD", x, x, 0)
    BY <2>0
  <2>3. OpeningChain(x) = <<b>> \o (IF x = 0 THEN <<>> ELSE <<e>>)
    BY <2>1, <2>2 DEF OpeningChain
  <2>4. CASE x = 0
    BY <2>3, <2>4
  <2>5. CASE x # 0
    BY <2>3, <2>5
  <2> QED BY <2>4, <2>5
<1>2. Funds \in Nat /\ 0 \in Nat
  BY Constants
<1> QED BY <1>1, <1>2 DEF InitDb, Db

(* LeaseInv holds at first.                                                *)
LEMMA InitOK == ASSUME Init PROVE LeaseInv
<1>1. /\ db \in Db /\ \A a \in Account : Len(db.chain[a]) \in {1, 2}
  BY InitDbType DEF Init
<1>2. balance = RebuildAssetBalances(db)
  BY DEF Init
<1>3. balance \in Balances
  BY <1>1, <1>2, OnChainType DEF RebuildAssetBalances, Balances, Db
<1>4. finalHeight \in [Account -> Nat] /\ \A a \in Account : finalHeight[a] = Len(db.chain[a])
  BY <1>1 DEF Init
<1>5. Heights
  <2>1. \A a \in Account : /\ 1 <= Len(db.chain[a]) /\ Len(db.chain[a]) <= Len(db.chain[a])
                            /\ Len(db.chain[a]) <= Len(db.chain[a]) + 1 /\ Len(db.chain[a]) > 0
    <3> SUFFICES ASSUME NEW a \in Account
                 PROVE  /\ 1 <= Len(db.chain[a]) /\ Len(db.chain[a]) <= Len(db.chain[a])
                        /\ Len(db.chain[a]) <= Len(db.chain[a]) + 1 /\ Len(db.chain[a]) > 0
      OBVIOUS
    <3>1. PICK n \in {1, 2} : n = Len(db.chain[a])
      BY <1>1
    <3>2. 1 <= n /\ n <= n /\ n <= n + 1 /\ n > 0
      OBVIOUS
    <3> QED BY <3>1, <3>2
  <2>2. Consumer \in Account
    BY DEF Account
  <2> QED BY <1>4, <2>1, <2>2 DEF Heights
<1>6. /\ staged \in [Account -> StagedT \cup {None}] /\ op \in [Account -> OpT \cup {None}]
      /\ arch \in ArchT /\ arch.pc = "scan" /\ habit \in Habits
      /\ now \in (MaxAttestationSkew + 1)..MaxTime /\ cancel = None
  BY Constants DEF Init, ArchT
<1>7. CancelOK /\ \A x \in Account : OpOK(x)
  BY DEF Init, OpOK, CancelOK
<1> QED BY <1>1, <1>2, <1>3, <1>4, <1>5, <1>6, <1>7 DEF LeaseInv, Types, BalancesSurviveRestart

(* Every step keeps LeaseInv.                                              *)
LEMMA NextOK == ASSUME LeaseInv, [Next]_vars PROVE LeaseInv'
<1>1. ASSUME NEW a \in Account, NEW type \in TypesOf(a), NEW t \in Times(type),
             Validate(a, type, t)
      PROVE  LeaseInv'
  BY <1>1, ValidateOK
<1>2. ASSUME NEW a \in Account, NEW type \in TypesOf(a), NEW t \in Times(type),
             Stage(a, type, t)
      PROVE  LeaseInv'
  BY <1>2, StageOK
<1>3. ASSUME NEW a \in Account, CommitBlock(a) PROVE LeaseInv'
  BY <1>3, CommitBlockOK
<1>4. ASSUME NEW a \in Account, SwapBlock(a) PROVE LeaseInv'
  BY <1>4, SwapBlockOK
<1>5. ASSUME NEW a \in Account, CommitCascade(a) PROVE LeaseInv'
  BY <1>5, CommitCascadeOK
<1>6. ASSUME NEW a \in Account, Finalize(a) PROVE LeaseInv'
  BY <1>6, FinalizeOK
<1>7. ASSUME NEW inOrder \in BOOLEAN, CancelWins(inOrder) PROVE LeaseInv'
  BY <1>7, CancelWinsOK
<1>8. CASE SwapCancelWins
  BY <1>8, SwapCancelWinsOK
<1>u. CASE UnwindAccept
  BY <1>u, UnwindOK
<1>9. CASE Archive
  BY <1>9, ArchiveOK
<1>10. CASE Tick
  BY <1>10, TickOK
<1>11. CASE Restart
  BY <1>11, RestartOK
<1>12. CASE UNCHANGED vars
  <2>1. CancelOK' /\ \A x \in Account : OpOK(x)'
    BY <1>12 DEF LeaseInv, OpOK, CancelOK, vars
  <2> QED BY <1>12, <2>1 DEF LeaseInv, Types, Heights, BalancesSurviveRestart, vars
<1> QED BY <1>1, <1>2, <1>3, <1>4, <1>5, <1>6, <1>7, <1>8, <1>u, <1>9, <1>10, <1>11, <1>12 DEF Next

(* LeaseInv is an invariant.                                               *)
LEMMA InvHolds == Spec => []LeaseInv
BY InitOK, NextOK, PTL DEF Spec

-----------------------------------------------------------------------------
(* Theorems *)

(* Type correctness: no amount and no balance of the ledger (uint64 in the *)
(* code) falls below zero, and no final height lies beyond its chain, but  *)
(* for one block of the provider's (resolveCancelWinsOverAccept), over     *)
(* every commit, undo, cascade, archival and restart.                      *)
THEOREM LeaseTypes == Spec => []LeaseTypeOK
<1>1. ASSUME LeaseInv PROVE LeaseTypeOK
  <2>0. Types /\ Heights
    BY <1>1 DEF LeaseInv
  <2>1. BlockT \subseteq BlockRecord
    BY Constants DEF BlockT, BlockRecord, Asset
  <2>2. \A a \in Account : db.chain[a] \in Seq(BlockRecord)
    <3> SUFFICES ASSUME NEW a \in Account PROVE db.chain[a] \in Seq(BlockRecord)
      OBVIOUS
    <3>1. PICK s \in Seq(BlockT) : s = db.chain[a]
      BY <2>0 DEF Types, Db
    <3>2. \A i \in 1..Len(s) : s[i] \in BlockRecord
      BY <2>1
    <3>3. s \in Seq(BlockRecord)
      BY <3>2
    <3> QED BY <3>1, <3>3
  <2>3. /\ finalHeight[Consumer] \in 1..Len(db.chain[Consumer])
        /\ finalHeight[Provider] \in 1..(Len(db.chain[Provider]) + 1)
    BY <2>0 DEF Types, Heights, Db, Account
  <2> QED BY <2>0, <2>2, <2>3, Constants DEF LeaseTypeOK, Types, Db, Balances, Asset
<1> QED BY <1>1, InvHolds, PTL

(* The balances in memory are always those a restart would compute from    *)
(* the chains (rebuildAssetBalances), although a commit and an undo write  *)
(* only the balance of the block's own asset.                              *)
THEOREM BalancesMatch == Spec => []BalancesSurviveRestart
<1>1. ASSUME LeaseInv PROVE BalancesSurviveRestart
  BY <1>1 DEF LeaseInv
<1> QED BY <1>1, InvHolds, PTL

(* At no moment could attestors within the allowed skew let one lease be   *)
(* settled by its provider and reclaimed by its consumer: the windows are  *)
(* further apart than two clocks (validateGenesisLeaseTiming).             *)
THEOREM WindowsNeverMeet == Spec => []WindowsApart
<1>1. ASSUME LeaseInv PROVE WindowsApart
  <2> SUFFICES ASSUME NEW t1 \in (now - MaxAttestationSkew)..(now + MaxAttestationSkew),
                      NEW t2 \in (now - MaxAttestationSkew)..(now + MaxAttestationSkew),
                      ValidLeaseSettle(View(db, balance), t1),
                      ValidLeaseForceSettle(View(db, balance), t2)
               PROVE  FALSE
    BY DEF WindowsApart
  <2>1. PICK l \in LeaseRecord : l = View(db, balance).lease
    BY <1>1, ViewType DEF LeaseInv, Types, ValidLeaseSettle, Db
  <2>2. PICK e \in Nat : e = EffectiveExpiry(l)
    BY DurationType
  <2>3. t1 <= e + LeaseSettleGrace
    BY <2>1, <2>2 DEF ValidLeaseSettle
  <2>4. t2 >= e + LeaseSettleGrace + LeaseForceSettleGap
    BY <2>1, <2>2 DEF ValidLeaseForceSettle
  <2>5. now \in Nat
    BY <1>1, Constants DEF LeaseInv, Types
  <2> QED BY <2>3, <2>4, <2>5, Constants
<1> QED BY <1>1, InvHolds, PTL

(* The final blocks of a chain are still there after the step, or were not *)
(* final when a cancellation that now ends looked.                         *)
Stays(a) ==
    \A i \in 1..finalHeight[a] \cap DOMAIN db.chain[a] :
        \/ BlockStays(a, i)
        \/ /\ a = Provider /\ cancel # None /\ cancel' = None
           /\ cancel.final < i

(* Unwinding an accept spares every block but the one above the final      *)
(* height that was read.                                                   *)
LEMMA UnwindStays ==
    ASSUME LeaseInv, UnwindAccept
    PROVE  \A x \in Account : Stays(x)
<1>0. db \in Db
  BY DEF LeaseInv, Types
<1>1. CASE ~Unwinds
  BY <1>0, <1>1 DEF UnwindAccept, Unwinds, Stays, BlockStays
<1>2. CASE Unwinds
  <2>1. /\ db'.chain = [db.chain EXCEPT ![Provider] = Front(@)]
        /\ cancel.final < Len(db.chain[Provider])
    BY <1>2, UnwindFacts
  <2>2. PICK s \in Seq(BlockT) : s = db.chain[Provider] /\ Len(s) > 0
    <3>1. db.chain[Provider] \in Seq(BlockT) /\ Len(db.chain[Provider]) > 0
      BY <1>0 DEF Db, Account, LeaseInv, Heights
    <3> QED BY <3>1
  <2>3. PICK f \in Seq(BlockT) : /\ f = Front(s) /\ Len(f) = Len(s) - 1
                                 /\ \A i \in 1..(Len(s) - 1) : f[i] = s[i]
    BY <2>2, FrontLast
  <2>4. db'.chain[Provider] = f /\ \A x \in Account : x # Provider => db'.chain[x] = db.chain[x]
    BY <1>0, <2>1, <2>2, <2>3 DEF Db, Account
  <2>5. cancel # None /\ cancel' = None
    BY DEF UnwindAccept
  <2>6. \A i \in DOMAIN s : i = Len(s) \/ (i \in DOMAIN f /\ f[i] = s[i])
    BY <2>2, <2>3
  <2>7. Stays(Provider)
    BY <2>1, <2>2, <2>4, <2>5, <2>6 DEF Stays, BlockStays
  <2>8. \A x \in Account : x # Provider => Stays(x)
    BY <2>4 DEF Stays, BlockStays
  <2> QED BY <2>7, <2>8
<1> QED BY <1>1, <1>2

(* A commit spares the final part of the chains.                           *)
LEMMA CommitBlockStays ==
    ASSUME LeaseInv, NEW a \in Account, CommitBlock(a)
    PROVE  \A x \in Account : Stays(x)
<1>0. /\ db \in Db /\ finalHeight \in [Account -> Nat] /\ Heights
      /\ op \in [Account -> OpT \cup {None}]
  BY DEF LeaseInv, Types
<1>2. PICK c \in CommitT : c = op[a].commit /\ c.account = a /\ Expects(c)
  BY <1>0 DEF CommitBlock, OpT, LeaseInv, OpOK
<1>3. CASE CanCommit(db, c)
  <2>1. db'.chain = [db.chain EXCEPT ![a] = Append(@, c.block)]
    <3>1. ApplyCommit(db, c).chain = [db.chain EXCEPT ![c.account] = Append(@, c.block)]
      BY <1>0, <1>2, <1>3, ApplyCommitType
    <3>2. db' = ApplyCommit(db, c)
      BY <1>2, <1>3 DEF CommitBlock
    <3> QED BY <1>2, <3>1, <3>2
  <2>2. PICK s \in Seq(BlockT) : s = db.chain[a]
    BY <1>0 DEF Db
  <2>3. db'.chain[a] = Append(s, c.block) /\ c.block \in BlockT
    BY <1>0, <2>1, <2>2 DEF Db, CommitT
  <2>4. /\ Len(db'.chain[a]) = Len(s) + 1 /\ Len(s) \in Nat
        /\ \A i \in 1..Len(s) : db'.chain[a][i] = s[i]
    BY <2>3
  <2>5. Stays(a)
    <3>1. PICK t \in Seq(BlockT) : t = db'.chain[a] /\ Len(t) = Len(s) + 1
                                   /\ \A i \in 1..Len(s) : t[i] = s[i]
      <4>1. Append(s, c.block) \in Seq(BlockT)
        BY <2>3
      <4> QED BY <2>3, <2>4, <4>1
    <3>2. \A i \in DOMAIN s : i \in DOMAIN t /\ t[i] = s[i]
      BY <3>1, <2>4
    <3> QED BY <2>2, <3>1, <3>2 DEF Stays, BlockStays
  <2>6. \A x \in Account : x # a => Stays(x)
    BY <1>0, <2>1 DEF Stays, BlockStays, Db
  <2> QED BY <2>5, <2>6
<1>4. CASE ~CanCommit(db, c)
  BY <1>0, <1>2, <1>4 DEF CommitBlock, Stays, BlockStays
<1> QED BY <1>3, <1>4

(* A swap spares the final part of the chains.                             *)
LEMMA CommitCascadeStays ==
    ASSUME LeaseInv, NEW a \in Account, CommitCascade(a)
    PROVE  \A x \in Account : Stays(x)
<1>0. /\ db \in Db /\ finalHeight \in [Account -> Nat] /\ Heights
      /\ op \in [Account -> OpT \cup {None}]
  BY DEF LeaseInv, Types
<1>1. op[a] # None /\ op[a].undo # None
  BY DEF CommitCascade
<1>2. PICK c \in CommitT : c = op[a].commit /\ c.account = a /\ Expects(c)
  BY <1>0, <1>1 DEF OpT, LeaseInv, OpOK
<1>3. PICK u \in UndoT : u = op[a].undo /\ u.account = a
  BY <1>0, <1>1 DEF OpT, LeaseInv, OpOK
<1>4. finalHeight[a] = Len(db.chain[a]) - 1
  BY <1>1 DEF LeaseInv, OpOK
<1>5. PICK s \in Seq(BlockT) : s = db.chain[a] /\ Len(s) > 0
  <2>1. db.chain[a] \in Seq(BlockT) /\ Len(db.chain[a]) > 0
    BY <1>0 DEF Db, Heights
  <2> QED BY <2>1
<1>6. CASE CanApplyUndo(db, u) /\ CanCommit(ApplyUndo(db, u), c)
  <2>1. PICK d \in Db : d = ApplyUndo(db, u) /\ d.chain = [db.chain EXCEPT ![a] = Front(@)]
    <3>1. Len(db.chain[u.account]) > 0
      BY <1>3, <1>5
    <3>2. /\ ApplyUndo(db, u) \in Db
          /\ ApplyUndo(db, u).chain = [db.chain EXCEPT ![u.account] = Front(@)]
      BY <1>0, <1>6, <3>1, ApplyUndoType
    <3> QED BY <1>3, <3>2
  <2>2. db' = ApplyCommit(d, c)
    BY <1>2, <1>3, <1>6, <2>1 DEF CommitCascade
  <2>3. db'.chain = [d.chain EXCEPT ![a] = Append(@, c.block)]
    <3>1. ApplyCommit(d, c).chain = [d.chain EXCEPT ![c.account] = Append(@, c.block)]
      BY <1>2, <1>6, <2>1, ApplyCommitType
    <3> QED BY <1>2, <2>2, <3>1
  <2>4. PICK f \in Seq(BlockT) : /\ f = Front(s) /\ Len(f) = Len(s) - 1
                                 /\ \A i \in 1..(Len(s) - 1) : f[i] = s[i]
    BY <1>5, FrontLast
  <2>5. db'.chain[a] = Append(f, c.block) /\ c.block \in BlockT
    BY <1>0, <1>5, <2>1, <2>3, <2>4 DEF Db, CommitT
  <2>6. /\ Len(db'.chain[a]) = Len(f) + 1 /\ Len(f) \in Nat
        /\ \A i \in 1..Len(f) : db'.chain[a][i] = f[i]
    BY <2>5
  <2>7. Stays(a)
    <3>1. PICK t \in Seq(BlockT) : t = db'.chain[a] /\ Len(t) = Len(f) + 1
                                   /\ \A i \in 1..Len(f) : t[i] = f[i]
      <4>1. Append(f, c.block) \in Seq(BlockT)
        BY <2>5
      <4> QED BY <2>5, <2>6, <4>1
    <3>2. \A i \in DOMAIN s : i # Len(s) => i \in DOMAIN t /\ t[i] = s[i]
      BY <1>5, <2>4, <3>1
    <3>3. \A i \in 1..finalHeight[a] : i # Len(s)
      BY <1>4, <1>5
    <3> QED BY <1>5, <3>1, <3>2, <3>3 DEF Stays, BlockStays
  <2>8. \A x \in Account : x # a => Stays(x)
    BY <1>0, <2>1, <2>3 DEF Stays, BlockStays, Db
  <2> QED BY <2>7, <2>8
<1>7. CASE ~(CanApplyUndo(db, u) /\ CanCommit(ApplyUndo(db, u), c))
  <2>1. UNCHANGED db
    BY <1>2, <1>3, <1>7 DEF CommitCascade
  <2> QED BY <1>0, <2>1 DEF Stays, BlockStays
<1> QED BY <1>6, <1>7

(* No step changes a block at or below its chain's final height: a swap    *)
(* replaces only the block above it, and a cancellation unwinds an accept  *)
(* only if the final height it read was lower (FinalHeight is read before  *)
(* the provider's lock is taken, so it may have risen since).              *)
THEOREM FinalizedStay == Spec => FinalizedBlocksStay
<1>1. ASSUME LeaseInv, [Next]_vars
      PROVE  [\A a \in Account : \A i \in 1..finalHeight[a] \cap DOMAIN db.chain[a] :
                 \/ BlockStays(a, i)
                 \/ /\ a = Provider /\ cancel # None /\ cancel' = None
                    /\ cancel.final < i]_vars
  <2>0. db \in Db
    BY <1>1 DEF LeaseInv, Types
  <2>1. ASSUME db'.chain = db.chain PROVE \A x \in Account : Stays(x)
    BY <2>0, <2>1 DEF Stays, BlockStays
  <2>2. ASSUME NEW a \in Account, NEW type \in TypesOf(a), NEW t \in Times(type),
               Validate(a, type, t) \/ Stage(a, type, t)
        PROVE  \A x \in Account : Stays(x)
    BY <2>1, <2>2 DEF Validate, Stage
  <2>3. ASSUME NEW a \in Account, CommitBlock(a) PROVE \A x \in Account : Stays(x)
    BY <1>1, <2>3, CommitBlockStays
  <2>4. ASSUME NEW a \in Account, SwapBlock(a) \/ Finalize(a) PROVE \A x \in Account : Stays(x)
    BY <2>1, <2>4 DEF SwapBlock, Finalize
  <2>5. ASSUME NEW a \in Account, CommitCascade(a) PROVE \A x \in Account : Stays(x)
    BY <1>1, <2>5, CommitCascadeStays
  <2>6. ASSUME NEW inOrder \in BOOLEAN, CancelWins(inOrder) PROVE \A x \in Account : Stays(x)
    BY <2>1, <2>6 DEF CancelWins
  <2>7. ASSUME SwapCancelWins PROVE \A x \in Account : Stays(x)
    BY <2>1, <2>7 DEF SwapCancelWins
  <2>u. ASSUME UnwindAccept PROVE \A x \in Account : Stays(x)
    BY <1>1, <2>u, UnwindStays
  <2>8. ASSUME Archive \/ Tick \/ Restart PROVE \A x \in Account : Stays(x)
    <3>1. db'.chain = db.chain
      BY <2>0, <2>8 DEF Archive, Tick, Restart, Db
    <3> QED BY <2>1, <3>1
  <2>9. \A x \in Account : Stays(x)
    BY <1>1, <2>1, <2>2, <2>3, <2>4, <2>5, <2>6, <2>7, <2>u, <2>8 DEF Next, vars
  <2> QED BY <2>9 DEF Stays
<1> QED BY <1>1, InvHolds, PTL DEF Spec, FinalizedBlocksStay

-----------------------------------------------------------------------------
(* Behaviours in which no account forks.                                   *)

EndTypes == {"lease_settle", "lease_cancel", "lease_force_settle"}

(* The block at position i of a's chain took the escrow out of pending.    *)
Ends(a, i) ==
    /\ i \in 1..Len(db.chain[a])
    /\ \/ db.chain[a][i].type \in EndTypes
       \/ db.chain[a][i].type = "receive" /\ i > Len(InitDb.chain[a])

(* What a commit writes into the lease record.                             *)
PutOK(c) ==
    /\ c.block.type = "lease" => c.putLease = NewLease
    /\ c.block.type = "lease_accept" => c.putLease # None /\ c.putLease.state = Accepted
    /\ c.block.type = "lease_renew" =>
          /\ c.putLease # None /\ c.putLease.state = Accepted
          /\ EffectiveDurationSecs(c.putLease) = c.expectDur + RenewDuration
          /\ c.expectDur > 0
    /\ c.block.type \notin {"lease", "lease_accept", "lease_renew"} => c.putLease = None

(* No escrow is pending without a lease that may still end, and none is    *)
(* left when the archiver writes its record.                               *)
Pending ==
    /\ db.escrow # 0 => Live(db.lease) /\ db.escrow >= LeaseCost(Duration)
    /\ arch.pc # "scan" => db.lease # None
    /\ arch.pc = "put" => db.escrow = 0

(* While the lease may still end nothing ended it, and it ends once.       *)
OneEnd ==
    /\ db.lease = None \/ Live(db.lease) => \A a \in Account, i \in Nat : ~Ends(a, i)
    /\ \A a, b \in Account, i, j \in Nat : Ends(a, i) /\ Ends(b, j) => a = b /\ i = j

(* The provider never holds XUSD, and the consumer's and the escrow are    *)
(* within what there was.                                                  *)
Money ==
    /\ \A i \in 1..Len(db.chain[Provider]) :
          db.chain[Provider][i].asset = "XUSD" => db.chain[Provider][i].balance = 0
    /\ balance[Consumer]["XUSD"] + db.escrow <= Funds

(* What a prepared write still knows of the store.                         *)
Prepared(a, c) ==
    /\ c.block.type \in TypesOf(a) \ {"receive"}
    /\ c.block.asset = AssetOf(c.block.type)
    /\ PutOK(c)
    /\ c.block.type = "lease" => db.lease = None /\ c.block.amount = LeaseCost(Duration)
    /\ c.block.type \in {"lease", "lease_renew"} =>
          c.block.balance + c.block.amount = balance[Consumer]["XUSD"]
    /\ c.block.type \in {"lease_cancel", "lease_force_settle"} => c.block.balance <= Funds
    /\ c.block.type = "lease_accept" => c.block.balance = 0
    /\ c.block.type = "lease_settle" =>
          /\ db.lease # None /\ c.expectDur > 0
          /\ db.lease.state = Accepted =>
                /\ EffectiveDurationSecs(db.lease) >= c.expectDur
                /\ EffectiveDurationSecs(db.lease) = c.expectDur =>
                      c.block.amount = LeaseTotalEmission(db.lease)

NoForkInv ==
    /\ \A a \in Account : staged[a] = None
    /\ \A a \in Account : op[a] # None => op[a].undo = None /\ Prepared(a, op[a].commit)
    /\ Pending
    /\ OneEnd
    /\ Money
    /\ SettlePaysEverySegment

(* While a cancellation is about to unwind the accept nothing has ended    *)
(* the lease and, by the lease lock, nothing prepared can.                 *)
CancelAlone ==
    cancel # None =>
        /\ cancel.undo = None
        /\ \A a \in Account, i \in Nat : ~Ends(a, i)
        /\ \A a \in Account : op[a] # None =>
              op[a].commit.block.type \notin LeaseStateTransition

(* Without forks no swap is under way, so validators read the store.       *)
LEMMA PlainView ==
    ASSUME NoForkInv, CancelAlone
    PROVE  Swapping = {} /\ ReadView = View(db, balance)
<1>1. Swapping = {}
  BY DEF NoForkInv, CancelAlone, Swapping, UndoOf
<1> QED BY <1>1 DEF ReadView

(* What a validated block leaves to be written.                            *)
LEMMA PutFacts ==
    ASSUME NEW v \in ViewT, NEW a \in Account, NEW b \in BlockT, ValidFor(v, b)
    PROVE  /\ PutOK(BlockCommit(v, a, b))
           /\ b.type = "lease_settle" =>
                 /\ BlockCommit(v, a, b).expectDur = EffectiveDurationSecs(v.lease)
                 /\ BlockCommit(v, a, b).expectDur > 0
<1> DEFINE c == BlockCommit(v, a, b)
<1>1. c.block = b
  BY DEF BlockCommit
<1>2. b.type \in BlockType
  BY DEF BlockT
<1>3. b.type \in {"lease_renew", "lease_settle"} =>
         /\ v.lease \in LeaseRecord /\ v.lease.state = Accepted
         /\ c.expectDur = EffectiveDurationSecs(v.lease)
  BY DEF ValidFor, ValidLeaseRenew, ValidLeaseSettle, ViewT, BlockCommit
<1>4. \A l \in LeaseRecord : EffectiveDurationSecs(l) > 0
  <2> SUFFICES ASSUME NEW l \in LeaseRecord PROVE EffectiveDurationSecs(l) > 0
    OBVIOUS
  <2>1. PICK k \in Nat : k = Len(l.renewals)
    BY DEF LeaseRecord
  <2>2. RenewDuration * k \in Nat
    BY Constants
  <2> QED BY <2>1, <2>2, Constants DEF EffectiveDurationSecs
<1>5. b.type = "lease" => c.putLease = NewLease
  BY DEF BlockCommit
<1>6. b.type = "lease_accept" => c.putLease # None /\ c.putLease.state = Accepted
  <2> SUFFICES ASSUME b.type = "lease_accept"
               PROVE  c.putLease # None /\ c.putLease.state = Accepted
    OBVIOUS
  <2>1. b.time \in Nat /\ RateAt(b.time) \in Nat
    BY Constants DEF BlockT
  <2>2. PICK l : l = [NewLease EXCEPT !.state = Accepted, !.startTime = b.time,
                                      !.lockedR = RateAt(b.time)]
    OBVIOUS
  <2>3. l \in LeaseRecord /\ l.state = Accepted
    BY <2>1, <2>2, NewLeaseType DEF LeaseRecord, LeaseState
  <2>4. c.putLease = l
    BY <2>2 DEF BlockCommit
  <2> QED BY <2>3, <2>4, Constants
<1>7. b.type = "lease_renew" =>
         /\ c.putLease # None /\ c.putLease.state = Accepted
         /\ EffectiveDurationSecs(c.putLease) = c.expectDur + RenewDuration
  <2> SUFFICES ASSUME b.type = "lease_renew"
               PROVE  /\ c.putLease # None /\ c.putLease.state = Accepted
                      /\ EffectiveDurationSecs(c.putLease) = c.expectDur + RenewDuration
    OBVIOUS
  <2>1. PICK r \in Nat : r = RateAt(b.time)
    BY Constants DEF BlockT
  <2>2. PICK l \in LeaseRecord : l = v.lease
    BY <1>3
  <2>3. PICK s \in Seq(Nat) : s = l.renewals
    BY DEF LeaseRecord
  <2>4. Append(s, r) \in Seq(Nat) /\ Len(Append(s, r)) = Len(s) + 1 /\ Len(s) \in Nat
    OBVIOUS
  <2>5. PICK m : m = [l EXCEPT !.renewals = Append(@, r)]
    OBVIOUS
  <2>6. m \in LeaseRecord /\ m.state = l.state /\ m.renewals = Append(s, r)
    BY <2>3, <2>4, <2>5 DEF LeaseRecord
  <2>7. c.putLease = m
    BY <2>1, <2>2, <2>5 DEF BlockCommit
  <2>8. EffectiveDurationSecs(m) = EffectiveDurationSecs(l) + RenewDuration
    <3>1. PICK k \in Nat : k = Len(s)
      BY <2>4
    <3>2. RenewDuration * (k + 1) = RenewDuration * k + RenewDuration
      BY Constants
    <3>3. RenewDuration * k \in Nat
      BY Constants
    <3> QED BY <2>3, <2>4, <2>6, <3>1, <3>2, <3>3, Constants DEF EffectiveDurationSecs
  <2> QED BY <1>3, <2>2, <2>6, <2>7, <2>8, Constants
<1>8. b.type \notin {"lease", "lease_accept", "lease_renew"} => c.putLease = None
  BY <1>2 DEF BlockCommit
<1> QED BY <1>1, <1>3, <1>4, <1>5, <1>6, <1>7, <1>8 DEF PutOK

(* A provider that was never paid in XUSD has none.                        *)
LEMMA ProviderHasNone ==
    ASSUME LeaseInv, Money
    PROVE  balance[Provider]["XUSD"] = 0
<1>1. PICK chain \in Seq(BlockT) : chain = db.chain[Provider]
  BY DEF LeaseInv, Types, Db, Account
<1>2. balance[Provider]["XUSD"] = AssetBalanceOnChain(chain, "XUSD")
  BY <1>1 DEF LeaseInv, BalancesSurviveRestart, RebuildAssetBalances, AssetBalancesOnChain, Account
<1>3. PICK I : I = {i \in 1..Len(chain) : chain[i].asset = "XUSD"}
  OBVIOUS
<1>4. \A i \in I : chain[i].balance = 0
  BY <1>1, <1>3 DEF Money
<1>5. "XUSD" \in Asset
  BY DEF Asset
<1> QED BY <1>2, <1>3, <1>4, <1>5, BalanceIs

(* A write as it is when it has just been prepared.                        *)
LEMMA PreparedFresh ==
    ASSUME LeaseInv, NoForkInv, NEW a \in Account, NEW type \in TypesOf(a),
           NEW t \in 0..(MaxTime + MaxAttestationSkew), NEW v, v = View(db, balance),
           type = "lease_settle" => v.lease # None,
           NEW b, b = MakeBlock(v, a, type, t), Valid(v, a, b)
    PROVE  Prepared(a, BlockCommit(v, a, b))
<1>0. db \in Db /\ balance \in Balances /\ db.escrow \in Nat
  BY DEF LeaseInv, Types, Db
<1>1. /\ v \in ViewT /\ v.lease = db.lease /\ v.escrow = db.escrow /\ v.balance = balance
  BY <1>0, ViewType
<1>2. b \in BlockT /\ b.type = type
  BY <1>1, ValidatedType
<1>3. PICK c \in CommitT : c = BlockCommit(v, a, b) /\ c.block = b
  BY <1>1, ValidatedType
<1>4. ValidFor(v, b)
  BY DEF Valid
<1>5. PutOK(c) /\ (type = "lease_settle" => /\ c.expectDur = EffectiveDurationSecs(v.lease)
                                            /\ c.expectDur > 0)
  BY <1>1, <1>2, <1>3, <1>4, PutFacts
<1>6. /\ b.amount = Amount(v, type) /\ b.asset = AssetOf(type)
      /\ b.balance = IF Debits(type) THEN balance[a][AssetOf(type)] - Amount(v, type)
                     ELSE balance[a][AssetOf(type)] + Amount(v, type)
  BY <1>1 DEF MakeBlock, Block
<1>7. type # "receive"
  BY <1>1, <1>2, <1>4 DEF ValidFor, ValidReceive, NoForkInv, Pending
<1>8. type = "lease" => db.lease = None /\ b.amount = LeaseCost(Duration)
  BY <1>1, <1>2, <1>4, <1>6 DEF ValidFor, ValidLease, Amount
<1>9. \A x \in Account : balance[x]["XUSD"] \in Nat
  BY <1>0 DEF Balances, Asset
<1>10. b.amount \in Nat
  BY <1>2 DEF BlockT
<1>11. type \in {"lease", "lease_renew"} => b.balance + b.amount = balance[Consumer]["XUSD"]
  <2> SUFFICES ASSUME type \in {"lease", "lease_renew"}
               PROVE  b.balance + b.amount = balance[Consumer]["XUSD"]
    OBVIOUS
  <2>1. a = Consumer
    BY DEF TypesOf, Account
  <2>2. AssetOf(type) = "XUSD" /\ Debits(type)
    BY DEF AssetOf, Debits
  <2>3. b.balance = balance[Consumer]["XUSD"] - b.amount
    BY <1>6, <2>1, <2>2
  <2> QED BY <1>9, <1>10, <2>1, <2>3
<1>12. type \in {"lease_cancel", "lease_force_settle"} => b.balance <= Funds
  <2> SUFFICES ASSUME type \in {"lease_cancel", "lease_force_settle"}
               PROVE  b.balance <= Funds
    OBVIOUS
  <2>1. a = Consumer
    BY DEF TypesOf, Account
  <2>2. AssetOf(type) = "XUSD" /\ ~Debits(type)
    BY DEF AssetOf, Debits
  <2>3. b.balance = balance[Consumer]["XUSD"] + b.amount
    BY <1>6, <2>1, <2>2
  <2>4. db.escrow # 0
    BY <1>1, <1>2, <1>4 DEF ValidFor, ValidLeaseCancel, ValidLeaseForceSettle
  <2>5. b.amount <= db.escrow
    BY <1>0, <1>1, <1>6, <2>4 DEF Amount, NoForkInv, Pending
  <2> QED BY <1>0, <1>9, <1>10, <2>1, <2>3, <2>5, Constants DEF NoForkInv, Money
<1>13. type = "lease_accept" => b.balance = 0
  <2> SUFFICES ASSUME type = "lease_accept" PROVE b.balance = 0
    OBVIOUS
  <2>1. a = Provider
    BY DEF TypesOf, Account
  <2>2. AssetOf(type) = "XUSD" /\ ~Debits(type) /\ Amount(v, type) = 0
    BY DEF AssetOf, Debits, Amount
  <2>3. balance[Provider]["XUSD"] = 0
    BY ProviderHasNone DEF NoForkInv
  <2> QED BY <1>6, <2>1, <2>2, <2>3
<1>14. type = "lease_settle" =>
          /\ db.lease # None
          /\ EffectiveDurationSecs(db.lease) >= c.expectDur
          /\ b.amount = LeaseTotalEmission(db.lease)
  <2> SUFFICES ASSUME type = "lease_settle"
               PROVE  /\ db.lease # None
                      /\ EffectiveDurationSecs(db.lease) >= c.expectDur
                      /\ b.amount = LeaseTotalEmission(db.lease)
    OBVIOUS
  <2>1. PICK k \in Nat : k = EffectiveDurationSecs(db.lease)
    BY <1>0, <1>1, DurationType DEF Db
  <2> QED BY <1>1, <1>5, <1>6, <2>1 DEF Amount
<1> QED BY <1>2, <1>3, <1>5, <1>6, <1>7, <1>8, <1>11, <1>12, <1>13, <1>14 DEF Prepared

(* The commit of a prepared write, without forks. *)
LEMMA CommitBlockPlain ==
    ASSUME LeaseInv, NoForkInv, NEW a \in Account, CommitBlock(a)
    PROVE  /\ NoForkInv'
           /\ \A x \in Account, i \in Nat :
                 Ends(x, i)' => Ends(x, i) \/ op[a].commit.block.type \in EndTypes
<1>0. /\ db \in Db /\ balance \in Balances /\ op \in [Account -> OpT \cup {None}]
      /\ db.escrow \in Nat /\ db.lease \in LeaseRecord \cup {None}
      /\ db.chain \in [Account -> Seq(BlockT)]
  BY DEF LeaseInv, Types, Db
<1>1. /\ op[a] # None /\ op' = [op EXCEPT ![a] = None]
      /\ UNCHANGED <<finalHeight, staged, cancel, arch, now, habit>>
  BY DEF CommitBlock
<1>2. PICK c \in CommitT : /\ c = op[a].commit /\ c.account = a /\ Expects(c)
                           /\ Prepared(a, c)
  BY <1>0, <1>1 DEF OpT, LeaseInv, OpOK, NoForkInv
<1>3. /\ op'[a] = None /\ \A x \in Account : x # a => op'[x] = op[x]
      /\ \A x \in Account : staged'[x] = None
  BY <1>0, <1>1 DEF NoForkInv
<1>4. CASE ~CanCommit(db, c)
  <2>1. UNCHANGED <<db, balance>>
    BY <1>2, <1>4 DEF CommitBlock
  <2>2. \A x \in Account : op'[x] # None =>
           op'[x].undo = None /\ Prepared(x, op[x].commit)'
    BY <1>3, <2>1 DEF NoForkInv, Prepared
  <2>3. NoForkInv'
    BY <1>1, <1>3, <2>1, <2>2
       DEF NoForkInv, Pending, OneEnd, Ends, Money, SettlePaysEverySegment
  <2>4. \A x \in Account, i \in Nat : Ends(x, i)' => Ends(x, i)
    BY <2>1 DEF Ends
  <2> QED BY <2>3, <2>4
<1>5. CASE CanCommit(db, c)
  <2> DEFINE type == c.block.type
  <2>1. db' = ApplyCommit(db, c) /\ balance' = CommitBalance(balance, c)
    BY <1>2, <1>5 DEF CommitBlock
  <2>2. /\ db' \in Db
        /\ db'.chain = [db.chain EXCEPT ![c.account] = Append(@, c.block)]
        /\ db'.lease = IF c.putLease # None THEN c.putLease ELSE Ended(db.lease, type)
    BY <1>0, <1>2, <1>5, <2>1, ApplyCommitType
  <2>3. db'.escrow = CASE type = "lease" -> c.block.amount
                       [] type = "lease_renew" -> db.escrow + c.block.amount
                       [] type \in {"lease_settle", "lease_cancel",
                                    "lease_force_settle", "receive"} -> 0
                       [] OTHER -> db.escrow
    BY <2>1 DEF ApplyCommit
  <2>4. PICK s \in Seq(BlockT) : s = db.chain[a]
    BY <1>0
  <2>5. /\ db'.chain[a] = Append(s, c.block) /\ c.block \in BlockT
        /\ \A x \in Account : x # a => db'.chain[x] = db.chain[x]
    BY <1>0, <1>2, <2>2, <2>4 DEF CommitT
  <2>6. /\ Len(db'.chain[a]) = Len(s) + 1 /\ Len(s) \in Nat
        /\ db'.chain[a][Len(s) + 1] = c.block
        /\ \A i \in 1..Len(s) : db'.chain[a][i] = s[i]
    BY <2>5
  <2>7. type \in TypesOf(a) \ {"receive"} /\ c.block.asset = AssetOf(type) /\ PutOK(c)
    BY <1>2 DEF Prepared
  <2>8. /\ type \in {"lease_accept", "lease_cancel"} =>
              db.lease # None /\ db.lease.state = Created
        /\ type \in {"lease_renew", "lease_settle", "lease_force_settle"} =>
              db.lease # None /\ db.lease.state = Accepted
    BY <1>2, <1>5, Constants DEF CanCommit, ExpectLease, Expects, LeaseState
  <2>9. type = "lease" => db.lease = None
    BY <1>2 DEF Prepared
  <2>10. \A x \in Account, i \in Nat :
            Ends(x, i)' <=> \/ Ends(x, i)
                            \/ x = a /\ i = Len(s) + 1 /\ type \in EndTypes
    <3> SUFFICES ASSUME NEW x \in Account, NEW i \in Nat
                 PROVE  Ends(x, i)' <=> \/ Ends(x, i)
                                        \/ x = a /\ i = Len(s) + 1 /\ type \in EndTypes
      OBVIOUS
    <3>1. CASE x # a
      BY <2>5, <3>1 DEF Ends
    <3>2. CASE x = a /\ i \in 1..Len(s)
      <4>1. i \in 1..Len(db'.chain[a]) /\ db'.chain[a][i] = s[i] /\ i # Len(s) + 1
        BY <2>6, <3>2
      <4> QED BY <2>4, <3>2, <4>1 DEF Ends
    <3>3. CASE x = a /\ i = Len(s) + 1
      <4>1. i \in 1..Len(db'.chain[a]) /\ i \notin 1..Len(s) /\ db'.chain[a][i] = c.block
        BY <2>6, <3>3
      <4>2. type # "receive"
        BY <2>7
      <4> QED BY <2>4, <3>3, <4>1, <4>2 DEF Ends
    <3>4. CASE x = a /\ i \notin 1..Len(s) /\ i # Len(s) + 1
      <4>1. i \notin 1..Len(db'.chain[a])
        BY <2>6, <3>4
      <4> QED BY <2>4, <3>4, <4>1 DEF Ends
    <3> QED BY <3>1, <3>2, <3>3, <3>4
  <2>11. /\ type = "lease" => db'.lease # None /\ db'.lease.state = Created
         /\ type \in {"lease_accept", "lease_renew"} =>
               db'.lease # None /\ db'.lease.state = Accepted
         /\ type \in EndTypes =>
               /\ db'.lease # None
               /\ db'.lease.state \in {Settled, Cancelled, Unfulfilled}
               /\ type # "lease_settle" => db'.lease.state # Settled
         /\ type = "burn" => db'.lease = db.lease
    <3>1. type = "burn" => Ended(db.lease, type) = db.lease
      BY DEF Ended
    <3>2. type \in EndTypes =>
             /\ Ended(db.lease, type) \in LeaseRecord
             /\ Ended(db.lease, type).state \in {Settled, Cancelled, Unfulfilled}
             /\ type # "lease_settle" => Ended(db.lease, type).state # Settled
      BY <1>0, <2>8 DEF Ended, EndTypes, LeaseRecord, LeaseState, Settled, Cancelled, Unfulfilled
    <3>3. NewLease # None /\ NewLease.state = Created
      BY NewLeaseType, Constants
    <3> QED BY <2>2, <2>7, <3>1, <3>2, <3>3, Constants DEF PutOK, EndTypes
  <2>12. type \in {"lease", "lease_renew", "lease_accept", "burn"} \cup EndTypes
    BY <2>7 DEF TypesOf, EndTypes
  <2>13. OneEnd'
    <3>1. CASE type \in EndTypes
      <4>1. Live(db.lease)
        BY <2>8, <3>1 DEF Live, EndTypes
      <4>2. \A x \in Account, i \in Nat : ~Ends(x, i)
        BY <4>1 DEF NoForkInv, OneEnd
      <4>3. ~(db'.lease = None \/ Live(db'.lease))
        BY <2>11, <3>1 DEF Live, Created, Accepted, Settled, Cancelled, Unfulfilled
      <4> QED BY <2>10, <4>2, <4>3 DEF OneEnd, Live
    <3>2. CASE type \notin EndTypes
      <4>1. \A x \in Account, i \in Nat : Ends(x, i)' <=> Ends(x, i)
        BY <2>10, <3>2
      <4>2. db'.lease = None \/ Live(db'.lease) => db.lease = None \/ Live(db.lease)
        BY <2>8, <2>9, <2>11, <2>12, <3>2 DEF Live
      <4> QED BY <4>1, <4>2 DEF NoForkInv, OneEnd, Live
    <3> QED BY <3>1, <3>2
  <2>14. c.block.amount \in Nat /\ c.block.balance \in Nat
    BY <2>5 DEF BlockT
  <2>15. Pending'
    <3>1. CASE type = "lease"
      <4>1. db'.escrow = LeaseCost(Duration) /\ Live(db'.lease)
        BY <1>2, <2>3, <2>11, <3>1 DEF Prepared, Live
      <4>2. arch.pc = "scan"
        BY <2>9, <3>1 DEF NoForkInv, Pending
      <4>3. LeaseCost(Duration) \in Nat
        BY Constants DEF LeaseCost
      <4> QED BY <1>1, <4>1, <4>2, <4>3 DEF Pending, Live
    <3>2. CASE type = "lease_accept"
      BY <1>1, <2>3, <2>11, <3>2 DEF NoForkInv, Pending, Live
    <3>3. CASE type = "lease_renew"
      <4>1. db.escrow # 0
        BY <1>5, <3>3 DEF CanCommit
      <4>2. PICK k \in Nat : k = LeaseCost(Duration)
        BY Constants DEF LeaseCost
      <4>3. db'.escrow >= k
        BY <1>0, <2>3, <2>14, <3>3, <4>1, <4>2 DEF NoForkInv, Pending
      <4>4. arch.pc # "put" /\ db'.lease # None /\ Live(db'.lease)
        BY <2>11, <3>3, <4>1 DEF NoForkInv, Pending, Live
      <4> QED BY <1>1, <4>2, <4>3, <4>4 DEF Pending, Live
    <3>4. CASE type \in EndTypes
      <4>1. db'.escrow = 0
        BY <2>3, <3>4 DEF EndTypes
      <4> QED BY <1>1, <2>11, <3>4, <4>1 DEF Pending
    <3>5. CASE type = "burn"
      BY <1>1, <2>3, <2>11, <3>5 DEF NoForkInv, Pending, Live
    <3> QED BY <2>12, <3>1, <3>2, <3>3, <3>4, <3>5
  <2>16. /\ \A x \in Account, y \in Asset :
               (x # a \/ y # c.block.asset) => balance'[x][y] = balance[x][y]
         /\ balance'[a][c.block.asset] = c.block.balance
    BY <1>0, <1>2, <2>1, <2>5 DEF CommitBalance, Balances, BlockT
  <2>17. \A i \in 1..Len(db'.chain[Provider]) :
            db'.chain[Provider][i].asset = "XUSD" => db'.chain[Provider][i].balance = 0
    <3>1. CASE a # Provider
      <4>1. db'.chain[Provider] = db.chain[Provider]
        BY <2>5, <3>1 DEF Account
      <4> QED BY <4>1 DEF NoForkInv, Money
    <3>2. CASE a = Provider
      <4>1. c.block.asset = "XUSD" => type = "lease_accept"
        BY <2>7, <3>2 DEF TypesOf, AssetOf, Consumer, Provider
      <4>2. c.block.asset = "XUSD" => c.block.balance = 0
        BY <1>2, <4>1 DEF Prepared
      <4>3. \A i \in 1..Len(s) : s[i].asset = "XUSD" => s[i].balance = 0
        BY <2>4, <3>2 DEF NoForkInv, Money
      <4> QED BY <2>6, <3>2, <4>2, <4>3
    <3> QED BY <3>1, <3>2
  <2>18. balance'[Consumer]["XUSD"] + db'.escrow <= Funds
    <3>1. balance[Consumer]["XUSD"] \in Nat /\ "XUSD" \in Asset /\ Consumer \in Account
      BY <1>0 DEF Balances, Asset, Account
    <3>2. balance[Consumer]["XUSD"] + db.escrow <= Funds
      BY DEF NoForkInv, Money
    <3>3. CASE type \in {"lease", "lease_renew"}
      <4>1. a = Consumer /\ c.block.asset = "XUSD"
        BY <2>7, <3>3 DEF TypesOf, AssetOf, Account
      <4>2. balance'[Consumer]["XUSD"] = c.block.balance
        BY <2>16, <4>1
      <4>3. c.block.balance + c.block.amount = balance[Consumer]["XUSD"]
        BY <1>2, <3>3 DEF Prepared
      <4>4. type = "lease" => db.escrow = 0
        BY <2>9 DEF NoForkInv, Pending, Live
      <4>5. db'.escrow <= db.escrow + c.block.amount /\ db'.escrow \in Nat
        BY <1>0, <2>3, <2>14, <3>3, <4>4
      <4>6. PICK new, old, paid, had, has :
               /\ new = balance'[Consumer]["XUSD"] /\ old = balance[Consumer]["XUSD"]
               /\ paid = c.block.amount /\ had = db.escrow /\ has = db'.escrow
        OBVIOUS
      <4>7. /\ new \in Nat /\ old \in Nat /\ paid \in Nat /\ had \in Nat /\ has \in Nat
            /\ new + paid = old /\ old + had <= Funds /\ has <= had + paid
        BY <1>0, <2>14, <3>1, <3>2, <4>2, <4>3, <4>5, <4>6 DEF Db
      <4>8. Funds \in Nat
        BY Constants
      <4>9. new + has <= Funds
        BY <4>7, <4>8
      <4> QED BY <4>6, <4>9
    <3>4. CASE type \in {"lease_cancel", "lease_force_settle"}
      <4>1. a = Consumer /\ c.block.asset = "XUSD"
        BY <2>7, <3>4 DEF TypesOf, AssetOf, Account
      <4>2. balance'[Consumer]["XUSD"] = c.block.balance
        BY <2>16, <4>1
      <4>3. c.block.balance <= Funds /\ db'.escrow = 0
        BY <1>2, <2>3, <3>4 DEF Prepared
      <4> QED BY <2>14, <4>2, <4>3, Constants
    <3>5. CASE type \in {"lease_accept", "lease_settle", "burn"}
      <4>1. balance'[Consumer]["XUSD"] = balance[Consumer]["XUSD"]
        <5>1. a # Consumer \/ c.block.asset # "XUSD"
          BY <2>7, <3>5 DEF TypesOf, AssetOf, Consumer, Provider
        <5> QED BY <2>16, <3>1, <5>1
      <4>2. db'.escrow <= db.escrow /\ db'.escrow \in Nat
        BY <1>0, <2>3, <3>5
      <4> QED BY <1>0, <3>1, <3>2, <4>1, <4>2, Constants
    <3> QED BY <2>12, <3>3, <3>4, <3>5 DEF EndTypes
  <2>19. SettlePaysEverySegment'
    <3> SUFFICES ASSUME db'.lease # None, db'.lease.state = Settled,
                        NEW i \in DOMAIN db'.chain[Provider],
                        db'.chain[Provider][i].type = "lease_settle"
                 PROVE  db'.chain[Provider][i].amount = LeaseTotalEmission(db'.lease)
      BY DEF SettlePaysEverySegment
    <3>0. db'.chain[Provider] \in Seq(BlockT) /\ i \in 1..Len(db'.chain[Provider]) /\ i \in Nat
      <4>1. PICK q \in Seq(BlockT) : q = db'.chain[Provider]
        BY <2>2 DEF Db, Account
      <4>2. DOMAIN q = 1..Len(q) /\ Len(q) \in Nat
        OBVIOUS
      <4> QED BY <4>1, <4>2
    <3>1. CASE type = "lease_settle"
      <4>1. a = Provider
        BY <2>7, <3>1 DEF TypesOf, Account
      <4>2. \A j \in Nat : ~Ends(Provider, j)
        BY <2>8, <3>1 DEF NoForkInv, OneEnd, Live, Account
      <4>3. i = Len(s) + 1
        BY <2>4, <2>6, <3>0, <4>1, <4>2 DEF Ends, EndTypes
      <4>4. db'.chain[Provider][i] = c.block
        BY <2>6, <4>1, <4>3
      <4>5. c.expectDur # 0 /\ c.expect # None
        BY <1>2, <3>1, Constants DEF Prepared, Expects, LeaseState, CommitT
      <4>6. EffectiveDurationSecs(db.lease) = c.expectDur
        BY <1>5, <4>5 DEF CanCommit, ExpectLease
      <4>7. c.block.amount = LeaseTotalEmission(db.lease)
        BY <1>2, <2>8, <3>1, <4>6 DEF Prepared
      <4>8. db'.lease = [db.lease EXCEPT !.state = Settled, !.settled = TRUE]
        BY <2>2, <2>7, <3>1 DEF PutOK, Ended
      <4>9. LeaseTotalEmission(db'.lease) = LeaseTotalEmission(db.lease)
        <5>1. db'.lease.renewals = db.lease.renewals /\ db'.lease.lockedR = db.lease.lockedR
          BY <1>0, <2>8, <3>1, <4>8 DEF LeaseRecord
        <5> QED BY <5>1 DEF LeaseTotalEmission
      <4> QED BY <4>4, <4>7, <4>9
    <3>2. CASE type # "lease_settle"
      <4>1. type = "burn"
        BY <2>11, <2>12, <3>2 DEF Created, Accepted, Settled
      <4>2. db'.lease = db.lease
        BY <2>11, <4>1
      <4>3. /\ i \in 1..Len(db.chain[Provider])
            /\ db'.chain[Provider][i] = db.chain[Provider][i]
        <5>1. CASE a # Provider
          BY <2>5, <3>0, <5>1 DEF Account
        <5>2. CASE a = Provider
          <6>1. i # Len(s) + 1
            BY <2>6, <4>1, <5>2
          <6>2. i \in 1..Len(s)
            BY <2>6, <3>0, <5>2, <6>1
          <6> QED BY <2>4, <2>6, <5>2, <6>2
        <5> QED BY <5>1, <5>2
      <4>4. i \in DOMAIN db.chain[Provider]
        BY <1>0, <4>3 DEF Account
      <4> QED BY <4>2, <4>3, <4>4 DEF NoForkInv, SettlePaysEverySegment
    <3> QED BY <3>1, <3>2
  <2>20. ASSUME NEW x \in Account, op'[x] # None
         PROVE  op'[x].undo = None /\ Prepared(x, op[x].commit)'
    <3>1. x # a /\ op'[x] = op[x]
      BY <1>3, <2>20
    <3>2. PICK e \in CommitT : e = op[x].commit
      BY <1>0, <2>20, <3>1 DEF OpT
    <3>3. Prepared(x, e) /\ op'[x].undo = None
      BY <2>20, <3>1, <3>2 DEF NoForkInv
    <3>4. e.block.type = "lease" => db'.lease = None
      <4> SUFFICES ASSUME e.block.type = "lease" PROVE db'.lease = None
        OBVIOUS
      <4>1. db.lease = None /\ x = Consumer
        BY <3>3 DEF Prepared, TypesOf, Account
      <4>2. type = "burn"
        BY <2>7, <2>8, <2>12, <3>1, <4>1 DEF TypesOf, EndTypes, Account
      <4> QED BY <2>11, <4>1, <4>2
    <3>5. e.block.type \in {"lease", "lease_renew"} =>
             balance'[Consumer]["XUSD"] = balance[Consumer]["XUSD"]
      <4>1. e.block.type \in {"lease", "lease_renew"} => x = Consumer
        BY <3>3 DEF Prepared, TypesOf, Account
      <4> QED BY <2>16, <3>1, <4>1 DEF Asset, Account
    <3>6. e.block.type = "lease_settle" =>
             /\ db'.lease # None
             /\ db'.lease.state = Accepted =>
                   /\ EffectiveDurationSecs(db'.lease) >= e.expectDur
                   /\ EffectiveDurationSecs(db'.lease) = e.expectDur =>
                         e.block.amount = LeaseTotalEmission(db'.lease)
      <4> SUFFICES ASSUME e.block.type = "lease_settle"
                   PROVE  /\ db'.lease # None
                          /\ db'.lease.state = Accepted =>
                                /\ EffectiveDurationSecs(db'.lease) >= e.expectDur
                                /\ EffectiveDurationSecs(db'.lease) = e.expectDur =>
                                      e.block.amount = LeaseTotalEmission(db'.lease)
        OBVIOUS
      <4>1. x = Provider /\ a = Consumer
        BY <3>1, <3>3 DEF Prepared, TypesOf, Account
      <4>2. /\ db.lease # None
            /\ db.lease.state = Accepted =>
                  /\ EffectiveDurationSecs(db.lease) >= e.expectDur
                  /\ EffectiveDurationSecs(db.lease) = e.expectDur =>
                        e.block.amount = LeaseTotalEmission(db.lease)
        BY <3>3 DEF Prepared
      <4>3. type \in {"lease_renew", "lease_cancel", "lease_force_settle", "burn"}
        BY <2>7, <2>9, <4>1, <4>2 DEF TypesOf
      <4>4. CASE type = "lease_renew"
        <5>1. c.expectDur > 0 /\ c.expect # None
          BY <1>2, <2>7, <4>4, Constants DEF PutOK, Expects, LeaseState
        <5>2. EffectiveDurationSecs(db.lease) = c.expectDur /\ c.expectDur \in Nat
          BY <1>5, <5>1 DEF CanCommit, ExpectLease, CommitT
        <5>3. EffectiveDurationSecs(db'.lease) = c.expectDur + RenewDuration
          BY <2>2, <2>7, <4>4 DEF PutOK
        <5>4. e.expectDur \in Nat
          BY DEF CommitT
        <5> QED BY <2>8, <2>11, <4>2, <4>4, <5>2, <5>3, <5>4, Constants
      <4>5. CASE type \in {"lease_cancel", "lease_force_settle"}
        BY <2>11, <4>5 DEF EndTypes, Accepted, Settled, Cancelled, Unfulfilled
      <4>6. CASE type = "burn"
        BY <2>11, <4>2, <4>6
      <4> QED BY <4>3, <4>4, <4>5, <4>6
    <3>7. Prepared(x, e)'
      BY <3>3, <3>4, <3>5, <3>6 DEF Prepared
    <3>8. op'[x].commit = e
      BY <3>1, <3>2
    <3> QED BY <3>3, <3>7, <3>8 DEF Prepared
  <2>21. NoForkInv'
    BY <1>3, <2>13, <2>15, <2>17, <2>18, <2>19, <2>20 DEF NoForkInv, Money
  <2> QED BY <1>2, <2>10, <2>21
<1> QED BY <1>4, <1>5

(* Validation keeps NoForkInv.                                             *)
LEMMA ValidatePlain ==
    ASSUME LeaseInv, NoForkInv, CancelAlone, NEW a \in Account, NEW type \in TypesOf(a),
           NEW t \in Times(type), Validate(a, type, t)
    PROVE  NoForkInv'
<1>0. op \in [Account -> OpT \cup {None}]
  BY DEF LeaseInv, Types
<1>1. PICK v : v = View(db, balance) /\ v = ReadView
  BY PlainView
<1>2. PICK b : b = MakeBlock(v, a, type, t)
  OBVIOUS
<1>3. /\ Valid(v, a, b) /\ (type = "lease_settle" => v.lease # None) /\ Idle(a)
      /\ op' = [op EXCEPT ![a] = [commit |-> BlockCommit(v, a, b), undo |-> None]]
      /\ UNCHANGED <<db, balance, finalHeight, staged, cancel, arch, now, habit>>
  BY <1>1, <1>2 DEF Validate
<1>4. t \in 0..(MaxTime + MaxAttestationSkew)
  BY TimesType
<1>5. PICK c : c = BlockCommit(v, a, b) /\ Prepared(a, c)
  BY <1>1, <1>2, <1>3, <1>4, PreparedFresh
<1>6. /\ op'[a] = [commit |-> c, undo |-> None]
      /\ \A x \in Account : x # a => op'[x] = op[x]
  BY <1>0, <1>3, <1>5
<1>7. ASSUME NEW x \in Account, op'[x] # None
      PROVE  op'[x].undo = None /\ Prepared(x, op[x].commit)'
  <2>1. CASE x = a
    BY <1>3, <1>5, <1>6, <2>1 DEF Prepared
  <2>2. CASE x # a
    BY <1>3, <1>6, <1>7, <2>2 DEF NoForkInv, Prepared
  <2> QED BY <2>1, <2>2
<1>8. Pending' /\ Money'
  BY <1>3 DEF NoForkInv, Pending, Money
<1>9. OneEnd' /\ SettlePaysEverySegment'
  BY <1>3 DEF NoForkInv, OneEnd, Ends, SettlePaysEverySegment
<1>10. \A x \in Account : staged'[x] = None
  BY <1>3 DEF NoForkInv
<1> QED BY <1>7, <1>8, <1>9, <1>10 DEF NoForkInv

(* A cancellation that unwinds an accept keeps NoForkInv.                  *)
LEMMA UnwindPlain ==
    ASSUME LeaseInv, LeaseInv', NoForkInv, CancelAlone, UnwindAccept, Unwinds
    PROVE  NoForkInv'
<1>0. /\ db \in Db /\ balance \in Balances /\ op \in [Account -> OpT \cup {None}]
      /\ db.chain \in [Account -> Seq(BlockT)] /\ db.escrow \in Nat
      /\ db' \in Db /\ balance' \in Balances
  BY DEF LeaseInv, Types, Db
<1>1. /\ op[Consumer] = None /\ op[Provider] = None /\ cancel.undo = None
      /\ UNCHANGED <<finalHeight, staged, arch, now, habit>>
  BY DEF UnwindAccept, Unwinds, Idle, LeaseInv, CancelOK, CancelAlone
<1>2. /\ db'.chain = [db.chain EXCEPT ![Provider] = Front(@)]
      /\ Len(db'.chain[Provider]) = Len(db.chain[Provider]) - 1
      /\ db'.escrow = db.escrow /\ db.lease # None
      /\ db'.lease = PriorLease(db.lease, Created)
      /\ balance'[Consumer] = balance[Consumer]
  BY UnwindFacts
<1>3. db.lease \in LeaseRecord
  BY <1>0, <1>2 DEF Db
<1>4. db'.lease \in LeaseRecord /\ db'.lease.state = Created /\ db'.lease # None
  BY <1>2, <1>3, PriorLeaseType, Constants DEF LeaseState
<1>5. PICK s \in Seq(BlockT) : s = db.chain[Provider] /\ Len(s) > 0
  <2>1. db.chain[Provider] \in Seq(BlockT) /\ Len(db.chain[Provider]) > 0
    BY <1>0 DEF LeaseInv, Heights, Account, Types
  <2> QED BY <2>1
<1>6. /\ db'.chain[Provider] = Front(s) /\ Len(Front(s)) = Len(s) - 1
      /\ \A i \in 1..(Len(s) - 1) : Front(s)[i] = s[i]
      /\ \A x \in Account : x # Provider => db'.chain[x] = db.chain[x]
  <2>1. db'.chain[Provider] = Front(s) /\ \A x \in Account : x # Provider => db'.chain[x] = db.chain[x]
    BY <1>0, <1>2, <1>5 DEF Account
  <2>2. Len(Front(s)) = Len(s) - 1 /\ \A i \in 1..(Len(s) - 1) : Front(s)[i] = s[i]
    BY <1>5, FrontLast
  <2> QED BY <2>1, <2>2
<1>7. \A x \in Account, i \in Nat : Ends(x, i)' => Ends(x, i)
  <2> SUFFICES ASSUME NEW x \in Account, NEW i \in Nat, Ends(x, i)' PROVE Ends(x, i)
    OBVIOUS
  <2>1. CASE x # Provider
    BY <1>6, <2>1 DEF Ends
  <2>2. CASE x = Provider
    <3>1. i \in 1..(Len(s) - 1)
      BY <1>6, <2>2 DEF Ends
    <3>2. i \in 1..Len(s) /\ db'.chain[Provider][i] = s[i]
      BY <1>6, <3>1
    <3> QED BY <1>5, <2>2, <3>2 DEF Ends
  <2> QED BY <2>1, <2>2
<1>8. \A x \in Account, i \in Nat : ~Ends(x, i)
  BY DEF UnwindAccept, CancelAlone
<1>9. OneEnd'
  <2>1. \A x \in Account, i \in Nat : ~Ends(x, i)'
    BY <1>7, <1>8
  <2> QED BY <2>1 DEF OneEnd
<1>10. Pending'
  BY <1>1, <1>2, <1>4 DEF NoForkInv, Pending, Live
<1>11. balance'[Consumer] = balance[Consumer]
  BY <1>2
<1>12. Money'
  <2>1. \A i \in 1..Len(db'.chain[Provider]) : db'.chain[Provider][i] = s[i] /\ i \in 1..Len(s)
    BY <1>5, <1>6
  <2>2. \A i \in 1..Len(s) : s[i].asset = "XUSD" => s[i].balance = 0
    BY <1>5 DEF NoForkInv, Money
  <2> QED BY <1>2, <1>11, <2>1, <2>2 DEF NoForkInv, Money
<1>13. SettlePaysEverySegment'
  BY <1>4 DEF SettlePaysEverySegment, Created, Settled
<1>14. /\ op'[Provider] = None
       /\ op'[Consumer] # None =>
             op'[Consumer].undo = None /\ Prepared(Consumer, op[Consumer].commit)'
  <2>1. PICK v \in ViewT : /\ v = View(db', balance') /\ v.lease = db'.lease
                           /\ v.escrow = db'.escrow /\ v.balance = balance'
    BY <1>0, ViewType
  <2>2. PICK b : b = MakeBlock(v, Consumer, "lease_cancel", 0)
    OBVIOUS
  <2>3. op' = IF cancel.inOrder /\ v.escrow # 0
              THEN [op EXCEPT ![Consumer] = [commit |-> BlockCommit(v, Consumer, b), undo |-> None]]
              ELSE op
    BY <1>1, <2>1, <2>2 DEF UnwindAccept, Unwinds, FinishCancel
  <2>4. CASE cancel.inOrder /\ v.escrow # 0
    <3>1. 0 \in 0..(MaxTime + MaxAttestationSkew)
      BY Constants
    <3>2. "lease_cancel" \in TypesOf(Consumer) /\ Consumer \in Account
      BY DEF TypesOf, Account
    <3>3. b \in BlockT /\ b.type = "lease_cancel"
      BY <2>2, <3>1, <3>2, MakeBlockType DEF Debits, BlockType
    <3>4. PICK c \in CommitT : c = BlockCommit(v, Consumer, b) /\ c.block = b
      BY <3>2, <3>3, BlockCommitType
    <3>5. ValidFor(v, b)
      BY <1>4, <2>1, <2>4, <3>3 DEF ValidFor, ValidLeaseCancel
    <3>6. PutOK(c)
      BY <3>2, <3>3, <3>4, <3>5, PutFacts
    <3>7. /\ b.asset = AssetOf("lease_cancel")
          /\ b.balance = balance'[Consumer]["XUSD"] + LeaseCost(Duration)
      BY <2>1, <2>2 DEF MakeBlock, Block, AssetOf, Amount, Debits
    <3>8. db'.escrow # 0
      BY <2>1, <2>4
    <3>9. b.balance <= Funds
      <4>1. balance'[Consumer]["XUSD"] \in Nat /\ LeaseCost(Duration) \in Nat /\ db'.escrow \in Nat
        BY <1>0, Constants DEF Balances, Asset, Account, LeaseCost, Db
      <4>2. db'.escrow >= LeaseCost(Duration)
        BY <1>10, <3>8 DEF Pending
      <4>3. balance'[Consumer]["XUSD"] + db'.escrow <= Funds
        BY <1>12 DEF Money
      <4>4. PICK x \in Nat : x = balance'[Consumer]["XUSD"]
        BY <4>1
      <4>5. PICK y \in Nat : y = LeaseCost(Duration)
        BY <4>1
      <4>6. PICK z \in Nat : z = db'.escrow
        BY <4>1
      <4>7. x + y <= Funds
        BY <4>2, <4>3, <4>4, <4>5, <4>6, Constants
      <4> QED BY <3>7, <4>4, <4>5, <4>7
    <3>10. Prepared(Consumer, c)'
      BY <3>2, <3>3, <3>4, <3>6, <3>7, <3>9 DEF Prepared
    <3>11. op'[Consumer] = [commit |-> c, undo |-> None] /\ op'[Provider] = op[Provider]
      BY <1>0, <2>3, <2>4, <3>4 DEF Account, Consumer, Provider
    <3> QED BY <1>1, <3>10, <3>11 DEF Prepared
  <2>5. CASE ~(cancel.inOrder /\ v.escrow # 0)
    BY <1>1, <2>3, <2>5
  <2> QED BY <2>4, <2>5
<1>15. \A x \in Account : op'[x] # None =>
          op'[x].undo = None /\ Prepared(x, op[x].commit)'
  BY <1>14 DEF Account
<1>16. \A x \in Account : staged'[x] = None
  BY <1>1 DEF NoForkInv
<1> QED BY <1>9, <1>10, <1>12, <1>13, <1>15, <1>16 DEF NoForkInv

(* The archiver keeps NoForkInv.                                           *)
LEMMA ArchivePlain ==
    ASSUME LeaseInv, NoForkInv, Archive
    PROVE  NoForkInv'
<1>0. /\ db \in Db /\ arch \in ArchT /\ (arch.pc # "scan" => arch.lease # None)
  BY DEF LeaseInv, Types
<1>1. UNCHANGED <<balance, finalHeight, staged, op, cancel, now, habit>>
  BY DEF Archive
<1>2. CASE arch.pc = "scan" /\ ShouldArchiveExpiredLease(db.lease)
           /\ arch' = [pc |-> "delete", lease |-> db.lease] /\ UNCHANGED db
  <2>1. Pending'
    BY <1>2 DEF NoForkInv, Pending, ShouldArchiveExpiredLease
  <2> QED BY <1>1, <1>2, <2>1
          DEF NoForkInv, OneEnd, Ends, Money, SettlePaysEverySegment, Prepared
<1>3. CASE arch.pc = "delete" /\ db' = [db EXCEPT !.escrow = 0]
           /\ arch' = [arch EXCEPT !.pc = "put"]
  <2>1. db'.chain = db.chain /\ db'.lease = db.lease /\ db'.escrow = 0 /\ db.escrow \in Nat
    BY <1>0, <1>3 DEF Db
  <2>2. Pending'
    BY <1>0, <1>3, <2>1 DEF NoForkInv, Pending, ArchT
  <2>3. balance[Consumer]["XUSD"] \in Nat
    BY DEF LeaseInv, Types, Balances, Account, Asset
  <2>4. Money'
    <3>1. PICK x, y \in Nat : x = balance[Consumer]["XUSD"] /\ y = db.escrow
      BY <2>1, <2>3
    <3>2. x + y <= Funds
      BY <3>1 DEF NoForkInv, Money
    <3>3. x + 0 <= Funds
      BY <3>2, Constants
    <3>4. balance'[Consumer]["XUSD"] + db'.escrow <= Funds
      BY <1>1, <2>1, <3>1, <3>3
    <3> QED BY <2>1, <3>4 DEF NoForkInv, Money
  <2>5. OneEnd'
    BY <2>1 DEF NoForkInv, OneEnd, Ends
  <2>6. SettlePaysEverySegment'
    BY <2>1 DEF NoForkInv, SettlePaysEverySegment
  <2>7. \A x \in Account : op'[x] # None =>
           op'[x].undo = None /\ Prepared(x, op[x].commit)'
    BY <1>1, <2>1 DEF NoForkInv, Prepared
  <2> QED BY <1>1, <2>2, <2>4, <2>5, <2>6, <2>7 DEF NoForkInv
<1>4. CASE arch.pc = "put" /\ arch' = [pc |-> "scan", lease |-> None]
           /\ db' = [db EXCEPT !.lease = [arch.lease EXCEPT !.state = Expired, !.settled = TRUE]]
  <2>1. PICK l \in LeaseRecord : l = arch.lease
    BY <1>0, <1>4 DEF ArchT
  <2>2. PICK m : m = [l EXCEPT !.state = Expired, !.settled = TRUE]
    OBVIOUS
  <2>3. m \in LeaseRecord /\ m.state = Expired
    BY <2>2 DEF LeaseRecord, LeaseState
  <2>4. db'.chain = db.chain /\ db'.lease = m /\ db'.escrow = db.escrow
    BY <1>0, <1>4, <2>1, <2>2 DEF Db
  <2>5. db'.lease # None /\ db'.lease.state = Expired /\ ~Live(db'.lease)
    BY <2>3, <2>4, Constants DEF Live, Expired, Created, Accepted
  <2>6. db.escrow = 0 /\ db.lease # None
    BY <1>4 DEF NoForkInv, Pending
  <2>7. Pending'
    BY <1>4, <2>4, <2>6 DEF Pending
  <2>8. \A x \in Account, i \in Nat : Ends(x, i)' <=> Ends(x, i)
    BY <2>4 DEF Ends
  <2>9. OneEnd'
    BY <2>5, <2>8 DEF NoForkInv, OneEnd, Live
  <2>10. Money'
    BY <1>1, <2>4 DEF NoForkInv, Money
  <2>11. SettlePaysEverySegment'
    BY <2>5 DEF SettlePaysEverySegment, Expired, Settled
  <2>12. \A x \in Account : op'[x] # None =>
            op'[x].undo = None /\ Prepared(x, op[x].commit)'
    BY <1>1, <2>4, <2>5, <2>6 DEF NoForkInv, Prepared, Expired, Accepted
  <2> QED BY <1>1, <2>7, <2>9, <2>10, <2>11, <2>12 DEF NoForkInv
<1> QED BY <1>2, <1>3, <1>4 DEF Archive

(* NoForkInv holds at first.                                               *)
LEMMA InitPlain == ASSUME Init PROVE NoForkInv
<1>1. /\ db = InitDb /\ db.lease = None /\ db.escrow = 0 /\ arch.pc = "scan"
      /\ \A a \in Account : op[a] = None /\ staged[a] = None
  BY DEF Init, InitDb
<1>2. PICK b \in BlockT : /\ b = Block("receive", "XE", Gas, Gas, 0)
                          /\ b.type = "receive" /\ b.asset = "XE"
  <2>1. Block("receive", "XE", Gas, Gas, 0) \in BlockT
    BY Constants DEF Block, BlockT, BlockType, Asset
  <2> QED BY <2>1 DEF Block
<1>3. PICK e \in BlockT : /\ e = Block("receive", "XUSD", Funds, Funds, 0)
                          /\ e.type = "receive" /\ e.asset = "XUSD" /\ e.balance = Funds
  <2>1. Block("receive", "XUSD", Funds, Funds, 0) \in BlockT
    BY Constants DEF Block, BlockT, BlockType, Asset
  <2> QED BY <2>1 DEF Block
<1>4. /\ db.chain[Provider] = <<b>> \o <<>>
      /\ db.chain[Consumer] = <<b>> \o (IF Funds = 0 THEN <<>> ELSE <<e>>)
  BY <1>1, <1>2, <1>3 DEF InitDb, OpeningChain, Account, Consumer, Provider
<1>5. PICK p \in Seq(BlockT) : p = <<b>> /\ Len(p) = 1 /\ p[1] = b
  <2>1. <<b>> \in Seq(BlockT)
    OBVIOUS
  <2> QED BY <2>1
<1>6. PICK q \in Seq(BlockT) : q = Append(p, e)
  <2>1. Append(p, e) \in Seq(BlockT)
    OBVIOUS
  <2> QED BY <2>1
<1>7. db.chain[Provider] = p /\ db.chain[Consumer] = IF Funds = 0 THEN p ELSE q
  BY <1>4, <1>5, <1>6
<1>8. \A a \in Account : \A i \in 1..Len(db.chain[a]) : db.chain[a][i].type = "receive"
  <2>1. \A i \in 1..Len(p) : p[i].type = "receive"
    BY <1>2, <1>5
  <2>2. \A i \in 1..Len(q) : q[i].type = "receive"
    BY <1>3, <1>5, <1>6, <2>1
  <2> QED BY <1>7, <2>1, <2>2 DEF Account
<1>9. \A a \in Account, i \in Nat : ~Ends(a, i)
  <2> SUFFICES ASSUME NEW a \in Account, NEW i \in Nat, Ends(a, i) PROVE FALSE
    OBVIOUS
  <2>1. i \in 1..Len(db.chain[a]) /\ db.chain[a][i].type = "receive"
    BY <1>8 DEF Ends
  <2>2. i > Len(InitDb.chain[a])
    BY <2>1 DEF Ends, EndTypes
  <2>3. Len(db.chain[a]) \in Nat
    BY <1>1, InitDbType
  <2> QED BY <1>1, <2>1, <2>2, <2>3
<1>10. balance[Consumer]["XUSD"] = Funds
  <2>0. "XUSD" \in Asset
    BY DEF Asset
  <2>1. PICK I : I = {i \in 1..Len(p) : p[i].asset = "XUSD"}
    OBVIOUS
  <2>2. I = {}
    BY <1>2, <1>5, <2>1
  <2>3. AssetBalanceOnChain(p, "XUSD") = 0
    BY <2>0, <2>1, <2>2, BalanceIs
  <2>4. AssetBalanceOnChain(q, "XUSD") = Funds
    BY <1>3, <1>6, <2>0, BalanceAppend
  <2>5. balance[Consumer]["XUSD"] = AssetBalanceOnChain(db.chain[Consumer], "XUSD")
    BY <1>1 DEF Init, RebuildAssetBalances, AssetBalancesOnChain, Account
  <2> QED BY <1>7, <2>3, <2>4, <2>5
<1>11. Money
  BY <1>1, <1>2, <1>5, <1>7, <1>10, Constants DEF Money
<1> QED BY <1>1, <1>9, <1>11 DEF NoForkInv, Pending, OneEnd, SettlePaysEverySegment, Live

(* Without forks the store and the writes under way stay consistent.       *)
LEMMA NextPlain ==
    ASSUME LeaseInv, LeaseInv', NoForkInv, CancelAlone, "fork" \notin habit, [Next]_vars
    PROVE  NoForkInv'
<1>0. \A a \in Account : staged[a] = None
  BY DEF NoForkInv
<1>1. ASSUME NEW a \in Account, NEW type \in TypesOf(a), NEW t \in Times(type),
             Validate(a, type, t)
      PROVE  NoForkInv'
  BY <1>1, ValidatePlain
<1>2. ASSUME NEW a \in Account, NEW type \in TypesOf(a), NEW t \in Times(type),
             Stage(a, type, t)
      PROVE  NoForkInv'
  BY <1>2 DEF Stage
<1>3. ASSUME NEW a \in Account, CommitBlock(a) PROVE NoForkInv'
  BY <1>3, CommitBlockPlain
<1>4. ASSUME NEW a \in Account, SwapBlock(a) PROVE NoForkInv'
  BY <1>0, <1>4 DEF SwapBlock
<1>5. ASSUME NEW a \in Account, CommitCascade(a) PROVE NoForkInv'
  BY <1>5 DEF CommitCascade, NoForkInv
<1>u. ASSUME UNCHANGED <<db, balance, arch, habit>>, \A x \in Account : staged'[x] = None,
             \A x \in Account : op'[x] = op[x] \/ op'[x] = None
      PROVE  NoForkInv'
  <2>1. \A x \in Account : op'[x] # None =>
           op'[x].undo = None /\ Prepared(x, op[x].commit)'
    BY <1>u DEF NoForkInv, Prepared
  <2> QED BY <1>u, <2>1 DEF NoForkInv, Pending, OneEnd, Ends, Money, SettlePaysEverySegment
<1>6. ASSUME NEW a \in Account, Finalize(a) PROVE NoForkInv'
  <2>1. \A x \in Account : staged'[x] = None
    BY <1>0, <1>6 DEF Finalize, LeaseInv, Types
  <2> QED BY <1>6, <1>u, <2>1 DEF Finalize
<1>7. ASSUME NEW inOrder \in BOOLEAN, CancelWins(inOrder) PROVE NoForkInv'
  BY <1>0, <1>7, <1>u DEF CancelWins
<1>8. CASE SwapCancelWins
  BY <1>0, <1>8 DEF SwapCancelWins, Account
<1>w. CASE UnwindAccept
  <2>1. CASE Unwinds
    BY <1>w, <2>1, UnwindPlain
  <2>2. CASE ~Unwinds
    BY <1>0, <1>u, <1>w, <2>2 DEF UnwindAccept, Unwinds
  <2> QED BY <2>1, <2>2
<1>9. CASE Archive
  BY <1>9, ArchivePlain
<1>10. CASE Tick
  BY <1>0, <1>10, <1>u DEF Tick
<1>11. CASE Restart
  <2>1. balance' = balance
    BY <1>11 DEF Restart, LeaseInv, BalancesSurviveRestart
  <2>2. arch'.pc = "scan" /\ UNCHANGED <<db, staged, habit>> /\ \A x \in Account : op'[x] = None
    BY <1>11 DEF Restart
  <2> QED BY <1>0, <2>1, <2>2 DEF NoForkInv, Pending, OneEnd, Ends, Money, SettlePaysEverySegment
<1>12. CASE UNCHANGED vars
  BY <1>0, <1>12, <1>u DEF vars
<1> QED BY <1>1, <1>2, <1>3, <1>4, <1>5, <1>6, <1>7, <1>8, <1>w, <1>9, <1>10, <1>11, <1>12 DEF Next

(* The lease lock keeps a cancellation alone while it is under way.        *)
LEMMA NextAlone ==
    ASSUME LeaseInv, NoForkInv, CancelAlone, "fork" \notin habit, [Next]_vars
    PROVE  CancelAlone'
<1>0. \A a \in Account : staged[a] = None
  BY DEF NoForkInv
<1>o. op \in [Account -> OpT \cup {None}] /\ db \in Db
  BY DEF LeaseInv, Types
<1>n. ASSUME cancel' = None PROVE CancelAlone'
  BY <1>n DEF CancelAlone
<1>u. ASSUME cancel' = cancel, db'.chain = db.chain, UNCHANGED op PROVE CancelAlone'
  BY <1>u DEF CancelAlone, Ends
<1>1. ASSUME NEW a \in Account, NEW type \in TypesOf(a), NEW t \in Times(type),
             Validate(a, type, t)
      PROVE  CancelAlone'
  <2> SUFFICES ASSUME cancel # None PROVE CancelAlone'
    BY <1>1 DEF Validate, CancelAlone
  <2>1. type \notin LeaseStateTransition
    BY <1>1 DEF Validate, LeaseLockFree, CancelAlone
  <2>2. PICK v, b : /\ b = MakeBlock(v, a, type, t)
                    /\ op' = [op EXCEPT ![a] = [commit |-> BlockCommit(v, a, b), undo |-> None]]
    BY <1>1 DEF Validate
  <2>c. b.type = type
    BY <2>2 DEF MakeBlock, Block
  <2>d. BlockCommit(v, a, b).block = b
    BY DEF BlockCommit
  <2>3. PICK c : c = BlockCommit(v, a, b) /\ c.block.type = type
    BY <2>c, <2>d
  <2>4. /\ op'[a] = [commit |-> c, undo |-> None]
        /\ \A x \in Account : x # a => op'[x] = op[x]
    BY <1>o, <2>2, <2>3
  <2>5. \A x \in Account : op'[x] # None =>
           op'[x].commit.block.type \notin LeaseStateTransition
    BY <2>1, <2>3, <2>4 DEF CancelAlone
  <2>6. cancel' = cancel /\ db' = db
    BY <1>1 DEF Validate
  <2> QED BY <2>5, <2>6 DEF CancelAlone, Ends
<1>2. ASSUME NEW a \in Account, NEW type \in TypesOf(a), NEW t \in Times(type),
             Stage(a, type, t)
      PROVE  CancelAlone'
  BY <1>2 DEF Stage
<1>3. ASSUME NEW a \in Account, CommitBlock(a) PROVE CancelAlone'
  <2> SUFFICES ASSUME cancel # None PROVE CancelAlone'
    BY <1>3 DEF CommitBlock, CancelAlone
  <2>1. cancel' = cancel /\ op[a] # None /\ op' = [op EXCEPT ![a] = None]
    BY <1>3 DEF CommitBlock
  <2>2. op[a].commit.block.type \notin EndTypes
    BY <2>1 DEF CancelAlone, LeaseStateTransition, EndTypes
  <2>3. \A x \in Account, i \in Nat : ~Ends(x, i)'
    BY <1>3, <2>2, CommitBlockPlain DEF CancelAlone
  <2>4. op'[a] = None /\ \A x \in Account : x # a => op'[x] = op[x]
    BY <1>o, <2>1
  <2> QED BY <2>1, <2>3, <2>4 DEF CancelAlone
<1>4. ASSUME NEW a \in Account, SwapBlock(a) PROVE CancelAlone'
  BY <1>0, <1>4 DEF SwapBlock
<1>5. ASSUME NEW a \in Account, CommitCascade(a) PROVE CancelAlone'
  BY <1>5 DEF CommitCascade, NoForkInv
<1>6. ASSUME NEW a \in Account, Finalize(a) PROVE CancelAlone'
  BY <1>6, <1>u DEF Finalize
<1>7. ASSUME NEW inOrder \in BOOLEAN, CancelWins(inOrder) PROVE CancelAlone'
  <2>1. /\ CanUnwindAccept(ReadView.lease) /\ LeaseLockFree
        /\ cancel' = PendingCancel(None, inOrder) /\ UNCHANGED <<db, op>>
    BY <1>7 DEF CancelWins
  <2>2. Swapping = {} /\ ReadView.lease = db.lease
    BY PlainView DEF View
  <2>3. Live(db.lease)
    BY <2>1, <2>2 DEF CanUnwindAccept, Live
  <2>4. \A x \in Account, i \in Nat : ~Ends(x, i)
    BY <2>3 DEF NoForkInv, OneEnd
  <2>5. \A x \in Account : op[x] # None =>
           op[x].commit.block.type \notin LeaseStateTransition
    BY <2>1, <2>2 DEF LeaseLockFree
  <2>6. cancel'.undo = None
    BY <2>1 DEF PendingCancel
  <2> QED BY <2>1, <2>4, <2>5, <2>6 DEF CancelAlone, Ends
<1>8. CASE SwapCancelWins
  BY <1>0, <1>8 DEF SwapCancelWins, Account
<1>9. CASE UnwindAccept
  BY <1>9, <1>n DEF UnwindAccept
<1>10. CASE Archive
  <2>1. db'.chain = db.chain /\ cancel' = cancel /\ UNCHANGED op
    BY <1>o, <1>10 DEF Archive, Db
  <2> QED BY <1>u, <2>1
<1>11. CASE Tick
  BY <1>11, <1>u DEF Tick
<1>12. CASE Restart
  BY <1>12, <1>n DEF Restart
<1>13. CASE UNCHANGED vars
  BY <1>13, <1>u DEF vars
<1> QED BY <1>1, <1>2, <1>3, <1>4, <1>5, <1>6, <1>7, <1>8, <1>9, <1>10, <1>11, <1>12, <1>13 DEF Next

(* The invariant of the behaviours without forks. *)
Unforked == "fork" \notin habit => NoForkInv /\ CancelAlone

(* NoForkInv is an invariant of behaviours without forks.                  *)
LEMMA UnforkedHolds == Spec => []Unforked
<1>1. ASSUME Init PROVE Unforked
  BY <1>1, InitPlain DEF Unforked, CancelAlone, Init
<1>2. ASSUME LeaseInv, LeaseInv', Unforked, [Next]_vars PROVE Unforked'
  <2>1. habit' = habit
    <3>1. ASSUME NEW a \in Account, NEW type \in TypesOf(a), NEW t \in Times(type),
                 Validate(a, type, t) \/ Stage(a, type, t)
          PROVE  habit' = habit
      BY <3>1 DEF Validate, Stage
    <3>2. ASSUME NEW a \in Account, CommitBlock(a) \/ SwapBlock(a) \/ CommitCascade(a) \/ Finalize(a)
          PROVE  habit' = habit
      BY <3>2 DEF CommitBlock, SwapBlock, CommitCascade, Finalize
    <3>3. ASSUME NEW inOrder \in BOOLEAN, CancelWins(inOrder) PROVE habit' = habit
      BY <3>3 DEF CancelWins
    <3>4. ASSUME SwapCancelWins \/ UnwindAccept \/ Archive \/ Tick \/ Restart
          PROVE  habit' = habit
      BY <3>4 DEF SwapCancelWins, UnwindAccept, Archive, Tick, Restart
    <3> QED BY <1>2, <3>1, <3>2, <3>3, <3>4 DEF Next, vars
  <2> QED BY <1>2, <2>1, NextPlain, NextAlone DEF Unforked
<1> QED BY <1>1, <1>2, InvHolds, PTL DEF Spec

(* An escrow has one end: of settlement, cancellation, refund and receive  *)
(* at most one ever stands on the two chains, whatever the interleaving of *)
(* the two halves of addBlock, the unwinding of an accept, the archiver    *)
(* and restarts (without forks, as the property says).                     *)
THEOREM EscrowEndsOnce == Spec => []EscrowPaidOnce
<1>1. ASSUME LeaseInv, Unforked PROVE EscrowPaidOnce
  <2> SUFFICES ASSUME "fork" \notin habit, NEW x \in EscrowUses, NEW y \in EscrowUses
               PROVE  x = y
    BY DEF EscrowPaidOnce
  <2>1. \A z \in EscrowUses : /\ z[1] \in Account /\ z[2] \in Nat /\ Ends(z[1], z[2])
                              /\ z = <<z[1], z[2]>>
    <3> SUFFICES ASSUME NEW z \in EscrowUses
                 PROVE  /\ z[1] \in Account /\ z[2] \in Nat /\ Ends(z[1], z[2])
                        /\ z = <<z[1], z[2]>>
      OBVIOUS
    <3>1. z[1] \in Account /\ z[2] \in 1..MaxBlocks /\ z = <<z[1], z[2]>>
      BY DEF EscrowUses
    <3>2. /\ z[2] > Len(InitDb.chain[z[1]]) /\ z[2] <= Len(db.chain[z[1]])
          /\ db.chain[z[1]][z[2]].type \in EndTypes \cup {"receive"}
      BY DEF EscrowUses, EndTypes
    <3>3. Len(db.chain[z[1]]) \in Nat /\ z[2] \in Nat
      <4>1. PICK a \in Account : a = z[1]
        BY <3>1
      <4>2. db.chain[a] \in Seq(BlockT)
        BY <1>1 DEF LeaseInv, Types, Db
      <4>3. Len(db.chain[a]) \in Nat
        BY <4>2
      <4> QED BY <3>1, <4>1, <4>3, Constants
    <3>4. z[2] \in 1..Len(db.chain[z[1]])
      BY <3>1, <3>2, <3>3
    <3>5. Ends(z[1], z[2])
      BY <3>2, <3>4 DEF Ends
    <3> QED BY <3>1, <3>3, <3>5
  <2>2. x[1] = y[1] /\ x[2] = y[2]
    BY <1>1, <2>1 DEF Unforked, NoForkInv, OneEnd
  <2> QED BY <2>1, <2>2
<1> QED BY <1>1, InvHolds, UnforkedHolds, PTL

(* Leasing creates no XUSD when no account forks: what the two parties and *)
(* the escrow hold never exceeds what there was, though validation and     *)
(* commit are two steps and the archiver writes under no lock.             *)
THEOREM HonestNeverInflate == Spec => []("fork" \notin habit => XUSDNeverInflated)
<1>1. ASSUME LeaseInv, Unforked PROVE "fork" \notin habit => XUSDNeverInflated
  <2> SUFFICES ASSUME "fork" \notin habit PROVE XUSDNeverInflated
    OBVIOUS
  <2>1. Money
    BY <1>1 DEF Unforked, NoForkInv
  <2>2. balance[Provider]["XUSD"] = 0
    BY <1>1, <2>1, ProviderHasNone
  <2>3. balance[Consumer]["XUSD"] \in Nat /\ db.escrow \in Nat
    BY <1>1 DEF LeaseInv, Types, Balances, Account, Asset, Db
  <2> QED BY <2>1, <2>2, <2>3 DEF Money, XUSDNeverInflated
<1> QED BY <1>1, InvHolds, UnforkedHolds, PTL

(* The provider of a settled lease was paid for the lease and every        *)
(* renewal of its record when no account forks: the duration compared at   *)
(* the commit (ExpectLease) catches the renewal that slips in between.     *)
THEOREM SettlementPaysAll == Spec => []("fork" \notin habit => SettlePaysEverySegment)
<1>1. ASSUME Unforked PROVE "fork" \notin habit => SettlePaysEverySegment
  BY <1>1 DEF Unforked, NoForkInv
<1> QED BY <1>1, UnforkedHolds, PTL
=============================================================================
