------------------------- MODULE StateChainTheorems -------------------------
(***************************************************************************)
(* Theorems about StateKV and StateChain, for every set of nodes, genesis  *)
(* state and set of block bodies.                                          *)
(*                                                                         *)
(* StateChainInv says of every node that its chain is good (each block is  *)
(* signed for the state before it, and its operations pass the checks of   *)
(* the keys they write), that the state held is the one its blocks give,   *)
(* and that whatever is in flight or was signed is a block of some index.  *)
(* Since checks and signatures depend on the state before a block only,    *)
(* any prefix that a power loss leaves is good again.  The properties of   *)
(* single keys (phase, minimum version, epochs, activations) follow from   *)
(* the checks of one block, whose last operation on a key decides it.      *)
(*                                                                         *)
(* AgreeInv is for ForksOnlyAcrossRoles: every block that a node holds or  *)
(* receives was signed, by its signers and on the blocks before it         *)
(* (CoveredInv), in a state with majority thresholds (SignedInv).  Two     *)
(* blocks of one role and one state have a signer in common, and a key     *)
(* signs one block per index.                                              *)
(***************************************************************************)
EXTENDS StateChain, FiniteInduction

(* What a block's operations leave under a key: the old value if none names *)
(* the key, else what the last one that does writes.                        *)
LEMMA LastWrite ==
    ASSUME NEW state, NEW ops, Len(ops) \in Nat, DOMAIN ops = 1..Len(ops), NEW k \in KVKey
    PROVE  \/ /\ \A i \in DOMAIN ops : ops[i].key # k
              /\ ApplyOps(state, ops)[k] = state[k]
           \/ \E i \in DOMAIN ops :
                 /\ ops[i].key = k
                 /\ ApplyOps(state, ops)[k] =
                       IF ops[i].action = "set" THEN ops[i].value ELSE None
<1> DEFINE W == {i \in DOMAIN ops : ops[i].key = k}
<1>1. CASE W = {}
  BY <1>1 DEF ApplyOps
<1>2. CASE W # {}
  <2>1. PICK m \in W : \A j \in W : j <= m
    <3>1. W \in SUBSET (0..Len(ops))
      OBVIOUS
    <3> HIDE DEF W
    <3> QED BY <3>1, <1>2, Greatest
  <2> DEFINE last == CHOOSE i \in W : \A j \in W : j <= i
  <2>2. last \in W
    BY <2>1
  <2>3. ApplyOps(state, ops)[k] =
            IF ops[last].action = "set" THEN ops[last].value ELSE None
    BY <1>2 DEF ApplyOps
  <2> QED
    <3> HIDE DEF last
    <3> QED BY <2>2, <2>3
<1> QED BY <1>1, <1>2

-----------------------------------------------------------------------------
(* Replay. *)

(* A function that replays the first n blocks of p. *)
Replays(f, p, n) ==
    f = [i \in 0..n |-> IF i = 0 THEN Genesis ELSE ApplyOps(f[i - 1], p[i].ops)]

(* Every chain can be replayed, block by block. *)
LEMMA ReplayExists ==
    ASSUME NEW p, NEW n \in Nat
    PROVE  \E f : Replays(f, p, n)
<1> DEFINE T == {i \in Nat : ~ \E f : Replays(f, p, i)}
<1> SUFFICES ASSUME T # {} PROVE FALSE
  OBVIOUS
<1>1. PICK m \in T : \A k \in T : m <= k
  <2>1. T \in SUBSET Nat
    OBVIOUS
  <2> HIDE DEF T
  <2> QED BY <2>1, Least
<1>2. CASE m = 0
  <2> DEFINE f == [i \in 0..0 |-> Genesis]
  <2>1. Replays(f, p, 0)
    BY DEF Replays
  <2> QED BY <2>1, <1>2
<1>3. CASE m # 0
  <2>1. m - 1 \in Nat /\ m - 1 \notin T
    BY <1>1, <1>3
  <2>2. PICK f : Replays(f, p, m - 1)
    BY <2>1
  <2> DEFINE g == [i \in 0..m |-> IF i = m THEN ApplyOps(f[m - 1], p[m].ops) ELSE f[i]]
  <2>3. Replays(g, p, m)
    <3>1. ASSUME NEW i \in 0..m
          PROVE  g[i] = IF i = 0 THEN Genesis ELSE ApplyOps(g[i - 1], p[i].ops)
      <4>1. CASE i = m
        BY <4>1, <1>3
      <4>2. CASE i # m
        <5>1. i \in 0..(m - 1) /\ g[i] = f[i]
          BY <4>2
        <5>2. f[i] = IF i = 0 THEN Genesis ELSE ApplyOps(f[i - 1], p[i].ops)
          BY <5>1, <2>2 DEF Replays
        <5> QED BY <5>1, <5>2
      <4> QED BY <4>1, <4>2
    <3> QED BY <3>1 DEF Replays
  <2> QED BY <2>3
<1> QED BY <1>2, <1>3

(* States(p) is such a function. *)
LEMMA StatesReplay ==
    ASSUME NEW p, Len(p) \in Nat
    PROVE  Replays(States(p), p, Len(p))
<1>1. \E f : Replays(f, p, Len(p))
  BY ReplayExists
<1> QED BY <1>1 DEF States, Replays

(* The state after each block, from the one before it. *)
LEMMA StatesUnfold ==
    ASSUME NEW p, Len(p) \in Nat
    PROVE  /\ States(p)[0] = Genesis
           /\ \A i \in 1..Len(p) : States(p)[i] = ApplyOps(States(p)[i - 1], p[i].ops)
<1> DEFINE s == States(p)
<1>1. s = [i \in 0..Len(p) |-> IF i = 0 THEN Genesis ELSE ApplyOps(s[i - 1], p[i].ops)]
  BY StatesReplay DEF Replays
<1> HIDE DEF s
<1>2. s[0] = Genesis
  BY <1>1
<1>3. ASSUME NEW i \in 1..Len(p) PROVE s[i] = ApplyOps(s[i - 1], p[i].ops)
  BY <1>1
<1> QED BY <1>2, <1>3 DEF s

(* The state depends on the operations of the blocks, not on who signed. *)
LEMMA SameStates ==
    ASSUME NEW p, NEW q, Len(p) \in Nat, Len(q) \in Nat,
           NEW n \in Nat, n <= Len(p), n <= Len(q),
           \A j \in 1..n : p[j].ops = q[j].ops
    PROVE  States(p)[n] = States(q)[n]
<1> DEFINE T == {i \in 0..n : States(p)[i] # States(q)[i]}
<1> SUFFICES ASSUME T # {} PROVE FALSE
  OBVIOUS
<1>1. PICK m \in T : \A k \in T : m <= k
  <2>1. T \in SUBSET Nat
    OBVIOUS
  <2> HIDE DEF T
  <2> QED BY <2>1, Least
<1>2. CASE m = 0
  BY <1>2, StatesUnfold
<1>3. CASE m # 0
  <2>1. m - 1 \in 0..n /\ m - 1 \notin T /\ m \in 1..n
    BY <1>1, <1>3
  <2>2. States(p)[m - 1] = States(q)[m - 1]
    BY <2>1
  <2>3. States(p)[m] = ApplyOps(States(p)[m - 1], p[m].ops)
    BY <2>1, StatesUnfold
  <2>4. States(q)[m] = ApplyOps(States(q)[m - 1], q[m].ops)
    BY <2>1, StatesUnfold
  <2> QED BY <2>1, <2>2, <2>3, <2>4
<1> QED BY <1>2, <1>3

(* What replaying one more block does. *)
LEMMA ReplayAppend ==
    ASSUME NEW p \in Seq(Bodies), NEW body \in Bodies
    PROVE  /\ Replayed(Append(p, body)) = ApplyOps(Replayed(p), body.ops)
           /\ ReplayAccepts(p) /\ VerifyBlockSignatures(Replayed(p), body)
                 => ReplayAccepts(Append(p, body))
<1> DEFINE q == Append(p, body)
<1>1. /\ Len(p) \in Nat /\ Len(q) = Len(p) + 1 /\ q[Len(q)] = body
      /\ \A i \in 1..Len(p) : q[i] = p[i]
      /\ DOMAIN p = 1..Len(p) /\ DOMAIN q = 1..Len(q)
  OBVIOUS
<1> HIDE DEF q
<1>2. ASSUME NEW n \in 0..Len(p) PROVE States(q)[n] = States(p)[n]
  <2>1. /\ Len(q) \in Nat /\ n \in Nat /\ n <= Len(p) /\ n <= Len(q)
        /\ \A j \in 1..n : q[j].ops = p[j].ops
    BY <1>1
  <2> QED BY <1>1, <2>1, SameStates
<1>3. States(q)[Len(q)] = ApplyOps(States(q)[Len(q) - 1], q[Len(q)].ops)
  BY <1>1, StatesUnfold
<1>4. Replayed(q) = ApplyOps(Replayed(p), body.ops)
  BY <1>1, <1>2, <1>3 DEF Replayed
<1>5. ASSUME ReplayAccepts(p), VerifyBlockSignatures(Replayed(p), body),
             NEW i \in DOMAIN q
      PROVE  VerifyBlockSignatures(States(q)[i - 1], q[i])
  <2>1. CASE i = Len(q)
    <3>1. States(q)[i - 1] = Replayed(p) /\ q[i] = body
      BY <2>1, <1>1, <1>2 DEF Replayed
    <3> QED BY <3>1, <1>5
  <2>2. CASE i # Len(q)
    <3>1. i \in DOMAIN p /\ i - 1 \in 0..Len(p) /\ q[i] = p[i]
      BY <2>2, <1>1
    <3>2. States(q)[i - 1] = States(p)[i - 1]
      BY <3>1, <1>2
    <3> QED BY <3>1, <3>2, <1>5 DEF ReplayAccepts
  <2> QED BY <2>1, <2>2
<1> QED BY <1>4, <1>5 DEF q, ReplayAccepts

(* What survives of a chain replays as it did. *)
LEMMA ReplayPrefix ==
    ASSUME NEW p \in Seq(Bodies), ReplayAccepts(p), NEW k \in 0..Len(p)
    PROVE  /\ SubSeq(p, 1, k) \in Seq(Bodies)
           /\ Len(SubSeq(p, 1, k)) = k
           /\ \A i \in 1..k : SubSeq(p, 1, k)[i] = p[i]
           /\ Replayed(SubSeq(p, 1, k)) = States(p)[k]
           /\ ReplayAccepts(SubSeq(p, 1, k))
<1> DEFINE q == SubSeq(p, 1, k)
<1>1. /\ q \in Seq(Bodies) /\ Len(p) \in Nat /\ Len(q) = k
      /\ \A i \in 1..k : q[i] = p[i]
      /\ DOMAIN p = 1..Len(p) /\ DOMAIN q = 1..k
  OBVIOUS
<1> HIDE DEF q
<1>2. ASSUME NEW n \in 0..k PROVE States(q)[n] = States(p)[n]
  <2>1. /\ Len(q) \in Nat /\ n \in Nat /\ n <= Len(p) /\ n <= Len(q)
        /\ \A j \in 1..n : q[j].ops = p[j].ops
    BY <1>1
  <2> QED BY <1>1, <2>1, SameStates
<1>3. Replayed(q) = States(p)[k]
  BY <1>1, <1>2 DEF Replayed
<1>4. ASSUME NEW i \in DOMAIN q PROVE VerifyBlockSignatures(States(q)[i - 1], q[i])
  <2>1. i \in DOMAIN p /\ i - 1 \in 0..k /\ q[i] = p[i]
    BY <1>1
  <2> QED BY <2>1, <1>2 DEF ReplayAccepts
<1> QED BY <1>1, <1>3, <1>4 DEF q, ReplayAccepts

-----------------------------------------------------------------------------
(* The invariant of one node. *)

(* A state: keys of the chain, a keyset that loads, values that parse. *)
StateOK(s) ==
    /\ DOMAIN s = KVKey
    /\ DAOKeyset(s)
    /\ Distinct(Genesis[DAO].keys) => Distinct(s[DAO].keys)
    /\ \A k \in KVKey : s[k] # None => Parsed(k, s[k])

(* A chain that replays, through states as above. *)
GoodChain(p) ==
    /\ p \in Seq(Bodies)
    /\ Len(p) <= MaxIndex
    /\ ReplayAccepts(p)
    /\ \A k \in 0..Len(p) : StateOK(States(p)[k])

(* A block on its way to a node. *)
GoodBlock(b) == b \in Seq(Bodies) /\ Len(b) \in 1..MaxIndex

(* The genesis state is well formed.                                       *)
LEMMA GenesisOK == StateOK(Genesis)
BY GenesisAssumption, GenesisTypeAssumption DEF StateOK, ValidateGenesis

(* The system keys the proofs name are keys.                               *)
LEMMA KeysOK == {DAO, Phase, MinVersion, Activations} \subseteq SysKey /\ SysKey \subseteq KVKey
BY SysKeyAssumption

(* The empty chain. *)
LEMMA EmptyGood == GoodChain(<<>>) /\ Replayed(<<>>) = Genesis
<1>1. States(<<>>)[0] = Genesis
  BY StatesUnfold
<1> QED BY <1>1, GenesisOK, BoundAssumption DEF GoodChain, Replayed, ReplayAccepts

(* Validation keeps a state good. *)
LEMMA ApplyOK ==
    ASSUME NEW s, StateOK(s), NEW body \in Bodies,
           \A i \in DOMAIN body.ops : ValidateOp(body.ops[i])
    PROVE  StateOK(ApplyOps(s, body.ops))
<1> DEFINE ops == body.ops
           t == ApplyOps(s, ops)
<1>1. Len(ops) \in Nat /\ DOMAIN ops = 1..Len(ops)
  BY BodyAssumption
<1>2. DOMAIN t = KVKey
  BY DEF ApplyOps
<1>3. ASSUME NEW k \in KVKey
      PROVE  \/ t[k] = s[k]
             \/ k \notin SysKey /\ t[k] = None
             \/ t[k] # None /\ ValidSysKeyValue(k, t[k]) /\ Parsed(k, t[k])
  <2>1. CASE /\ \A i \in DOMAIN ops : ops[i].key # k
             /\ t[k] = s[k]
    BY <2>1
  <2>2. ASSUME NEW i \in DOMAIN ops, ops[i].key = k,
               t[k] = IF ops[i].action = "set" THEN ops[i].value ELSE None
        PROVE  \/ k \notin SysKey /\ t[k] = None
               \/ t[k] # None /\ ValidSysKeyValue(k, t[k]) /\ Parsed(k, t[k])
    <3>1. ValidateOp(ops[i])
      OBVIOUS
    <3>2. ops[i].action = "set" => Parsed(ops[i].key, ops[i].value)
      BY BodyAssumption
    <3> HIDE DEF t, ops
    <3> QED BY <2>2, <3>1, <3>2 DEF ValidateOp
  <2>3. \/ (\A i \in DOMAIN ops : ops[i].key # k) /\ t[k] = s[k]
        \/ \E i \in DOMAIN ops :
              /\ ops[i].key = k
              /\ t[k] = IF ops[i].action = "set" THEN ops[i].value ELSE None
    <3> HIDE DEF ops
    <3> QED BY <1>1, LastWrite
  <2> QED
    <3> HIDE DEF t, ops
    <3> QED BY <2>1, <2>2, <2>3
<1> HIDE DEF t
<1>4. DAOKeyset(t) /\ (Distinct(Genesis[DAO].keys) => Distinct(t[DAO].keys))
  <2>1. DAO \in SysKey /\ DAO \in KVKey
    BY KeysOK
  <2>2. t[DAO] = s[DAO] \/ (t[DAO] # None /\ ValidKeyset(t[DAO]))
    <3>1. ValidSysKeyValue(DAO, t[DAO]) => ValidKeyset(t[DAO])
      BY DEF ValidSysKeyValue
    <3>2. \/ t[DAO] = s[DAO]
          \/ DAO \notin SysKey /\ t[DAO] = None
          \/ t[DAO] # None /\ ValidSysKeyValue(DAO, t[DAO]) /\ Parsed(DAO, t[DAO])
      BY <2>1, <1>3, Zenon
    <3> QED BY <2>1, <3>1, <3>2
  <2> QED BY <2>2 DEF StateOK, DAOKeyset, ValidKeyset
<1>5. \A k \in KVKey : t[k] # None => Parsed(k, t[k])
  BY <1>3 DEF StateOK
<1> QED BY <1>2, <1>4, <1>5 DEF StateOK, t

(* A chain that is extended. *)
LEMMA AppendGood ==
    ASSUME NEW p, GoodChain(p), Len(p) < MaxIndex, NEW body \in Bodies,
           VerifyBlockSignatures(Replayed(p), body),
           \A i \in DOMAIN body.ops : ValidateOp(body.ops[i])
    PROVE  /\ GoodChain(Append(p, body))
           /\ Replayed(Append(p, body)) = ApplyOps(Replayed(p), body.ops)
<1> DEFINE q == Append(p, body)
<1>0. p \in Seq(Bodies)
  BY DEF GoodChain
<1>1. /\ Len(p) \in Nat /\ Len(q) = Len(p) + 1 /\ q \in Seq(Bodies)
      /\ \A i \in 1..Len(p) : q[i] = p[i]
  BY <1>0
<1>2. Replayed(q) = ApplyOps(Replayed(p), body.ops) /\ ReplayAccepts(q)
  BY <1>0, ReplayAppend DEF GoodChain
<1>3. StateOK(Replayed(p))
  BY <1>1 DEF GoodChain, Replayed
<1>4. StateOK(Replayed(q))
  BY <1>2, <1>3, ApplyOK
<1> HIDE DEF q
<1>5. ASSUME NEW k \in 0..Len(q) PROVE StateOK(States(q)[k])
  <2>1. CASE k = Len(q)
    BY <2>1, <1>4 DEF Replayed
  <2>2. CASE k # Len(q)
    <3>1. /\ k \in Nat /\ k <= Len(p) /\ k <= Len(q) /\ Len(q) \in Nat
          /\ \A j \in 1..k : q[j].ops = p[j].ops
      BY <2>2, <1>1
    <3>2. States(q)[k] = States(p)[k]
      BY <1>1, <3>1, SameStates
    <3> QED BY <3>1, <3>2 DEF GoodChain
  <2> QED BY <2>1, <2>2
<1> QED BY <1>1, <1>2, <1>5, BoundAssumption DEF GoodChain, q

(* A chain that lost its last blocks. *)
LEMMA PrefixGood ==
    ASSUME NEW p, GoodChain(p), NEW k \in 0..Len(p)
    PROVE  /\ GoodChain(SubSeq(p, 1, k))
           /\ Replayed(SubSeq(p, 1, k)) = States(p)[k]
           /\ Len(SubSeq(p, 1, k)) = k
           /\ \A i \in 1..k : SubSeq(p, 1, k)[i] = p[i]
<1> DEFINE q == SubSeq(p, 1, k)
<1>0. p \in Seq(Bodies) /\ Len(p) \in Nat
  BY DEF GoodChain
<1>1. /\ q \in Seq(Bodies) /\ Len(q) = k /\ ReplayAccepts(q)
      /\ \A i \in 1..k : q[i] = p[i]
      /\ Replayed(q) = States(p)[k]
  BY <1>0, ReplayPrefix DEF GoodChain
<1> HIDE DEF q
<1>2. ASSUME NEW j \in 0..k PROVE StateOK(States(q)[j])
  <2>1. /\ j \in Nat /\ j <= Len(p) /\ j <= Len(q) /\ Len(q) \in Nat
        /\ \A i \in 1..j : q[i].ops = p[i].ops
    BY <1>0, <1>1
  <2>2. States(q)[j] = States(p)[j]
    BY <1>0, <2>1, SameStates
  <2> QED BY <1>0, <2>2 DEF GoodChain
<1> QED BY <1>0, <1>1, <1>2, BoundAssumption DEF GoodChain, q

-----------------------------------------------------------------------------
(* The invariant. *)

NodeInv ==
    /\ chain \in [Node -> Seq(Bodies)]
    /\ DOMAIN kv = Node
    /\ \A n \in Node : GoodChain(chain[n]) /\ kv[n] = Replayed(chain[n]) /\ up[n]
    /\ up \in [Node -> BOOLEAN]
    /\ gap \in [Node -> 0..GapPeers]

BlockInv ==
    /\ session \in [Node -> [Node -> Seq(Seq(Bodies))]]
    /\ \A n, m \in Node : \A i \in DOMAIN session[n][m] : GoodBlock(session[n][m][i])
    /\ \A b \in signed : GoodBlock(b)

StateChainInv == NodeInv /\ BlockInv

(* The state a node holds is good. *)
LEMMA HeldStateOK ==
    ASSUME NodeInv, NEW n \in Node
    PROVE  /\ StateOK(kv[n])
           /\ kv[n] = States(chain[n])[Len(chain[n])]
           /\ Len(chain[n]) \in Nat
           /\ chain[n] \in Seq(Bodies)
<1>1. GoodChain(chain[n]) /\ kv[n] = Replayed(chain[n]) /\ chain[n] \in Seq(Bodies)
  BY DEF NodeInv
<1>2. Len(chain[n]) \in 0..Len(chain[n]) /\ Len(chain[n]) \in Nat
  BY <1>1
<1> QED BY <1>1, <1>2 DEF GoodChain, Replayed

(* What AddBlock does, with a block that it accepts and with others. *)
LEMMA AddBlockEffect ==
    ASSUME NodeInv, NEW n \in Node, NEW b, GoodBlock(b), AddBlock(n, b)
    PROVE  /\ \A m \in Node \ {n} : chain'[m] = chain[m] /\ kv'[m] = kv[m]
           /\ chain' \in [Node -> Seq(Bodies)] /\ DOMAIN kv' = Node
           /\ \/ chain'[n] = chain[n] /\ kv'[n] = kv[n]
              \/ /\ Accepts(n, b)
                 /\ chain'[n] = Append(chain[n], Body(b))
                 /\ kv'[n] = ApplyOps(kv[n], Body(b).ops)
                 /\ Body(b) \in Bodies
                 /\ Len(chain[n]) < MaxIndex
<1>1. Body(b) \in Bodies /\ Len(b) \in Nat
  BY BoundAssumption DEF GoodBlock, Body
<1>2. chain[n] \in Seq(Bodies) /\ Append(chain[n], Body(b)) \in Seq(Bodies)
  BY <1>1 DEF NodeInv
<1>3. CASE Accepts(n, b)
  <2>1. Len(chain[n]) < MaxIndex
    BY <1>2, <1>3, BoundAssumption DEF Accepts, IsNext, GoodBlock
  <2>2. /\ chain' = [chain EXCEPT ![n] = Append(@, Body(b))]
        /\ kv' = [kv EXCEPT ![n] = ApplyOps(kv[n], Body(b).ops)]
    BY <1>3 DEF AddBlock
  <2> QED BY <1>1, <1>2, <1>3, <2>1, <2>2 DEF NodeInv
<1>4. CASE ~Accepts(n, b)
  BY <1>4 DEF AddBlock, NodeInv
<1> QED BY <1>3, <1>4

(* An accepted block is signed as replay requires. *)
LEMMA AcceptedVerifies ==
    ASSUME NEW n \in Node, NEW b, Accepts(n, b)
    PROVE  /\ VerifyBlockSignatures(kv[n], Body(b))
           /\ \A i \in DOMAIN Body(b).ops : ValidateOp(Body(b).ops[i])
BY DEF Accepts, Valid, VerifyBlockSignatures

(* AddBlock keeps the invariant of the nodes. *)
LEMMA AddBlockInv ==
    ASSUME NodeInv, NEW n \in Node, NEW b, GoodBlock(b), AddBlock(n, b)
    PROVE  /\ chain' \in [Node -> Seq(Bodies)] /\ DOMAIN kv' = Node
           /\ \A m \in Node : GoodChain(chain'[m]) /\ kv'[m] = Replayed(chain'[m])
<1>1. \A m \in Node : GoodChain(chain[m]) /\ kv[m] = Replayed(chain[m])
  BY DEF NodeInv
<1>2. GoodChain(chain'[n]) /\ kv'[n] = Replayed(chain'[n])
  <2>1. CASE chain'[n] = chain[n] /\ kv'[n] = kv[n]
    BY <2>1, <1>1
  <2>2. CASE /\ Accepts(n, b)
             /\ chain'[n] = Append(chain[n], Body(b))
             /\ kv'[n] = ApplyOps(kv[n], Body(b).ops)
             /\ Body(b) \in Bodies
             /\ Len(chain[n]) < MaxIndex
    BY <2>2, <1>1, AcceptedVerifies, AppendGood
  <2> QED BY <2>1, <2>2, AddBlockEffect
<1> QED BY <1>1, <1>2, AddBlockEffect

(* What a peer serves are blocks. *)
LEMMA ServedGood ==
    ASSUME NodeInv, NEW m \in Node, NEW t \in Nat
    PROVE  /\ Served(m, t) \in Seq(Seq(Bodies))
           /\ \A i \in DOMAIN Served(m, t) :
                 /\ GoodBlock(Served(m, t)[i])
                 /\ t + i <= Len(chain[m])
                 /\ Served(m, t)[i] = SubSeq(chain[m], 1, t + i)
<1> DEFINE p == chain[m]
           last == IF Len(p) > t + SyncMaxBlocks THEN t + SyncMaxBlocks ELSE Len(p)
<1>1. p \in Seq(Bodies) /\ Len(p) \in Nat /\ Len(p) <= MaxIndex
  BY DEF NodeInv, GoodChain
<1>2. CASE t >= Len(p)
  BY <1>2 DEF Served
<1>3. CASE ~(t >= Len(p))
  <2>1. last \in Nat /\ last - t \in Nat /\ last <= Len(p)
    BY <1>1, <1>3, BoundAssumption
  <2>2. Served(m, t) = [i \in 1..(last - t) |-> SubSeq(p, 1, t + i)]
    BY <1>3 DEF Served
  <2> HIDE DEF last
  <2>3. ASSUME NEW i \in 1..(last - t)
        PROVE  SubSeq(p, 1, t + i) \in Seq(Bodies) /\ GoodBlock(SubSeq(p, 1, t + i))
    BY <1>1, <2>1, BoundAssumption DEF GoodBlock
  <2>4. Served(m, t) \in Seq(Seq(Bodies)) /\ DOMAIN Served(m, t) = 1..(last - t)
    <3> DEFINE L == last - t
               S == Seq(Bodies)
               el(i) == SubSeq(p, 1, t + i)
    <3>1. L \in Nat /\ \A i \in 1..L : el(i) \in S
      BY <2>1, <2>3
    <3>2. Served(m, t) = [i \in 1..L |-> el(i)]
      BY <2>2
    <3> HIDE DEF L, S, el
    <3>3. Served(m, t) \in Seq(S) /\ DOMAIN Served(m, t) = 1..L
      BY <3>1, <3>2
    <3> QED BY <3>3 DEF L, S
  <2>5. \A i \in 1..(last - t) : t + i <= Len(p)
    BY <1>1, <2>1
  <2> QED BY <2>2, <2>3, <2>4, <2>5
<1> QED BY <1>2, <1>3

(* The invariant holds at first.                                           *)
LEMMA InitInv == Init => StateChainInv
<1> SUFFICES ASSUME Init PROVE StateChainInv
  OBVIOUS
<1>1. \A n \in Node : chain[n] = <<>> /\ kv[n] = Genesis /\ up[n]
  BY DEF Init
<1>2. NodeInv
  <2>1. \A n \in Node : GoodChain(chain[n]) /\ kv[n] = Replayed(chain[n]) /\ up[n]
    BY <1>1, EmptyGood
  <2> QED BY <2>1, BoundAssumption DEF Init, NodeInv
<1>3. BlockInv
  BY DEF Init, BlockInv
<1> QED BY <1>2, <1>3 DEF StateChainInv

(* Submitting a block keeps the invariant.                                 *)
LEMMA SubmitInv ==
    ASSUME StateChainInv, NEW n \in Node, SubmitStateChainBlock(n)
    PROVE  StateChainInv'
<1>1. PICK body \in Bodies : /\ Accepts(n, Append(chain[n], body))
                             /\ AddBlock(n, Append(chain[n], body))
                             /\ signed' = signed \cup {Append(chain[n], body)}
  BY DEF SubmitStateChainBlock
<1> DEFINE b == Append(chain[n], body)
<1>2. GoodBlock(b)
  BY HeldStateOK, BoundAssumption DEF SubmitStateChainBlock, GoodBlock, StateChainInv
<1> HIDE DEF b
<1>3. NodeInv'
  <2>1. /\ chain' \in [Node -> Seq(Bodies)] /\ DOMAIN kv' = Node
        /\ \A m \in Node : GoodChain(chain'[m]) /\ kv'[m] = Replayed(chain'[m])
    BY <1>1, <1>2, AddBlockInv DEF b, StateChainInv
  <2> QED BY <2>1 DEF NodeInv, StateChainInv, SubmitStateChainBlock
<1>4. BlockInv'
  BY <1>1, <1>2 DEF b, BlockInv, StateChainInv, SubmitStateChainBlock
<1> QED BY <1>3, <1>4 DEF StateChainInv

(* Handling a gossiped block keeps the invariant.                          *)
LEMMA HandleInv ==
    ASSUME StateChainInv, NEW n \in Node, HandleStateChain(n)
    PROVE  StateChainInv'
<1>1. PICK b \in signed : /\ AddBlock(n, b)
                          /\ \/ gap' = [gap EXCEPT ![n] = GapPeers]
                             \/ UNCHANGED gap
  BY DEF HandleStateChain
<1>2. GoodBlock(b)
  BY DEF StateChainInv, BlockInv
<1>3. NodeInv'
  <2>1. /\ chain' \in [Node -> Seq(Bodies)] /\ DOMAIN kv' = Node
        /\ \A m \in Node : GoodChain(chain'[m]) /\ kv'[m] = Replayed(chain'[m])
    BY <1>1, <1>2, AddBlockInv DEF StateChainInv
  <2>2. gap' \in [Node -> 0..GapPeers]
    <3>1. GapPeers \in 0..GapPeers /\ gap \in [Node -> 0..GapPeers]
      BY BoundAssumption DEF NodeInv, StateChainInv
    <3> QED BY <1>1, <3>1
  <2> QED BY <2>1, <2>2 DEF NodeInv, StateChainInv, HandleStateChain
<1>4. BlockInv'
  BY DEF BlockInv, StateChainInv, HandleStateChain
<1> QED BY <1>3, <1>4 DEF StateChainInv

(* Asking a peer for blocks keeps the invariant.                           *)
LEMMA RequestInv ==
    ASSUME StateChainInv, NEW n \in Node, NEW m \in Node, RequestSync(n, m),
           UNCHANGED signed
    PROVE  BlockInv'
<1> DEFINE pg == Served(m, Len(chain[n]))
<1>1. pg \in Seq(Seq(Bodies)) /\ \A i \in DOMAIN pg : GoodBlock(pg[i])
  BY HeldStateOK, ServedGood DEF StateChainInv
<1> HIDE DEF pg
<1>2. session' = [session EXCEPT ![n][m] = pg]
  BY DEF RequestSync, pg
<1> QED BY <1>1, <1>2 DEF BlockInv, StateChainInv

(* Answering a sync request keeps the invariant.                           *)
LEMMA SyncInv ==
    ASSUME StateChainInv, NEW n \in Node, NEW m \in Node,
           SyncOnConnect(n, m) \/ ResyncOnGap(n, m)
    PROVE  StateChainInv'
<1>1. NodeInv'
  <2>1. gap' \in [Node -> 0..GapPeers]
    BY BoundAssumption DEF SyncOnConnect, ResyncOnGap, StateChainInv, NodeInv
  <2> QED BY <2>1 DEF NodeInv, StateChainInv, SyncOnConnect, ResyncOnGap
<1>2. BlockInv'
  <2>1. CASE RequestSync(n, m) /\ UNCHANGED signed
    BY <2>1, RequestInv
  <2>2. CASE UNCHANGED <<session, signed>>
    BY <2>2 DEF BlockInv, StateChainInv
  <2> QED BY <2>1, <2>2 DEF SyncOnConnect, ResyncOnGap
<1> QED BY <1>1, <1>2 DEF StateChainInv

(* Adding a synced block keeps the invariant.                              *)
LEMMA AddSyncedInv ==
    ASSUME StateChainInv, NEW n \in Node, NEW m \in Node, AddSyncedBlock(n, m)
    PROVE  StateChainInv'
<1> DEFINE pg == session[n][m]
<1>1. /\ pg \in Seq(Seq(Bodies)) /\ pg # <<>>
      /\ \A i \in DOMAIN pg : GoodBlock(pg[i])
  BY DEF AddSyncedBlock, StateChainInv, BlockInv
<1>2. /\ AddBlock(n, Head(pg))
      /\ session' = [session EXCEPT ![n][m] = Tail(pg)]
  BY DEF AddSyncedBlock, StateChainInv, BlockInv
<1>3. GoodBlock(Head(pg))
  BY <1>1
<1>4. Tail(pg) \in Seq(Seq(Bodies)) /\ \A i \in DOMAIN Tail(pg) : GoodBlock(Tail(pg)[i])
  BY <1>1
<1> HIDE DEF pg
<1>5. NodeInv'
  <2>1. /\ chain' \in [Node -> Seq(Bodies)] /\ DOMAIN kv' = Node
        /\ \A k \in Node : GoodChain(chain'[k]) /\ kv'[k] = Replayed(chain'[k])
    BY <1>2, <1>3, AddBlockInv DEF StateChainInv
  <2> QED BY <2>1 DEF NodeInv, StateChainInv, AddSyncedBlock
<1>6. BlockInv'
  <2>1. session' \in [Node -> [Node -> Seq(Seq(Bodies))]]
    BY <1>2, <1>4 DEF BlockInv, StateChainInv
  <2>2. ASSUME NEW x \in Node, NEW y \in Node
        PROVE  session'[x][y] = IF x = n /\ y = m THEN Tail(pg) ELSE session[x][y]
    BY <1>2 DEF BlockInv, StateChainInv
  <2>3. ASSUME NEW x \in Node, NEW y \in Node, NEW i \in DOMAIN session'[x][y]
        PROVE  GoodBlock(session'[x][y][i])
    <3>1. CASE x = n /\ y = m
      BY <3>1, <2>2, <2>3, <1>4
    <3>2. CASE ~(x = n /\ y = m)
      BY <3>2, <2>2, <2>3 DEF BlockInv, StateChainInv
    <3> QED BY <3>1, <3>2
  <2> QED BY <2>1, <2>3 DEF BlockInv, StateChainInv, AddSyncedBlock
<1> QED BY <1>5, <1>6 DEF StateChainInv

(* A stream that breaks keeps the invariant.                               *)
LEMMA BreakInv ==
    ASSUME StateChainInv, NEW n \in Node, NEW m \in Node, StreamBreaks(n, m)
    PROVE  StateChainInv'
<1>1. NodeInv'
  BY DEF NodeInv, StateChainInv, StreamBreaks
<1>2. BlockInv'
  <2>1. <<>> \in Seq(Seq(Bodies)) /\ DOMAIN <<>> = {}
    OBVIOUS
  <2> QED BY <2>1 DEF BlockInv, StateChainInv, StreamBreaks
<1> QED BY <1>1, <1>2 DEF StateChainInv

(* A restart finds a prefix of the chain, and the state that goes with it. *)
LEMMA RestartEffect ==
    ASSUME StateChainInv, NEW n \in Node, Restart(n)
    PROVE  /\ \E k \in 0..Len(chain[n]) :
                 /\ chain'[n] = SubSeq(chain[n], 1, k)
                 /\ kv'[n] = States(chain[n])[k]
                 /\ kv'[n] = Replayed(chain'[n])
                 /\ GoodChain(chain'[n])
                 /\ Len(chain'[n]) = k
                 /\ \A i \in 1..k : chain'[n][i] = chain[n][i]
                 /\ up'[n] = TRUE
           /\ \A m \in Node \ {n} : chain'[m] = chain[m] /\ kv'[m] = kv[m] /\ up'[m] = up[m]
           /\ chain' \in [Node -> Seq(Bodies)] /\ DOMAIN kv' = Node
           /\ up' \in [Node -> BOOLEAN]
<1>0. GoodChain(chain[n]) /\ Len(chain[n]) \in Nat
  BY HeldStateOK DEF StateChainInv, NodeInv
<1>1. PICK k \in (IF PowerLoss THEN 0 ELSE Len(chain[n]))..Len(chain[n]) :
          /\ chain' = [chain EXCEPT ![n] = SubSeq(chain[n], 1, k)]
          /\ kv' = [kv EXCEPT ![n] = Replayed(SubSeq(chain[n], 1, k))]
          /\ up' = [up EXCEPT ![n] = /\ ReplayAccepts(SubSeq(chain[n], 1, k))
                                     /\ DAOKeyset(Replayed(SubSeq(chain[n], 1, k)))]
  BY Zenon DEF Restart
<1>a. k \in 0..Len(chain[n])
  BY <1>0
<1> DEFINE q == SubSeq(chain[n], 1, k)
<1>2. /\ GoodChain(q) /\ Replayed(q) = States(chain[n])[k] /\ Len(q) = k
      /\ \A i \in 1..k : q[i] = chain[n][i]
  BY <1>0, <1>a, PrefixGood
<1>3. ReplayAccepts(q) /\ DAOKeyset(Replayed(q)) /\ q \in Seq(Bodies)
  <2>1. StateOK(States(chain[n])[k])
    BY <1>0, <1>a DEF GoodChain
  <2> QED BY <1>2, <2>1 DEF GoodChain, StateOK
<1>4. up' = [up EXCEPT ![n] = TRUE]
  BY <1>1, <1>3
<1> HIDE DEF q
<1> QED BY <1>a, <1>1, <1>2, <1>3, <1>4 DEF q, StateChainInv, NodeInv

(* A restart keeps the invariant.                                          *)
LEMMA RestartInv ==
    ASSUME StateChainInv, NEW n \in Node, Restart(n)
    PROVE  StateChainInv'
<1>1. NodeInv'
  <2>1. \A m \in Node : GoodChain(chain'[m]) /\ kv'[m] = Replayed(chain'[m]) /\ up'[m]
    <3>1. GoodChain(chain'[n]) /\ kv'[n] = Replayed(chain'[n]) /\ up'[n] = TRUE
      BY RestartEffect
    <3>2. ASSUME NEW m \in Node \ {n}
          PROVE  GoodChain(chain'[m]) /\ kv'[m] = Replayed(chain'[m]) /\ up'[m]
      <4>1. chain'[m] = chain[m] /\ kv'[m] = kv[m] /\ up'[m] = up[m]
        BY RestartEffect
      <4> QED BY <4>1 DEF StateChainInv, NodeInv
    <3> QED BY <3>1, <3>2
  <2>2. gap' \in [Node -> 0..GapPeers]
    BY BoundAssumption DEF Restart, StateChainInv, NodeInv
  <2> QED BY <2>1, <2>2, RestartEffect DEF NodeInv
<1>2. BlockInv'
  <2>1. <<>> \in Seq(Seq(Bodies)) /\ DOMAIN <<>> = {}
    OBVIOUS
  <2> QED BY <2>1 DEF BlockInv, StateChainInv, Restart
<1> QED BY <1>1, <1>2 DEF StateChainInv

(* Every step keeps the invariant.                                         *)
LEMMA NextInv == StateChainInv /\ [Next]_vars => StateChainInv'
<1> SUFFICES ASSUME StateChainInv, [Next]_vars PROVE StateChainInv'
  OBVIOUS
<1>1. CASE UNCHANGED vars
  BY <1>1 DEF StateChainInv, NodeInv, BlockInv, vars
<1>2. CASE Next
  BY <1>2, SubmitInv, HandleInv, RestartInv, SyncInv, AddSyncedInv, BreakInv DEF Next
<1> QED BY <1>1, <1>2

(* The invariant holds in every run. *)
LEMMA Invariance == Spec => []StateChainInv
BY InitInv, NextInv, PTL DEF Spec

-----------------------------------------------------------------------------
(* Chains are chains of bodies within the bound, and the keyset in force is   *)
(* always one that VerifyMultisig can be met with, when the genesis block's   *)
(* own keyset lists no key twice: validateSysKeyValue and ValidateOp leave no *)
(* way to a state without one.                                                *)
THEOREM ChainTypes ==
    ASSUME Distinct(Genesis[DAO].keys)
    PROVE  Spec => []ChainTypeOK
<1>1. StateChainInv => ChainTypeOK
  <2> SUFFICES ASSUME StateChainInv, NEW n \in Node
               PROVE  /\ Len(chain[n]) <= MaxIndex
                      /\ chain[n] \in Seq(Bodies)
                      /\ DOMAIN kv[n] = KVKey
                      /\ kv[n][DAO] # None /\ ValidKeyset(kv[n][DAO])
                      /\ gap[n] \in 0..GapPeers
    BY DEF ChainTypeOK, StateChainInv, NodeInv
  <2>1. StateOK(kv[n])
    BY HeldStateOK DEF StateChainInv
  <2> QED BY <2>1 DEF StateChainInv, NodeInv, GoodChain, StateOK, DAOKeyset, ValidKeyset
<1> QED BY <1>1, Invariance, PTL

(* Whatever was lost with the power, a node starts again, and with the state  *)
(* that its blocks give (NewChain, replay).                                   *)
THEOREM RestartsWithItsState == Spec => []StateSurvivesRestart
<1>1. StateChainInv => StateSurvivesRestart
  BY DEF StateChainInv, NodeInv, StateSurvivesRestart
<1> QED BY <1>1, Invariance, PTL

-----------------------------------------------------------------------------
(* Steps. *)

(* n adds b to its chain. *)
Extends(n, b) ==
    /\ Accepts(n, b)
    /\ GoodBlock(b)
    /\ Body(b) \in Bodies
    /\ chain'[n] = Append(chain[n], Body(b))
    /\ kv'[n] = ApplyOps(kv[n], Body(b).ops)

(* A step leaves a node as it is, adds a block to its chain, or restarts it *)
(* with fewer blocks.                                                       *)
LEMMA StepOfNode ==
    ASSUME StateChainInv, [Next]_vars, NEW n \in Node
    PROVE  \/ chain'[n] = chain[n] /\ kv'[n] = kv[n]
           \/ \E b : Extends(n, b)
           \/ Len(chain'[n]) < Len(chain[n])
<1> DEFINE Goal == \/ chain'[n] = chain[n] /\ kv'[n] = kv[n]
                   \/ \E b : Extends(n, b)
                   \/ Len(chain'[n]) < Len(chain[n])
<1>1. ASSUME NEW x \in Node, NEW b, GoodBlock(b), AddBlock(x, b) PROVE Goal
  <2>1. CASE x = n
    BY <1>1, <2>1, AddBlockEffect DEF StateChainInv, Extends
  <2>2. CASE x # n
    BY <1>1, <2>2, AddBlockEffect DEF StateChainInv
  <2> QED BY <2>1, <2>2
<1>2. ASSUME UNCHANGED <<chain, kv>> PROVE Goal
  BY <1>2
<1>3. ASSUME UNCHANGED vars PROVE Goal
  BY <1>2, <1>3 DEF vars
<1>4. ASSUME NEW x \in Node, SubmitStateChainBlock(x) PROVE Goal
  <2>1. PICK body \in Bodies : AddBlock(x, Append(chain[x], body))
    BY <1>4 DEF SubmitStateChainBlock
  <2>2. GoodBlock(Append(chain[x], body))
    BY <1>4, HeldStateOK, BoundAssumption
       DEF SubmitStateChainBlock, GoodBlock, StateChainInv
  <2> QED BY <1>1, <2>1, <2>2
<1>5. ASSUME NEW x \in Node, HandleStateChain(x) PROVE Goal
  <2>1. PICK b \in signed : AddBlock(x, b)
    BY <1>5 DEF HandleStateChain
  <2>2. GoodBlock(b)
    BY DEF StateChainInv, BlockInv
  <2> QED BY <1>1, <2>1, <2>2
<1>6. ASSUME NEW x \in Node, Restart(x) PROVE Goal
  <2>1. CASE x = n
    <3>1. PICK k \in 0..Len(chain[n]) :
              /\ chain'[n] = SubSeq(chain[n], 1, k)
              /\ kv'[n] = States(chain[n])[k]
              /\ Len(chain'[n]) = k
      BY <1>6, <2>1, RestartEffect
    <3>2. Len(chain[n]) \in Nat /\ chain[n] \in Seq(Bodies)
          /\ kv[n] = States(chain[n])[Len(chain[n])]
      BY HeldStateOK DEF StateChainInv
    <3>3. CASE k = Len(chain[n])
      <4>1. SubSeq(chain[n], 1, Len(chain[n])) = chain[n]
        BY <3>2
      <4> QED BY <3>1, <3>2, <3>3, <4>1
    <3>4. CASE k < Len(chain[n])
      BY <3>1, <3>4
    <3> QED BY <3>2, <3>3, <3>4
  <2>2. CASE x # n
    BY <1>6, <2>2, RestartEffect
  <2> QED BY <2>1, <2>2
<1>7. ASSUME NEW x \in Node, NEW y \in Node,
             \/ SyncOnConnect(x, y) \/ ResyncOnGap(x, y) \/ StreamBreaks(x, y)
      PROVE  Goal
  <2>1. UNCHANGED <<chain, kv>>
    BY <1>7 DEF SyncOnConnect, ResyncOnGap, StreamBreaks
  <2> QED BY <1>2, <2>1
<1>8. ASSUME NEW x \in Node, NEW y \in Node, AddSyncedBlock(x, y) PROVE Goal
  <2>1. AddBlock(x, Head(session[x][y])) /\ session[x][y] # <<>>
    BY <1>8 DEF AddSyncedBlock
  <2>2. GoodBlock(Head(session[x][y]))
    <3>1. session[x][y] \in Seq(Seq(Bodies))
      BY DEF StateChainInv, BlockInv
    <3>2. 1 \in DOMAIN session[x][y] /\ Head(session[x][y]) = session[x][y][1]
      BY <2>1, <3>1
    <3> QED BY <3>2 DEF StateChainInv, BlockInv
  <2> QED BY <1>1, <2>1, <2>2
<1> HIDE DEF Goal
<1>9. ASSUME Next PROVE Goal
  <2>1. PICK x \in Node :
            \/ SubmitStateChainBlock(x)
            \/ HandleStateChain(x)
            \/ Restart(x)
            \/ \E m \in Node \ {x} :
                  \/ SyncOnConnect(x, m)
                  \/ ResyncOnGap(x, m)
                  \/ AddSyncedBlock(x, m)
                  \/ StreamBreaks(x, m)
    BY <1>9 DEF Next
  <2> QED BY <1>4, <1>5, <1>6, <1>7, <1>8, <2>1
<1>10. Goal
  BY <1>3, <1>9
<1> QED BY <1>10 DEF Goal

(* What an accepted block does to a key. *)
LEMMA WrittenKey ==
    ASSUME NEW n \in Node, NEW b, Extends(n, b), NEW k \in KVKey
    PROVE  \/ kv'[n][k] = kv[n][k]
           \/ \E i \in DOMAIN Body(b).ops :
                 LET op == Body(b).ops[i]
                 IN /\ op.key = k
                    /\ ValidateOp(op)
                    /\ ValidateTransition(kv[n], Header(chain[n]), Header(b), op)
                    /\ op.action = "set" => Parsed(k, op.value)
                    /\ kv'[n][k] = IF op.action = "set" THEN op.value ELSE None
<1> DEFINE ops == Body(b).ops
<1>1. Len(ops) \in Nat /\ DOMAIN ops = 1..Len(ops)
  BY BodyAssumption DEF Extends
<1>2. kv'[n] = ApplyOps(kv[n], ops)
  BY DEF Extends
<1>3. \A i \in DOMAIN ops :
         /\ ValidateOp(ops[i])
         /\ ValidateTransition(kv[n], Header(chain[n]), Header(b), ops[i])
         /\ ops[i].action = "set" => Parsed(ops[i].key, ops[i].value)
  BY BodyAssumption DEF Extends, Accepts, Valid
<1> HIDE DEF ops
<1>4. \/ kv'[n][k] = kv[n][k]
      \/ \E i \in DOMAIN ops :
            /\ ops[i].key = k
            /\ kv'[n][k] = IF ops[i].action = "set" THEN ops[i].value ELSE None
  BY <1>1, <1>2, LastWrite
<1> QED BY <1>3, <1>4 DEF ops

(* What it does to a system key. *)
LEMMA WrittenSysKey ==
    ASSUME NEW n \in Node, NEW b, Extends(n, b), NEW k \in SysKey
    PROVE  \/ kv'[n][k] = kv[n][k]
           \/ /\ kv'[n][k] # None
              /\ ValidSysKeyValue(k, kv'[n][k])
              /\ Parsed(k, kv'[n][k])
              /\ k = Activations =>
                    ActivationsTransition(kv[n], Header(chain[n]), Header(b), kv'[n][k])
              /\ k = MinVersion => MinVersionTransition(kv[n], kv'[n][k])
              /\ k = Phase => PhaseTransition(kv[n], kv'[n][k])
<1>0. k \in KVKey
  BY SysKeyAssumption
<1>1. ASSUME NEW i \in DOMAIN Body(b).ops,
             Body(b).ops[i].key = k,
             ValidateOp(Body(b).ops[i]),
             ValidateTransition(kv[n], Header(chain[n]), Header(b), Body(b).ops[i]),
             Body(b).ops[i].action = "set" => Parsed(k, Body(b).ops[i].value),
             kv'[n][k] = IF Body(b).ops[i].action = "set" THEN Body(b).ops[i].value ELSE None
      PROVE  /\ kv'[n][k] # None
             /\ ValidSysKeyValue(k, kv'[n][k])
             /\ Parsed(k, kv'[n][k])
             /\ k = Activations =>
                   ActivationsTransition(kv[n], Header(chain[n]), Header(b), kv'[n][k])
             /\ k = MinVersion => MinVersionTransition(kv[n], kv'[n][k])
             /\ k = Phase => PhaseTransition(kv[n], kv'[n][k])
  <2> DEFINE op == Body(b).ops[i]
  <2>1. /\ op.action = "set" /\ op.key = k /\ op.value # None
        /\ ValidSysKeyValue(op.key, op.value)
    BY <1>1 DEF ValidateOp
  <2>2. kv'[n][k] = op.value
    BY <1>1, <2>1
  <2>3. /\ op.key = Activations =>
              ActivationsTransition(kv[n], Header(chain[n]), Header(b), op.value)
        /\ op.key = MinVersion => MinVersionTransition(kv[n], op.value)
        /\ op.key = Phase => PhaseTransition(kv[n], op.value)
    BY <1>1, <2>1 DEF ValidateTransition
  <2>4. Parsed(k, op.value)
    BY <1>1, <2>1
  <2> HIDE DEF op
  <2> QED BY <2>1, <2>2, <2>3, <2>4
<1> QED BY <1>0, <1>1, WrittenKey

(* A step that does not shorten the chain. *)
LEMMA GrowingStep ==
    ASSUME StateChainInv, [Next]_vars, NEW n \in Node, Grows(n)
    PROVE  \/ chain'[n] = chain[n] /\ kv'[n] = kv[n]
           \/ \E b : Extends(n, b)
<1>1. Len(chain[n]) \in Nat /\ Len(chain'[n]) \in Nat
  <2>1. StateChainInv'
    BY NextInv
  <2> QED BY <2>1 DEF StateChainInv, NodeInv
<1>2. ~(Len(chain'[n]) < Len(chain[n]))
  BY <1>1 DEF Grows
<1> QED BY <1>2, StepOfNode

-----------------------------------------------------------------------------
(* Phase and protocol floor only rise, however often one block sets them: the *)
(* value that stays is the last one, and validateTransition compared it with  *)
(* the state before the block.                                                *)
THEOREM PhaseAndFloorRise == Spec => OnlyRises
<1>1. ASSUME NEW v \in [1..3 -> Nat] PROVE ~VersionBefore(v, v)
  BY DEF VersionBefore
<1>2. ASSUME StateChainInv, [Next]_vars, NEW n \in Node, Grows(n)
      PROVE  /\ kv[n][Phase] # None => kv'[n][Phase] >= kv[n][Phase]
             /\ kv[n][MinVersion] # None =>
                   ~VersionBefore(kv'[n][MinVersion], kv[n][MinVersion])
  <2>1. /\ kv[n][Phase] # None => kv[n][Phase] \in Nat
        /\ kv[n][MinVersion] # None => kv[n][MinVersion] \in [1..3 -> Nat]
    <3>1. StateOK(kv[n])
      BY <1>2, HeldStateOK DEF StateChainInv
    <3>2. Phase \in KVKey /\ MinVersion \in KVKey
      BY KeysOK
    <3>3. /\ kv[n][Phase] # None => Parsed(Phase, kv[n][Phase])
          /\ kv[n][MinVersion] # None => Parsed(MinVersion, kv[n][MinVersion])
      BY <3>1, <3>2 DEF StateOK
    <3> QED BY <3>3 DEF Parsed
  <2>2. CASE chain'[n] = chain[n] /\ kv'[n] = kv[n]
    BY <2>1, <2>2, <1>1
  <2>3. ASSUME NEW b, Extends(n, b)
        PROVE  /\ kv[n][Phase] # None => kv'[n][Phase] >= kv[n][Phase]
               /\ kv[n][MinVersion] # None =>
                     ~VersionBefore(kv'[n][MinVersion], kv[n][MinVersion])
    <3>1. Phase \in SysKey /\ MinVersion \in SysKey
      BY KeysOK
    <3>2. kv'[n][Phase] = kv[n][Phase] \/ PhaseTransition(kv[n], kv'[n][Phase])
      BY <2>3, <3>1, WrittenSysKey
    <3>3. \/ kv'[n][MinVersion] = kv[n][MinVersion]
          \/ MinVersionTransition(kv[n], kv'[n][MinVersion])
      BY <2>3, <3>1, WrittenSysKey
    <3>4. kv[n][Phase] # None => kv'[n][Phase] >= kv[n][Phase]
      BY <2>1, <3>2 DEF PhaseTransition
    <3>5. kv[n][MinVersion] # None =>
              ~VersionBefore(kv'[n][MinVersion], kv[n][MinVersion])
      BY <2>1, <3>3, <1>1 DEF MinVersionTransition
    <3> QED BY <3>4, <3>5
  <2> QED BY <1>2, <2>2, <2>3, GrowingStep
<1>3. StateChainInv /\ [Next]_vars =>
         [\A n \in Node : Grows(n) =>
             /\ kv[n][Phase] # None => kv'[n][Phase] >= kv[n][Phase]
             /\ kv[n][MinVersion] # None =>
                   ~VersionBefore(kv'[n][MinVersion], kv[n][MinVersion])]_vars
  BY <1>2
<1> QED BY <1>3, Invariance, PTL DEF Spec, OnlyRises

(* Neither a second epoch block nor a block of the DAO changes or removes an  *)
(* epoch record while its oracle's prefix is in force (AddBlock).             *)
THEOREM EpochRecordsStay == Spec => EpochWriteOnce
<1>1. ASSUME StateChainInv, [Next]_vars, NEW n \in Node, Grows(n), NEW k \in KVKey,
             Governed(kv[n], k), kv[n][k] # None
      PROVE  kv'[n][k] = kv[n][k]
  <2>1. ASSUME NEW b, Extends(n, b) PROVE kv'[n][k] = kv[n][k]
    <3>1. ASSUME NEW i \in DOMAIN Body(b).ops, Body(b).ops[i].key = k PROVE FALSE
      <4>1. CASE IsOracleBlock(kv[n], Body(b))
        <5>1. OracleMayWrite(kv[n], Body(b))
          BY <2>1, <4>1 DEF Extends, Accepts, Valid
        <5> QED BY <5>1, <3>1, <1>1 DEF OracleMayWrite
      <4>2. CASE ~IsOracleBlock(kv[n], Body(b))
        <5>1. DAOMayWrite(kv[n], Body(b))
          BY <2>1, <4>2 DEF Extends, Accepts, Valid
        <5> QED BY <5>1, <3>1, <1>1 DEF DAOMayWrite
      <4> QED BY <4>1, <4>2
    <3> QED BY <2>1, <3>1, WrittenKey
  <2> QED BY <1>1, <2>1, GrowingStep
<1>2. StateChainInv /\ [Next]_vars =>
         [\A n \in Node : Grows(n) =>
             \A k \in KVKey :
                 Governed(kv[n], k) /\ kv[n][k] # None => kv'[n][k] = kv[n][k]]_vars
  BY <1>1
<1> QED BY <1>2, Invariance, PTL DEF Spec, EpochWriteOnce

(* The trigger of a feature, when its key is written. *)
LEMMA TriggerTypes ==
    ASSUME NodeInv, NEW n \in Node, NEW f \in Features(kv[n])
    PROVE  /\ kv[n][Activations] # None /\ f \in DOMAIN kv[n][Activations]
           /\ kv[n][Activations][f].atIndex \in Nat
           /\ kv[n][Activations][f].notBefore \in Nat
<1>1. kv[n][Activations] # None /\ f \in DOMAIN kv[n][Activations]
  BY DEF Features
<1>2. Parsed(Activations, kv[n][Activations])
  BY <1>1, HeldStateOK, KeysOK DEF StateOK
<1> QED BY <1>1, <1>2 DEF Parsed

(* The header of a chain. *)
LEMMA HeaderTypes ==
    ASSUME NEW p \in Seq(Bodies)
    PROVE  Header(p).index = Len(p) /\ Header(p).index \in Nat /\ Header(p).ts \in Nat
<1>1. p # <<>> => Body(p) \in Bodies
  BY DEF Body
<1> QED BY <1>1, BodyAssumption DEF Header

(* The new block's header, from the chain and from the block. *)
LEMMA ExtendedHeader ==
    ASSUME NodeInv, NEW n \in Node, NEW b, Extends(n, b)
    PROVE  /\ Header(chain'[n]) = Header(b)
           /\ Header(b).index = Header(chain[n]).index + 1
           /\ Header(b).ts >= Header(chain[n]).ts
           /\ {Header(b).index, Header(b).ts, Header(chain[n]).index, Header(chain[n]).ts}
                 \subseteq Nat
<1> DEFINE p == chain[n]
           q == Append(p, Body(b))
<1>1. p \in Seq(Bodies) /\ Body(b) \in Bodies /\ b \in Seq(Bodies) /\ Len(b) = Len(p) + 1
  BY DEF NodeInv, Extends, GoodBlock, Accepts, IsNext
<1>2. Len(q) = Len(p) + 1 /\ q # <<>> /\ q[Len(q)] = Body(b) /\ b # <<>>
  BY <1>1
<1>3. Header(q) = Header(b) /\ Header(b).index = Len(p) + 1 /\ Header(b).ts = Body(b).ts
  <2> HIDE DEF q, p
  <2> QED BY <1>1, <1>2 DEF Header, Body
<1>4. Body(b).ts >= Header(p).ts
  BY DEF Extends, Accepts, Valid
<1>5. chain'[n] = q
  BY DEF Extends
<1> HIDE DEF q, p
<1> QED BY <1>1, <1>3, <1>4, <1>5, HeaderTypes DEF p

(* A live feature stays live (validateActivationsTransition): its trigger is  *)
(* in every later list, unchanged, and index and time only rise.              *)
THEOREM LiveStaysLive == Spec => LiveFeaturesStayLive
<1>1. ASSUME StateChainInv, [Next]_vars, NEW n \in Node, Grows(n),
             NEW f \in Features(kv[n]), Live(n, f)
      PROVE  Live(n, f)'
  <2>1. CASE chain'[n] = chain[n] /\ kv'[n] = kv[n]
    BY <1>1, <2>1 DEF Live
  <2>2. ASSUME NEW b, Extends(n, b) PROVE Live(n, f)'
    <3> DEFINE old == kv[n][Activations]
               new == kv'[n][Activations]
    <3>1. old # None /\ f \in DOMAIN old /\ old[f].atIndex \in Nat /\ old[f].notBefore \in Nat
      BY <1>1, TriggerTypes DEF StateChainInv
    <3>2. /\ Header(chain'[n]) = Header(b)
          /\ Header(b).index = Header(chain[n]).index + 1
          /\ Header(b).ts >= Header(chain[n]).ts
          /\ {Header(b).index, Header(b).ts, Header(chain[n]).index, Header(chain[n]).ts}
                \subseteq Nat
      BY <1>1, <2>2, ExtendedHeader DEF StateChainInv
    <3>3. ActiveAt(old[f], Header(chain[n]).index, Header(chain[n]).ts)
      BY <1>1 DEF Live
    <3>4. new # None /\ f \in DOMAIN new /\ new[f] = old[f]
      <4>1. CASE new = old
        BY <3>1, <4>1
      <4>2. CASE new # None /\ ActivationsTransition(kv[n], Header(chain[n]), Header(b), new)
        BY <1>1, <3>3, <4>2 DEF ActivationsTransition
      <4>3. Activations \in SysKey
        BY KeysOK
      <4>4. \/ new = old
            \/ new # None /\ ActivationsTransition(kv[n], Header(chain[n]), Header(b), new)
        BY <2>2, <4>3, WrittenSysKey
      <4> HIDE DEF old, new
      <4> QED BY <4>1, <4>2, <4>4
    <3>5. ActiveAt(new[f], Header(b).index, Header(b).ts)
      <4> HIDE DEF old, new
      <4> QED BY <3>1, <3>2, <3>3, <3>4 DEF ActiveAt
    <3> QED BY <3>2, <3>4, <3>5 DEF Live, Features
  <2> QED BY <1>1, <2>1, <2>2, GrowingStep
<1>2. StateChainInv /\ [Next]_vars =>
         [\A n \in Node : Grows(n) =>
             \A f \in Features(kv[n]) : Live(n, f) => Live(n, f)']_vars
  BY <1>1
<1> QED BY <1>2, Invariance, PTL DEF Spec, LiveFeaturesStayLive

(* The block that makes a feature live finds its trigger in place             *)
(* (requireFuture): a trigger that a block writes lies after that block.      *)
THEOREM TriggersComeFirst == Spec => AnnouncedFirst
<1>1. ASSUME StateChainInv, [Next]_vars, NEW n \in Node, Len(chain'[n]) > Len(chain[n]),
             NEW f \in Features(kv'[n]), Live(n, f)'
      PROVE  f \in Features(kv[n]) /\ kv[n][Activations][f] = kv'[n][Activations][f]
  <2>0. Len(chain[n]) \in Nat /\ Len(chain'[n]) \in Nat /\ StateChainInv'
    <3>1. StateChainInv'
      BY <1>1, NextInv
    <3> QED BY <1>1, <3>1 DEF StateChainInv, NodeInv
  <2>1. PICK b : Extends(n, b)
    BY <1>1, <2>0, StepOfNode
  <2> DEFINE old == kv[n][Activations]
             new == kv'[n][Activations]
  <2>2. new # None /\ f \in DOMAIN new
    BY <1>1 DEF Features
  <2>3. /\ Header(chain'[n]) = Header(b)
        /\ {Header(b).index, Header(b).ts} \subseteq Nat
    BY <1>1, <2>1, ExtendedHeader DEF StateChainInv
  <2>4. ActiveAt(new[f], Header(b).index, Header(b).ts)
    BY <1>1, <2>3 DEF Live
  <2>5. CASE new = old
    BY <2>2, <2>5 DEF Features
  <2>6. CASE /\ ValidSysKeyValue(Activations, new)
             /\ Parsed(Activations, new)
             /\ ActivationsTransition(kv[n], Header(chain[n]), Header(b), new)
    <3>1. new[f].atIndex \in Nat /\ new[f].notBefore \in Nat
      BY <2>2, <2>6 DEF Parsed
    <3>2. new[f].atIndex # 0 \/ new[f].notBefore # 0
      <4>1. ValidActivations(new)
        BY <2>6 DEF ValidSysKeyValue
      <4> QED BY <2>2, <4>1 DEF ValidActivations
    <3>3. ~RequireFuture(new[f], Header(b))
      <4> HIDE DEF new
      <4> QED BY <2>3, <2>4, <3>1, <3>2 DEF RequireFuture, ActiveAt
    <3> QED BY <2>2, <2>6, <3>3 DEF ActivationsTransition
  <2>7. \/ new = old
        \/ /\ ValidSysKeyValue(Activations, new)
           /\ Parsed(Activations, new)
           /\ ActivationsTransition(kv[n], Header(chain[n]), Header(b), new)
    <3>1. Activations \in SysKey
      BY KeysOK
    <3> QED BY <2>1, <3>1, WrittenSysKey
  <2> QED BY <2>5, <2>6, <2>7
<1>2. StateChainInv /\ [Next]_vars =>
         [\A n \in Node : Len(chain'[n]) > Len(chain[n]) =>
             \A f \in Features(kv'[n]) : Live(n, f)' =>
                 /\ f \in Features(kv[n])
                 /\ kv[n][Activations][f] = kv'[n][Activations][f]]_vars
  BY <1>1
<1> QED BY <1>2, Invariance, PTL DEF Spec, AnnouncedFirst

-----------------------------------------------------------------------------
(* Where chains part. *)

(* A block of index i like the one of p was signed by the signers of p's. *)
Backed(p, i) ==
    \E c \in signed : Len(c) = i /\ c[i] = p[i] /\ \A j \in 1..i : Same(c[j], p[j])

(* Every block of p was signed, on the blocks that p has before it. *)
Covered(p) == \A i \in 1..Len(p) : Backed(p, i)

(* A key signs one block of an index.  Every signed block was signed on       *)
(* signed blocks, in a state with majority thresholds.                        *)
SignedInv ==
    /\ \A b, c \in signed :
          \/ Len(c) # Len(b)
          \/ Hash(c) = Hash(b)
          \/ Members(Body(c).sigs) \cap Members(Body(b).sigs) = {}
    /\ \A b \in signed : Covered(b) /\ MajorityState(Replayed(Parent(b)))

(* And what was signed is all there is. *)
CoveredInv ==
    /\ \A n \in Node : Covered(chain[n])
    /\ \A n, m \in Node : \A i \in DOMAIN session[n][m] : Covered(session[n][m][i])

AgreeInv == SignedInv /\ CoveredInv

(* A prefix of a covered chain is covered. *)
LEMMA CoveredPrefix ==
    ASSUME NEW p \in Seq(Bodies), Covered(p), NEW q \in Seq(Bodies), Len(q) <= Len(p),
           \A i \in 1..Len(q) : q[i] = p[i]
    PROVE  Covered(q)
<1> SUFFICES ASSUME NEW i \in 1..Len(q) PROVE Backed(q, i)
  BY DEF Covered
<1>1. i \in 1..Len(p)
  OBVIOUS
<1>2. PICK c \in signed : Len(c) = i /\ c[i] = p[i] /\ \A j \in 1..i : Same(c[j], p[j])
  BY <1>1 DEF Covered, Backed
<1>3. \A j \in 1..i : q[j] = p[j]
  OBVIOUS
<1> QED BY <1>2, <1>3 DEF Backed

(* A node that adds a covered block has a covered chain: prev_hash ties the   *)
(* block to the chain.                                                        *)
LEMMA CoveredExtension ==
    ASSUME NodeInv, NEW n \in Node, NEW b, GoodBlock(b), Backed(b, Len(b)), Accepts(n, b),
           Covered(chain[n])
    PROVE  Covered(Append(chain[n], Body(b)))
<1> DEFINE p == chain[n]
           q == Append(p, Body(b))
<1>1. /\ p \in Seq(Bodies) /\ b \in Seq(Bodies) /\ Body(b) \in Bodies
      /\ Len(b) = Len(p) + 1 /\ Len(p) \in Nat /\ b # <<>>
  BY DEF NodeInv, GoodBlock, Accepts, IsNext, Body
<1>2. Hash(Parent(b)) = Hash(p)
  BY DEF Accepts, Valid
<1>3. /\ Parent(b) \in Seq(Bodies) /\ Len(Parent(b)) = Len(p)
      /\ \A i \in 1..Len(p) : Parent(b)[i] = b[i]
  BY <1>1 DEF Parent
<1>4. ASSUME NEW i \in 1..Len(p) PROVE b[i].ops = p[i].ops /\ b[i].ts = p[i].ts
  <2>1. Hash(Parent(b))[i] = [ops |-> b[i].ops, ts |-> b[i].ts]
    BY <1>3 DEF Hash
  <2>2. Hash(p)[i] = [ops |-> p[i].ops, ts |-> p[i].ts]
    BY <1>1 DEF Hash
  <2>3. [ops |-> b[i].ops, ts |-> b[i].ts] = [ops |-> p[i].ops, ts |-> p[i].ts]
    BY <1>2, <2>1, <2>2
  <2> QED BY <2>3
<1>5. /\ q \in Seq(Bodies) /\ Len(q) = Len(b)
      /\ \A i \in 1..Len(p) : q[i] = p[i]
      /\ q[Len(b)] = b[Len(b)]
  BY <1>1 DEF Body
<1> HIDE DEF q
<1>6. ASSUME NEW i \in 1..Len(b) PROVE Same(q[i], b[i])
  <2>1. CASE i = Len(b)
    BY <2>1, <1>5 DEF Same
  <2>2. CASE i # Len(b)
    <3>1. i \in 1..Len(p)
      BY <2>2, <1>1
    <3> QED BY <3>1, <1>4, <1>5 DEF Same
  <2> QED BY <2>1, <2>2
<1>7. ASSUME NEW i \in 1..Len(q) PROVE Backed(q, i)
  <2>1. CASE i = Len(b)
    <3>1. PICK c \in signed : /\ Len(c) = Len(b) /\ c[Len(b)] = b[Len(b)]
                              /\ \A j \in 1..Len(b) : Same(c[j], b[j])
      BY DEF Backed
    <3>2. \A j \in 1..Len(b) : Same(c[j], q[j])
      BY <3>1, <1>6 DEF Same
    <3> QED BY <2>1, <3>1, <3>2, <1>5 DEF Backed
  <2>2. CASE i # Len(b)
    <3>1. i \in 1..Len(p)
      BY <2>2, <1>1, <1>5
    <3>2. PICK c \in signed : Len(c) = i /\ c[i] = p[i] /\ \A j \in 1..i : Same(c[j], p[j])
      BY <3>1 DEF Covered, Backed
    <3>3. \A j \in 1..i : q[j] = p[j]
      BY <3>1, <1>5, <1>1
    <3> QED BY <3>1, <3>2, <3>3 DEF Backed
  <2> QED BY <2>1, <2>2
<1> QED BY <1>7 DEF Covered, q

(* So AddBlock keeps chains covered. *)
LEMMA AddBlockCovered ==
    ASSUME StateChainInv, AgreeInv, NEW n \in Node, NEW b, GoodBlock(b), Covered(b),
           AddBlock(n, b), NEW m \in Node
    PROVE  Covered(chain'[m])
<1>1. Covered(chain[m]) /\ Covered(chain[n])
  BY DEF AgreeInv, CoveredInv
<1>2. Backed(b, Len(b))
  BY BoundAssumption DEF Covered, GoodBlock
<1>3. CASE chain'[m] = chain[m]
  BY <1>1, <1>3
<1>4. CASE m = n /\ Accepts(n, b) /\ chain'[n] = Append(chain[n], Body(b))
  BY <1>1, <1>2, <1>4, CoveredExtension DEF StateChainInv
<1> QED BY <1>3, <1>4, AddBlockEffect DEF StateChainInv

(* A block that is signed keeps it: SignedOnce is the first part, and the     *)
(* state it is signed in is the one of the node that accepts it.              *)
LEMMA SubmitAgree ==
    ASSUME StateChainInv, AgreeInv, MajorityKeys, NEW n \in Node, SubmitStateChainBlock(n)
    PROVE  AgreeInv'
<1>1. PICK body \in Bodies : /\ SignedOnce(Append(chain[n], body))
                             /\ Accepts(n, Append(chain[n], body))
                             /\ AddBlock(n, Append(chain[n], body))
                             /\ signed' = signed \cup {Append(chain[n], body)}
  BY DEF SubmitStateChainBlock
<1> DEFINE p == chain[n]
<1>b. PICK b : b = Append(p, body)
  OBVIOUS
<1>2. p \in Seq(Bodies) /\ Len(p) \in Nat /\ Covered(p) /\ kv[n] = Replayed(p)
  BY HeldStateOK DEF StateChainInv, NodeInv, AgreeInv, CoveredInv
<1>3. /\ b \in Seq(Bodies) /\ Len(b) = Len(p) + 1 /\ Body(b) = body /\ Parent(b) = p
      /\ \A i \in 1..Len(p) : b[i] = p[i]
  BY <1>2, <1>b DEF Body, Parent
<1>4. GoodBlock(b)
  BY <1>2, <1>3, BoundAssumption DEF SubmitStateChainBlock, GoodBlock
<1>5. signed \subseteq signed' /\ b \in signed' /\ signed' = signed \cup {b}
  BY <1>1, <1>b
<1>6. SignedOnce(b)
  BY <1>1, <1>b
<1>7. MajorityState(Replayed(Parent(b)))
  BY <1>2, <1>3 DEF MajorityKeys
<1>8. ASSUME NEW q, Covered(q) PROVE Covered(q)'
  BY <1>5, <1>8 DEF Covered, Backed
<1>9. Covered(b)'
  <2> SUFFICES ASSUME NEW i \in 1..Len(b) PROVE Backed(b, i)'
    BY DEF Covered
  <2>1. CASE i = Len(b)
    BY <2>1, <1>5 DEF Backed, Same
  <2>2. CASE i # Len(b)
    <3>1. i \in 1..Len(p)
      BY <2>2, <1>2, <1>3
    <3>2. PICK c \in signed : Len(c) = i /\ c[i] = p[i] /\ \A j \in 1..i : Same(c[j], p[j])
      BY <3>1, <1>2 DEF Covered, Backed
    <3>3. \A j \in 1..i : b[j] = p[j]
      BY <3>1, <1>2, <1>3
    <3> QED BY <3>1, <3>2, <3>3, <1>5 DEF Backed
  <2> QED BY <2>1, <2>2
<1>10. SignedInv'
  <2>1. ASSUME NEW x \in signed', NEW y \in signed'
        PROVE  \/ Len(y) # Len(x)
               \/ Hash(y) = Hash(x)
               \/ Members(Body(y).sigs) \cap Members(Body(x).sigs) = {}
    <3>1. CASE x \in signed /\ y \in signed
      BY <3>1 DEF AgreeInv, SignedInv
    <3>2. CASE x = b /\ y \in signed
      BY <3>2, <1>6 DEF SignedOnce
    <3>3. CASE x \in signed /\ y = b
      <4>1. \/ Len(x) # Len(b)
            \/ Hash(x) = Hash(b)
            \/ Members(Body(x).sigs) \cap Members(Body(b).sigs) = {}
        BY <3>3, <1>6 DEF SignedOnce
      <4> QED BY <4>1, <3>3
    <3>4. CASE x = b /\ y = b
      BY <3>4
    <3> QED BY <1>5, <3>1, <3>2, <3>3, <3>4
  <2>2. ASSUME NEW x \in signed' PROVE Covered(x)' /\ MajorityState(Replayed(Parent(x)))
    <3>1. CASE x = b
      BY <3>1, <1>7, <1>9
    <3>2. CASE x \in signed
      BY <3>2, <1>8 DEF AgreeInv, SignedInv
    <3> QED BY <1>5, <3>1, <3>2
  <2> QED BY <2>1, <2>2 DEF SignedInv
<1>11. CoveredInv'
  <2>1. ASSUME NEW m \in Node PROVE Covered(chain[m])'
    <3>1. CASE chain'[m] = chain[m]
      <4>1. Covered(chain[m])
        BY DEF AgreeInv, CoveredInv
      <4> QED BY <4>1, <3>1, <1>5 DEF Covered, Backed
    <3>2. CASE chain'[m] = b
      BY <3>2, <1>9 DEF Covered, Backed
    <3>3. AddBlock(n, b) /\ b = Append(chain[n], Body(b))
      BY <1>1, <1>3, <1>b
    <3>4. chain'[m] = chain[m] \/ chain'[m] = Append(chain[n], Body(b))
      BY <1>4, <3>3, AddBlockEffect DEF StateChainInv
    <3> QED BY <3>1, <3>2, <3>3, <3>4
  <2>2. ASSUME NEW x \in Node, NEW y \in Node, NEW i \in DOMAIN session'[x][y]
        PROVE  Covered(session[x][y][i])'
    <3>1. session' = session
      BY DEF SubmitStateChainBlock
    <3>2. Covered(session[x][y][i])
      BY <2>2, <3>1 DEF AgreeInv, CoveredInv
    <3> QED BY <3>1, <3>2, <1>5 DEF Covered, Backed
  <2> QED BY <2>1, <2>2 DEF CoveredInv
<1> QED BY <1>10, <1>11 DEF AgreeInv

(* The other steps sign nothing. *)
LEMMA CoveredStays ==
    ASSUME AgreeInv, UNCHANGED signed,
           \A m \in Node : Covered(chain'[m]),
           \A x, y \in Node : \A i \in DOMAIN session'[x][y] : Covered(session'[x][y][i])
    PROVE  AgreeInv'
<1>1. ASSUME NEW p, Covered(p) PROVE Covered(p)'
  BY <1>1 DEF Covered, Backed
<1>2. SignedInv'
  BY <1>1 DEF AgreeInv, SignedInv
<1>3. CoveredInv'
  BY DEF CoveredInv, Covered, Backed
<1> QED BY <1>2, <1>3 DEF AgreeInv

(* Handling a gossiped block keeps the agreement.                          *)
LEMMA HandleAgree ==
    ASSUME StateChainInv, AgreeInv, NEW n \in Node, HandleStateChain(n)
    PROVE  AgreeInv'
<1>1. PICK b \in signed : AddBlock(n, b)
  BY DEF HandleStateChain
<1>2. GoodBlock(b) /\ Covered(b)
  BY DEF StateChainInv, BlockInv, AgreeInv, SignedInv
<1>3. UNCHANGED <<session, signed>>
  BY DEF HandleStateChain
<1>4. \A m \in Node : Covered(chain'[m])
  BY <1>1, <1>2, AddBlockCovered
<1>5. \A x, y \in Node : \A i \in DOMAIN session'[x][y] : Covered(session'[x][y][i])
  BY <1>3 DEF AgreeInv, CoveredInv
<1> QED BY <1>3, <1>4, <1>5, CoveredStays

(* The blocks that a request puts in flight are of an accepted chain.      *)
LEMMA RequestCovered ==
    ASSUME StateChainInv, AgreeInv, NEW n \in Node, NEW m \in Node, RequestSync(n, m),
           NEW x \in Node, NEW y \in Node, NEW i \in DOMAIN session'[x][y]
    PROVE  Covered(session'[x][y][i])
<1> DEFINE pg == Served(m, Len(chain[n]))
<1>0. chain[m] \in Seq(Bodies) /\ Covered(chain[m]) /\ Len(chain[n]) \in Nat
  BY HeldStateOK DEF StateChainInv, AgreeInv, CoveredInv
<1>1. ASSUME NEW j \in DOMAIN pg PROVE Covered(pg[j])
  <2> DEFINE k == Len(chain[n]) + j
             q == SubSeq(chain[m], 1, k)
  <2>1. /\ pg \in Seq(Seq(Bodies)) /\ pg[j] = q /\ GoodBlock(q)
        /\ k <= Len(chain[m])
    BY <1>0, ServedGood DEF StateChainInv
  <2>2. k \in 1..Len(chain[m])
    <3>1. j \in Nat /\ j > 0
      BY <2>1
    <3> QED BY <1>0, <2>1, <3>1
  <2> HIDE DEF k
  <2>3. q \in Seq(Bodies) /\ Len(q) = k /\ \A l \in 1..k : q[l] = chain[m][l]
    BY <1>0, <2>2
  <2>4. Len(q) <= Len(chain[m])
    BY <1>0, <2>2, <2>3
  <2> HIDE DEF q
  <2>5. Covered(q)
    BY <1>0, <2>3, <2>4, CoveredPrefix DEF StateChainInv, BlockInv
  <2> QED BY <2>1, <2>5 DEF k, q
<1> HIDE DEF pg
<1>2. session' = [session EXCEPT ![n][m] = pg]
  BY DEF RequestSync, pg
<1>3. session'[x][y] = IF x = n /\ y = m THEN pg ELSE session[x][y]
  BY <1>2 DEF StateChainInv, BlockInv
<1>4. CASE x = n /\ y = m
  BY <1>1, <1>3, <1>4
<1>5. CASE ~(x = n /\ y = m)
  BY <1>3, <1>5 DEF AgreeInv, CoveredInv
<1> QED BY <1>4, <1>5

(* Answering a sync request keeps the agreement.                           *)
LEMMA SyncAgree ==
    ASSUME StateChainInv, AgreeInv, NEW n \in Node, NEW m \in Node,
           SyncOnConnect(n, m) \/ ResyncOnGap(n, m)
    PROVE  AgreeInv'
<1>1. UNCHANGED <<chain, signed>>
  BY DEF SyncOnConnect, ResyncOnGap
<1>2. \A x \in Node : Covered(chain'[x])
  BY <1>1 DEF AgreeInv, CoveredInv
<1>3. ASSUME NEW x \in Node, NEW y \in Node, NEW i \in DOMAIN session'[x][y]
      PROVE  Covered(session'[x][y][i])
  <2>1. CASE RequestSync(n, m)
    BY <2>1, <1>3, RequestCovered
  <2>2. CASE UNCHANGED session
    BY <2>2, <1>3 DEF AgreeInv, CoveredInv
  <2> QED BY <2>1, <2>2 DEF SyncOnConnect, ResyncOnGap
<1> QED BY <1>1, <1>2, <1>3, CoveredStays

(* Adding a synced block keeps the agreement.                              *)
LEMMA AddSyncedAgree ==
    ASSUME StateChainInv, AgreeInv, NEW n \in Node, NEW m \in Node, AddSyncedBlock(n, m)
    PROVE  AgreeInv'
<1> DEFINE pg == session[n][m]
<1>1. /\ pg \in Seq(Seq(Bodies)) /\ pg # <<>>
      /\ \A i \in DOMAIN pg : GoodBlock(pg[i]) /\ Covered(pg[i])
  BY DEF AddSyncedBlock, StateChainInv, BlockInv, AgreeInv, CoveredInv
<1>2. /\ AddBlock(n, Head(pg))
      /\ session' = [session EXCEPT ![n][m] = Tail(pg)]
      /\ UNCHANGED signed
  BY DEF AddSyncedBlock, StateChainInv, BlockInv
<1>3. GoodBlock(Head(pg)) /\ Covered(Head(pg))
  BY <1>1
<1>4. \A i \in DOMAIN Tail(pg) : Covered(Tail(pg)[i])
  BY <1>1
<1> HIDE DEF pg
<1>5. \A x \in Node : Covered(chain'[x])
  BY <1>2, <1>3, AddBlockCovered
<1>6. ASSUME NEW x \in Node, NEW y \in Node, NEW i \in DOMAIN session'[x][y]
      PROVE  Covered(session'[x][y][i])
  <2>1. session'[x][y] = IF x = n /\ y = m THEN Tail(pg) ELSE session[x][y]
    BY <1>2 DEF StateChainInv, BlockInv
  <2>2. CASE x = n /\ y = m
    BY <1>4, <1>6, <2>1, <2>2
  <2>3. CASE ~(x = n /\ y = m)
    BY <1>6, <2>1, <2>3 DEF AgreeInv, CoveredInv
  <2> QED BY <2>2, <2>3
<1> QED BY <1>2, <1>5, <1>6, CoveredStays

(* A stream that breaks keeps the agreement.                               *)
LEMMA BreakAgree ==
    ASSUME StateChainInv, AgreeInv, NEW n \in Node, NEW m \in Node, StreamBreaks(n, m)
    PROVE  AgreeInv'
<1>1. UNCHANGED <<chain, signed>> /\ session' = [session EXCEPT ![n][m] = <<>>]
  BY DEF StreamBreaks
<1>2. \A x \in Node : Covered(chain'[x])
  BY <1>1 DEF AgreeInv, CoveredInv
<1>3. ASSUME NEW x \in Node, NEW y \in Node, NEW i \in DOMAIN session'[x][y]
      PROVE  Covered(session'[x][y][i])
  <2>1. session'[x][y] = IF x = n /\ y = m THEN <<>> ELSE session[x][y]
    BY <1>1 DEF StateChainInv, BlockInv
  <2>2. ~(x = n /\ y = m)
    BY <1>3, <2>1
  <2> QED BY <1>3, <2>1, <2>2 DEF AgreeInv, CoveredInv
<1> QED BY <1>1, <1>2, <1>3, CoveredStays

(* A restart keeps the agreement.                                          *)
LEMMA RestartAgree ==
    ASSUME StateChainInv, AgreeInv, NEW n \in Node, Restart(n)
    PROVE  AgreeInv'
<1>1. UNCHANGED signed /\ session' = [session EXCEPT ![n] = [m \in Node |-> <<>>]]
  BY DEF Restart
<1>2. ASSUME NEW x \in Node PROVE Covered(chain'[x])
  <2>1. CASE x = n
    <3>1. /\ chain[n] \in Seq(Bodies) /\ Covered(chain[n])
          /\ \A b \in signed : GoodBlock(b)
      BY DEF StateChainInv, NodeInv, BlockInv, AgreeInv, CoveredInv
    <3>2. /\ chain'[n] \in Seq(Bodies) /\ Len(chain'[n]) <= Len(chain[n])
          /\ \A i \in 1..Len(chain'[n]) : chain'[n][i] = chain[n][i]
      <4>1. PICK k \in 0..Len(chain[n]) :
                /\ Len(chain'[n]) = k
                /\ \A i \in 1..k : chain'[n][i] = chain[n][i]
        BY RestartEffect
      <4>2. chain'[n] \in Seq(Bodies) /\ Len(chain[n]) \in Nat
        <5>1. chain' \in [Node -> Seq(Bodies)]
          BY RestartEffect
        <5> QED BY <3>1, <5>1
      <4> QED BY <4>1, <4>2
    <3>3. Covered(chain'[n])
      <4> DEFINE q == chain'[n]
      <4> HIDE DEF q
      <4> QED BY <3>1, <3>2, CoveredPrefix DEF q
    <3> QED BY <2>1, <3>3
  <2>2. CASE x # n
    <3>1. chain'[x] = chain[x]
      BY <2>2, RestartEffect
    <3> QED BY <3>1 DEF AgreeInv, CoveredInv
  <2> QED BY <2>1, <2>2
<1>3. ASSUME NEW x \in Node, NEW y \in Node, NEW i \in DOMAIN session'[x][y]
      PROVE  Covered(session'[x][y][i])
  <2>1. session'[x][y] = IF x = n THEN <<>> ELSE session[x][y]
    BY <1>1 DEF StateChainInv, BlockInv
  <2>2. x # n
    BY <1>3, <2>1
  <2> QED BY <1>3, <2>1, <2>2 DEF AgreeInv, CoveredInv
<1> QED BY <1>1, <1>2, <1>3, CoveredStays

(* Every step keeps it.                                                    *)
LEMMA NextAgree == StateChainInv /\ AgreeInv /\ MajorityKeys /\ [Next]_vars => AgreeInv'
<1> SUFFICES ASSUME StateChainInv, AgreeInv, MajorityKeys, [Next]_vars PROVE AgreeInv'
  OBVIOUS
<1>1. CASE UNCHANGED vars
  <2>1. UNCHANGED <<chain, session, signed>>
    BY <1>1 DEF vars
  <2> QED BY <2>1, CoveredStays DEF AgreeInv, CoveredInv
<1>2. CASE Next
  BY <1>2, SubmitAgree, HandleAgree, RestartAgree, SyncAgree, AddSyncedAgree, BreakAgree
     DEF Next
<1> QED BY <1>1, <1>2

-----------------------------------------------------------------------------
(* A list has at most as many members as entries, and as many when none is    *)
(* there twice.                                                               *)
LEMMA MembersCount ==
    ASSUME NEW s, DOMAIN s = 1..Len(s), Len(s) \in Nat
    PROVE  /\ IsFiniteSet(Members(s))
           /\ Cardinality(Members(s)) <= Len(s)
           /\ Distinct(s) => Cardinality(Members(s)) = Len(s)
<1> DEFINE f == [i \in 1..Len(s) |-> s[i]]
<1>1. f \in Surjection(1..Len(s), Members(s))
  BY DEF Surjection, Members
<1>2. IsFiniteSet(1..Len(s)) /\ Cardinality(1..Len(s)) = Len(s)
  <2>1. 1 \in Int /\ Len(s) \in Int
    OBVIOUS
  <2>2. Cardinality(1..Len(s)) = IF 1 > Len(s) THEN 0 ELSE Len(s) - 1 + 1
    BY <2>1, FS_Interval
  <2>3. IsFiniteSet(1..Len(s))
    BY <2>1, FS_Interval
  <2> QED BY <2>2, <2>3
<1>3. /\ IsFiniteSet(Members(s))
      /\ Cardinality(Members(s)) <= Len(s)
      /\ Cardinality(Members(s)) = Len(s) <=> f \in Injection(1..Len(s), Members(s))
  <2> HIDE DEF f
  <2> QED BY <1>1, <1>2, FS_Surjection
<1>4. ASSUME Distinct(s) PROVE f \in Injection(1..Len(s), Members(s))
  BY <1>1, <1>4 DEF Injection, IsInjective, Surjection, Distinct
<1> QED BY <1>3, <1>4

(* Two sets of signers that verifyMultisig accepts for a keyset with a        *)
(* majority threshold have a key in common.                                   *)
LEMMA SignersMeet ==
    ASSUME NEW ks, DOMAIN ks.keys = 1..Len(ks.keys), Len(ks.keys) \in Nat,
           ks.threshold \in Nat, Majority(ks),
           NEW x \in Bodies, NEW y \in Bodies,
           VerifyMultisig(x.sigs, ks), VerifyMultisig(y.sigs, ks)
    PROVE  Members(x.sigs) \cap Members(y.sigs) # {}
<1> DEFINE U == Members(ks.keys)
           S == Members(x.sigs)
           T == Members(y.sigs)
<1>1. IsFiniteSet(U) /\ Cardinality(U) <= Len(ks.keys)
  BY MembersCount
<1>2. S \subseteq U /\ T \subseteq U
  BY DEF VerifyMultisig
<1>3. /\ DOMAIN x.sigs = 1..Len(x.sigs) /\ Len(x.sigs) \in Nat
      /\ DOMAIN y.sigs = 1..Len(y.sigs) /\ Len(y.sigs) \in Nat
  BY BodyAssumption
<1>4. Cardinality(S) >= ks.threshold /\ Cardinality(T) >= ks.threshold
  <2>1. Cardinality(S) = Len(x.sigs) /\ Cardinality(T) = Len(y.sigs)
    BY <1>3, MembersCount DEF VerifyMultisig
  <2> HIDE DEF S, T
  <2> QED BY <2>1 DEF VerifyMultisig
<1> HIDE DEF U, S, T
<1>5. IsFiniteSet(S) /\ IsFiniteSet(T)
  BY <1>1, <1>2, FS_Subset
<1>6. Cardinality(S) \in Nat /\ Cardinality(T) \in Nat /\ Cardinality(U) \in Nat
  BY <1>1, <1>5, FS_CardinalityType
<1>7. Cardinality(S) + Cardinality(T) > Cardinality(U)
  BY <1>1, <1>4, <1>6 DEF Majority
<1>8. S \cap T # {}
  BY <1>1, <1>2, <1>7, FS_MajoritiesIntersect
<1> QED BY <1>8 DEF S, T

(* The keysets in force are lists of keys. *)
LEMMA KeysetsLoad ==
    ASSUME NEW s, StateOK(s)
    PROVE  /\ DOMAIN s[DAO].keys = 1..Len(s[DAO].keys) /\ Len(s[DAO].keys) \in Nat
           /\ s[DAO].threshold \in Nat
           /\ OracleConfig(s) # None =>
                /\ DOMAIN OracleConfig(s).keys = 1..Len(OracleConfig(s).keys)
                /\ Len(OracleConfig(s).keys) \in Nat
                /\ OracleConfig(s).threshold \in Nat
<1>1. DAO \in KVKey /\ Oracle \in KVKey
  BY SysKeyAssumption
<1>2. s[DAO] # None /\ Parsed(DAO, s[DAO]) /\ (s[Oracle] # None => Parsed(Oracle, s[Oracle]))
  BY <1>1 DEF StateOK, DAOKeyset
<1>3. DOMAIN s[DAO].keys = 1..Len(s[DAO].keys) /\ Len(s[DAO].keys) \in Nat
  BY <1>2 DEF Parsed
<1>4. s[DAO].threshold \in Nat
  BY <1>3 DEF StateOK, DAOKeyset, MinDAOThreshold
<1>5. ASSUME OracleConfig(s) # None
      PROVE  /\ DOMAIN OracleConfig(s).keys = 1..Len(OracleConfig(s).keys)
             /\ Len(OracleConfig(s).keys) \in Nat
             /\ OracleConfig(s).threshold \in Nat
  <2>1. s[Oracle] # None /\ OracleConfig(s) = s[Oracle]
        /\ s[Oracle].threshold \in 1..Len(s[Oracle].keys)
    BY <1>5 DEF OracleConfig
  <2>2. DOMAIN s[Oracle].keys = 1..Len(s[Oracle].keys) /\ Len(s[Oracle].keys) \in Nat
    BY <1>2, <2>1 DEF Parsed
  <2> QED BY <2>1, <2>2
<1> QED BY <1>3, <1>4, <1>5

(* Blocks of one role, accepted in one state, share a signer. *)
LEMMA RoleMeets ==
    ASSUME NEW s, StateOK(s), MajorityState(s), NEW x \in Bodies, NEW y \in Bodies,
           VerifyBlockSignatures(s, x), VerifyBlockSignatures(s, y),
           IsOracleBlock(s, x) = IsOracleBlock(s, y)
    PROVE  Members(x.sigs) \cap Members(y.sigs) # {}
<1>1. CASE IsOracleBlock(s, x)
  <2>1. IsOracleBlock(s, y) /\ OracleConfig(s) # None
    BY <1>1 DEF IsOracleBlock
  <2>2. VerifyMultisig(x.sigs, OracleConfig(s)) /\ VerifyMultisig(y.sigs, OracleConfig(s))
    BY <1>1, <2>1 DEF VerifyBlockSignatures
  <2>3. Majority(OracleConfig(s))
    BY <2>1 DEF MajorityState
  <2> QED BY <2>1, <2>2, <2>3, KeysetsLoad, SignersMeet
<1>2. CASE ~IsOracleBlock(s, x)
  <2>1. ~IsOracleBlock(s, y)
    BY <1>2 DEF IsOracleBlock
  <2>2. VerifyMultisig(x.sigs, s[DAO]) /\ VerifyMultisig(y.sigs, s[DAO])
    BY <1>2, <2>1 DEF VerifyBlockSignatures
  <2> QED BY <2>2, KeysetsLoad, SignersMeet DEF MajorityState
<1> QED BY <1>1, <1>2

(* Where the chains of two nodes part, one went on with a block of the DAO    *)
(* and the other with one of the oracle, through restarts that lose blocks,   *)
(* gossip, catch-up and every rotation of the keys, as long as the thresholds *)
(* in force are majorities of their keys and a key signs one block per index. *)
THEOREM ForksOnlyAcrossRoles == Spec /\ []MajorityKeys => []ForksCrossRoles
<1>1. Init => AgreeInv
  BY DEF Init, AgreeInv, SignedInv, CoveredInv, Covered
<1>2. StateChainInv /\ AgreeInv => ForksCrossRoles
  <2> SUFFICES ASSUME StateChainInv, AgreeInv, NEW n \in Node, NEW m \in Node,
                      NEW i \in DOMAIN chain[n] \cap DOMAIN chain[m],
                      Branch(chain[n], chain[m], i),
                      IsOracleBlock(States(chain[n])[i - 1], chain[n][i])
                        = IsOracleBlock(States(chain[n])[i - 1], chain[m][i])
               PROVE  FALSE
    BY DEF ForksCrossRoles
  <2> DEFINE p == chain[n]
             q == chain[m]
             s == States(p)[i - 1]
  <2>1. /\ p \in Seq(Bodies) /\ q \in Seq(Bodies) /\ Len(p) \in Nat /\ Len(q) \in Nat
        /\ GoodChain(p) /\ GoodChain(q) /\ Covered(p) /\ Covered(q)
    BY HeldStateOK DEF StateChainInv, NodeInv, AgreeInv, CoveredInv
  <2>2. /\ i \in 1..Len(p) /\ i \in 1..Len(q) /\ i \in Nat /\ i - 1 \in Nat
        /\ i - 1 \in 0..Len(p) /\ p[i] \in Bodies /\ q[i] \in Bodies
        /\ \A j \in 1..(i - 1) : j \in 1..i
    BY <2>1
  <2> HIDE DEF p, q
  <2>3. s = States(q)[i - 1]
    <3>1. \A j \in 1..(i - 1) : p[j].ops = q[j].ops
      BY DEF Branch, Same, p, q
    <3>2. i - 1 <= Len(p) /\ i - 1 <= Len(q)
      BY <2>1, <2>2
    <3> QED BY <2>1, <2>2, <3>1, <3>2, SameStates
  <2>4. VerifyBlockSignatures(s, p[i]) /\ VerifyBlockSignatures(s, q[i]) /\ StateOK(s)
    <3>1. i \in DOMAIN p /\ i \in DOMAIN q
      BY DEF p, q
    <3> QED BY <2>1, <2>2, <2>3, <3>1 DEF GoodChain, ReplayAccepts
  <2>5. PICK c \in signed : Len(c) = i /\ c[i] = p[i] /\ \A j \in 1..i : Same(c[j], p[j])
    BY <2>1, <2>2 DEF Covered, Backed
  <2>6. PICK d \in signed : Len(d) = i /\ d[i] = q[i] /\ \A j \in 1..i : Same(d[j], q[j])
    BY <2>1, <2>2 DEF Covered, Backed
  <2>7. c \in Seq(Bodies) /\ d \in Seq(Bodies)
    BY DEF StateChainInv, BlockInv, GoodBlock
  <2>8. Replayed(Parent(c)) = s
    <3> DEFINE g == Parent(c)
    <3>1. /\ Len(g) = i - 1 /\ g \in Seq(Bodies) /\ \A j \in 1..(i - 1) : g[j] = c[j]
      BY <2>2, <2>5, <2>7 DEF Parent
    <3>2. \A j \in 1..(i - 1) : g[j].ops = p[j].ops
      BY <2>2, <2>5, <3>1 DEF Same
    <3> HIDE DEF g
    <3>3. Len(g) \in Nat /\ i - 1 <= Len(g) /\ i - 1 <= Len(p)
      BY <2>1, <2>2, <3>1
    <3>4. States(g)[i - 1] = States(p)[i - 1]
      BY <2>1, <2>2, <3>2, <3>3, SameStates
    <3> QED BY <3>1, <3>4 DEF Replayed, g
  <2>9. MajorityState(s)
    BY <2>8 DEF AgreeInv, SignedInv
  <2>10. Members(p[i].sigs) \cap Members(q[i].sigs) # {}
    <3>1. IsOracleBlock(s, p[i]) = IsOracleBlock(s, q[i])
      BY DEF p, q
    <3> HIDE DEF s
    <3> QED BY <2>2, <2>4, <2>9, <3>1, RoleMeets
  <2>11. Hash(c) = Hash(d)
    <3>1. Body(c) = p[i] /\ Body(d) = q[i] /\ Len(c) = Len(d)
      BY <2>5, <2>6 DEF Body
    <3> QED BY <2>10, <3>1 DEF AgreeInv, SignedInv
  <2>12. Same(c[i], d[i])
    <3>1. Hash(c)[i] = [ops |-> c[i].ops, ts |-> c[i].ts]
      BY <2>2, <2>5, <2>7 DEF Hash
    <3>2. Hash(d)[i] = [ops |-> d[i].ops, ts |-> d[i].ts]
      BY <2>2, <2>6, <2>7 DEF Hash
    <3>3. [ops |-> c[i].ops, ts |-> c[i].ts] = [ops |-> d[i].ops, ts |-> d[i].ts]
      BY <2>11, <3>1, <3>2
    <3> QED BY <3>3 DEF Same
  <2>13. ~Same(p[i], q[i])
    BY DEF Branch, p, q
  <2> QED BY <2>5, <2>6, <2>12, <2>13
<1> QED BY <1>1, <1>2, Invariance, NextAgree, PTL DEF Spec
=============================================================================
