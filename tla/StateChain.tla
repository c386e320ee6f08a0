----------------------------- MODULE StateChain -----------------------------
(***************************************************************************)
(* The governance chain of every node (package statechain): a linear chain *)
(* of blocks signed by a threshold of the DAO keys, or of the oracle keys  *)
(* for epoch records, with gossip, the catch-up protocol and restarts.     *)
(*                                                                         *)
(* A block's hash commits to all blocks before it, so a block is the       *)
(* sequence of the bodies up to its own: its index is the length, its      *)
(* prev_hash the sequence without the last body.  A signature is not part  *)
(* of the hash.  chain[n] is both what the store of n holds and its tip in *)
(* memory, kv[n] is in memory only.                                        *)
(*                                                                         *)
(* Nothing orders two blocks that are signed for one index: a node keeps   *)
(* the one it sees first.  Every key signs at most one block per index     *)
(* (SignedOnce); the DAO and the oracle have keys of their own and do not  *)
(* ask each other.                                                         *)
(***************************************************************************)
EXTENDS StateKV

CONSTANTS
    Node,
    Bodies,         \* [ops, ts, sigs]: operations, time and signers of the
                    \* blocks that are ever signed
    MaxIndex,       \* bound: blocks on a chain
    MaxSigned,      \* bound: blocks that are signed in all
    SyncMaxBlocks,  \* blocks served to one request
    GapPeers,       \* peers that one ResyncOnGap asks, 3 in the code
    PowerLoss       \* may blocks that are not yet on disk be lost?

ASSUME BoundAssumption ==
    /\ MaxIndex \in Nat /\ MaxSigned \in Nat
    /\ {SyncMaxBlocks, GapPeers} \subseteq Nat \ {0}

ASSUME BodyAssumption ==
    \A body \in Bodies :
        /\ DOMAIN body.ops = 1..Len(body.ops) /\ Len(body.ops) \in Nat
        /\ \A i \in DOMAIN body.ops :
              body.ops[i].action = "set" => Parsed(body.ops[i].key, body.ops[i].value)
        /\ body.ts \in Nat
        /\ DOMAIN body.sigs = 1..Len(body.sigs) /\ Len(body.sigs) \in Nat

VARIABLES
    chain,    \* per node: its blocks after the genesis block
    kv,       \* per node: KVStore
    up,       \* per node: did it start, or did NewChain fail?
    session,  \* per node and peer: blocks received and not yet added
    gap,      \* per node: peers that a gap resync may still ask
    signed    \* blocks that were signed and submitted somewhere

vars == <<chain, kv, up, session, gap, signed>>

Hash(p) == [i \in DOMAIN p |-> [ops |-> p[i].ops, ts |-> p[i].ts]]

Parent(p) == SubSeq(p, 1, Len(p) - 1)

Body(p) == p[Len(p)]

(* What later checks need of a block; the genesis block has time 0. *)
Header(p) == [index |-> Len(p), ts |-> IF p = <<>> THEN 0 ELSE Body(p).ts]

-----------------------------------------------------------------------------
(* Signatures. *)

AnyMember(sigs, keyset) ==        \* mutant: no threshold
    sigs # <<>> /\ Members(sigs) \subseteq Members(keyset.keys)

VerifyMultisig(sigs, keyset) ==
    /\ sigs # <<>>
    /\ Distinct(sigs)
    /\ Members(sigs) \subseteq Members(keyset.keys)
    /\ Len(sigs) >= keyset.threshold

OpsMatchPrefix(ops, prefix) ==
    ops # <<>> /\ \A i \in DOMAIN ops : ops[i].key \in Under[prefix]

IsOracleBlock(state, body) ==
    OracleConfig(state) # None /\ OpsMatchPrefix(body.ops, OracleConfig(state).prefix)

DAOSignaturesOnly(state, body) == VerifyMultisig(body.sigs, state[DAO])    \* mutant

VerifyBlockSignatures(state, body) ==
    IF IsOracleBlock(state, body)
    THEN VerifyMultisig(body.sigs, OracleConfig(state))
    ELSE VerifyMultisig(body.sigs, state[DAO])

-----------------------------------------------------------------------------
(* AddBlock *)

(* Epoch keys are written once, and only by the oracle. *)
OracleMayWrite(state, body) ==
    \A i \in DOMAIN body.ops :
        /\ body.ops[i].action = "set" => ValidateEpochValue(body.ops[i].value, state)
        /\ state[body.ops[i].key] = None

DAOWritesAnything(state, body) == TRUE    \* mutant

DAOMayWrite(state, body) ==
    \A i \in DOMAIN body.ops : ~Governed(state, body.ops[i].key)

(* p is the chain, state its kv, b the next block. *)
Valid(p, state, b) ==
    LET body == Body(b)
    IN /\ Hash(Parent(b)) = Hash(p)
       /\ body.ts >= Header(p).ts
       /\ body.ops # <<>>
       /\ \A i \in DOMAIN body.ops :
             /\ ValidateOp(body.ops[i])
             /\ ValidateTransition(state, Header(p), Header(b), body.ops[i])
       /\ IF IsOracleBlock(state, body)
          THEN /\ OracleMayWrite(state, body)
               /\ VerifyMultisig(body.sigs, OracleConfig(state))
          ELSE /\ VerifyMultisig(body.sigs, state[DAO])
               /\ DAOMayWrite(state, body)

IsNext(n, b) == Len(b) = Len(chain[n]) + 1

IsGap(n, b) == Len(b) > Len(chain[n]) + 1

Accepts(n, b) == IsNext(n, b) /\ Valid(chain[n], kv[n], b)

(* A block that is known, forks the chain, leaves a gap or is not valid *)
(* changes nothing.                                                     *)
AddBlock(n, b) ==
    /\ chain' = IF Accepts(n, b) THEN [chain EXCEPT ![n] = Append(@, Body(b))] ELSE chain
    /\ kv' = IF Accepts(n, b) THEN [kv EXCEPT ![n] = ApplyOps(kv[n], Body(b).ops)] ELSE kv

-----------------------------------------------------------------------------
(* Authors and gossip *)

SignedOnce(b) ==
    \A c \in signed :
        \/ Len(c) # Len(b)
        \/ Hash(c) = Hash(b)
        \/ Members(Body(c).sigs) \cap Members(Body(b).sigs) = {}

(* The node a block is submitted to adds it before it publishes it; what it *)
(* refuses goes no further.                                                 *)
SubmitStateChainBlock(n) ==
    /\ up[n]
    /\ Len(chain[n]) < MaxIndex
    /\ Cardinality(signed) < MaxSigned
    /\ \E body \in Bodies :
          LET b == Append(chain[n], body)
          IN /\ SignedOnce(b)
             /\ Accepts(n, b)
             /\ AddBlock(n, b)
             /\ signed' = signed \cup {b}
    /\ UNCHANGED <<up, session, gap>>

(* Gossip loses, repeats and reorders.  Whether a gap starts a resync depends *)
(* on when the last one did.                                                  *)
HandleStateChain(n) ==
    /\ up[n]
    /\ \E b \in signed :
          /\ AddBlock(n, b)
          /\ \/ IsGap(n, b) /\ gap' = [gap EXCEPT ![n] = GapPeers]
             \/ UNCHANGED gap
    /\ UNCHANGED <<up, session, signed>>

-----------------------------------------------------------------------------
(* Catching up *)

(* handleSyncStream: the blocks of m above the tip that n names. *)
Served(m, tipIndex) ==
    LET last == IF Len(chain[m]) > tipIndex + SyncMaxBlocks
                THEN tipIndex + SyncMaxBlocks ELSE Len(chain[m])
    IN IF tipIndex >= Len(chain[m]) THEN <<>>
       ELSE [i \in 1..(last - tipIndex) |-> SubSeq(chain[m], 1, tipIndex + i)]

RequestSync(n, m) ==
    /\ up[n] /\ up[m]
    /\ session[n][m] = <<>>
    /\ session' = [session EXCEPT ![n][m] = Served(m, Len(chain[n]))]

(* On every new connection. *)
SyncOnConnect(n, m) ==
    /\ RequestSync(n, m)
    /\ UNCHANGED <<chain, kv, up, gap, signed>>

ResyncOnGap(n, m) ==
    /\ gap[n] > 0
    /\ \/ RequestSync(n, m) /\ gap' = [gap EXCEPT ![n] = 0]
       \/ gap' = [gap EXCEPT ![n] = @ - 1] /\ UNCHANGED session    \* no answer
    /\ UNCHANGED <<chain, kv, up, signed>>

(* One block of a page; an error is logged and the next block is tried. *)
AddSyncedBlock(n, m) ==
    /\ up[n]
    /\ session[n][m] # <<>>
    /\ AddBlock(n, Head(session[n][m]))
    /\ session' = [session EXCEPT ![n][m] = Tail(@)]
    /\ UNCHANGED <<up, gap, signed>>

StreamBreaks(n, m) ==
    /\ session[n][m] # <<>>
    /\ session' = [session EXCEPT ![n][m] = <<>>]
    /\ UNCHANGED <<chain, kv, up, gap, signed>>

-----------------------------------------------------------------------------
(* Restart *)

(* kv after every block of p, starting from the genesis block's. *)
States(p) ==
    LET s[i \in 0..Len(p)] == IF i = 0 THEN Genesis ELSE ApplyOps(s[i - 1], p[i].ops)
    IN s

Replayed(p) == States(p)[Len(p)]

(* replay checks order and signatures of what it reads back, nothing else. *)
ReplayAccepts(p) == \A i \in DOMAIN p : VerifyBlockSignatures(States(p)[i - 1], p[i])

(* NewChain.  Blocks are not synced to disk one by one: a machine that loses *)
(* power loses the last ones.                                                *)
Restart(n) ==
    /\ up[n]
    /\ \E k \in (IF PowerLoss THEN 0 ELSE Len(chain[n]))..Len(chain[n]) :
          LET p == SubSeq(chain[n], 1, k)
          IN /\ chain' = [chain EXCEPT ![n] = p]
             /\ up' = [up EXCEPT ![n] = ReplayAccepts(p) /\ DAOKeyset(Replayed(p))]
             /\ kv' = [kv EXCEPT ![n] = Replayed(p)]
    /\ session' = [session EXCEPT ![n] = [m \in Node |-> <<>>]]
    /\ gap' = [gap EXCEPT ![n] = 0]
    /\ UNCHANGED signed

-----------------------------------------------------------------------------
Init ==
    /\ chain = [n \in Node |-> <<>>]
    /\ kv = [n \in Node |-> Genesis]
    /\ up = [n \in Node |-> TRUE]
    /\ session = [n \in Node |-> [m \in Node |-> <<>>]]
    /\ gap = [n \in Node |-> 0]
    /\ signed = {}

Next ==
    \E n \in Node :
        \/ SubmitStateChainBlock(n)
        \/ HandleStateChain(n)
        \/ Restart(n)
        \/ \E m \in Node \ {n} :
              \/ SyncOnConnect(n, m)
              \/ ResyncOnGap(n, m)
              \/ AddSyncedBlock(n, m)
              \/ StreamBreaks(n, m)

Spec == Init /\ [][Next]_vars

-----------------------------------------------------------------------------
(* Chains of signed blocks with one body after the other (AddBlock), one kv *)
(* per node.                                                                *)
ChainTypeOK ==
    /\ \A n \in Node :
          /\ Len(chain[n]) <= MaxIndex
          /\ chain[n] \in Seq(Bodies)
          /\ DOMAIN kv[n] = KVKey
          /\ kv[n][DAO] # None /\ ValidKeyset(kv[n][DAO])
          /\ gap[n] \in 0..GapPeers
    /\ up \in [Node -> BOOLEAN]

(* Two chains are the same below i and not at i. *)
Same(b, c) == b.ops = c.ops /\ b.ts = c.ts

Branch(p, q, i) ==
    /\ \A j \in 1..(i - 1) : Same(p[j], q[j])
    /\ ~Same(p[i], q[i])

(* Where the chains of two nodes part, one went on with a block of the DAO    *)
(* and the other with one of the oracle (AddBlock, verifyMultisig): neither   *)
(* the DAO alone nor the oracle alone can part them, through every rotation   *)
(* of their keys, lost blocks, gossip and catch-up.  It takes MajorityKeys.   *)
ForksCrossRoles ==
    \A n, m \in Node :
        \A i \in DOMAIN chain[n] \cap DOMAIN chain[m] :
            Branch(chain[n], chain[m], i) =>
                LET state == States(chain[n])[i - 1]
                IN IsOracleBlock(state, chain[n][i]) # IsOracleBlock(state, chain[m][i])

(* Thresholds above half, as in the genesis blocks that are shipped (two of   *)
(* three for the DAO, one of one for the oracle).  The code requires a        *)
(* threshold of at least two of the DAO and of at least one of the oracle.    *)
Majority(keyset) == 2 * keyset.threshold > Len(keyset.keys)

MajorityState(state) ==
    /\ Majority(state[DAO])
    /\ OracleConfig(state) # None => Majority(OracleConfig(state))

MajorityKeys == \A n \in Node : MajorityState(kv[n])

(* Two nodes never hold different blocks of one index: what docs/activations  *)
(* calls the converged state chain (AddBlock keeps the first block it sees).  *)
ChainsAgree ==
    \A n, m \in Node : \A i \in DOMAIN chain[n] \cap DOMAIN chain[m] :
        Same(chain[n][i], chain[m][i])

(* A node starts again from what it stored, and with the state it had         *)
(* (NewChain, replay): what AddBlock accepted under the keys of its time is   *)
(* accepted again by replay.                                                  *)
StateSurvivesRestart ==
    \A n \in Node : up[n] /\ kv[n] = Replayed(chain[n])

Live(n, f) ==
    /\ f \in Features(kv[n])
    /\ ActiveAt(kv[n][Activations][f], Header(chain[n]).index, Header(chain[n]).ts)

(* A chain that grows. *)
Grows(n) == Len(chain'[n]) >= Len(chain[n])

(* A feature that is live stays live, whatever is scheduled, moved or added   *)
(* after it (validateActivationsTransition).                                  *)
LiveFeaturesStayLive ==
    [][\A n \in Node : Grows(n) =>
          \A f \in Features(kv[n]) : Live(n, f) => Live(n, f)']_vars

(* A feature goes live by a block after the one that scheduled it             *)
(* (requireFuture): the block that makes it live finds the trigger in place.  *)
AnnouncedFirst ==
    [][\A n \in Node : Len(chain'[n]) > Len(chain[n]) =>
          \A f \in Features(kv'[n]) : Live(n, f)' =>
              /\ f \in Features(kv[n])
              /\ kv[n][Activations][f] = kv'[n][Activations][f]]_vars

(* An epoch record under the oracle's prefix keeps its value until the DAO    *)
(* names an oracle with another prefix (AddBlock): neither a second epoch     *)
(* block nor a DAO block changes or removes it.                               *)
EpochWriteOnce ==
    [][\A n \in Node : Grows(n) =>
          \A k \in KVKey :
              Governed(kv[n], k) /\ kv[n][k] # None => kv'[n][k] = kv[n][k]]_vars

(* Phase and protocol floor only rise (validateTransition), also when one     *)
(* block sets them several times.                                             *)
OnlyRises ==
    [][\A n \in Node : Grows(n) =>
          /\ kv[n][Phase] # None => kv'[n][Phase] >= kv[n][Phase]
          /\ kv[n][MinVersion] # None =>
                ~VersionBefore(kv'[n][MinVersion], kv[n][MinVersion])]_vars
=============================================================================
